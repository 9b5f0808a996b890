----------------------------- MODULE AnsweredTurn -----------------------------
(***************************************************************************)
(* What answering promises for one question, without planners, retrieval,   *)
(* models or goroutines: nothing is stored before the one instant in which  *)
(* the turn is, the turn carries what the question asked to be remembered   *)
(* and belongs to the conversation it was asked in, and an error means that *)
(* nothing was stored.                                                      *)
(***************************************************************************)
CONSTANTS
  Operations,  \* what a question may ask to be remembered, "none" included
  Homes        \* how a turn joins a conversation, "none" included

VARIABLES
  phase,   \* where the question stands
  wish,    \* what is known of it: [operation, home]
  turn     \* the turn that is stored, or NoTurn

vars == <<phase, wish, turn>>

Wish == [operation : Operations, home : Homes]

NoWish == [operation |-> "none", home |-> "none"]

NoTurn == [stored |-> FALSE, operation |-> "none", home |-> "none"]

Stored(w) == [stored |-> TRUE, operation |-> w.operation, home |-> w.home]

Init == phase = "open" /\ wish = NoWish /\ turn = NoTurn

\* The conversation is found, or what to remember is understood: each once.
Understand ==
  /\ phase = "open" /\ wish' \in Wish
  /\ wish.operation # "none" => wish'.operation = wish.operation
  /\ wish.home # "none" => wish'.home = wish.home
  /\ UNCHANGED <<phase, turn>>

Store == /\ phase = "open" /\ phase' = "stored"
         /\ turn' = Stored(wish)
         /\ UNCHANGED wish

Answer == phase = "stored" /\ phase' = "answered" /\ UNCHANGED <<wish, turn>>

Fail == phase = "open" /\ phase' = "failed" /\ UNCHANGED <<wish, turn>>

Next == Understand \/ Store \/ Answer \/ Fail

Spec == Init /\ [][Next]_vars
=============================================================================
