--------------------- MODULE MCConversationCompaction ---------------------
(* Instances of ConversationCompaction for TLC: requests and consumers are   *)
(* model values and interchangeable.                                         *)
EXTENDS ConversationCompaction, TLC

Symmetry == Permutations(Requests) \cup Permutations(Workers)
=============================================================================
