--------------------------- MODULE Answering_proofs ---------------------------
(***************************************************************************)
(* Theorems about Answering, for every configuration, retrieval and model:  *)
(* a request keeps the promise of AnsweredTurn, no answer is without a      *)
(* ground, every value is of its type, the context fits its budget, and     *)
(* what a stream has shown is what is stored. The first invariant follows   *)
(* the request structs; the second the chain from the context to the stored *)
(* turn; the last the pieces from the model through the pipe to the client. *)
(***************************************************************************)
EXTENDS Answering, RagChain_proofs, SequenceTheorems

-----------------------------------------------------------------------------
(* What is understood of a request is what is stored *)

\* Where only AgentService.Chat comes.
AgentPlaces ==
  {"conversation", "assemble", "directive", "memory", "plan", "lookup", "resolve", "probe",
   "probed", "direct", "recollect", "transform", "web", "search", "post", "supplement"}

\* Before the conversation is known nothing is, and a directive comes once.
KnownInv ==
  /\ asked \in Asked
  /\ resolved \in Carry
  /\ chatReq = resolved
  /\ asked.kind # "agent" => resolved = NoCarry
  /\ at \in AgentPlaces => asked.kind = "agent"
  /\ at \in {"received", "conversation", "assemble"} => resolved = NoCarry
  /\ at = "directive" => resolved.operation = "none"

\* A result carries what its request says.
CarryInv ==
  /\ "carry" \in DOMAIN prepared
  /\ asked.kind # "agent" => prepared.carry = NoCarry
  /\ at \in {"streaming", "fallback", "flush", "show"} => asked.kind # "agent"
  /\ at \in {"post", "supplement", "save"} => prepared.carry = resolved

\* Where a request stands once its turn is stored.
StoredInv ==
  /\ outcome \in {"none", "answered", "failed"}
  /\ at = "release" => outcome # "none"
  /\ turn.stored = (\/ at \in {"show", "answered"}
                    \/ at = "release" /\ outcome = "answered")

AnswerInv == KnownInv /\ CarryInv /\ StoredInv

\* What every step has to do.
Keeps == AnswerInv' /\ [Promise!Next]_(Promise!vars)

\* A step of the handler within the open question.
Within ==
  /\ UNCHANGED <<asked, resolved, chatReq, turn>>
  /\ at \notin {"show", "release", "answered", "failed"}
  /\ \/ at' \notin {"show", "release", "answered", "failed", "received",
                    "conversation", "assemble", "directive"}
        /\ UNCHANGED outcome
     \/ Fails
  /\ at' \in AgentPlaces => asked.kind = "agent"
  /\ "carry" \in DOMAIN prepared'
  /\ asked.kind # "agent" => prepared'.carry = NoCarry
  /\ at' \in {"streaming", "fallback", "flush"} => asked.kind # "agent"
  /\ at' \in {"post", "supplement", "save"} => prepared'.carry = resolved

LEMMA WithinKeeps == ASSUME AnswerInv, Within PROVE Keeps
<1> USE DEF AnswerInv, KnownInv, AgentPlaces, CarryInv, StoredInv, Within, Fails, Return
<1>1. AnswerInv'
  OBVIOUS
<1>2. UNCHANGED <<Wish, StoredTurn>>
  BY DEF Wish, StoredTurn, Home
<1>3. ~turn.stored /\ Phase = "open" /\ Phase' \in {"open", "failed"}
  BY DEF Phase
<1> QED
  BY <1>1, <1>2, <1>3 DEF Keeps, Promise!Next, Promise!Fail, Promise!vars

-----------------------------------------------------------------------------
(* Steps within the open question *)

LEMMA ErrorKeeps ==
  ASSUME AnswerInv, UNCHANGED request,
         \/ AuthorizeFails \/ ConversationFails \/ DirectiveFails \/ SearchFails
         \/ ValidateFails \/ ChainFailsRequest \/ SaveFails \/ AssembleFails
  PROVE  Keeps
<1>1. Within
  BY DEF Within, AuthorizeFails, ConversationFails, DirectiveFails, SearchFails,
         ValidateFails, ChainFailsRequest, SaveFails, AssembleFails, ErrorReturn, Fails,
         Return, request, agentVars, resultVars, AnswerInv, CarryInv, AgentPlaces
<1> QED
  BY <1>1, WithinKeeps

LEMMA PassKeeps ==
  ASSUME AnswerInv, UNCHANGED request,
         \/ AwaitMemory \/ LookUp \/ Probe \/ Recollect \/ StreamOpens \/ Flush
  PROVE  Keeps
<1>1. Within
  BY DEF Within, AwaitMemory, AfterMemory, LookUp, Probe, Recollect, StreamOpens, Flush,
         Goto, request, agentVars, resultVars, AnswerInv, KnownInv, AgentPlaces, CarryInv
<1> QED
  BY <1>1, WithinKeeps

LEMMA ReplyCarries ==
  ASSUME NEW answer, NEW mode
  PROVE  /\ "carry" \in DOMAIN Reply(answer, mode)
         /\ Reply(answer, mode).carry = resolved
  BY DEF Reply, NothingPrepared

\* Agent's replies outside the chain.
LEMMA ReplyKeeps ==
  ASSUME AnswerInv, UNCHANGED request,
         \/ AsksBack \/ DirectAnswer \/ DirectAnswerFails \/ ConversationAnswer
         \/ WebSearchDirect
  PROVE  Keeps
<1>1. Within
  BY DEF Within, AsksBack, DirectAnswer, DirectAnswerFails, ConversationAnswer,
         WebSearchDirect, Saves, Goto, Clarify, Reject, FromWeb, Reply, NothingPrepared,
         request, agentVars, resultVars, AnswerInv, KnownInv, AgentPlaces
<1> QED
  BY <1>1, WithinKeeps

LEMMA ChainKeeps ==
  ASSUME AnswerInv, UNCHANGED request,
         \/ Search \/ SearchAnswers \/ Validate \/ ChatAnswers
  PROVE  Keeps
<1>1. Within
  BY DEF Within, Search, SearchAnswers, Validate, ChatAnswers, Goto, EarlyRefusal,
         FromChain, ResolveRequest, NothingPrepared, IsLowConfidence, NoCarry,
         request, agentVars, resultVars, AnswerInv, KnownInv, AgentPlaces, CarryInv
<1> QED
  BY <1>1, WithinKeeps

LEMMA StreamKeeps ==
  ASSUME AnswerInv, UNCHANGED request,
         \/ ReceivePiece \/ ReceiveResult \/ ReceiveError \/ ReceiveEnd
         \/ ApplyWebFallback
  PROVE  Keeps
<1>1. Within
  BY DEF Within, ReceivePiece, ReceiveResult, ReceiveError, ReceiveEnd, ApplyWebFallback,
         Goto, Fails, Return, FromChain, ResolveRequest, NothingPrepared, NoCarry,
         request, agentVars, resultVars, AnswerInv, KnownInv, AgentPlaces, CarryInv
<1> QED
  BY <1>1, WithinKeeps

-----------------------------------------------------------------------------
(* What the planner decides *)

LEMMA DecisionsHaveActions ==
  ASSUME NEW stage, NEW d \in Parsed(stage) \cup OnError(stage) \cup WithoutPlanner(stage)
  PROVE  d \in Decision
<1>1. CASE d \in Parsed(stage)
  BY <1>1 DEF Parsed, Calls
<1>2. \A a \in Actions : Decide(a) \in Decision
  BY DEF Decide, Decision
<1>3. DefaultSearch \in Decision /\ DefaultPostRAG \in Decision
  BY DEF DefaultSearch, DefaultPostRAG, Decide, Decision, Actions, Defaults
<1>4. CASE d \in OnError(stage) \cup WithoutPlanner(stage)
  <2>1. OnError(stage) \subseteq {DefaultSearch, DefaultPostRAG, Decide("clarify")}
    BY DEF OnError
  <2>2. WithoutPlanner(stage) \subseteq {DefaultSearch, DefaultPostRAG}
    BY DEF WithoutPlanner
  <2> QED
    BY <1>2, <1>3, <1>4, <2>1, <2>2 DEF Actions
<1> QED
  BY <1>1, <1>4

LEMMA WithPlanKeepsAction ==
  ASSUME NEW d \in Decision PROVE WithPlan(d).action \in Actions
  BY DEF WithPlan, Decision

LEMMA NormalizedHasAction ==
  ASSUME NEW stage, NEW d \in Decision PROVE Normalize(stage, d).action \in Actions
<1>1. /\ Decide("clarify") \in Decision /\ Decide("reject") \in Decision
      /\ DefaultPostRAG \in Decision
      /\ [d EXCEPT !.action = "knowledge_search"] \in Decision
  BY DEF Decide, Decision, Actions, DefaultPostRAG
<1>2. PICK e \in Decision : Normalize(stage, d) = WithPlan(e)
  BY <1>1 DEF Normalize
<1> QED
  BY <1>2, WithPlanKeepsAction

LEMMA PlansAreActions ==
  ASSUME NEW stage, NEW d \in Plans(stage) PROVE d.action \in Actions
  BY DecisionsHaveActions, NormalizedHasAction DEF Plans

LEMMA PlanKeeps ==
  ASSUME AnswerInv, UNCHANGED request, Plan \/ PlanInContext \/ PlanAfterProbe
  PROVE  Keeps
<1>1. PICK stage \in {"pre_rag", "context_resolved", "probe_resolved"} :
        \E d \in Plans(stage) : Dispatch(d)
  BY DEF Plan, PlanInContext, PlanAfterProbe, PlannedIn
<1>2. PICK d \in Plans(stage) : Dispatch(d)
  BY <1>1
<1>3. d.action \in Actions
  BY PlansAreActions
<1>4. Within
  BY <1>2, <1>3 DEF Within, Plan, PlanInContext, PlanAfterProbe, PlannedIn, Dispatch,
         Actions, Saves, Goto, Clarify, Reject, Reply, NothingPrepared,
         request, agentVars, resultVars, AnswerInv, KnownInv, AgentPlaces, CarryInv
<1> QED
  BY <1>4, WithinKeeps

LEMMA AfterRAGKeeps ==
  ASSUME AnswerInv, UNCHANGED request, PlanAfterRAG \/ WebSearch
  PROVE  Keeps
<1>1. Within
  BY DEF Within, PlanAfterRAG, WebSearch, FromWeb, Saves, Goto, request, agentVars,
         resultVars, AnswerInv, KnownInv, AgentPlaces, CarryInv
<1> QED
  BY <1>1, WithinKeeps

-----------------------------------------------------------------------------
(* Steps that understand, store or answer *)

LEMMA Opens ==
  ASSUME AnswerInv, at \notin {"show", "release", "answered", "failed"}
  PROVE  ~turn.stored /\ Phase = "open"
  BY DEF AnswerInv, StoredInv, Phase

\* A step that changes what is known and nothing of the turn.
Learns ==
  /\ UNCHANGED <<turn, outcome>>
  /\ at \in {"conversation", "assemble", "directive"}
  /\ at' \in {"directive", "memory", "save", "assemble"}
  /\ resolved' \in Carry
  /\ resolved.operation # "none" => resolved'.operation = resolved.operation
  /\ resolved = NoCarry \/ Home(resolved') = Home(resolved)

LEMMA LearnsIsUnderstand ==
  ASSUME AnswerInv, Learns PROVE Promise!Understand
<1>1. Phase = "open" /\ Phase' = "open"
  BY DEF AnswerInv, StoredInv, Learns, Phase
<1>2. UNCHANGED StoredTurn
  BY DEF Learns, StoredTurn
<1>3. Wish' \in Promise!Wish
  BY DEF Learns, Wish, Carry, Home, Promise!Wish
<1>4. /\ Wish.operation # "none" => Wish'.operation = Wish.operation
      /\ Wish.home # "none" => Wish'.home = Wish.home
  BY DEF Learns, Wish, NoCarry, Home
<1> QED
  BY <1>1, <1>2, <1>3, <1>4 DEF Promise!Understand

LEMMA BeginKeeps ==
  ASSUME AnswerInv, UNCHANGED request, Authorize \/ AcquireLease \/ ResolveConversation
  PROVE  Keeps
<1> USE DEF Authorize, AcquireLease, ResolveConversation, AfterConversation, Goto, request,
            agentVars, resultVars
<1>1. AnswerInv'
  <2>1. KnownInv'
    BY DEF AnswerInv, KnownInv, AgentPlaces, NoCarry
  <2>2. CarryInv' /\ StoredInv'
    BY DEF AnswerInv, CarryInv, StoredInv
  <2> QED
    BY <2>1, <2>2 DEF AnswerInv
<1>2. UNCHANGED <<Phase, Wish, StoredTurn>>
  BY DEF Phase, Wish, StoredTurn, Home, AnswerInv, StoredInv
<1> QED
  BY <1>1, <1>2 DEF Keeps, Promise!vars

LEMMA UnderstandKeeps ==
  ASSUME AnswerInv, UNCHANGED request,
         NewConversation \/ AssembleContext \/ ProcessDirective
  PROVE  Keeps
<1> USE DEF NewConversation, AssembleContext, ProcessDirective, AfterConversation, Goto,
            Saves, Reply, NothingPrepared, request, agentVars, resultVars
<1>1. resolved \in Carry /\ resolved' \in Carry
  <2>1. resolved \in Carry
    BY DEF AnswerInv, KnownInv, AgentPlaces
  <2>2. \A b \in BOOLEAN : /\ [resolved EXCEPT !.fresh = b] \in Carry
                           /\ [resolved EXCEPT !.token = b] \in Carry
    BY <2>1 DEF Carry
  <2>3. \A o \in {"none", "pending"} : [resolved EXCEPT !.operation = o] \in Carry
    BY <2>1 DEF Carry
  <2>4. CASE NewConversation
    <3>1. ("short" \in config) \in BOOLEAN
      OBVIOUS
    <3>2. resolved' = [resolved EXCEPT !.fresh = ("short" \in config)]
      BY <2>4
    <3> QED
      BY <2>1, <2>2, <3>1, <3>2
  <2>5. CASE AssembleContext
    BY <2>1, <2>2, <2>5
  <2>6. CASE ProcessDirective
    BY <2>1, <2>3, <2>6
  <2> QED
    BY <2>1, <2>4, <2>5, <2>6
<1>2. AnswerInv'
  <2>1. KnownInv'
    BY <1>1 DEF AnswerInv, KnownInv, AgentPlaces, NoCarry
  <2>2. CarryInv'
    BY DEF AnswerInv, KnownInv, AgentPlaces, CarryInv
  <2>3. StoredInv'
    BY DEF AnswerInv, StoredInv
  <2> QED
    BY <2>1, <2>2, <2>3 DEF AnswerInv
<1>3. Learns
  BY <1>1 DEF Learns, AnswerInv, KnownInv, AgentPlaces, Home, Carry
<1> QED
  BY <1>2, <1>3, LearnsIsUnderstand DEF Keeps, Promise!Next

LEMMA SaveKeeps == ASSUME AnswerInv, UNCHANGED request, SaveTurn PROVE Keeps
<1> USE DEF SaveTurn, Return, Goto, request
<1>1. AnswerInv'
  BY DEF AnswerInv, KnownInv, AgentPlaces, CarryInv, StoredInv
<1>2. Phase = "open" /\ Phase' = "stored"
  BY DEF AnswerInv, StoredInv, Phase
<1>3. UNCHANGED Wish
  BY DEF Wish, Home
<1>4. StoredTurn' = Promise!Stored(Wish)
  BY DEF StoredTurn, Promise!Stored, Wish, AnswerInv, CarryInv
<1> QED
  BY <1>1, <1>2, <1>3, <1>4 DEF Keeps, Promise!Next, Promise!Store

LEMMA AnswerKeeps == ASSUME AnswerInv, UNCHANGED request, Show \/ Release PROVE Keeps
<1> USE DEF Show, Release, Return, request, agentVars
<1>1. AnswerInv'
  BY DEF AnswerInv, KnownInv, AgentPlaces, CarryInv, StoredInv
<1>2. UNCHANGED <<Wish, StoredTurn>>
  BY DEF Wish, StoredTurn, Home
<1>3. \/ Phase = "stored" /\ Phase' = "answered"
      \/ Phase = "open" /\ Phase' = "failed"
  BY DEF Phase, AnswerInv, CarryInv, StoredInv
<1> QED
  BY <1>1, <1>2, <1>3 DEF Keeps, Promise!Next, Promise!Answer, Promise!Fail

LEMMA OtherKeeps == ASSUME AnswerInv, InChain \/ MemoryStep \/ Others PROVE Keeps
<1>1. UNCHANGED <<request, at, outcome, resolved, chatReq, prepared, turn>>
  BY DEF InChain, MemoryStep, Others, SubmitFeedback, agentVars, resultVars
<1>2. AnswerInv'
  BY <1>1 DEF AnswerInv, KnownInv, AgentPlaces, CarryInv, StoredInv, request
<1>3. UNCHANGED <<Phase, Wish, StoredTurn>>
  BY <1>1 DEF Phase, Wish, StoredTurn, Home
<1> QED
  BY <1>2, <1>3 DEF Keeps, Promise!vars

-----------------------------------------------------------------------------
(* The theorem *)

LEMMA AnswerInit == Init => AnswerInv /\ Promise!Init
<1> SUFFICES ASSUME Init PROVE AnswerInv /\ Promise!Init
  OBVIOUS
<1>1. AnswerInv
  BY DEF Init, AnswerInv, KnownInv, AgentPlaces, CarryInv, StoredInv, Carry, NoCarry,
         NothingPrepared, NoTurn
<1>2. Promise!Init
  BY DEF Init, Promise!Init, Promise!NoWish, Promise!NoTurn, Phase, Wish, StoredTurn, Home,
         NoCarry, NoTurn
<1> QED
  BY <1>1, <1>2

LEMMA HandlerKeeps == ASSUME AnswerInv, HandlerStep PROVE Keeps
<1>1. CASE AgentStep
  BY <1>1, ErrorKeeps, PassKeeps, ReplyKeeps, ChainKeeps, PlanKeeps, AfterRAGKeeps,
     BeginKeeps, UnderstandKeeps, AnswerKeeps DEF HandlerStep, AgentStep
<1>2. CASE ChatStep
  BY <1>2, ErrorKeeps, PassKeeps, ChainKeeps, StreamKeeps, SaveKeeps, AnswerKeeps
     DEF HandlerStep, ChatStep
<1> QED
  BY <1>1, <1>2 DEF HandlerStep

LEMMA AnswerNext == ASSUME AnswerInv, [Next]_vars PROVE Keeps
<1>1. CASE Next
  BY <1>1, HandlerKeeps, OtherKeeps DEF Next
<1>2. CASE UNCHANGED vars
  <2>1. UNCHANGED <<request, at, outcome, resolved, chatReq, prepared, turn>>
    BY <1>2 DEF vars, agentVars, resultVars
  <2>2. AnswerInv'
    BY <2>1 DEF AnswerInv, KnownInv, AgentPlaces, CarryInv, StoredInv, request
  <2>3. UNCHANGED <<Phase, Wish, StoredTurn>>
    BY <2>1 DEF Phase, Wish, StoredTurn, Home
  <2> QED
    BY <2>2, <2>3 DEF Keeps, Promise!vars
<1> QED
  BY <1>1, <1>2

\* Every request, through any of the three entry points and under any
\* configuration, stores its turn at most once and in one instant, with the memory
\* operation and the conversation that were understood, answers only what it has
\* stored and fails only when it has stored nothing.
THEOREM AnsweringImplementsPromise == Spec => KeepsPromise
<1>1. AnswerInv /\ [Next]_vars => AnswerInv' /\ [Promise!Next]_(Promise!vars)
  BY AnswerNext DEF Keeps
<1> QED
  BY <1>1, AnswerInit, PTL DEF Spec, KeepsPromise, Promise!Spec

-----------------------------------------------------------------------------
(* Answers have a ground *)


HasText(answer) == \E i \in DOMAIN answer : answer[i] = "text"

Grounded(p) ==
  /\ HasText(p.answer) => p.used # << >>
  /\ p.web => p.used = << >> /\ CanUseWebSearch
  /\ p.mode = "conversation_answer" => p.cites # {} /\ p.cites \subseteq 1..turns
  /\ p.mode = "rejected" => p.answer = Fallback /\ p.used = << >>

Recalling == {"rewrite", "vector", "keyword", "fuse", "rerank", "context", "prompt"}

Writing == {"refuse", "model", "result"}

\* The chain refuses where it has no context; only a stream has a writer.
ChainInv ==
  /\ DOMAIN state = DOMAIN NoState
  /\ DOMAIN writer = DOMAIN NoWriter
  /\ state.streamed => asked.kind = "stream"
  /\ state.node \in Recalling \cup {"model", "stream"} => at = "chain"
  /\ state.node = "stream" => state.streamed
  /\ state.node \in {"model", "stream"} =>
       state.answer = (IF state.used = << >> THEN Fallback ELSE << >>)
  /\ state.node = "done" /\ state.used = << >> => state.answer = Fallback
  /\ writer.pc # "off" => asked.kind = "stream"
  /\ writer.pc \in Writing =>
       at \in {"chain", "streaming", "failed"} /\ state.node = "done"
  /\ writer.pc = "model" => state.used # << >>
  /\ at = "streaming" => state.node = "done"
  /\ at = "release" => asked.kind = "agent"

\* What is prepared has its ground, and what the next step adds will have one.
ResultInv ==
  /\ DOMAIN prepared = DOMAIN NothingPrepared
  /\ Grounded(prepared)
  /\ asked.kind # "agent" => prepared.mode = ""
  /\ at \in {"post", "supplement"} => prepared.answer = Fallback /\ prepared.used = << >>

DecisionInv ==
  /\ turns \in 0..MaxTurns
  /\ at \in {"web", "supplement"} => CanUseWebSearch
  /\ at = "recollect" => decision.ids # {} /\ decision.ids \subseteq TurnIds
  /\ at = "transform" => decision.ids # {} /\ decision.ids \subseteq 1..turns

GroundInv ==
  /\ AnswerInv
  /\ ChainInv
  /\ ResultInv
  /\ DecisionInv
  /\ turn.stored => Grounded(turn)

-----------------------------------------------------------------------------
(* Grounds *)

LEMMA FallbackHasNoText == Fallback # << >> /\ ~HasText(Fallback)
  BY DEF Fallback, HasText

LEMMA SingleHasText == ASSUME NEW x, HasText(<<x>>) PROVE x = "text"
  BY DEF HasText

LEMMA ChainIsGrounded ==
  ASSUME ChainInv, state.node = "done", NEW carry, NEW mode \in {"", "knowledge_base"}
  PROVE  LET p == FromChain(carry, mode)
         IN DOMAIN p = DOMAIN NothingPrepared /\ Grounded(p) /\ p.mode = mode
                /\ p.carry = carry
  BY FallbackHasNoText
     DEF ChainInv, FromChain, NothingPrepared, ResolveRequest, Grounded

LEMMA RefusalIsGrounded ==
  ASSUME NEW carry
  PROVE  LET p == EarlyRefusal(carry)
         IN /\ DOMAIN p = DOMAIN NothingPrepared /\ Grounded(p) /\ p.mode = ""
            /\ p.carry = carry /\ p.answer = Fallback /\ p.used = << >>
  BY FallbackHasNoText DEF EarlyRefusal, NothingPrepared, ResolveRequest, Grounded

LEMMA ReplyIsGrounded ==
  ASSUME NEW answer \in {"fallback", "direct", "clarify", "confirm", "conversation"},
         NEW mode \in {"rejected", "direct_answer", "clarify"},
         mode = "rejected" => answer = "fallback"
  PROVE  LET p == Reply(answer, mode)
         IN DOMAIN p = DOMAIN NothingPrepared /\ Grounded(p) /\ p.used = << >>
  BY SingleHasText DEF Reply, NothingPrepared, Grounded, Fallback

LEMMA WebIsGrounded ==
  ASSUME CanUseWebSearch, NEW p, DOMAIN p = DOMAIN NothingPrepared, p.used = << >>
  PROVE  DOMAIN FromWeb(p) = DOMAIN NothingPrepared /\ Grounded(FromWeb(p))
  BY SingleHasText DEF FromWeb, NothingPrepared, Grounded

-----------------------------------------------------------------------------
(* The chain and its writer *)

LEMMA AwayKeepsChain ==
  ASSUME ChainInv, UNCHANGED <<request, chainVars>>,
         at \notin {"chain", "streaming", "failed"}, at' # "streaming",
         at' = "release" => asked.kind = "agent"
  PROVE  ChainInv'
  BY DEF ChainInv, request, chainVars, Recalling, Writing

LEMMA ChainStepKeeps ==
  ASSUME ChainInv, ChainStep, UNCHANGED <<request, at>> PROVE ChainInv'
<1> USE DEF ChainInv, request, Recalling, Writing, NoState
<1>1. CASE Rewrite \/ RecallVector \/ RecallKeyword \/ Fuse \/ BuildContext \/ Rerank
  <2>1. /\ state.node \in Recalling
        /\ DOMAIN state' = DOMAIN state
        /\ state'.streamed = state.streamed
        /\ state'.node \in Recalling
        /\ UNCHANGED writer
    <3>1. CASE Rewrite
      BY <3>1 DEF Rewrite
    <3>2. CASE RecallVector
      BY <3>2 DEF RecallVector
    <3>3. CASE RecallKeyword
      BY <3>3 DEF RecallKeyword
    <3>4. CASE Fuse
      BY <3>4 DEF Fuse
    <3>5. CASE BuildContext
      BY <3>5 DEF BuildContext
    <3>6. CASE Rerank
      BY <3>6 DEF Rerank
    <3> QED
      BY <1>1, <3>1, <3>2, <3>3, <3>4, <3>5, <3>6
  <2> QED
    BY <2>1
<1>3. CASE RenderPrompt
  BY <1>3 DEF RenderPrompt
<1>4. CASE CallModel
  BY <1>4, FallbackHasNoText DEF CallModel
<1>5. CASE ChainFails
  BY <1>5 DEF ChainFails
<1>6. CASE OpenStream
  BY <1>6, FallbackHasNoText DEF OpenStream, NoWriter
<1> QED
  BY <1>1, <1>3, <1>4, <1>5, <1>6 DEF ChainStep

LEMMA WriterStepKeeps ==
  ASSUME ChainInv, WriterStep, UNCHANGED <<request, at>> PROVE ChainInv'
<1> USE DEF ChainInv, request, Recalling, Writing, NoState, NoWriter
<1>1. CASE WriteRefusal \/ WriteResult \/ ModelBreaks
  BY <1>1 DEF WriteRefusal, WriteResult, ModelBreaks
<1>2. CASE WritePiece
  BY <1>2 DEF WritePiece
<1>3. CASE ModelEnds
  BY <1>3 DEF ModelEnds
<1> QED
  BY <1>1, <1>2, <1>3 DEF WriterStep

-----------------------------------------------------------------------------
(* What each step has to do *)

\* The rest of the invariant; AnswerNext keeps the first part.
Holds == ChainInv' /\ ResultInv' /\ DecisionInv' /\ (turn.stored => Grounded(turn))'

LEMMA InChainHolds == ASSUME GroundInv, InChain PROVE Holds
<1>1. ChainInv'
  BY ChainStepKeeps, WriterStepKeeps DEF InChain, GroundInv
<1>2. UNCHANGED <<request, at, decision, prepared, turn>>
  BY DEF InChain, agentVars, resultVars
<1> QED
  BY <1>1, <1>2 DEF Holds, GroundInv, ResultInv, DecisionInv, Grounded, CanUseWebSearch,
     request

LEMMA OthersHold == ASSUME GroundInv, MemoryStep \/ Others PROVE Holds
<1>1. UNCHANGED <<chainVars, request, at, decision, prepared, turn>>
  BY DEF MemoryStep, Others, SubmitFeedback, agentVars, resultVars
<1>2. ChainInv'
  BY <1>1 DEF GroundInv, ChainInv, chainVars, request
<1> QED
  BY <1>1, <1>2 DEF Holds, GroundInv, ResultInv, DecisionInv, Grounded, CanUseWebSearch,
     request

\* A step of the handler that leaves what is prepared and decided alone.
Passes ==
  /\ UNCHANGED <<request, decision, prepared, turn>>
  /\ at' \notin {"post", "supplement", "web", "recollect", "transform"}

LEMMA PassesHolds == ASSUME GroundInv, Passes, ChainInv' PROVE Holds
  BY DEF Holds, Passes, GroundInv, ResultInv, DecisionInv, Grounded, CanUseWebSearch,
     request

-----------------------------------------------------------------------------
(* Steps of the handler that only pass on *)

LEMMA ErrorHolds ==
  ASSUME GroundInv, UNCHANGED request,
         \/ AuthorizeFails \/ ConversationFails \/ DirectiveFails \/ SearchFails
         \/ ValidateFails \/ ChainFailsRequest \/ SaveFails \/ AssembleFails
  PROVE  Holds
<1> USE DEF AuthorizeFails, ConversationFails, DirectiveFails, SearchFails, ValidateFails,
            ChainFailsRequest, SaveFails, AssembleFails, ErrorReturn, Fails, Return
<1>1. /\ UNCHANGED <<chainVars, decision, prepared, turn>>
      /\ at \notin {"streaming", "failed"}
      /\ at = "chain" => state.node = "error"
      /\ at' = "failed" \/ (at' = "release" /\ asked.kind = "agent")
  BY DEF agentVars, resultVars
<1>2. ChainInv'
  BY <1>1 DEF GroundInv, ChainInv, chainVars, request, Recalling, Writing
<1> QED
  BY <1>1, <1>2, PassesHolds DEF Passes

LEMMA PassHolds ==
  ASSUME GroundInv, UNCHANGED request,
         \/ AwaitMemory \/ LookUp \/ Probe \/ Authorize \/ AcquireLease
         \/ ResolveConversation \/ NewConversation \/ AssembleContext \/ Flush
  PROVE  Holds
<1>1. /\ UNCHANGED <<chainVars, decision, prepared, turn>>
      /\ at \notin {"chain", "streaming", "failed"}
      /\ at' \in {"conversation", "assemble", "directive", "memory", "resolve", "lookup",
                 "plan", "probed", "save"}
  BY DEF AwaitMemory, AfterMemory, LookUp, Probe, Authorize, AcquireLease,
         ResolveConversation, NewConversation, AssembleContext, AfterConversation, Flush,
         Goto, agentVars, resultVars
<1>2. ChainInv'
  BY <1>1, AwayKeepsChain DEF GroundInv
<1> QED
  BY <1>1, <1>2, PassesHolds DEF Passes

LEMMA StreamOpensHolds == ASSUME GroundInv, UNCHANGED request, StreamOpens PROVE Holds
<1>1. /\ UNCHANGED <<chainVars, decision, prepared, turn>>
      /\ at = "chain" /\ at' = "streaming" /\ state.node = "done"
  BY DEF StreamOpens, Goto, agentVars, resultVars
<1>2. ChainInv'
  BY <1>1 DEF GroundInv, ChainInv, chainVars, request, Recalling, Writing
<1> QED
  BY <1>1, <1>2, PassesHolds DEF Passes

\* What is stored is what was prepared, and it stays.
LEMMA SaveHolds == ASSUME GroundInv, UNCHANGED request, SaveTurn PROVE Holds
<1>1. /\ UNCHANGED <<chainVars, decision, prepared>>
      /\ at = "save" /\ at' \in {"show", "answered", "release"}
      /\ at' = "release" => asked.kind = "agent"
  BY DEF SaveTurn, Return, Goto
<1>2. ChainInv'
  BY <1>1, AwayKeepsChain DEF GroundInv
<1>3. Grounded(turn)'
  BY DEF SaveTurn, GroundInv, ResultInv, Grounded, HasText, CanUseWebSearch, request
<1> QED
  BY <1>1, <1>2, <1>3 DEF Holds, GroundInv, ResultInv, DecisionInv, Grounded,
     CanUseWebSearch, request

LEMMA AnswerHolds == ASSUME GroundInv, UNCHANGED request, Show \/ Release PROVE Holds
<1>1. /\ UNCHANGED <<chainVars, decision, prepared, turn>>
      /\ at \in {"show", "release"} /\ at' \in {"answered", "failed", "release"}
      /\ at' = "release" => asked.kind = "agent"
  BY DEF Show, Release, Return, agentVars, GroundInv, AnswerInv, StoredInv
<1>2. ChainInv'
  BY <1>1, AwayKeepsChain DEF GroundInv
<1> QED
  BY <1>1, <1>2, PassesHolds DEF Passes

-----------------------------------------------------------------------------
(* Steps that prepare a result outside the chain *)

\* The agent goes to save with a result that has its ground.
Replies ==
  /\ UNCHANGED <<request, chainVars, turn>>
  /\ at \notin {"chain", "streaming", "failed"} /\ asked.kind = "agent"
  /\ at' \notin {"post", "supplement", "web", "recollect", "transform", "streaming",
               "release"}
  /\ DOMAIN prepared' = DOMAIN NothingPrepared
  /\ Grounded(prepared')

LEMMA RepliesHolds == ASSUME GroundInv, Replies PROVE Holds
<1>1. ChainInv'
  BY AwayKeepsChain DEF Replies, GroundInv
<1> QED
  BY <1>1 DEF Holds, Replies, GroundInv, ResultInv, DecisionInv, Grounded, CanUseWebSearch,
     request

LEMMA ReplyHolds ==
  ASSUME GroundInv, UNCHANGED request,
         AsksBack \/ DirectAnswer \/ DirectAnswerFails \/ WebSearchDirect
  PROVE  Holds
<1>1. /\ UNCHANGED <<chainVars, turn>>
      /\ at \in AgentPlaces /\ at' = "save"
      /\ at = "web" => CanUseWebSearch
      /\ \/ prepared' \in {Reject, Clarify, Reply("direct", "direct_answer")}
         \/ prepared' = FromWeb(Reject) /\ at = "web"
  BY DEF AsksBack, DirectAnswer, DirectAnswerFails, WebSearchDirect, Saves, Goto, resultVars,
         GroundInv, DecisionInv, AgentPlaces
<1>2. \A p \in {Reject, Clarify, Reply("direct", "direct_answer")} :
        DOMAIN p = DOMAIN NothingPrepared /\ Grounded(p) /\ p.used = << >>
  BY ReplyIsGrounded DEF Reject, Clarify
<1>3. CanUseWebSearch => DOMAIN FromWeb(Reject) = DOMAIN NothingPrepared
                           /\ Grounded(FromWeb(Reject))
  BY <1>2, WebIsGrounded
<1> QED
  BY <1>1, <1>2, <1>3, RepliesHolds
     DEF Replies, GroundInv, AnswerInv, KnownInv, AgentPlaces

LEMMA DirectiveHolds == ASSUME GroundInv, UNCHANGED request, ProcessDirective PROVE Holds
<1>1. /\ UNCHANGED <<chainVars, decision, turn>>
      /\ at = "directive" /\ at' \in {"memory", "save"}
      /\ \/ UNCHANGED prepared
         \/ \E carry : prepared' = [Reply("confirm", "direct_answer") EXCEPT !.carry = carry]
  BY DEF ProcessDirective, Saves, Goto, resultVars
<1>2. asked.kind = "agent"
  BY <1>1 DEF GroundInv, AnswerInv, KnownInv, AgentPlaces
<1>3. CASE UNCHANGED prepared
  <2>1. ChainInv'
    BY <1>1, AwayKeepsChain DEF GroundInv
  <2> QED
    BY <1>1, <1>3, <2>1, PassesHolds DEF Passes
<1>4. CASE \E carry : prepared' = [Reply("confirm", "direct_answer") EXCEPT !.carry = carry]
  <2>1. DOMAIN prepared' = DOMAIN NothingPrepared /\ Grounded(prepared')
    BY <1>4, ReplyIsGrounded DEF Reply, NothingPrepared, Grounded
  <2> QED
    BY <1>1, <1>2, <2>1, RepliesHolds DEF Replies
<1> QED
  BY <1>1, <1>3, <1>4

LEMMA AfterRAGHolds ==
  ASSUME GroundInv, UNCHANGED request, PlanAfterRAG \/ WebSearch PROVE Holds
<1> asked.kind = "agent"
  BY DEF PlanAfterRAG, WebSearch, GroundInv, AnswerInv, KnownInv, AgentPlaces
<1>1. prepared.answer = Fallback /\ prepared.used = << >>
      /\ DOMAIN prepared = DOMAIN NothingPrepared /\ Grounded(prepared)
  BY DEF PlanAfterRAG, WebSearch, GroundInv, ResultInv
<1>2. LET p == [prepared EXCEPT !.mode = "rejected"]
      IN DOMAIN p = DOMAIN NothingPrepared /\ Grounded(p)
  BY <1>1, FallbackHasNoText DEF Grounded, NothingPrepared
<1>3. LET p == [prepared EXCEPT !.answer = <<"clarify">>, !.mode = "clarify"]
      IN DOMAIN p = DOMAIN NothingPrepared /\ Grounded(p)
  BY <1>1, SingleHasText DEF Grounded, NothingPrepared
<1>4. CASE PlanAfterRAG /\ at' = "save"
  BY <1>2, <1>3, <1>4, RepliesHolds DEF PlanAfterRAG, Saves, Goto, Replies, resultVars
<1>5. CASE PlanAfterRAG /\ at' # "save"
  <2>1. /\ UNCHANGED <<chainVars, prepared, turn>>
        /\ at = "post" /\ at' = "supplement" /\ CanUseWebSearch
    BY <1>5 DEF PlanAfterRAG, Saves, Goto, resultVars
  <2>2. ChainInv'
    BY <2>1, AwayKeepsChain DEF GroundInv
  <2> QED
    BY <1>1, <2>1, <2>2 DEF Holds, GroundInv, ResultInv, DecisionInv, Grounded,
       CanUseWebSearch, request
<1>6. CASE WebSearch
  <2>1. DOMAIN FromWeb(prepared) = DOMAIN NothingPrepared /\ Grounded(FromWeb(prepared))
    BY <1>1, <1>6, WebIsGrounded DEF WebSearch, GroundInv, DecisionInv
  <2> QED
    BY <1>2, <1>6, <2>1, RepliesHolds DEF WebSearch, Saves, Goto, Replies, resultVars
<1> QED
  BY <1>4, <1>5, <1>6

-----------------------------------------------------------------------------
(* Decisions that name earlier turns or the web *)

LEMMA PlanNamesTurns ==
  ASSUME NEW stage, NEW d \in Plans(stage), d.action = "conversation_answer"
  PROVE  d.ids # {} /\ d.ids \subseteq TurnIds
<1>1. PICK e \in Parsed(stage) \cup OnError(stage) \cup WithoutPlanner(stage) :
        d = Normalize(stage, e)
  BY DEF Plans
<1>2. e \in Decision
  BY DecisionsHaveActions
<1>3. \A f \in Decision : WithPlan(f).action = f.action /\ WithPlan(f).ids = f.ids
  BY DEF WithPlan, Decision
<1>4. e.action = "conversation_answer" /\ d.ids = e.ids
  <2>1. \A a \in Actions : Decide(a) \in Decision /\ Decide(a).action = a
    BY DEF Decide, Decision
  <2>2. /\ DefaultPostRAG \in Decision /\ DefaultPostRAG.action # "conversation_answer"
        /\ [e EXCEPT !.action = "knowledge_search"] \in Decision
        /\ [e EXCEPT !.action = "knowledge_search"].action = "knowledge_search"
    BY <1>2, <2>1 DEF DefaultPostRAG, Decision, Actions
  <2>3. \/ d = WithPlan(e) \/ d = WithPlan(Decide("clarify")) \/ d = WithPlan(Decide("reject"))
        \/ d = WithPlan(DefaultPostRAG) \/ d = WithPlan([e EXCEPT !.action = "knowledge_search"])
    BY <1>1 DEF Normalize
  <2> QED
    BY <1>2, <1>3, <2>1, <2>2, <2>3 DEF Actions
<1>5. e \in Parsed(stage)
  <2>1. Decide("clarify").action = "clarify" /\ DefaultSearch.action = "knowledge_search"
        /\ DefaultPostRAG.action # "conversation_answer"
    BY DEF Decide, DefaultSearch, DefaultPostRAG
  <2>2. OnError(stage) \cup WithoutPlanner(stage)
          \subseteq {DefaultSearch, DefaultPostRAG, Decide("clarify")}
    BY DEF OnError, WithoutPlanner
  <2> QED
    BY <1>4, <2>1, <2>2
<1> QED
  BY <1>4, <1>5 DEF Parsed, Calls, Decision

LEMMA PlanHolds ==
  ASSUME GroundInv, UNCHANGED request, Plan \/ PlanInContext \/ PlanAfterProbe
  PROVE  Holds
<1>1. PICK stage \in {"pre_rag", "context_resolved", "probe_resolved"} :
        \E d \in Plans(stage) : decision' = d /\ Dispatch(d)
  BY DEF Plan, PlanInContext, PlanAfterProbe, PlannedIn
<1>2. decision' \in Plans(stage) /\ Dispatch(decision')
  BY <1>1
<1>3. decision'.action \in Actions
  BY <1>2, PlansAreActions
<1>4. at \in AgentPlaces \ {"chain", "streaming", "failed"} /\ UNCHANGED <<chainVars, turn>>
  BY DEF Plan, PlanInContext, PlanAfterProbe, PlannedIn, AgentPlaces, resultVars
<1>5. asked.kind = "agent"
  BY <1>4 DEF GroundInv, AnswerInv, KnownInv
<1>6. CASE at' = "save"
  <2>1. prepared' \in {Clarify, Reject}
    BY <1>2, <1>3, <1>6 DEF Dispatch, Saves, Goto, Actions
  <2>2. DOMAIN prepared' = DOMAIN NothingPrepared /\ Grounded(prepared')
    BY <2>1, ReplyIsGrounded DEF Clarify, Reject
  <2> QED
    BY <1>4, <1>5, <1>6, <2>2, RepliesHolds DEF Replies
<1>7. CASE at' # "save"
  <2>1. /\ UNCHANGED prepared
        /\ at' \in {"web", "direct", "recollect", "search", "probe", "lookup"}
        /\ at' = "web" => CanUseWebSearch
        /\ at' = "recollect" => decision'.action = "conversation_answer"
    BY <1>2, <1>3, <1>7 DEF Dispatch, Saves, Goto, Actions
  <2>2. at' = "recollect" => decision'.ids # {} /\ decision'.ids \subseteq TurnIds
    BY <1>2, <2>1, PlanNamesTurns
  <2>3. ChainInv'
    BY <1>4, <2>1, AwayKeepsChain DEF GroundInv
  <2> QED
    BY <1>4, <2>1, <2>2, <2>3 DEF Holds, GroundInv, ResultInv, DecisionInv, Grounded,
       CanUseWebSearch, request
<1> QED
  BY <1>6, <1>7

\* As many turns found as named: all of them.
LEMMA AllFoundIsAll ==
  ASSUME NEW ids, ids \subseteq TurnIds, turns \in 0..MaxTurns, AllFound(ids)
  PROVE  ids \subseteq 1..turns
<1>1. MaxTurns \in Nat
  BY AnsweringAssumption
<1>2. IsFiniteSet(TurnIds)
  BY <1>1, FS_Interval DEF TurnIds
<1>3. IsFiniteSet(ids)
  BY <1>2, FS_Subset
<1>4. Found(ids) \subseteq ids
  BY DEF Found
<1>5. Found(ids) = ids
  BY <1>3, <1>4, FS_Subset DEF AllFound
<1> QED
  BY <1>5 DEF Found

LEMMA RecollectHolds ==
  ASSUME GroundInv, UNCHANGED request, Recollect \/ ConversationAnswer PROVE Holds
<1>1. asked.kind = "agent"
  BY DEF Recollect, ConversationAnswer, GroundInv, AnswerInv, KnownInv, AgentPlaces
<1>2. CASE Recollect
  <2>1. /\ UNCHANGED <<chainVars, decision, prepared, turn>>
        /\ at = "recollect" /\ at' = "transform"
    BY <1>2 DEF Recollect, Goto, agentVars, resultVars
  <2>2. decision.ids \subseteq 1..turns
    BY <1>2, AllFoundIsAll DEF Recollect, GroundInv, DecisionInv
  <2>3. ChainInv'
    BY <2>1, AwayKeepsChain DEF GroundInv
  <2> QED
    BY <2>1, <2>2, <2>3 DEF Holds, GroundInv, ResultInv, DecisionInv, Grounded,
       CanUseWebSearch, request
<1>3. CASE ConversationAnswer
  <2>1. LET p == [Reply("conversation", "conversation_answer") EXCEPT !.cites = decision.ids]
        IN DOMAIN p = DOMAIN NothingPrepared /\ Grounded(p)
    BY <1>3, SingleHasText DEF ConversationAnswer, Reply, NothingPrepared, Grounded,
       GroundInv, DecisionInv
  <2> QED
    BY <1>1, <1>3, <2>1, RepliesHolds DEF ConversationAnswer, Saves, Goto, Replies, resultVars
<1> QED
  BY <1>2, <1>3

-----------------------------------------------------------------------------
(* Results of the chain *)

\* The chain starts, or there is nothing to search in.
LEMMA SearchHolds == ASSUME GroundInv, UNCHANGED request, Search \/ Validate PROVE Holds
<1>1. at \in {"search", "received"} /\ UNCHANGED <<decision, turn, writer, pipe>>
  BY DEF Search, Validate, agentVars, resultVars, chainVars
<1>2. CASE docs = {}
  <2>1. /\ UNCHANGED chainVars
        /\ \/ at' = "post" /\ prepared' = EarlyRefusal(chatReq) /\ asked.kind = "agent"
           \/ at' = "fallback" /\ prepared' = EarlyRefusal(NoCarry)
    BY <1>2 DEF Search, Validate, Goto, GroundInv, AnswerInv, KnownInv, AgentPlaces
  <2>2. ChainInv'
    BY <1>1, <2>1, AwayKeepsChain DEF GroundInv
  <2>3. /\ DOMAIN prepared' = DOMAIN NothingPrepared /\ Grounded(prepared')
        /\ prepared'.mode = "" /\ prepared'.answer = Fallback /\ prepared'.used = << >>
    BY <2>1, RefusalIsGrounded
  <2> QED
    BY <1>1, <2>1, <2>2, <2>3 DEF Holds, GroundInv, ResultInv, DecisionInv, Grounded,
       CanUseWebSearch, request
<1>3. CASE docs # {}
  <2>1. /\ UNCHANGED prepared /\ at' = "chain"
        /\ \/ StartChain(decision.plan, FALSE)
           \/ StartChain(Defaults, asked.kind = "stream")
    <3>1. CASE Search
      BY <1>3, <3>1 DEF Search, Goto
    <3>2. CASE Validate
      BY <1>3, <3>2 DEF Validate, Goto
    <3> QED
      BY <3>1, <3>2
  <2>2. ChainInv'
    BY <1>1, <2>1 DEF StartChain, NoState, GroundInv, ChainInv, Recalling, Writing, request
  <2> QED
    BY <1>1, <2>1, <2>2, PassesHolds DEF Passes
<1> QED
  BY <1>2, <1>3

LEMMA AnswersHold ==
  ASSUME GroundInv, UNCHANGED request, SearchAnswers \/ ChatAnswers PROVE Holds
<1>1. /\ at = "chain" /\ state.node = "done" /\ state' = NoState
      /\ asked.kind # "stream" /\ UNCHANGED <<writer, decision, turn>>
  BY DEF SearchAnswers, ChatAnswers, agentVars, resultVars
<1>2. ChainInv'
  <2>1. at' \in {"post", "save", "fallback"}
    BY DEF SearchAnswers, ChatAnswers, Goto
  <2> QED
    BY <1>1, <2>1 DEF GroundInv, ChainInv, NoState, Recalling, Writing, request
<1>3. CASE SearchAnswers
  <2>1. /\ prepared' = FromChain(chatReq, "knowledge_base") /\ asked.kind = "agent"
        /\ at' \in {"post", "save"} /\ (at' = "post" => IsLowConfidence(prepared'))
    BY <1>3 DEF SearchAnswers, Goto
  <2>2. DOMAIN prepared' = DOMAIN NothingPrepared /\ Grounded(prepared')
    BY <1>1, <2>1, ChainIsGrounded DEF GroundInv
  <2> QED
    BY <1>1, <1>2, <2>1, <2>2 DEF Holds, GroundInv, ResultInv, DecisionInv, Grounded,
       CanUseWebSearch, request, IsLowConfidence
<1>4. CASE ChatAnswers
  <2>1. prepared' = FromChain(NoCarry, "") /\ at' = "fallback"
    BY <1>4 DEF ChatAnswers, Goto
  <2>2. DOMAIN prepared' = DOMAIN NothingPrepared /\ Grounded(prepared')
        /\ prepared'.mode = ""
    BY <1>1, <2>1, ChainIsGrounded DEF GroundInv
  <2> QED
    BY <1>1, <1>2, <2>1, <2>2 DEF Holds, GroundInv, ResultInv, DecisionInv, Grounded,
       CanUseWebSearch, request
<1> QED
  BY <1>3, <1>4

LEMMA ReceiveHolds ==
  ASSUME GroundInv, UNCHANGED request, ReceivePiece \/ ReceiveError PROVE Holds
<1>1. /\ UNCHANGED <<state, writer, decision, prepared, turn>>
      /\ at = "streaming" /\ asked.kind # "agent"
      /\ at' \in {"streaming", "failed"}
  <2>1. at = "streaming" /\ asked.kind # "agent"
    BY DEF ReceivePiece, ReceiveError, GroundInv, AnswerInv, CarryInv
  <2>2. CASE ReceivePiece
    BY <2>1, <2>2 DEF ReceivePiece, agentVars
  <2>3. CASE ReceiveError
    BY <2>1, <2>3 DEF ReceiveError, Fails, Return, agentVars, resultVars
  <2> QED
    BY <2>1, <2>2, <2>3
<1>2. ChainInv'
  BY <1>1 DEF GroundInv, ChainInv, Recalling, Writing, request
<1> QED
  BY <1>1, <1>2, PassesHolds DEF Passes

LEMMA ResultHolds ==
  ASSUME GroundInv, UNCHANGED request, ReceiveResult \/ ReceiveEnd PROVE Holds
<1>1. /\ UNCHANGED <<writer, decision, turn>>
      /\ at = "streaming" /\ asked.kind # "agent" /\ state.node = "done"
  BY DEF ReceiveResult, ReceiveEnd, agentVars, resultVars, GroundInv, AnswerInv, CarryInv,
         ChainInv
<1>2. CASE ReceiveResult
  <2>1. UNCHANGED <<state, at>> /\ prepared' = FromChain(NoCarry, "")
    BY <1>2 DEF ReceiveResult
  <2>2. ChainInv'
    BY <1>1, <2>1 DEF GroundInv, ChainInv, request
  <2>3. DOMAIN prepared' = DOMAIN NothingPrepared /\ Grounded(prepared')
        /\ prepared'.mode = ""
    BY <1>1, <2>1, ChainIsGrounded DEF GroundInv
  <2> QED
    BY <1>1, <2>1, <2>2, <2>3 DEF Holds, GroundInv, ResultInv, DecisionInv, Grounded,
       CanUseWebSearch, request
<1>3. CASE ReceiveEnd
  <2>1. /\ writer.pc = "closed" /\ state' = NoState /\ at' = "fallback"
        /\ \/ UNCHANGED prepared
           \/ prepared' = [prepared EXCEPT !.answer = Fallback]
    BY <1>3 DEF ReceiveEnd, Goto
  <2>2. ChainInv'
    BY <1>1, <2>1 DEF GroundInv, ChainInv, NoState, Recalling, Writing, request
  <2>3. DOMAIN prepared' = DOMAIN NothingPrepared /\ Grounded(prepared')
        /\ prepared'.mode = ""
    BY <1>1, <2>1, FallbackHasNoText DEF GroundInv, ResultInv, NothingPrepared, Grounded
  <2> QED
    BY <1>1, <2>1, <2>2, <2>3 DEF Holds, GroundInv, ResultInv, DecisionInv, Grounded,
       CanUseWebSearch, request
<1> QED
  BY <1>2, <1>3

LEMMA FallbackHolds == ASSUME GroundInv, UNCHANGED request, ApplyWebFallback PROVE Holds
<1>1. /\ UNCHANGED <<chainVars, decision, turn>>
      /\ at = "fallback" /\ at' \in {"flush", "save"} /\ asked.kind # "agent"
      /\ \/ UNCHANGED prepared
         \/ /\ ShouldUseWebFallback(prepared)
            /\ prepared' = [prepared EXCEPT !.answer = <<"web">>, !.web = TRUE]
  BY DEF ApplyWebFallback, Goto, agentVars, resultVars, GroundInv, AnswerInv, CarryInv
<1>2. ChainInv'
  BY <1>1, AwayKeepsChain DEF GroundInv
<1>3. DOMAIN prepared' = DOMAIN NothingPrepared /\ Grounded(prepared')
      /\ prepared'.mode = ""
  BY <1>1, SingleHasText DEF GroundInv, ResultInv, NothingPrepared, Grounded,
     ShouldUseWebFallback
<1> QED
  BY <1>1, <1>2, <1>3 DEF Holds, GroundInv, ResultInv, DecisionInv, Grounded,
     CanUseWebSearch, request

-----------------------------------------------------------------------------
(* The theorem *)

LEMMA GroundInit == Init => GroundInv
<1> SUFFICES ASSUME Init PROVE GroundInv
  OBVIOUS
<1>1. AnswerInv
  BY AnswerInit
<1>2. ChainInv
  BY DEF Init, ChainInit, ChainInv, NoState, NoWriter, Recalling, Writing
<1>3. ResultInv
  <2>1. prepared = NothingPrepared /\ at = "received"
    BY DEF Init
  <2>2. ~HasText(<< >>)
    BY DEF HasText
  <2> QED
    BY <2>1, <2>2 DEF ResultInv, NothingPrepared, Grounded
<1>4. DecisionInv
  <2>1. MaxTurns \in Nat
    BY AnsweringAssumption
  <2>2. turns \in 0..MaxTurns
    BY <2>1 DEF Init
  <2> QED
    BY <2>2 DEF Init, DecisionInv
<1> QED
  BY <1>1, <1>2, <1>3, <1>4 DEF GroundInv, Init, NoTurn

LEMMA HandlerHolds == ASSUME GroundInv, HandlerStep PROVE Holds
<1>1. CASE AgentStep
  BY <1>1, ErrorHolds, PassHolds, ReplyHolds, DirectiveHolds, PlanHolds, RecollectHolds,
     SearchHolds, AnswersHold, AfterRAGHolds, AnswerHolds DEF HandlerStep, AgentStep
<1>2. CASE ChatStep
  BY <1>2, ErrorHolds, PassHolds, SearchHolds, AnswersHold, StreamOpensHolds, ReceiveHolds,
     ResultHolds, FallbackHolds, SaveHolds, AnswerHolds DEF HandlerStep, ChatStep
<1> QED
  BY <1>1, <1>2 DEF HandlerStep

LEMMA GroundNext == ASSUME GroundInv, [Next]_vars PROVE GroundInv'
<1>1. AnswerInv'
  BY AnswerNext DEF GroundInv, Keeps
<1>2. CASE Next
  BY <1>1, <1>2, HandlerHolds, InChainHolds, OthersHold DEF Next, Holds, GroundInv
<1>3. CASE UNCHANGED vars
  <2>1. UNCHANGED <<chainVars, request, at, decision, prepared, turn>>
    BY <1>3 DEF vars, agentVars, resultVars
  <2>2. ChainInv'
    BY <2>1 DEF GroundInv, ChainInv, chainVars, request
  <2> QED
    BY <1>1, <2>1, <2>2 DEF GroundInv, ResultInv, DecisionInv, Grounded, CanUseWebSearch,
       request
<1> QED
  BY <1>2, <1>3

\* Whatever the store, the reranker, the planner and the model answer, and whatever a
\* server has enabled: an answer in the model's words rests on chunks of the
\* knowledge base, one from the web stands where none was used, one made of earlier
\* answers cites turns that exist, and a refusal is the refusal.
THEOREM AnswersAreGrounded == Spec => []AnswerHasGround
<1>1. GroundInv => AnswerHasGround
  BY DEF GroundInv, AnswerHasGround, Grounded, HasText
<1>2. GroundInv /\ [Next]_vars => GroundInv'
  BY GroundNext
<1> QED
  BY <1>1, <1>2, GroundInit, PTL DEF Spec

-----------------------------------------------------------------------------
(* Types *)

\* What the handler holds beside what AnswerInv knows.
HandlerTyped ==
  /\ config \in Configs /\ at \in Places
  /\ basis \in {"none", "latest", "clarify", "assembled"}
  /\ decision \in Decision /\ prepared \in Prepared
  /\ lease \in BOOLEAN /\ memory \in {"off", "running", "ready", "sent"}
  /\ withheld \in Seq({"fallback"}) /\ shown \in Seq(Texts)
  /\ turn \in Turn /\ feedback \in {"none", "like", "dislike"}

TypedInv == GroundInv /\ ChainTyped /\ ContextFits /\ HandlerTyped

LEMMA TypedIsOK == TypedInv => TypeOK
<1> SUFFICES ASSUME TypedInv PROVE TypeOK
  OBVIOUS
<1>1. ChainTypeOK
  BY TypedIsTypeOK DEF TypedInv
<1>2. /\ asked \in Asked /\ turns \in 0..MaxTurns /\ outcome \in {"none", "answered", "failed"}
      /\ resolved \in Carry /\ chatReq \in Carry
  BY DEF TypedInv, GroundInv, AnswerInv, KnownInv, StoredInv, DecisionInv
<1> QED
  BY <1>1, <1>2 DEF TypedInv, HandlerTyped, TypeOK

\* What the handler does to the chain and its writer: nothing, or it starts the
\* chain, lets go of it or receives from the pipe, with no refusal to be written.
HandlesChain ==
  /\ UNCHANGED <<docs, writer>>
  /\ UNCHANGED pipe \/ (pipe # << >> /\ pipe' = Tail(pipe))
  /\ \/ UNCHANGED state
     \/ /\ writer.pc # "refuse"
        /\ \/ state' = NoState
           \/ \E features \in SUBSET SearchFeatures, streamed \in BOOLEAN :
                StartChain(features, streamed)

LEMMA HandlesTyped == ASSUME TypedInv, HandlesChain PROVE ChainTyped' /\ ContextFits'
<1>1. ChainTyped /\ ContextFits
  BY DEF TypedInv
<1>2. pipe' \in Seq(Pieces \cup {"prepared", "error"}) /\ Len(pipe') <= PipeCapacity
  <2>1. PipeCapacity \in Nat
    BY ChainAssumption
  <2>2. CASE UNCHANGED pipe
    BY <1>1, <2>2 DEF ChainTyped, Sent
  <2>3. CASE pipe # << >> /\ pipe' = Tail(pipe)
    <3>1. pipe \in Seq(Pieces \cup {"prepared", "error"}) /\ Len(pipe) <= PipeCapacity
      BY <1>1 DEF ChainTyped, Sent
    <3>2. Tail(pipe) \in Seq(Pieces \cup {"prepared", "error"}) /\ Len(Tail(pipe)) = Len(pipe) - 1
      BY <2>3, <3>1
    <3> QED
      BY <2>1, <2>3, <3>1, <3>2
  <2> QED
    BY <2>2, <2>3 DEF HandlesChain
<1>3. CASE UNCHANGED state
  BY <1>1, <1>2, <1>3 DEF HandlesChain, ChainTyped, ContextFits, ParentsOf, Sent
<1>4. CASE ~UNCHANGED state
  <2>1. state' \in ChainState /\ state'.node \in {"idle", "rewrite"}
    <3>1. CASE state' = NoState
      BY <3>1, NoStateTyped
    <3>2. CASE \E features \in SUBSET SearchFeatures, streamed \in BOOLEAN :
                 StartChain(features, streamed)
      <4>1. PICK features \in SUBSET SearchFeatures, streamed \in BOOLEAN :
              state' = [NoState EXCEPT !.node = "rewrite", !.features = features,
                                       !.streamed = streamed]
        BY <3>2 DEF StartChain
      <4>2. state' \in ChainState
        BY <4>1, NoStateTyped
      <4> QED
        BY <4>1, <4>2 DEF NoState
    <3> QED
      BY <1>4, <3>1, <3>2 DEF HandlesChain
  <2> QED
    BY <1>1, <1>2, <1>4, <2>1 DEF HandlesChain, ChainTyped, ContextFits, Sent
<1> QED
  BY <1>3, <1>4

LEMMA AgentHandlesChain ==
  ASSUME TypedInv, AgentStep, UNCHANGED <<docs, request>> PROVE HandlesChain
<1>1. CASE Search
  <2>1. writer.pc # "refuse" /\ decision.plan \in SUBSET SearchFeatures
    BY <1>1 DEF Search, TypedInv, GroundInv, ChainInv, Writing, HandlerTyped, Decision
  <2> QED
    BY <1>1, <2>1 DEF Search, HandlesChain, chainVars
<1>2. CASE SearchAnswers
  <2>1. writer.pc # "refuse"
    BY <1>2 DEF SearchAnswers, TypedInv, GroundInv, ChainInv
  <2> QED
    BY <1>2, <2>1 DEF SearchAnswers, HandlesChain
<1>3. CASE AgentStep /\ ~Search /\ ~SearchAnswers
  <2>1. UNCHANGED chainVars
    BY <1>3 DEF AgentStep, Authorize, AuthorizeFails, NewConversation, AcquireLease,
       AssembleContext, ResolveConversation, ConversationFails, AssembleFails,
       ProcessDirective, DirectiveFails, AwaitMemory, Plan, PlanInContext, PlanAfterProbe,
       PlannedIn, LookUp, Probe, AsksBack, DirectAnswer, DirectAnswerFails, Recollect,
       ConversationAnswer, WebSearchDirect, SearchFails, PlanAfterRAG, WebSearch, Release,
       ErrorReturn
  <2> QED
    BY <2>1 DEF HandlesChain, chainVars
<1> QED
  BY <1>1, <1>2, <1>3

LEMMA ChatHandlesChain ==
  ASSUME TypedInv, ChatStep, UNCHANGED <<docs, request>> PROVE HandlesChain
<1>1. CASE Validate
  <2>1. writer.pc # "refuse"
    BY <1>1 DEF Validate, TypedInv, GroundInv, ChainInv, Writing
  <2>2. Defaults \in SUBSET SearchFeatures /\ (asked.kind = "stream") \in BOOLEAN
    BY DEF Defaults
  <2> QED
    BY <1>1, <2>1, <2>2 DEF Validate, HandlesChain, chainVars
<1>2. CASE ChatAnswers
  <2>1. writer.pc # "refuse"
    BY <1>2 DEF ChatAnswers, TypedInv, GroundInv, ChainInv
  <2> QED
    BY <1>2, <2>1 DEF ChatAnswers, HandlesChain
<1>3. CASE ReceivePiece \/ ReceiveResult \/ ReceiveError
  BY <1>3 DEF ReceivePiece, ReceiveResult, ReceiveError, HandlesChain
<1>4. CASE ReceiveEnd
  BY <1>4 DEF ReceiveEnd, HandlesChain
<1>5. CASE \/ ValidateFails \/ StreamOpens \/ ChainFailsRequest \/ ApplyWebFallback
           \/ Flush \/ SaveTurn \/ SaveFails \/ Show
  <2>1. UNCHANGED chainVars
    BY <1>5 DEF ValidateFails, StreamOpens, ChainFailsRequest, ApplyWebFallback, Flush,
       SaveTurn, SaveFails, Show, ErrorReturn
  <2> QED
    BY <2>1 DEF HandlesChain, chainVars
<1> QED
  BY <1>1, <1>2, <1>3, <1>4, <1>5 DEF ChatStep

LEMMA ChainNext == ASSUME TypedInv, [Next]_vars PROVE ChainTyped' /\ ContextFits'
<1>1. CASE HandlerStep
  BY <1>1, AgentHandlesChain, ChatHandlesChain, HandlesTyped DEF HandlerStep
<1>2. CASE InChain
  BY <1>2, ChainStepTyped, WriterStepTyped DEF InChain, TypedInv
<1>3. CASE MemoryStep \/ Others \/ UNCHANGED vars
  <2>1. UNCHANGED chainVars
    BY <1>3 DEF MemoryStep, Others, SubmitFeedback, vars
  <2>2. docs' \subseteq Parents
    BY <1>3 DEF MemoryStep, Others, DocumentChanges, vars, TypedInv, ChainTyped
  <2> QED
    BY <2>1, <2>2 DEF TypedInv, ChainTyped, ContextFits, ParentsOf, chainVars
<1> QED
  BY <1>1, <1>2, <1>3 DEF Next

LEMMA PiecesAreTexts == ASSUME NEW s \in Seq(Pieces) PROVE s \in Seq(Texts)
<1>1. Pieces \subseteq Texts
  BY DEF Texts
<1> QED
  BY <1>1

LEMMA PreparedTyped ==
  ASSUME TypedInv
  PROVE  /\ NothingPrepared \in Prepared
         /\ \A answer \in Texts, mode \in Modes : Reply(answer, mode) \in Prepared
         /\ \A carry \in Carry : EarlyRefusal(carry) \in Prepared
         /\ \A carry \in Carry, mode \in Modes : FromChain(carry, mode) \in Prepared
         /\ \A p \in Prepared : FromWeb(p) \in Prepared
<1>1. resolved \in Carry
  BY DEF TypedInv, GroundInv, AnswerInv, KnownInv
<1>2. NothingPrepared \in Prepared
  <2>1. << >> \in Seq(Texts) /\ << >> \in Seq(Chunks)
    OBVIOUS
  <2> QED
    BY <2>1 DEF NothingPrepared, Prepared, NoCarry, Carry, Modes
<1>3. ASSUME NEW answer \in Texts, NEW mode \in Modes PROVE Reply(answer, mode) \in Prepared
  <2>1. <<answer>> \in Seq(Texts)
    OBVIOUS
  <2> QED
    BY <1>1, <1>2, <2>1 DEF Reply, Prepared
<1>4. Fallback \in Seq(Texts)
  <2>1. "fallback" \in Texts
    BY DEF Texts, Pieces
  <2> QED
    BY <2>1 DEF Fallback
<1>5. ASSUME NEW carry \in Carry PROVE EarlyRefusal(carry) \in Prepared
  BY <1>2, <1>4 DEF EarlyRefusal, ResolveRequest, Prepared
<1>6. ASSUME NEW carry \in Carry, NEW mode \in Modes PROVE FromChain(carry, mode) \in Prepared
  <2>1. state.answer \in Seq(Pieces) /\ state.used \in Seq(Chunks) /\ state.rejected \in BOOLEAN
    BY DEF TypedInv, ChainTyped, ChainState
  <2>2. state.answer \in Seq(Texts)
    BY <2>1, PiecesAreTexts
  <2> QED
    BY <1>2, <2>1, <2>2 DEF FromChain, ResolveRequest, Prepared
<1>7. ASSUME NEW p \in Prepared PROVE FromWeb(p) \in Prepared
  <2>1. <<"web">> \in Seq(Texts) /\ "web_fallback" \in Modes
    BY DEF Texts, Modes
  <2> QED
    BY <2>1 DEF FromWeb, Prepared
<1> QED
  BY <1>2, <1>3, <1>5, <1>6, <1>7

LEMMA PlansTyped == ASSUME NEW stage, NEW d \in Plans(stage) PROVE d \in Decision
<1>1. PICK e \in Parsed(stage) \cup OnError(stage) \cup WithoutPlanner(stage) :
        d = Normalize(stage, e)
  BY DEF Plans
<1>2. e \in Decision
  BY DecisionsHaveActions
<1>3. ASSUME NEW f \in Decision PROVE WithPlan(f) \in Decision
  <2>1. Defaults \subseteq SearchFeatures
    BY DEF Defaults
  <2>2. f.plan \cup Defaults \in SUBSET SearchFeatures /\ {} \in SUBSET SearchFeatures
    BY <2>1 DEF Decision
  <2> QED
    BY <2>2 DEF WithPlan, Decision
<1>4. /\ Decide("clarify") \in Decision /\ Decide("reject") \in Decision
      /\ DefaultPostRAG \in Decision
      /\ [e EXCEPT !.action = "knowledge_search"] \in Decision
  BY <1>2 DEF Decide, Decision, Actions, DefaultPostRAG
<1>5. PICK f \in Decision : Normalize(stage, e) = WithPlan(f)
  BY <1>2, <1>4 DEF Normalize
<1> QED
  BY <1>1, <1>3, <1>5

\* A step of the handler within the open question leaves what is shown and stored.
Keeping == UNCHANGED <<config, withheld, shown, turn, feedback>>

\* What a step of the handler that only goes on may change.
Goes ==
  /\ Keeping
  /\ at' \in Places
  /\ basis' \in {"none", "latest", "clarify", "assembled"}
  /\ decision' \in Decision /\ prepared' \in Prepared
  /\ lease' \in BOOLEAN /\ memory' \in {"off", "running", "ready", "sent"}

LEMMA GoesTyped == ASSUME TypedInv, Goes PROVE HandlerTyped'
  BY DEF TypedInv, HandlerTyped, Goes, Keeping

LEMMA ErrorGoes ==
  ASSUME TypedInv, UNCHANGED request,
         \/ AuthorizeFails \/ ConversationFails \/ DirectiveFails \/ SearchFails
         \/ ValidateFails \/ ChainFailsRequest \/ SaveFails \/ AssembleFails
  PROVE  Goes
<1>1. /\ at' \in {"failed", "release"}
      /\ UNCHANGED <<basis, decision, prepared, memory, withheld, shown, turn, feedback>>
      /\ lease' \in {lease, FALSE}
  BY DEF AuthorizeFails, ConversationFails, DirectiveFails, SearchFails, ValidateFails,
         ChainFailsRequest, SaveFails, AssembleFails, ErrorReturn, Fails, Return, agentVars,
         resultVars
<1> QED
  BY <1>1 DEF Goes, Keeping, Places, TypedInv, HandlerTyped, request

LEMMA PassGoes ==
  ASSUME TypedInv, UNCHANGED request,
         \/ AwaitMemory \/ LookUp \/ Probe \/ Authorize \/ AcquireLease
         \/ ResolveConversation \/ NewConversation \/ AssembleContext \/ StreamOpens
         \/ Recollect
  PROVE  Goes
<1>1. /\ at' \in {"conversation", "assemble", "directive", "memory", "resolve", "lookup",
                 "plan", "probed", "streaming", "transform"}
      /\ UNCHANGED <<decision, prepared, withheld, shown, turn, feedback>>
      /\ basis' \in {basis, "latest", "clarify", "assembled"}
      /\ lease' \in {lease, TRUE} /\ memory' \in {memory, "running", "off"}
  BY DEF AwaitMemory, AfterMemory, LookUp, Probe, Authorize, AcquireLease,
         ResolveConversation, NewConversation, AssembleContext, AfterConversation,
         StreamOpens, Recollect, Goto, agentVars, resultVars
<1>2. /\ basis \in {"none", "latest", "clarify", "assembled"}
      /\ decision \in Decision /\ prepared \in Prepared
      /\ lease \in BOOLEAN /\ memory \in {"off", "running", "ready", "sent"}
  BY DEF TypedInv, HandlerTyped
<1>3. at' \in Places
  BY <1>1 DEF Places
<1>4. Keeping
  BY <1>1 DEF Keeping, request
<1>5. basis' \in {"none", "latest", "clarify", "assembled"}
  BY <1>1, <1>2
<1>6. decision' \in Decision /\ prepared' \in Prepared
  BY <1>1, <1>2
<1>7. lease' \in BOOLEAN /\ memory' \in {"off", "running", "ready", "sent"}
  BY <1>1, <1>2
<1> QED
  BY <1>3, <1>4, <1>5, <1>6, <1>7 DEF Goes

LEMMA ReplyGoes ==
  ASSUME TypedInv, UNCHANGED request,
         \/ AsksBack \/ DirectAnswer \/ DirectAnswerFails \/ WebSearchDirect
         \/ ConversationAnswer \/ ProcessDirective
  PROVE  Goes
<1>1. /\ at' \in {"save", "memory"}
      /\ UNCHANGED <<basis, decision, lease, memory, withheld, shown, turn, feedback>>
  BY DEF AsksBack, DirectAnswer, DirectAnswerFails, WebSearchDirect, ConversationAnswer,
         ProcessDirective, Saves, Goto, agentVars, resultVars
<1>2. \A answer \in {"fallback", "direct", "clarify", "confirm", "conversation"},
         mode \in {"rejected", "direct_answer", "clarify", "conversation_answer"} :
        Reply(answer, mode) \in Prepared
  BY PreparedTyped DEF Texts, Pieces, Modes
<1>3. Reject \in Prepared /\ Clarify \in Prepared /\ FromWeb(Reject) \in Prepared
  BY <1>2, PreparedTyped DEF Reject, Clarify
<1>4. prepared' \in Prepared
  <2>1. CASE AsksBack \/ DirectAnswer \/ DirectAnswerFails \/ WebSearchDirect
    BY <1>2, <1>3, <2>1 DEF AsksBack, DirectAnswer, DirectAnswerFails, WebSearchDirect, Saves
  <2>2. CASE ConversationAnswer
    <3>1. decision.ids \in SUBSET TurnIds
      BY DEF TypedInv, HandlerTyped, Decision
    <3>2. prepared' = [Reply("conversation", "conversation_answer")
                         EXCEPT !.cites = decision.ids]
      BY <2>2 DEF ConversationAnswer, Saves
    <3>3. Reply("conversation", "conversation_answer") \in Prepared
      BY <1>2
    <3> QED
      BY <3>1, <3>2, <3>3 DEF Prepared
  <2>3. CASE ProcessDirective
    <3>1. PICK operation \in {"none", "pending"} :
            LET carry == [resolved EXCEPT !.operation = operation]
            IN \/ prepared' = [Reply("confirm", "direct_answer") EXCEPT !.carry = carry]
               \/ UNCHANGED prepared
      BY <2>3 DEF ProcessDirective, Saves
    <3>2. PICK carry \in Carry : carry = [resolved EXCEPT !.operation = operation]
      <4>1. resolved \in Carry
        BY DEF TypedInv, GroundInv, AnswerInv, KnownInv
      <4> QED
        BY <4>1 DEF Carry
    <3>3. Reply("confirm", "direct_answer") \in Prepared /\ prepared \in Prepared
      BY <1>2 DEF TypedInv, HandlerTyped
    <3> QED
      BY <3>1, <3>2, <3>3 DEF Prepared
  <2> QED
    BY <2>1, <2>2, <2>3
<1> QED
  BY <1>1, <1>4 DEF Goes, Keeping, Places, TypedInv, HandlerTyped, request

LEMMA PlanGoes ==
  ASSUME TypedInv, UNCHANGED request, Plan \/ PlanInContext \/ PlanAfterProbe
  PROVE  Goes
<1>1. PICK stage : \E d \in Plans(stage) : decision' = d /\ Dispatch(d)
  BY DEF Plan, PlanInContext, PlanAfterProbe, PlannedIn
<1>2. decision' \in Plans(stage) /\ Dispatch(decision')
  BY <1>1
<1>3. decision' \in Decision /\ decision'.action \in Actions
  BY <1>2, PlansTyped, PlansAreActions
<1>4. at' \in Places /\ prepared' \in {prepared, Clarify, Reject}
  BY <1>2, <1>3 DEF Dispatch, Saves, Goto, Actions, Places
<1>5. Reject \in Prepared /\ Clarify \in Prepared
  BY PreparedTyped DEF Reject, Clarify, Texts, Pieces, Modes
<1>6. UNCHANGED <<basis, lease, memory, withheld, shown, turn, feedback>>
  BY DEF Plan, PlanInContext, PlanAfterProbe, PlannedIn, resultVars
<1> QED
  BY <1>3, <1>4, <1>5, <1>6 DEF Goes, Keeping, TypedInv, HandlerTyped, request

LEMMA AfterRAGGoes ==
  ASSUME TypedInv, UNCHANGED request, PlanAfterRAG \/ WebSearch PROVE Goes
<1>1. prepared \in Prepared
  BY DEF TypedInv, HandlerTyped
<1>2. /\ [prepared EXCEPT !.mode = "rejected"] \in Prepared
      /\ [prepared EXCEPT !.answer = <<"clarify">>, !.mode = "clarify"] \in Prepared
      /\ FromWeb(prepared) \in Prepared
  <2>1. <<"clarify">> \in Seq(Texts) /\ "rejected" \in Modes /\ "clarify" \in Modes
    BY DEF Texts, Modes
  <2>2. [prepared EXCEPT !.mode = "rejected"] \in Prepared
    BY <1>1, <2>1 DEF Prepared
  <2>3. [prepared EXCEPT !.answer = <<"clarify">>, !.mode = "clarify"] \in Prepared
    BY <1>1, <2>1 DEF Prepared
  <2> QED
    BY <1>1, <2>2, <2>3, PreparedTyped
<1>3. CASE PlanAfterRAG
  <2>1. PICK d \in Plans("post_rag") :
          /\ decision' = d
          /\ CASE d.action = "clarify" ->
                    Saves([prepared EXCEPT !.answer = <<"clarify">>, !.mode = "clarify"])
               [] d.action = "web_search" /\ CanUseWebSearch ->
                    Goto("supplement") /\ UNCHANGED prepared
               [] OTHER -> Saves([prepared EXCEPT !.mode = "rejected"])
    BY <1>3 DEF PlanAfterRAG
  <2>2. decision' \in Decision
    BY <2>1, PlansTyped
  <2>3. at' \in {"save", "supplement"} /\ prepared' \in Prepared
    BY <1>1, <1>2, <2>1 DEF Saves, Goto
  <2>4. UNCHANGED <<basis, lease, memory, withheld, shown, turn, feedback>>
    BY <1>3 DEF PlanAfterRAG, resultVars
  <2> QED
    BY <2>2, <2>3, <2>4 DEF Goes, Keeping, Places, TypedInv, HandlerTyped, request
<1>4. CASE WebSearch
  BY <1>2, <1>4 DEF WebSearch, Saves, Goto, Goes, Keeping, Places, TypedInv, HandlerTyped,
     request, agentVars, resultVars
<1> QED
  BY <1>3, <1>4

LEMMA ResultGoes ==
  ASSUME TypedInv, UNCHANGED request,
         \/ Search \/ SearchAnswers \/ Validate \/ ChatAnswers \/ ReceiveResult
         \/ ReceiveError \/ ReceiveEnd \/ ApplyWebFallback
  PROVE  Goes
<1>1. /\ at' \in {"post", "chain", "save", "fallback", "streaming", "flush", "release", "failed"}
      /\ UNCHANGED <<basis, decision, lease, memory, withheld, shown, turn, feedback>>
  <2>1. CASE Search \/ Validate
    BY <2>1 DEF Search, Validate, Goto, agentVars, resultVars
  <2>2. CASE SearchAnswers \/ ChatAnswers \/ ReceiveEnd \/ ApplyWebFallback
    BY <2>2 DEF SearchAnswers, ChatAnswers, ReceiveEnd, ApplyWebFallback, Goto, agentVars,
       resultVars
  <2>3. CASE ReceiveResult \/ ReceiveError
    BY <2>3 DEF ReceiveResult, ReceiveError, Fails, Return, agentVars, resultVars
  <2> QED
    BY <2>1, <2>2, <2>3
<1>2. prepared \in Prepared /\ chatReq \in Carry /\ NoCarry \in Carry
  BY DEF TypedInv, HandlerTyped, GroundInv, AnswerInv, KnownInv, NoCarry, Carry
<1>3. "knowledge_base" \in Modes /\ "" \in Modes
  BY DEF Modes
<1>4. prepared' \in Prepared
  <2>1. CASE Search \/ Validate
    BY <1>2, <2>1, PreparedTyped DEF Search, Validate
  <2>2. CASE SearchAnswers \/ ChatAnswers \/ ReceiveResult
    BY <1>2, <1>3, <2>2, PreparedTyped DEF SearchAnswers, ChatAnswers, ReceiveResult
  <2>3. CASE ReceiveEnd
    <3>1. Fallback \in Seq(Texts)
      BY DEF Fallback, Texts, Pieces
    <3>2. [prepared EXCEPT !.answer = Fallback] \in Prepared
      BY <1>2, <3>1 DEF Prepared
    <3> QED
      BY <1>2, <2>3, <3>2 DEF ReceiveEnd
  <2>4. CASE ApplyWebFallback
    <3>1. <<"web">> \in Seq(Texts)
      BY DEF Texts
    <3>2. [prepared EXCEPT !.answer = <<"web">>, !.web = TRUE] \in Prepared
      BY <1>2, <3>1 DEF Prepared
    <3> QED
      BY <1>2, <2>4, <3>2 DEF ApplyWebFallback
  <2>5. CASE ReceiveError
    BY <1>2, <2>5 DEF ReceiveError, resultVars
  <2> QED
    BY <2>1, <2>2, <2>3, <2>4, <2>5
<1> QED
  BY <1>1, <1>4 DEF Goes, Keeping, Places, TypedInv, HandlerTyped, request

LEMMA StreamTyped ==
  ASSUME TypedInv, UNCHANGED request, ReceivePiece \/ Flush PROVE HandlerTyped'
<1>1. withheld \in Seq({"fallback"}) /\ shown \in Seq(Texts) /\ prepared \in Prepared
  BY DEF TypedInv, HandlerTyped
<1>2. withheld \in Seq(Texts)
  <2>1. {"fallback"} \subseteq Texts
    BY DEF Texts, Pieces
  <2> QED
    BY <1>1, <2>1
<1>3. withheld' \in Seq({"fallback"}) /\ shown' \in Seq(Texts) /\ at' \in Places
  <2>1. CASE ReceivePiece
    <3>1. PICK piece \in Pieces : piece = Head(pipe)
      BY <2>1 DEF ReceivePiece
    <3>2. Append(withheld, "fallback") \in Seq({"fallback"}) /\ << >> \in Seq({"fallback"})
      BY <1>1
    <3>3. shown \o Append(withheld, piece) \in Seq(Texts)
      <4>1. piece \in Texts
        BY DEF Texts
      <4>2. Append(withheld, piece) \in Seq(Texts)
        BY <1>2, <4>1
      <4> QED
        BY <1>1, <4>2
    <3>4. UNCHANGED at
      BY <2>1 DEF ReceivePiece
    <3> QED
      BY <1>1, <2>1, <3>1, <3>2, <3>3, <3>4
         DEF ReceivePiece, Emit, StillWithheld, TypedInv, HandlerTyped
  <2>2. CASE Flush
    <3>1. prepared.answer \in Seq(Texts) /\ << >> \in Seq(Texts)
      BY <1>1 DEF Prepared
    <3>2. PICK more \in Seq(Texts) : shown' = shown \o more
      BY <1>2, <2>2, <3>1 DEF Flush, Emit
    <3> QED
      BY <1>1, <2>2, <3>2 DEF Flush, Goto, Places
  <2> QED
    BY <2>1, <2>2
<1>4. UNCHANGED <<basis, decision, lease, memory, prepared, turn, feedback>>
  BY DEF ReceivePiece, Flush, agentVars
<1> QED
  BY <1>3, <1>4 DEF TypedInv, HandlerTyped, request

LEMMA SaveTyped == ASSUME TypedInv, UNCHANGED request, SaveTurn PROVE HandlerTyped'
<1>1. prepared \in Prepared
  BY DEF TypedInv, HandlerTyped
<1>2. turn' \in Turn
  <2>1. /\ prepared.carry \in Carry /\ prepared.answer \in Seq(Texts)
        /\ prepared.used \in Seq(Chunks) /\ prepared.web \in BOOLEAN
        /\ prepared.cites \in SUBSET TurnIds /\ prepared.mode \in Modes
    BY <1>1 DEF Prepared
  <2>2. PICK home \in {"none", "created", "appended"} : home = Home(prepared.carry)
    BY DEF Home
  <2>3. prepared.carry.operation \in {"none", "pending"}
    BY <2>1 DEF Carry
  <2>4. turn' = [stored |-> TRUE, operation |-> prepared.carry.operation, home |-> home,
                 answer |-> prepared.answer, used |-> prepared.used,
                 web |-> prepared.web, cites |-> prepared.cites, mode |-> prepared.mode]
    BY <2>2 DEF SaveTurn
  <2> QED
    BY <2>1, <2>3, <2>4 DEF Turn
<1>3. lease' \in BOOLEAN /\ at' \in {"release", "answered", "show"}
  <2>1. lease \in BOOLEAN
    BY DEF TypedInv, HandlerTyped
  <2>2. lease' = (lease /\ Home(prepared.carry) # "appended")
    BY DEF SaveTurn
  <2>3. at' \in {"release", "answered", "show"}
    BY DEF SaveTurn, Return, Goto
  <2> QED
    BY <2>1, <2>2, <2>3
<1>4. UNCHANGED <<basis, decision, memory, prepared, withheld, shown, feedback>>
  BY DEF SaveTurn
<1> QED
  BY <1>2, <1>3, <1>4 DEF TypedInv, HandlerTyped, Places, request

LEMMA AnswerTyped == ASSUME TypedInv, UNCHANGED request, Show \/ Release PROVE HandlerTyped'
<1>1. turn.answer \in Seq(Texts) /\ shown \in Seq(Texts) /\ << >> \in Seq(Texts)
  BY DEF TypedInv, HandlerTyped, Turn
<1>2. shown' \in Seq(Texts)
  <2>1. shown \o turn.answer \in Seq(Texts) /\ shown \o << >> \in Seq(Texts)
    BY <1>1
  <2> QED
    BY <1>1, <2>1 DEF Show, Emit, Release
<1>3. at' \in Places
  BY DEF Show, Release, Return, Places, TypedInv, GroundInv, AnswerInv, StoredInv
<1>4. UNCHANGED <<basis, decision, memory, prepared, withheld, turn, feedback>>
      /\ lease' \in {lease, FALSE}
  BY DEF Show, Release, agentVars
<1> QED
  BY <1>2, <1>3, <1>4 DEF TypedInv, HandlerTyped, request

LEMMA OtherTyped == ASSUME TypedInv, InChain \/ MemoryStep \/ Others PROVE HandlerTyped'
<1>1. /\ UNCHANGED <<config, at, basis, decision, prepared, lease, withheld, shown, turn>>
      /\ memory' \in {memory, "ready", "sent"} /\ feedback' \in {feedback, "like", "dislike"}
  BY DEF InChain, MemoryStep, Others, SubmitFeedback, RetrieveMemory, SendMemory, request,
     agentVars, resultVars
<1> QED
  BY <1>1 DEF TypedInv, HandlerTyped

LEMMA TypedNext == ASSUME TypedInv, [Next]_vars PROVE TypedInv'
<1>1. GroundInv' /\ ChainTyped' /\ ContextFits'
  BY GroundNext, ChainNext DEF TypedInv
<1>2. HandlerTyped'
  <2>1. CASE HandlerStep
    <3>1. UNCHANGED request
      BY <2>1 DEF HandlerStep
    <3>2. CASE AgentStep
      BY <3>1, <3>2, ErrorGoes, PassGoes, ReplyGoes, PlanGoes, AfterRAGGoes, ResultGoes,
         GoesTyped, AnswerTyped DEF AgentStep
    <3>3. CASE ChatStep
      BY <3>1, <3>3, ErrorGoes, PassGoes, ResultGoes, GoesTyped, StreamTyped, SaveTyped,
         AnswerTyped DEF ChatStep
    <3> QED
      BY <2>1, <3>2, <3>3 DEF HandlerStep
  <2>2. CASE InChain \/ MemoryStep \/ Others
    BY <2>2, OtherTyped
  <2>3. CASE UNCHANGED vars
    <3>1. UNCHANGED <<config, at, basis, decision, prepared, lease, memory, withheld, shown,
                      turn, feedback>>
      BY <2>3 DEF vars, request, agentVars, resultVars
    <3> QED
      BY <3>1 DEF TypedInv, HandlerTyped
  <2> QED
    BY <2>1, <2>2, <2>3 DEF Next
<1> QED
  BY <1>1, <1>2 DEF TypedInv

LEMMA TypedInit == Init => TypedInv
<1> SUFFICES ASSUME Init PROVE TypedInv
  OBVIOUS
<1>1. GroundInv
  BY GroundInit
<1>2. ChainTyped /\ ContextFits
  <2>1. /\ state = NoState /\ writer = NoWriter /\ pipe = << >> /\ docs \subseteq Parents
    BY DEF Init, ChainInit
  <2>2. << >> \in Sent /\ Len(<< >>) <= PipeCapacity
    BY ChainAssumption DEF Sent
  <2>3. NoState.node = "idle" /\ NoWriter.pc = "off"
    BY DEF NoState, NoWriter
  <2> QED
    BY <2>1, <2>2, <2>3, NoStateTyped DEF ChainTyped, ContextFits
<1>3. HandlerTyped
  <2>1. NothingPrepared \in Prepared
    <3>1. << >> \in Seq(Texts) /\ << >> \in Seq(Chunks)
      OBVIOUS
    <3> QED
      BY <3>1 DEF NothingPrepared, Prepared, NoCarry, Carry, Modes
  <2>2. NoTurn \in Turn
    <3>1. << >> \in Seq(Texts) /\ << >> \in Seq(Chunks)
      OBVIOUS
    <3> QED
      BY <3>1 DEF NoTurn, Turn, Modes
  <2>3. Decide("clarify") \in Decision
    BY DEF Decide, Decision, Actions
  <2>4. << >> \in Seq(Texts) /\ << >> \in Seq({"fallback"})
    OBVIOUS
  <2> QED
    BY <2>1, <2>2, <2>3, <2>4 DEF Init, HandlerTyped, Places
<1> QED
  BY <1>1, <1>2, <1>3 DEF TypedInv

\* Every value is of the kind the handlers, the chain and its writer expect.
THEOREM TypesAreKept == Spec => []TypeOK
<1>1. TypedInv /\ [Next]_vars => TypedInv'
  BY TypedNext
<1> QED
  BY <1>1, TypedInit, TypedIsOK, PTL DEF Spec

\* Whatever is found and how it is ranked, the parents that buildContext shows the model
\* are different, were found, and fit the token budget.
THEOREM ContextIsFit == Spec => []ContextFits
<1>1. TypedInv /\ [Next]_vars => TypedInv'
  BY TypedNext
<1>2. TypedInv => ContextFits
  BY DEF TypedInv
<1> QED
  BY <1>1, <1>2, TypedInit, PTL DEF Spec

-----------------------------------------------------------------------------
(* What a stream shows *)

Faithful(seen, answer) ==
  \/ seen = answer
  \/ Trimmed(seen) = answer
  \/ seen # << >> /\ Trimmed(seen) = << >> /\ answer = Fallback

\* What the handler has received of the model's answer.
Received == shown \o withheld

\* With what is still on its way it is all of the answer, or a refusal.
Tells(rest) ==
  /\ state.answer = Answered(Received \o rest)
  /\ state.used = << >> => shown = << >> /\ Received \o rest = Fallback

\* Where no stream is written nothing is shown before the end.
QuietInv ==
  /\ writer.pc = "off" => /\ writer.said = << >> /\ withheld = << >> /\ pipe = << >>
                          /\ at # "answered" => shown = << >>
  /\ writer.pc # "off" => state.node \in {"done", "idle"} /\ at # "received"
  /\ at \in {"received", "chain"} => withheld = << >> /\ shown = << >>

\* While the goroutine writes, what has been received and what is in the pipe are
\* what the model has said so far.
WritingInv ==
  /\ writer.pc \in Writing => at \in {"chain", "streaming"}
  /\ writer.pc = "refuse" => /\ pipe = << >> /\ shown = << >> /\ withheld = << >>
                             /\ state.used = << >> /\ state.answer = Fallback
  /\ writer.pc = "model" => /\ pipe \in Seq(Pieces) /\ state.used # << >>
                            /\ writer.said = Received \o pipe
  /\ writer.pc = "result" => pipe \in Seq(Pieces) /\ Tells(pipe)

\* Once it has ended the pipe holds the rest, then the error or the result.
EndedInv ==
  writer.pc = "closed" /\ at \in {"chain", "streaming"} =>
    \/ \E rest \in Seq(Pieces) : pipe = Append(rest, "error")
    \/ \E rest \in Seq(Pieces) : pipe = Append(rest, "prepared") /\ Tells(rest)
    \/ /\ pipe = << >> /\ at = "streaming"
       /\ Tells(<< >>) /\ prepared = FromChain(NoCarry, "")

\* After the end of the stream the web may only replace what nobody has seen.
ToldInv ==
  /\ at = "flush" => writer.pc = "closed"
  /\ writer.pc = "closed" =>
       /\ at = "fallback" => /\ ~prepared.web /\ prepared.answer = Answered(Received)
                             /\ prepared.used = << >> => shown = << >>
       /\ at = "flush" => IF prepared.web THEN shown = << >>
                          ELSE prepared.answer = Answered(Received)
       /\ at = "save" => Faithful(shown, prepared.answer)
       /\ at = "show" => Faithful(shown, turn.answer)
  /\ at = "answered" => Faithful(shown, turn.answer)

ShownInv == TypedInv /\ QuietInv /\ WritingInv /\ EndedInv /\ ToldInv

\* What a step has to do beside keeping TypedInv.
Shows == QuietInv' /\ WritingInv' /\ EndedInv' /\ ToldInv'

\* Everything that is ever received or sent.
Words == Texts \cup {"prepared", "error"}

LEMMA ShownTyped ==
  ASSUME TypedInv
  PROVE  /\ shown \in Seq(Words) /\ withheld \in Seq(Words) /\ pipe \in Seq(Words)
         /\ Received \in Seq(Words)
         /\ \A rest \in Seq(Pieces) : rest \in Seq(Words)
<1>1. Pieces \subseteq Words /\ {"fallback"} \subseteq Words /\ Texts \subseteq Words
      /\ Pieces \cup {"prepared", "error"} \subseteq Words
  BY DEF Words, Texts, Pieces
<1>2. /\ shown \in Seq(Texts) /\ withheld \in Seq({"fallback"})
      /\ pipe \in Seq(Pieces \cup {"prepared", "error"})
  BY DEF TypedInv, HandlerTyped, ChainTyped, Sent
<1>3. shown \in Seq(Words) /\ withheld \in Seq(Words) /\ pipe \in Seq(Words)
  BY <1>1, <1>2, SeqMonotonic
<1>4. Received \in Seq(Words)
  BY <1>3 DEF Received
<1>5. \A rest \in Seq(Pieces) : rest \in Seq(Words)
  BY <1>1, SeqMonotonic
<1> QED
  BY <1>3, <1>4, <1>5

\* A piece that is received moves from the pipe to what has been received.
PieceMoved(a, b, p) ==
  /\ (a \o Append(b, Head(p))) \o Tail(p) = (a \o b) \o p
  /\ ((a \o Append(b, Head(p))) \o << >>) \o Tail(p) = (a \o b) \o p

LEMMA PieceMoves ==
  ASSUME NEW S, NEW a \in Seq(S), NEW b \in Seq(S), NEW p \in Seq(S), p # << >>
  PROVE  PieceMoved(a, b, p)
<1>1. PICK x \in S : x = Head(p)
  BY HeadTailProperties
<1>2. PICK t \in Seq(S) : t = Tail(p)
  BY HeadTailProperties
<1>3. Append(b, x) = b \o <<x>> /\ p = <<x>> \o t /\ <<x>> \in Seq(S)
  BY <1>1, <1>2
<1>4. (a \o (b \o <<x>>)) \o t = ((a \o b) \o <<x>>) \o t
  BY <1>3, ConcatAssociative
<1>5. ((a \o b) \o <<x>>) \o t = (a \o b) \o (<<x>> \o t)
  <2>1. PICK c \in Seq(S) : c = a \o b
    BY ConcatProperties
  <2>2. <<x>> \in Seq(S) /\ t \in Seq(S)
    BY <1>2, <1>3
  <2>3. (c \o <<x>>) \o t = c \o (<<x>> \o t)
    BY <2>2, ConcatAssociative
  <2> QED
    BY <2>1, <2>3
<1>6. (a \o Append(b, x)) \o << >> = a \o Append(b, x)
  <2>1. a \o Append(b, x) \in Seq(S)
    OBVIOUS
  <2> QED
    BY <2>1, ConcatEmptySeq
<1> QED
  BY <1>1, <1>2, <1>3, <1>4, <1>5, <1>6 DEF PieceMoved

LEMMA AppendParts ==
  ASSUME NEW S, NEW q \in Seq(S), NEW x \in S
  PROVE  /\ Append(q, x) # << >>
         /\ q = << >> => Head(Append(q, x)) = x /\ Tail(Append(q, x)) = << >>
         /\ q # << >> => /\ Head(Append(q, x)) = Head(q) /\ Head(q) \in S
                         /\ Tail(q) \in Seq(S) /\ Tail(Append(q, x)) = Append(Tail(q), x)
<1>1. Append(q, x) \in Seq(S) /\ Append(q, x) # << >>
  BY AppendProperties
<1>2. ASSUME q = << >> PROVE Head(Append(q, x)) = x /\ Tail(Append(q, x)) = << >>
  BY <1>2
<1>3. ASSUME q # << >>
      PROVE  /\ Head(Append(q, x)) = Head(q) /\ Head(q) \in S
             /\ Tail(q) \in Seq(S) /\ Tail(Append(q, x)) = Append(Tail(q), x)
  <2>1. Head(Append(q, x)) = Head(q) /\ Head(q) \in S /\ Tail(q) \in Seq(S)
    BY <1>3
  <2>2. Tail(Append(q, x)) \in Seq(S) /\ Append(Tail(q), x) \in Seq(S)
    BY <1>1, <2>1
  <2>3. Len(Tail(Append(q, x))) = Len(q) /\ Len(Append(Tail(q), x)) = Len(q) /\ Len(q) \in Nat
    BY <1>1, <1>3, <2>1
  <2>4. ASSUME NEW i \in 1..Len(q) PROVE Tail(Append(q, x))[i] = Append(Tail(q), x)[i]
    <3>1. Tail(Append(q, x))[i] = Append(q, x)[i + 1]
      BY <1>1, <2>3, HeadTailProperties
    <3>2. CASE i = Len(q)
      <4>1. Len(Tail(q)) = Len(q) - 1
        BY <1>3
      <4>2. Append(Tail(q), x)[i] = x
        BY <2>1, <2>3, <3>2, <4>1
      <4>3. Append(q, x)[i + 1] = x
        BY <2>3, <3>2
      <4> QED
        BY <3>1, <4>2, <4>3
    <3>3. CASE i # Len(q)
      <4>0. i \in 1..(Len(q) - 1)
        BY <2>3, <3>3
      <4>1. Len(Tail(q)) = Len(q) - 1 /\ i \in 1..(Len(q) - 1)
        BY <1>3, <4>0, HeadTailProperties
      <4>2. Tail(q)[i] = q[i + 1]
        BY <1>3, <4>1, HeadTailProperties
      <4>3. Append(Tail(q), x)[i] = Tail(q)[i]
        BY <2>1, <4>1
      <4>4. Append(q, x)[i + 1] = q[i + 1]
        BY <2>3, <4>1
      <4> QED
        BY <3>1, <4>2, <4>3, <4>4
    <3> QED
      BY <3>2, <3>3
  <2> QED
    BY <2>1, <2>2, <2>3, <2>4, SeqEqual
<1> QED
  BY <1>1, <1>2, <1>3

LEMMA FallbackAnswered == Answered(Fallback) = Fallback
<1> DEFINE solid == {i \in DOMAIN Fallback : Fallback[i] # "blank"}
<1>1. Fallback = <<"fallback">> /\ Fallback \in Seq({"fallback"}) /\ solid = {1}
  BY DEF Fallback
<1>2. ~IsBlank(Fallback)
  BY <1>1 DEF IsBlank
<1>3. Min({1}) = 1 /\ Max({1}) = 1
  <2>1. {1} \in SUBSET Nat /\ {1} \in SUBSET (0..1) /\ {1} # {} /\ 1 \in Nat
    OBVIOUS
  <2> QED
    BY <2>1, MinOfFinite, MaxOfFinite
<1>4. SubSeq(Fallback, 1, 1) = Fallback
  <2>1. Len(Fallback) = 1
    BY <1>1
  <2> QED
    BY <1>1, <2>1, SubSeqFull
<1>5. Trimmed(Fallback) = Fallback
  BY <1>1, <1>3, <1>4 DEF Trimmed
<1> QED
  BY <1>2, <1>5 DEF Answered

\* What was answered is faithful to what was said, if anything was.
LEMMA AnsweredIsFaithful ==
  ASSUME NEW S, NEW seen \in Seq(S), seen # << >> PROVE Faithful(seen, Answered(seen))
  BY TrimmedTyped DEF Faithful, Answered

-----------------------------------------------------------------------------
(* Steps of the chain, its writer and others *)

LEMMA ChainStepShows ==
  ASSUME ShownInv, ChainStep,
         UNCHANGED <<docs, request, at, outcome, agentVars, prepared, memory, resultVars>>
  PROVE  Shows
<1>1. /\ state.node \notin {"done", "idle"} /\ UNCHANGED <<at, prepared, withheld, shown, turn>>
      /\ state \in ChainState /\ writer \in Writer
  <2>1. state.node \notin {"done", "idle"}
    BY DEF ChainStep, Rewrite, RecallVector, RecallKeyword, Fuse, Rerank, BuildContext,
       RenderPrompt, CallModel, ChainFails, OpenStream
  <2> QED
    BY <2>1 DEF resultVars, ShownInv, TypedInv, ChainTyped
<1>2. writer.pc = "off"
  BY <1>1 DEF ShownInv, QuietInv
<1>3. /\ writer.said = << >> /\ withheld = << >> /\ pipe = << >>
      /\ at # "answered" => shown = << >>
      /\ at # "flush" /\ (at = "answered" => Faithful(shown, turn.answer))
      /\ at \in {"received", "chain"} => withheld = << >> /\ shown = << >>
  BY <1>2 DEF ShownInv, QuietInv, ToldInv
<1>4. CASE OpenStream
  <2>1. /\ at = "chain" /\ state'.node = "done" /\ UNCHANGED pipe
        /\ state'.used = state.used /\ state'.answer = state.answer
        /\ writer' = [writer EXCEPT !.pc = IF state.answer # << >> THEN "refuse" ELSE "model"]
        /\ state.answer = (IF state.used = << >> THEN Fallback ELSE << >>)
    <3>1. state.node = "stream" /\ state' = [state EXCEPT !.node = "done"] /\ UNCHANGED pipe
      BY <1>4 DEF OpenStream
    <3>2. at = "chain" /\ state.answer = (IF state.used = << >> THEN Fallback ELSE << >>)
      BY <3>1 DEF ShownInv, TypedInv, GroundInv, ChainInv
    <3> QED
      BY <1>1, <1>4, <3>1, <3>2 DEF OpenStream, ChainState
  <2>2. writer'.said = << >> /\ writer'.pc = IF state.answer # << >> THEN "refuse" ELSE "model"
    BY <1>1, <1>3, <2>1 DEF Writer
  <2>3. QuietInv'
    BY <1>1, <1>3, <2>1, <2>2 DEF QuietInv
  <2>4. WritingInv'
    <3>1. (Received \o pipe)' = << >>
      <4>1. << >> \o << >> = << >>
        OBVIOUS
      <4> QED
        BY <1>1, <1>3, <2>1, <4>1 DEF Received
    <3>2. << >> \in Seq(Pieces) /\ Fallback # << >>
      BY FallbackHasNoText
    <3> QED
      BY <1>1, <1>3, <2>1, <2>2, <3>1, <3>2 DEF WritingInv, Writing
  <2>5. EndedInv' /\ ToldInv'
    BY <1>1, <1>3, <2>1, <2>2 DEF EndedInv, ToldInv
  <2> QED
    BY <2>3, <2>4, <2>5 DEF Shows
<1>5. CASE ~OpenStream
  <2>1. UNCHANGED <<writer, pipe>>
    BY <1>5 DEF ChainStep, Rewrite, RecallVector, RecallKeyword, Fuse, Rerank, BuildContext,
       RenderPrompt, CallModel, ChainFails
  <2>2. QuietInv'
    BY <1>1, <1>2, <1>3, <2>1 DEF QuietInv
  <2>3. WritingInv' /\ EndedInv' /\ ToldInv'
    BY <1>1, <1>2, <1>3, <2>1 DEF WritingInv, Writing, EndedInv, ToldInv
  <2> QED
    BY <2>2, <2>3 DEF Shows
<1> QED
  BY <1>4, <1>5

\* What a step of the writer leaves alone, and what is left to show.
LEMMA WriterShows ==
  ASSUME ShownInv, writer.pc \in Writing, writer'.pc \in {"model", "result", "closed"},
         UNCHANGED <<at, prepared, withheld, shown, turn>>, state'.node = state.node,
         WritingInv', EndedInv'
  PROVE  Shows
<1>1. at \in {"chain", "streaming"} /\ state.node \in {"done", "idle"} /\ at # "received"
      /\ (at = "chain" => withheld = << >> /\ shown = << >>)
  BY DEF ShownInv, QuietInv, WritingInv, Writing
<1>2. QuietInv'
  BY <1>1 DEF QuietInv
<1>3. ToldInv'
  BY <1>1 DEF ToldInv
<1> QED
  BY <1>2, <1>3 DEF Shows

LEMMA WriterStepShows ==
  ASSUME ShownInv, WriterStep,
         UNCHANGED <<docs, request, at, outcome, agentVars, prepared, memory, resultVars>>
  PROVE  Shows
<1>1. /\ UNCHANGED <<at, prepared, withheld, shown, turn>> /\ UNCHANGED Received
      /\ state \in ChainState /\ writer \in Writer
  BY DEF resultVars, ShownInv, TypedInv, ChainTyped, Received
<1>2. /\ shown \in Seq(Words) /\ withheld \in Seq(Words) /\ pipe \in Seq(Words)
      /\ Received \in Seq(Words) /\ \A rest \in Seq(Pieces) : rest \in Seq(Words)
  BY ShownTyped DEF ShownInv
<1>3. CASE WriteRefusal
  <2>1. /\ writer.pc = "refuse" /\ pipe = << >> /\ shown = << >> /\ withheld = << >>
        /\ state.used = << >> /\ state.answer = Fallback /\ at \in {"chain", "streaming"}
    BY <1>3 DEF WriteRefusal, ShownInv, WritingInv, Writing
  <2>2. pipe' = Fallback /\ UNCHANGED state
    BY <1>3, <2>1 DEF WriteRefusal, Send, Fallback
  <2>3. writer'.pc = "result"
    BY <1>1, <1>3 DEF WriteRefusal, Writer
  <2>4. Fallback \in Seq(Pieces) /\ (Received \o Fallback)' = Fallback
    <3>1. Fallback \in Seq(Pieces)
      BY DEF Fallback, Pieces
    <3>2. << >> \o << >> = << >> /\ << >> \o Fallback = Fallback
      BY <3>1, ConcatEmptySeq
    <3> QED
      BY <1>1, <2>1, <3>1, <3>2 DEF Received
  <2>5. Tells(Fallback)'
    BY <1>1, <2>1, <2>2, <2>4, FallbackAnswered DEF Tells
  <2>6. WritingInv'
    BY <1>1, <2>1, <2>2, <2>3, <2>4, <2>5 DEF WritingInv, Writing
  <2>7. EndedInv'
    BY <2>3 DEF EndedInv
  <2> QED
    BY <1>1, <2>1, <2>2, <2>3, <2>6, <2>7, WriterShows DEF Writing
<1>4. CASE WritePiece
  <2>1. /\ writer.pc = "model" /\ pipe \in Seq(Pieces) /\ state.used # << >>
        /\ writer.said = Received \o pipe /\ at \in {"chain", "streaming"}
    BY <1>4 DEF WritePiece, ShownInv, WritingInv, Writing
  <2>2. PICK piece \in Pieces :
          Send(piece) /\ writer' = [writer EXCEPT !.said = Append(@, piece)]
    BY <1>4 DEF WritePiece
  <2>3. pipe' = Append(pipe, piece) /\ UNCHANGED state
    BY <1>4, <2>2 DEF WritePiece, Send
  <2>4. writer'.pc = "model" /\ writer'.said = Append(writer.said, piece)
    BY <1>1, <2>1, <2>2 DEF Writer
  <2>5. Append(Received \o pipe, piece) = Received \o Append(pipe, piece)
    <3>1. piece \in Words
      BY DEF Words, Texts
    <3>2. Append(pipe, piece) = pipe \o <<piece>> /\ <<piece>> \in Seq(Words)
      BY <1>2, <3>1
    <3>3. (Received \o pipe) \o <<piece>> = Received \o (pipe \o <<piece>>)
      BY <1>2, <3>2, ConcatAssociative
    <3>4. Append(Received \o pipe, piece) = (Received \o pipe) \o <<piece>>
      <4>1. PICK s \in Seq(Words) : s = Received \o pipe
        BY <1>2, ConcatProperties
      <4>2. Append(s, piece) = s \o <<piece>>
        BY <3>1
      <4> QED
        BY <4>1, <4>2
    <3> QED
      BY <3>2, <3>3, <3>4
  <2>6. pipe' \in Seq(Pieces)
    BY <2>1, <2>3
  <2>7. writer'.said = (Received \o pipe)'
    BY <1>1, <2>1, <2>3, <2>4, <2>5
  <2>8. WritingInv'
    BY <1>1, <2>1, <2>3, <2>4, <2>6, <2>7 DEF WritingInv, Writing
  <2>9. EndedInv'
    BY <2>4 DEF EndedInv
  <2> QED
    BY <1>1, <2>1, <2>3, <2>4, <2>8, <2>9, WriterShows DEF Writing
<1>5. CASE ModelEnds
  <2>1. /\ writer.pc = "model" /\ pipe \in Seq(Pieces) /\ state.used # << >>
        /\ writer.said = Received \o pipe /\ at \in {"chain", "streaming"}
    BY <1>5 DEF ModelEnds, ShownInv, WritingInv, Writing
  <2>2. /\ state' = [state EXCEPT !.answer = Answered(writer.said)] /\ UNCHANGED pipe
        /\ writer' = [writer EXCEPT !.pc = "result", !.said = << >>]
    BY <1>5 DEF ModelEnds
  <2>3. /\ writer'.pc = "result" /\ state'.answer = Answered(writer.said)
        /\ state'.used = state.used /\ state'.node = state.node
    BY <1>1, <2>2 DEF ChainState, Writer
  <2>4. Tells(pipe)'
    BY <1>1, <2>1, <2>2, <2>3 DEF Tells
  <2>5. WritingInv'
    BY <1>1, <2>1, <2>2, <2>3, <2>4 DEF WritingInv, Writing
  <2>6. EndedInv'
    BY <2>3 DEF EndedInv
  <2> QED
    BY <1>1, <2>1, <2>3, <2>5, <2>6, WriterShows DEF Writing
<1>6. CASE ModelBreaks
  <2>1. writer.pc = "model" /\ pipe \in Seq(Pieces) /\ at \in {"chain", "streaming"}
    BY <1>6 DEF ModelBreaks, ShownInv, WritingInv, Writing
  <2>2. pipe' = Append(pipe, "error") /\ writer'.pc = "closed" /\ UNCHANGED state
    BY <1>6 DEF ModelBreaks, Send, NoWriter
  <2>3. WritingInv' /\ EndedInv'
    BY <2>1, <2>2 DEF WritingInv, EndedInv, Writing
  <2> QED
    BY <1>1, <2>1, <2>2, <2>3, WriterShows DEF Writing
<1>7. CASE WriteResult
  <2>1. /\ writer.pc = "result" /\ pipe \in Seq(Pieces) /\ Tells(pipe)
        /\ at \in {"chain", "streaming"}
    BY <1>7 DEF WriteResult, ShownInv, WritingInv, Writing
  <2>2. pipe' = Append(pipe, "prepared") /\ writer'.pc = "closed" /\ UNCHANGED state
    BY <1>1, <1>7 DEF WriteResult, Send, Writer
  <2>3. PICK rest \in Seq(Pieces) : rest = pipe /\ Tells(rest)
    BY <2>1
  <2>4. Tells(rest)'
    BY <1>1, <2>2, <2>3 DEF Tells
  <2>5. WritingInv'
    BY <2>2 DEF WritingInv, Writing
  <2>6. EndedInv'
    BY <2>2, <2>3, <2>4 DEF EndedInv
  <2> QED
    BY <1>1, <2>1, <2>2, <2>5, <2>6, WriterShows DEF Writing
<1> QED
  BY <1>3, <1>4, <1>5, <1>6, <1>7 DEF WriterStep

LEMMA StillShows ==
  ASSUME ShownInv, UNCHANGED <<chainVars, at, prepared, withheld, shown, turn>>
  PROVE  Shows
<1>1. UNCHANGED <<state, writer, pipe, at, prepared, withheld, shown, turn, Received>>
  BY DEF chainVars, Received
<1>2. UNCHANGED FromChain(NoCarry, "")
  BY <1>1 DEF FromChain
<1>3. QuietInv' /\ ToldInv'
  BY <1>1 DEF ShownInv, QuietInv, ToldInv
<1>4. WritingInv'
  BY <1>1 DEF ShownInv, WritingInv, Tells
<1>5. EndedInv'
  BY <1>1, <1>2 DEF ShownInv, EndedInv, Tells
<1> QED
  BY <1>3, <1>4, <1>5 DEF Shows

LEMMA OthersShow == ASSUME ShownInv, InChain \/ MemoryStep \/ Others PROVE Shows
<1>1. CASE InChain
  BY <1>1, ChainStepShows, WriterStepShows DEF InChain
<1>2. CASE MemoryStep \/ Others
  <2>1. UNCHANGED <<chainVars, at, prepared, withheld, shown, turn>>
    BY <1>2 DEF MemoryStep, Others, SubmitFeedback, resultVars
  <2> QED
    BY <2>1, StillShows
<1> QED
  BY <1>1, <1>2

-----------------------------------------------------------------------------
(* Steps of the handler *)

\* A step of the handler while no stream is written.
LEMMA QuietShows ==
  ASSUME ShownInv, writer.pc = "off", UNCHANGED <<writer, pipe, withheld>>,
         at' # "flush",
         at' # "answered" => at # "answered" /\ UNCHANGED shown,
         at' = "answered" => Faithful(shown', turn'.answer)
  PROVE  Shows
<1>1. /\ writer.said = << >> /\ withheld = << >> /\ pipe = << >>
      /\ at # "answered" => shown = << >>
  BY DEF ShownInv, QuietInv
<1>2. QuietInv'
  BY <1>1 DEF QuietInv
<1>3. WritingInv' /\ EndedInv'
  BY DEF WritingInv, EndedInv, Writing
<1>4. ToldInv'
  BY DEF ToldInv
<1> QED
  BY <1>2, <1>3, <1>4 DEF Shows

\* A step of the handler after the stream has been closed.
LEMMA ClosedShows ==
  ASSUME ShownInv, writer.pc = "closed", UNCHANGED writer, state'.node \in {"done", "idle"},
         at' \notin {"received", "chain", "streaming"}, ToldInv'
  PROVE  Shows
<1>1. QuietInv' /\ WritingInv' /\ EndedInv'
  BY DEF QuietInv, WritingInv, EndedInv, Writing
<1> QED
  BY <1>1 DEF Shows

\* The writer is the stream's, and it writes while the handler reads.
LEMMA WriterIsClosed ==
  ASSUME ShownInv
  PROVE  /\ asked.kind # "stream" => writer.pc = "off"
         /\ at \notin {"chain", "streaming"} => writer.pc \in {"off", "closed"}
         /\ writer.pc # "off" => state.node \in {"done", "idle"}
         /\ state.node \in {"error"} => writer.pc = "off"
<1>1. writer.pc \in {"off", "refuse", "model", "result", "closed"}
  BY DEF ShownInv, TypedInv, ChainTyped, Writer
<1> QED
  BY <1>1 DEF ShownInv, TypedInv, GroundInv, ChainInv, QuietInv, WritingInv, Writing

LEMMA AgentGoes ==
  ASSUME AgentStep, ~Release
  PROVE  /\ UNCHANGED <<pipe, withheld, shown, turn>>
         /\ at' \notin {"flush", "answered"} /\ at # "answered"
<1>1. CASE \/ Authorize \/ NewConversation \/ AcquireLease \/ AssembleContext
           \/ ResolveConversation \/ AwaitMemory \/ LookUp \/ Probe \/ Recollect
  BY <1>1 DEF Authorize, NewConversation, AcquireLease, AssembleContext,
     ResolveConversation, AwaitMemory, AfterMemory, AfterConversation, LookUp, Probe,
     Recollect, Goto, chainVars, resultVars
<1>2. CASE \/ AuthorizeFails \/ ConversationFails \/ AssembleFails \/ DirectiveFails
           \/ SearchFails
  BY <1>2 DEF AuthorizeFails, ConversationFails, AssembleFails, DirectiveFails,
     SearchFails, ErrorReturn, Fails, Return, chainVars, resultVars
<1>3. CASE \/ ProcessDirective \/ AsksBack \/ DirectAnswer \/ DirectAnswerFails
           \/ ConversationAnswer \/ WebSearchDirect \/ WebSearch
  BY <1>3 DEF ProcessDirective, AsksBack, DirectAnswer, DirectAnswerFails,
     ConversationAnswer, WebSearchDirect, WebSearch, Saves, Goto, chainVars, resultVars
<1>4. CASE Search \/ SearchAnswers \/ PlanAfterRAG
  <2>1. CASE Search
    BY <2>1 DEF Search, Goto, chainVars, resultVars
  <2>2. CASE SearchAnswers
    BY <2>2 DEF SearchAnswers, Goto, resultVars
  <2>3. CASE PlanAfterRAG
    <3>1. at' \in {"save", "supplement"}
      BY <2>3 DEF PlanAfterRAG, Saves, Goto
    <3> QED
      BY <2>3, <3>1 DEF PlanAfterRAG, chainVars, resultVars
  <2> QED
    BY <1>4, <2>1, <2>2, <2>3
<1>5. CASE Plan \/ PlanInContext \/ PlanAfterProbe
  <2>1. PICK stage : \E d \in Plans(stage) : Dispatch(d)
    BY <1>5 DEF Plan, PlanInContext, PlanAfterProbe, PlannedIn
  <2>2. PICK d \in Plans(stage) : Dispatch(d)
    BY <2>1
  <2>3. d.action \in Actions
    BY PlansAreActions
  <2>4. at' \notin {"flush", "answered"}
    BY <2>2, <2>3 DEF Dispatch, Saves, Goto, Actions
  <2> QED
    BY <1>5, <2>4 DEF Plan, PlanInContext, PlanAfterProbe, PlannedIn, chainVars, resultVars
<1> QED
  BY <1>1, <1>2, <1>3, <1>4, <1>5 DEF AgentStep

LEMMA AgentShows == ASSUME ShownInv, AgentStep, UNCHANGED <<docs, request>> PROVE Shows
<1>1. HandlesChain
  BY AgentHandlesChain DEF ShownInv
<1>2. UNCHANGED writer
  BY <1>1 DEF HandlesChain
<1>3. CASE Release
  <2>1. /\ asked.kind = "agent" /\ at = "release" /\ UNCHANGED <<pipe, withheld, turn>>
        /\ at' = outcome /\ outcome \in {"none", "answered", "failed"}
        /\ shown' = IF outcome = "answered" THEN turn.answer ELSE shown
    BY <1>3 DEF Release, chainVars, ShownInv, TypedInv, GroundInv, ChainInv, AnswerInv,
       StoredInv
  <2> QED
    BY <1>2, <2>1, QuietShows, WriterIsClosed DEF Faithful
<1>4. CASE ~Release
  <2>1. UNCHANGED <<pipe, withheld, shown, turn>> /\ at' \notin {"flush", "answered"}
        /\ at # "answered"
    BY <1>4, AgentGoes
  <2>2. writer.pc = "off"
    <3>1. asked.kind = "agent" \/ (at = "chain" /\ state.node = "error")
      BY DEF AgentStep, Authorize, AuthorizeFails, NewConversation, AcquireLease,
         AssembleContext, ResolveConversation, ConversationFails, AssembleFails,
         ProcessDirective, DirectiveFails, AwaitMemory, Plan, PlanInContext, PlanAfterProbe,
         LookUp, Probe, AsksBack, DirectAnswer, DirectAnswerFails, Recollect,
         ConversationAnswer, WebSearchDirect, Search, SearchFails, SearchAnswers,
         PlanAfterRAG, WebSearch, Release, ShownInv, TypedInv, GroundInv, ChainInv,
         AnswerInv, KnownInv, AgentPlaces
    <3> QED
      BY <3>1, WriterIsClosed
  <2> QED
    BY <1>2, <2>1, <2>2, QuietShows
<1> QED
  BY <1>3, <1>4

\* The handler begins, or gives up.
LEMMA BeginsShows ==
  ASSUME ShownInv, UNCHANGED <<docs, request>>,
         Validate \/ ValidateFails \/ ChatAnswers \/ ChainFailsRequest
  PROVE  Shows
<1>1. writer.pc = "off"
  BY WriterIsClosed DEF Validate, ValidateFails, ChatAnswers, ChainFailsRequest, ShownInv,
     QuietInv
<1>2. /\ UNCHANGED <<writer, pipe, withheld, shown>>
      /\ at' \notin {"flush", "answered"} /\ at # "answered"
  <2>1. CASE Validate
    BY <2>1 DEF Validate, Goto, chainVars, resultVars
  <2>2. CASE ChatAnswers
    BY <2>2 DEF ChatAnswers, Goto, resultVars
  <2>3. CASE ValidateFails \/ ChainFailsRequest
    BY <2>3 DEF ValidateFails, ChainFailsRequest, ErrorReturn, Fails, Return, chainVars,
       resultVars, ShownInv, TypedInv, GroundInv, ChainInv
  <2> QED
    BY <2>1, <2>2, <2>3
<1> QED
  BY <1>1, <1>2, QuietShows

\* The handler begins to read; where it reads nothing else has changed.
LEMMA OpensShows == ASSUME ShownInv, UNCHANGED <<docs, request>>, StreamOpens PROVE Shows
<1>1. /\ at = "chain" /\ at' = "streaming" /\ state.node = "done"
      /\ UNCHANGED <<state, writer, pipe, prepared, withheld, shown, turn, Received>>
  BY DEF StreamOpens, Goto, chainVars, resultVars, Received
<1>2. QuietInv' /\ ToldInv'
  BY <1>1 DEF ShownInv, QuietInv, ToldInv
<1>3. WritingInv'
  BY <1>1 DEF ShownInv, WritingInv, Tells
<1>4. EndedInv'
  BY <1>1 DEF ShownInv, EndedInv, Tells
<1> QED
  BY <1>2, <1>3, <1>4 DEF Shows

\* What has been received and what is still in the pipe are what they were; the end
\* of the pipe may be left out.
LEMMA ReceivesPiece ==
  ASSUME ShownInv, ReceivePiece, NEW q \in Seq(Words), q # << >>, Head(q) = Head(pipe)
  PROVE  Received' \o Tail(q) = Received \o q
<1>1. PieceMoved(shown, withheld, q)
  BY ShownTyped, PieceMoves DEF ShownInv
<1>2. /\ (shown \o Append(withheld, Head(q))) \o Tail(q) = (shown \o withheld) \o q
      /\ ((shown \o Append(withheld, Head(q))) \o << >>) \o Tail(q) = (shown \o withheld) \o q
  BY <1>1 DEF PieceMoved
<1>3. CASE Head(pipe) = "fallback"
  <2>1. withheld' = Append(withheld, Head(q)) /\ shown' = shown
    BY <1>3 DEF ReceivePiece
  <2>2. Received' = shown \o Append(withheld, Head(q))
    BY <2>1 DEF Received
  <2>3. Received = shown \o withheld
    BY DEF Received
  <2> QED
    BY <1>2, <2>2, <2>3
<1>4. CASE Head(pipe) # "fallback"
  <2>1. withheld' = << >> /\ shown' = shown \o Append(withheld, Head(q))
    BY <1>4 DEF ReceivePiece, Emit, StillWithheld
  <2>2. Received' = (shown \o Append(withheld, Head(q))) \o << >>
    BY <2>1 DEF Received
  <2>3. Received = shown \o withheld
    BY DEF Received
  <2> QED
    BY <1>2, <2>2, <2>3
<1> QED
  BY <1>3, <1>4

LEMMA PieceShows == ASSUME ShownInv, UNCHANGED <<docs, request>>, ReceivePiece PROVE Shows
<1>1. /\ at = "streaming" /\ pipe # << >> /\ Head(pipe) \in Pieces /\ pipe' = Tail(pipe)
      /\ UNCHANGED <<state, writer, at, prepared, turn>>
  BY DEF ReceivePiece
<1>2. /\ shown \in Seq(Words) /\ withheld \in Seq(Words) /\ pipe \in Seq(Words)
      /\ Received \in Seq(Words) /\ \A rest \in Seq(Pieces) : rest \in Seq(Words)
  BY ShownTyped DEF ShownInv
<1>3. Received' \o Tail(pipe) = Received \o pipe
  BY <1>1, <1>2, ReceivesPiece
\* A refusal is withheld, so that nothing is shown of it.
<1>4. ASSUME NEW rest \in Seq(Pieces), rest # << >>, Tells(rest), Head(rest) = Head(pipe),
             Received' \o Tail(rest) = Received \o rest
      PROVE  Tells(Tail(rest))'
  <2>1. state.answer = Answered(Received \o rest)
    BY <1>4 DEF Tells
  <2>2. ASSUME state.used = << >> PROVE shown' = << >> /\ Received \o rest = Fallback
    <3>1. shown = << >> /\ Received \o rest = <<"fallback">>
      BY <1>4, <2>2 DEF Tells, Fallback
    <3>2. withheld \in Seq({"fallback"}) /\ rest \in Seq(Words) /\ Received = withheld
      <4>1. withheld \in Seq({"fallback"})
        BY DEF ShownInv, TypedInv, HandlerTyped
      <4>2. << >> \o withheld = withheld
        BY <1>2, ConcatEmptySeq
      <4> QED
        BY <1>2, <3>1, <4>1, <4>2 DEF Received
    <3>3. Head(rest) = "fallback"
      <4>1. Len(rest) \in Nat /\ Len(rest) > 0 /\ Len(withheld) \in Nat
        BY <1>2, <1>4, <3>2
      <4>2. Len(withheld \o rest) = Len(withheld) + Len(rest)
        BY <1>2, <3>2, ConcatProperties
      <4>3. withheld \o rest = <<"fallback">> /\ Len(withheld \o rest) = 1
        BY <3>1, <3>2
      <4>4. Len(withheld) = 0 /\ withheld = << >>
        BY <1>2, <4>1, <4>2, <4>3
      <4>5. rest = <<"fallback">>
        BY <3>2, <4>3, <4>4, ConcatEmptySeq
      <4> QED
        BY <4>5
    <3>4. UNCHANGED shown
      BY <1>4, <3>3 DEF ReceivePiece
    <3> QED
      BY <3>1, <3>4, <2>2, <1>4 DEF Tells
  <2> QED
    BY <1>1, <1>4, <2>1, <2>2 DEF Tells
<1>5. QuietInv'
  BY <1>1 DEF ShownInv, QuietInv
<1>6. ToldInv'
  BY <1>1 DEF ShownInv, ToldInv
<1>7. WritingInv'
  <2>1. CASE writer.pc = "model"
    <3>1. pipe \in Seq(Pieces) /\ state.used # << >> /\ writer.said = Received \o pipe
      BY <2>1 DEF ShownInv, WritingInv
    <3>2. pipe' \in Seq(Pieces) /\ writer'.said = (Received \o pipe)'
      BY <1>1, <1>3, <3>1, HeadTailProperties
    <3> QED
      BY <1>1, <2>1, <3>1, <3>2 DEF WritingInv, Writing
  <2>2. CASE writer.pc = "result"
    <3>1. pipe \in Seq(Pieces) /\ Tells(pipe)
      BY <2>2 DEF ShownInv, WritingInv
    <3>2. PICK rest \in Seq(Pieces) : rest = pipe
      BY <3>1
    <3>3. Tells(Tail(rest))'
      BY <1>1, <1>3, <1>4, <3>1, <3>2
    <3>4. pipe' \in Seq(Pieces)
      BY <1>1, <3>1, HeadTailProperties
    <3>5. (Tail(rest))' = pipe'
      BY <1>1, <3>2
    <3>6. Tells(pipe)'
      BY <3>3, <3>5 DEF Tells
    <3> QED
      BY <1>1, <2>2, <3>4, <3>6 DEF WritingInv, Writing
  <2>3. CASE writer.pc \notin {"model", "result"}
    <3>1. writer.pc # "refuse"
      BY <1>1 DEF ShownInv, WritingInv
    <3> QED
      BY <1>1, <2>3, <3>1 DEF WritingInv, Writing
  <2> QED
    BY <2>1, <2>2, <2>3
<1>8. EndedInv'
  <2>1. SUFFICES ASSUME writer.pc = "closed"
                 PROVE  \/ \E rest \in Seq(Pieces) : pipe' = Append(rest, "error")
                        \/ \E rest \in Seq(Pieces) : /\ pipe' = Append(rest, "prepared")
                                                     /\ Tells(rest)'
    BY <1>1 DEF EndedInv
  <2>2. \/ \E rest \in Seq(Pieces) : pipe = Append(rest, "error")
        \/ \E rest \in Seq(Pieces) : pipe = Append(rest, "prepared") /\ Tells(rest)
    BY <1>1, <2>1 DEF ShownInv, EndedInv
  <2>3. PICK rest \in Seq(Pieces), item \in {"error", "prepared"} :
          pipe = Append(rest, item) /\ (item = "prepared" => Tells(rest))
    BY <2>2
  <2>4. item \in Words /\ rest \in Seq(Words) /\ item \notin Pieces
    BY <1>2 DEF Words, Pieces
  <2>5. rest # << >>
    BY <1>1, <2>3, <2>4, AppendParts
  <2>6. Head(pipe) = Head(rest) /\ pipe' = Append(Tail(rest), item)
    BY <1>1, <2>3, <2>4, <2>5, AppendParts
  <2>7. PICK less \in Seq(Pieces) : less = Tail(rest)
    BY <2>5, HeadTailProperties
  <2>8. ASSUME item = "prepared" PROVE Tells(less)'
    <3>1. Received' \o Tail(rest) = Received \o rest
      BY <1>2, <2>5, <2>6, ReceivesPiece
    <3>2. Tells(Tail(rest))'
      BY <1>4, <2>3, <2>5, <2>6, <2>8, <3>1
    <3> QED
      BY <2>7, <3>2 DEF Tells
  <2> QED
    BY <2>3, <2>6, <2>7, <2>8
<1> QED
  BY <1>5, <1>6, <1>7, <1>8 DEF Shows

\* What the goroutine has sent last.
LEMMA ReadsLast ==
  ASSUME ShownInv, at = "streaming", pipe # << >>, Head(pipe) \in {"prepared", "error"}
  PROVE  /\ writer.pc = "closed" /\ Tail(pipe) = << >>
         /\ Head(pipe) = "prepared" => Tells(<< >>)
<1>1. Head(pipe) \notin Pieces
  BY DEF Pieces
<1>2. writer.pc = "closed"
  <2>1. pipe \notin Seq(Pieces)
    BY <1>1, HeadTailProperties
  <2>2. writer.pc \in {"off", "refuse", "model", "result", "closed"}
    BY DEF ShownInv, TypedInv, ChainTyped, Writer
  <2> QED
    BY <2>1, <2>2 DEF ShownInv, QuietInv, WritingInv
<1>3. PICK rest \in Seq(Pieces), item \in {"error", "prepared"} :
        pipe = Append(rest, item) /\ (item = "prepared" => Tells(rest))
  BY <1>2 DEF ShownInv, EndedInv
<1>4. rest \in Seq(Words) /\ item \in Words
  BY ShownTyped DEF ShownInv, Words
<1>5. rest = << >>
  <2>1. ASSUME rest # << >> PROVE FALSE
    <3>1. Head(pipe) = Head(rest)
      BY <1>3, <1>4, <2>1, AppendParts
    <3>2. Head(rest) \in Pieces
      BY <2>1, HeadTailProperties
    <3> QED
      BY <1>1, <3>1, <3>2
  <2> QED
    BY <2>1
<1>6. Head(pipe) = item /\ Tail(pipe) = << >>
  BY <1>3, <1>4, <1>5, AppendParts
<1>7. item = "prepared" => Tells(<< >>)
  BY <1>3, <1>5
<1> QED
  BY <1>2, <1>6, <1>7

LEMMA ResultShows == ASSUME ShownInv, UNCHANGED <<docs, request>>, ReceiveResult PROVE Shows
<1>1. /\ at = "streaming" /\ pipe # << >> /\ Head(pipe) = "prepared" /\ pipe' = Tail(pipe)
      /\ prepared' = FromChain(NoCarry, "")
      /\ UNCHANGED <<state, writer, at, withheld, shown, turn>>
  BY DEF ReceiveResult, resultVars
<1>2. writer.pc = "closed" /\ pipe' = << >> /\ Tells(<< >>)
  BY <1>1, ReadsLast
<1>3. prepared' = FromChain(NoCarry, "")' /\ Tells(<< >>)'
  BY <1>1, <1>2 DEF FromChain, Tells, Received
<1>4. QuietInv' /\ ToldInv'
  BY <1>1, <1>2 DEF ShownInv, QuietInv, ToldInv
<1>5. WritingInv' /\ EndedInv'
  BY <1>1, <1>2, <1>3 DEF WritingInv, EndedInv, Writing
<1> QED
  BY <1>4, <1>5 DEF Shows

LEMMA FailureShows ==
  ASSUME ShownInv, UNCHANGED <<docs, request>>, ReceiveError \/ SaveFails
  PROVE  Shows
<1>1. /\ UNCHANGED <<state, writer, withheld, shown>> /\ at' \in {"release", "failed"}
      /\ at # "answered"
  BY DEF ReceiveError, SaveFails, ErrorReturn, Fails, Return, chainVars, resultVars
<1>2. CASE writer.pc = "closed"
  <2>1. state.node \in {"done", "idle"}
    BY <1>2, WriterIsClosed
  <2>2. ToldInv'
    BY <1>1 DEF ToldInv
  <2> QED
    BY <1>1, <1>2, <2>1, <2>2, ClosedShows
<1>3. CASE writer.pc # "closed"
  <2>1. SaveFails
    BY <1>3, ReadsLast DEF ReceiveError
  <2>2. writer.pc = "off" /\ UNCHANGED pipe
    BY <1>3, <2>1, WriterIsClosed DEF SaveFails, ErrorReturn, chainVars
  <2> QED
    BY <1>1, <2>2, QuietShows
<1> QED
  BY <1>2, <1>3

LEMMA EndShows == ASSUME ShownInv, UNCHANGED <<docs, request>>, ReceiveEnd PROVE Shows
<1>1. /\ at = "streaming" /\ pipe = << >> /\ writer.pc = "closed" /\ at' = "fallback"
      /\ state' = NoState /\ UNCHANGED <<writer, pipe, withheld, shown, turn>>
      /\ prepared' = IF prepared.answer = << >> THEN [prepared EXCEPT !.answer = Fallback]
                     ELSE prepared
  BY DEF ReceiveEnd, Goto, resultVars
<1>2. Tells(<< >>) /\ prepared = FromChain(NoCarry, "")
  <2>1. ASSUME NEW rest \in Seq(Pieces), NEW item \in {"error", "prepared"}
        PROVE  pipe # Append(rest, item)
    <3>1. rest \in Seq(Words) /\ item \in Words
      BY ShownTyped DEF ShownInv, Words
    <3> QED
      BY <1>1, <3>1, AppendParts
  <2> QED
    BY <1>1, <2>1 DEF ShownInv, EndedInv
<1>3. Received \in Seq(Words) /\ Received \o << >> = Received
  <2>1. Received \in Seq(Words)
    BY ShownTyped DEF ShownInv
  <2> QED
    BY <2>1, ConcatEmptySeq
<1>4. /\ prepared.answer = Answered(Received) /\ prepared.answer # << >> /\ ~prepared.web
      /\ prepared.used = << >> => shown = << >>
  <2>1. prepared.answer = state.answer /\ prepared.used = state.used /\ ~prepared.web
    BY <1>2 DEF FromChain, NothingPrepared
  <2>2. state.answer = Answered(Received) /\ (state.used = << >> => shown = << >>)
    BY <1>2, <1>3 DEF Tells
  <2>3. Answered(Received) # << >>
    <3>1. "fallback" \in Words
      BY DEF Words, Texts, Pieces
    <3> QED
      BY <1>3, <3>1, AnsweredTyped
  <2> QED
    BY <2>1, <2>2, <2>3
<1>5. prepared' = prepared /\ Received' = Received
  BY <1>1, <1>4 DEF Received
<1>6. ToldInv'
  BY <1>1, <1>4, <1>5 DEF ToldInv
<1>7. state'.node = "idle"
  BY <1>1 DEF NoState
<1> QED
  BY <1>1, <1>6, <1>7, ClosedShows

LEMMA WebShows == ASSUME ShownInv, UNCHANGED <<docs, request>>, ApplyWebFallback PROVE Shows
<1>1. /\ at = "fallback" /\ at' = IF writer.pc = "closed" THEN "flush" ELSE "save"
      /\ UNCHANGED <<state, writer, pipe, withheld, shown, turn, Received>>
  BY DEF ApplyWebFallback, Goto, chainVars, resultVars, Received
<1>2. CASE writer.pc = "closed"
  <2>1. /\ ~prepared.web /\ prepared.answer = Answered(Received)
        /\ prepared.used = << >> => shown = << >>
    BY <1>1, <1>2 DEF ShownInv, ToldInv
  <2>2. prepared \in Prepared
    BY DEF ShownInv, TypedInv, HandlerTyped
  <2>3. \/ prepared' = prepared
        \/ /\ prepared.used = << >>
           /\ prepared' = [prepared EXCEPT !.answer = <<"web">>, !.web = TRUE]
    BY DEF ApplyWebFallback, ShouldUseWebFallback
  <2>4. IF prepared'.web THEN shown = << >> ELSE prepared'.answer = Answered(Received)
    BY <2>1, <2>2, <2>3 DEF Prepared
  <2>5. ToldInv'
    BY <1>1, <1>2, <2>4 DEF ToldInv
  <2>6. state.node \in {"done", "idle"}
    BY <1>2, WriterIsClosed
  <2> QED
    BY <1>1, <1>2, <2>5, <2>6, ClosedShows
<1>3. CASE writer.pc # "closed"
  <2>1. writer.pc = "off"
    BY <1>1, <1>3, WriterIsClosed
  <2> QED
    BY <1>1, <1>3, <2>1, QuietShows
<1> QED
  BY <1>2, <1>3

LEMMA FlushShows == ASSUME ShownInv, UNCHANGED <<docs, request>>, Flush PROVE Shows
<1>1. /\ at = "flush" /\ at' = "save" /\ writer.pc = "closed"
      /\ UNCHANGED <<state, writer, pipe, prepared, withheld, turn>>
  BY DEF Flush, Goto, chainVars, ShownInv, ToldInv
<1>2. /\ shown \in Seq(Words) /\ withheld \in Seq(Words) /\ Received \in Seq(Words)
      /\ prepared.answer \in Seq(Texts) /\ prepared.web \in BOOLEAN
  BY ShownTyped DEF ShownInv, TypedInv, HandlerTyped, Prepared
<1>3. Received # << >> => Faithful(Received, Answered(Received))
  BY <1>2, AnsweredIsFaithful
<1>4. IF prepared.web THEN shown = << >> ELSE prepared.answer = Answered(Received)
  BY <1>1 DEF ShownInv, ToldInv
<1>5. Faithful(shown', prepared.answer)
  <2>1. CASE prepared.web
    <3>1. shown' = << >> \o prepared.answer
      BY <1>4, <2>1 DEF Flush, Emit
    <3>2. shown' = prepared.answer
      BY <1>2, <3>1, ConcatEmptySeq
    <3> QED
      BY <3>2 DEF Faithful
  <2>2. CASE ~prepared.web /\ withheld # << >>
    <3>1. shown' = Received
      BY <2>2 DEF Flush, Emit, Received
    <3>2. Received # << >>
      BY <1>2, <2>2 DEF Received
    <3> QED
      BY <1>3, <1>4, <2>2, <3>1, <3>2
  <2>3. CASE ~prepared.web /\ withheld = << >> /\ shown = << >>
    <3>1. shown' = << >> \o prepared.answer
      BY <2>3 DEF Flush, Emit
    <3>2. shown' = prepared.answer
      BY <1>2, <3>1, ConcatEmptySeq
    <3> QED
      BY <3>2 DEF Faithful
  <2>4. CASE ~prepared.web /\ withheld = << >> /\ shown # << >>
    <3>1. shown' = shown \o << >>
      BY <2>4 DEF Flush, Emit
    <3>2. Received = shown \o << >> /\ Received # << >>
      BY <1>2, <2>4 DEF Received
    <3> QED
      BY <1>3, <1>4, <2>4, <3>1, <3>2
  <2> QED
    BY <1>2, <2>1, <2>2, <2>3, <2>4
<1>6. ToldInv'
  BY <1>1, <1>5 DEF ToldInv
<1>7. state.node \in {"done", "idle"}
  BY <1>1, WriterIsClosed
<1> QED
  BY <1>1, <1>6, <1>7, ClosedShows

LEMMA SavedShows == ASSUME ShownInv, UNCHANGED <<docs, request>>, SaveTurn PROVE Shows
<1>1. /\ at = "save" /\ at' \in {"release", "show"} /\ turn'.answer = prepared.answer
      /\ UNCHANGED <<state, writer, pipe, prepared, withheld, shown>>
  <2>1. asked.kind = "agent" => at' = "release"
    BY DEF SaveTurn, Return
  <2>2. asked.kind # "agent" => at' = "show"
    BY DEF SaveTurn, Goto
  <2> QED
    BY <2>1, <2>2 DEF SaveTurn, chainVars
<1>2. CASE writer.pc = "closed"
  <2>1. Faithful(shown, prepared.answer)
    BY <1>1, <1>2 DEF ShownInv, ToldInv
  <2>2. ToldInv'
    BY <1>1, <2>1 DEF ToldInv
  <2>3. state.node \in {"done", "idle"}
    BY <1>2, WriterIsClosed
  <2> QED
    BY <1>1, <1>2, <2>2, <2>3, ClosedShows
<1>3. CASE writer.pc # "closed"
  <2>1. writer.pc = "off"
    BY <1>1, <1>3, WriterIsClosed
  <2> QED
    BY <1>1, <2>1, QuietShows
<1> QED
  BY <1>2, <1>3

LEMMA ShowShows == ASSUME ShownInv, UNCHANGED <<docs, request>>, Show PROVE Shows
<1>1. /\ at = "show" /\ asked.kind # "agent" => at' = "answered"
      /\ at = "show" /\ at' \in {"answered", "release"}
      /\ UNCHANGED <<state, writer, pipe, prepared, withheld, turn>>
      /\ shown' = shown \o (IF writer.pc = "closed" THEN << >> ELSE turn.answer)
  BY DEF Show, Return, Emit, chainVars
<1>2. shown \in Seq(Words) /\ turn.answer \in Seq(Texts)
  BY ShownTyped DEF ShownInv, TypedInv, HandlerTyped, Turn
<1>3. CASE writer.pc = "closed"
  <2>1. Faithful(shown, turn.answer)
    BY <1>1, <1>3 DEF ShownInv, ToldInv
  <2>2. shown' = shown
    BY <1>1, <1>2, <1>3, ConcatEmptySeq
  <2>3. ToldInv'
    BY <1>1, <2>1, <2>2 DEF ToldInv
  <2>4. state.node \in {"done", "idle"}
    BY <1>3, WriterIsClosed
  <2> QED
    BY <1>1, <1>3, <2>3, <2>4, ClosedShows
<1>4. CASE writer.pc # "closed"
  <2>1. writer.pc = "off"
    BY <1>1, <1>4, WriterIsClosed
  <2>2. shown = << >>
    BY <1>1, <2>1 DEF ShownInv, QuietInv
  <2>3. shown' = << >> \o turn.answer
    BY <1>1, <1>4, <2>2
  <2>4. shown' = turn.answer
    BY <1>2, <2>3, ConcatEmptySeq
  <2>5. asked.kind # "agent"
    BY <1>1 DEF ShownInv, TypedInv, GroundInv, AnswerInv, CarryInv
  <2>6. Faithful(shown', turn'.answer)
    BY <1>1, <2>4 DEF Faithful
  <2> QED
    BY <1>1, <2>1, <2>5, <2>6, QuietShows
<1> QED
  BY <1>3, <1>4

LEMMA ShownNext == ASSUME ShownInv, [Next]_vars PROVE ShownInv'
<1>1. TypedInv'
  BY TypedNext DEF ShownInv
<1>2. Shows
  <2>1. CASE HandlerStep
    <3>1. UNCHANGED <<docs, request>>
      BY <2>1 DEF HandlerStep
    <3>2. CASE AgentStep
      BY <3>1, <3>2, AgentShows
    <3>3. CASE ChatStep
      BY <3>1, <3>3, BeginsShows, OpensShows, PieceShows, ResultShows, FailureShows,
         EndShows, WebShows, FlushShows, SavedShows, ShowShows DEF ChatStep
    <3> QED
      BY <2>1, <3>2, <3>3 DEF HandlerStep
  <2>2. CASE InChain \/ MemoryStep \/ Others
    BY <2>2, OthersShow
  <2>3. CASE UNCHANGED vars
    <3>1. UNCHANGED <<chainVars, at, prepared, withheld, shown, turn>>
      BY <2>3 DEF vars, resultVars
    <3> QED
      BY <3>1, StillShows
  <2> QED
    BY <2>1, <2>2, <2>3 DEF Next
<1> QED
  BY <1>1, <1>2 DEF ShownInv, Shows

LEMMA ShownInit == Init => ShownInv
<1> SUFFICES ASSUME Init PROVE ShownInv
  OBVIOUS
<1>1. TypedInv
  BY TypedInit
<1>2. /\ writer = NoWriter /\ pipe = << >> /\ withheld = << >> /\ shown = << >>
      /\ at = "received"
  BY DEF Init, ChainInit
<1>3. writer.pc = "off" /\ writer.said = << >>
  BY <1>2 DEF NoWriter
<1> QED
  BY <1>1, <1>2, <1>3 DEF ShownInv, QuietInv, WritingInv, Writing, EndedInv, ToldInv

\* Whatever the pieces of a stream are, whatever its handler withholds, asks the web or
\* trims: when Stream is done its client has been shown the answer saveTurn has stored,
\* the blanks around it aside. Of a stream of nothing but blanks it has seen the blanks,
\* and the refusal is stored; nothing else is stored that was not shown.
THEOREM StreamsShowWhatIsStored == Spec => []ShownIsStored
<1>1. ShownInv /\ [Next]_vars => ShownInv'
  BY ShownNext
<1>2. ShownInv => ShownIsStored
  BY DEF ShownInv, ToldInv, ShownIsStored, Faithful
<1> QED
  BY <1>1, <1>2, ShownInit, PTL DEF Spec

=============================================================================
