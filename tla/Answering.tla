------------------------------ MODULE Answering ------------------------------
(***************************************************************************)
(* One question from its arrival to its stored turn: AgentService.Chat with *)
(* its planner, tools and long term memory goroutine, ChatService.Chat, and *)
(* ChatService.Stream with its goroutine and the pipe it reads. All three   *)
(* search through RagChain, ask the web when the knowledge base has nothing *)
(* and store one chat log.                                                  *)
(*                                                                          *)
(* Requests share no state but database rows: what others do to the rows    *)
(* this one reads is a choice of the step that reads them. The lease and    *)
(* the logs of a conversation are modelled in ConversationCompaction.       *)
(***************************************************************************)
EXTENDS RagChain

CONSTANTS
  Kinds,     \* the entry points in use: agent, chat, stream
  Configs,   \* the configurations a server may run with, sets of features
  MaxTurns   \* bound: earlier turns of the conversation

AllKinds == {"agent", "chat", "stream"}

\* web: enabled, FallbackOnly and an answerer; short: ShortTermEnabled; memory:
\* long term memory with a retriever; directive: and a directive processor;
\* direct: a direct chat model; planner: an LLMPlanner, else the FallbackPlanner.
Features == SearchFeatures \cup {"web", "short", "memory", "directive", "direct", "planner"}

ASSUME AnsweringAssumption == /\ Kinds \subseteq AllKinds
                              /\ Configs \subseteq SUBSET Features
                              /\ MaxTurns \in Nat

VARIABLES
  config,    \* features of this server
  asked,     \* the request as it arrives
  turns,     \* number of earlier turns of its conversation
  at,        \* where the handler stands
  outcome,   \* what it returns once the lease is given back
  basis,     \* what the planner is to know of the conversation
  resolved,  \* rag.Request as AgentService.Chat holds it
  chatReq,   \* ChatRequest as it passes it to ChatService
  decision,  \* the planner's last decision
  prepared,  \* rag.PreparedChat with the final mode
  lease,     \* the conversation's row holds this request's processing token
  memory,    \* goroutine that retrieves long term memory, and its channel
  withheld,  \* Stream: pieces equal to FallbackAnswer not yet shown
  shown,     \* pieces the client has received
  turn,      \* the chat log of this request
  feedback   \* the row of chat_feedbacks for it

request == <<config, asked, turns>>
agentVars == <<basis, resolved, chatReq, decision, lease>>
resultVars == <<withheld, shown, turn, feedback>>
vars == <<chainVars, docs, request, at, outcome, agentVars, prepared, memory,
          resultVars>>

TurnIds == 1..(MaxTurns + 1)

Asked == [kind : AllKinds, named : BOOLEAN, directive : BOOLEAN, web : BOOLEAN]

\* How the turn is to be stored; passed from one request struct to the next.
Carry == [operation : {"none", "pending"}, token : BOOLEAN, fresh : BOOLEAN]

NoCarry == [operation |-> "none", token |-> FALSE, fresh |-> FALSE]

Actions == {"context_lookup", "knowledge_probe", "direct_answer", "conversation_answer",
            "clarify", "knowledge_search", "web_search", "reject"}

Decision == [action : Actions, ids : SUBSET TurnIds, plan : SUBSET SearchFeatures]

Decide(action) == [action |-> action, ids |-> {}, plan |-> {}]

Texts == Pieces \cup {"web", "direct", "conversation", "clarify", "confirm"}

Modes == {"", "knowledge_base", "web_fallback", "direct_answer", "conversation_answer",
          "clarify", "rejected"}

Prepared == [carry : Carry, answer : Seq(Texts), used : Seq(Chunks), rejected : BOOLEAN,
             web : BOOLEAN, cites : SUBSET TurnIds, mode : Modes]

NothingPrepared == [carry |-> NoCarry, answer |-> << >>, used |-> << >>,
                    rejected |-> FALSE, web |-> FALSE, cites |-> {}, mode |-> ""]

Turn == [stored : BOOLEAN, operation : {"none", "pending"},
         home : {"none", "created", "appended"}, answer : Seq(Texts),
         used : Seq(Chunks), web : BOOLEAN, cites : SUBSET TurnIds, mode : Modes]

NoTurn == [stored |-> FALSE, operation |-> "none", home |-> "none", answer |-> << >>,
           used |-> << >>, web |-> FALSE, cites |-> {}, mode |-> ""]

Places == {"received", "conversation", "assemble", "directive", "memory", "plan",
           "lookup", "resolve", "probe", "probed", "direct", "recollect", "transform",
           "web", "search", "chain", "post", "supplement", "validate", "streaming",
           "fallback", "flush", "save", "show", "release", "answered", "failed"}

Init ==
  /\ ChainInit
  /\ config \in Configs
  /\ asked \in {a \in Asked : /\ a.kind \in Kinds
                              /\ a.kind = "agent" => ~a.web
                              /\ a.kind # "agent" => ~a.named /\ ~a.directive
                              /\ a.directive => "directive" \in config
                              /\ a.web => "web" \in config}
  /\ turns \in IF asked.named THEN 0..MaxTurns ELSE {0}
  /\ at = "received"
  /\ outcome = "none"
  /\ basis = "none"
  /\ resolved = NoCarry
  /\ chatReq = NoCarry
  /\ decision = Decide("clarify")
  /\ prepared = NothingPrepared
  /\ lease = FALSE
  /\ memory = "off"
  /\ withheld = << >>
  /\ shown = << >>
  /\ turn = NoTurn
  /\ feedback = "none"

-----------------------------------------------------------------------------
(* Where the handler goes *)

Goto(place) == at' = place /\ UNCHANGED outcome

\* AgentService.Chat returns: its deferred release comes first.
Return(result) ==
  IF asked.kind = "agent" THEN at' = "release" /\ outcome' = result
  ELSE at' = result /\ UNCHANGED outcome

\* An error return, or the error event of a stream.
Fails == Return("failed")

ErrorReturn == Fails /\ UNCHANGED <<agentVars, prepared, memory, resultVars, chainVars>>

CanUseWebSearch == "web" \in config

\* A PreparedChat made outside the chain, from the agent's own request.
Reply(answer, mode) ==
  [NothingPrepared EXCEPT !.carry = resolved, !.answer = <<answer>>, !.mode = mode]

Clarify == Reply("clarify", "clarify")

Reject == Reply("fallback", "rejected")

\* A result is ready to be stored.
Saves(p) == Goto("save") /\ prepared' = p

\* Mutant of ResolveRequest: a field added to ChatRequest is not copied.
ResolveRequestForgets(carry) == [carry EXCEPT !.operation = "none"]

\* resolveRequest: the chain's request carries on what ChatRequest says.
ResolveRequest(carry) == carry

\* validate without a completed document answers at once.
EarlyRefusal(carry) ==
  [NothingPrepared EXCEPT !.carry = ResolveRequest(carry), !.answer = Fallback,
                          !.rejected = TRUE]

\* toPrepared, under the mode the caller chose.
FromChain(carry, mode) ==
  [NothingPrepared EXCEPT !.carry = ResolveRequest(carry), !.answer = state.answer,
                          !.used = state.used, !.rejected = state.rejected,
                          !.mode = mode]

-----------------------------------------------------------------------------
(* Agent: conversation, directive and long term memory *)

DirectivePossible == "directive" \in config /\ asked.directive

\* authorizeRequest; the memory goroutine starts unless a directive may follow.
Authorize ==
  /\ at = "received" /\ asked.kind = "agent"
  /\ Goto("conversation")
  /\ memory' = IF "memory" \in config /\ ~DirectivePossible THEN "running" ELSE "off"
  /\ UNCHANGED <<chainVars, agentVars, prepared, resultVars>>

AuthorizeFails ==
  /\ at = "received" /\ asked.kind = "agent"
  /\ ErrorReturn

\* Where Chat goes on once the conversation is known.
AfterConversation == IF DirectivePossible THEN "directive" ELSE "memory"

\* A conversation that begins here; with short term memory it gets a row.
NewConversation ==
  /\ at = "conversation" /\ ~asked.named
  /\ Goto(AfterConversation)
  /\ resolved' = [resolved EXCEPT !.fresh = "short" \in config]
  /\ chatReq' = resolved'
  /\ UNCHANGED <<chainVars, basis, decision, lease, prepared, memory, resultVars>>

\* prepareShortTermConversation up to the lease.
AcquireLease ==
  /\ at = "conversation" /\ asked.named /\ "short" \in config /\ turns > 0
  /\ Goto("assemble")
  /\ lease' = TRUE
  /\ UNCHANGED <<chainVars, basis, resolved, chatReq, decision, prepared, memory, resultVars>>

AssembleContext ==
  /\ at = "assemble"
  /\ Goto(AfterConversation)
  /\ basis' = "assembled"
  /\ resolved' = [resolved EXCEPT !.token = TRUE]
  /\ chatReq' = resolved'
  /\ UNCHANGED <<chainVars, decision, lease, prepared, memory, resultVars>>

\* resolveConversation with the mode of the latest turn.
ResolveConversation ==
  /\ at = "conversation" /\ asked.named /\ "short" \notin config /\ turns > 0
  /\ Goto(AfterConversation)
  /\ basis' \in {"clarify", "latest"}
  /\ UNCHANGED <<chainVars, resolved, chatReq, decision, lease, prepared, memory, resultVars>>

\* Not found, expired, busy, or the statement fails.
ConversationFails ==
  /\ at = "conversation" /\ asked.named
  /\ ErrorReturn

\* Build fails: the lease is given back before the token is known to Chat.
AssembleFails ==
  /\ at = "assemble"
  /\ Fails
  /\ lease' = FALSE
  /\ UNCHANGED <<chainVars, basis, resolved, chatReq, decision, prepared, memory, resultVars>>

\* An operation goes into both requests; nothing left to ask ends it here.
ProcessDirective ==
  /\ at = "directive"
  /\ \E operation \in {"none", "pending"}, residual \in BOOLEAN :
       LET carry == [resolved EXCEPT !.operation = operation]
       IN /\ resolved' = carry
          /\ chatReq' = carry
          /\ IF residual THEN Goto("memory") /\ UNCHANGED prepared
             ELSE Saves([Reply("confirm", "direct_answer") EXCEPT !.carry = carry])
  /\ UNCHANGED <<chainVars, basis, decision, lease, memory, resultVars>>

DirectiveFails ==
  /\ at = "directive"
  /\ ErrorReturn

AfterMemory == CASE basis = "assembled" -> "resolve"
                 [] basis = "clarify"   -> "lookup"
                 [] OTHER               -> "plan"

\* The goroutine's answer is awaited; after a directive Retrieve is called here.
\* A retrieval that fails only degrades the planner's input.
AwaitMemory ==
  /\ at = "memory"
  /\ memory \in {"off", "sent"}
  /\ Goto(AfterMemory)
  /\ UNCHANGED <<chainVars, agentVars, prepared, memory, resultVars>>

RetrieveMemory == memory = "running" /\ memory' = "ready"

\* Mutant of HasRoom: the channel has no buffer.
HasRoomUnbuffered == at = "memory"

\* The channel has a buffer of one.
HasRoom == TRUE

SendMemory == memory = "ready" /\ HasRoom /\ memory' = "sent"

MemoryStep ==
  /\ RetrieveMemory \/ SendMemory
  /\ UNCHANGED <<chainVars, docs, request, at, outcome, agentVars, prepared, resultVars>>

-----------------------------------------------------------------------------
(* Agent: what the planner may decide *)

WebTool == IF CanUseWebSearch THEN {"web_search"} ELSE {}

\* availableFinalTools
FinalTools ==
  {"knowledge_probe", "direct_answer", "clarify", "knowledge_search", "reject"} \cup WebTool

Tools(stage) ==
  CASE stage = "pre_rag" -> FinalTools \cup IF basis = "none" THEN {} ELSE {"context_lookup"}
    [] stage = "context_resolved" ->
         FinalTools \cup IF basis = "assembled" THEN {"conversation_answer"} ELSE {}
    [] stage = "probe_resolved" -> FinalTools \ {"knowledge_probe"}
    [] stage = "post_rag" -> {"clarify", "reject"} \cup WebTool

Defaults == config \cap SearchFeatures

DefaultSearch == [Decide("knowledge_search") EXCEPT !.plan = Defaults]

DefaultPostRAG == Decide(IF CanUseWebSearch THEN "web_search" ELSE "reject")

\* NormalizeSearchPlan: what the configuration enables stays enabled.
WithPlan(d) ==
  IF d.action \in {"knowledge_search", "knowledge_probe"}
  THEN [d EXCEPT !.plan = @ \cup Defaults] ELSE [d EXCEPT !.plan = {}]

\* NormalizeDecision: the actions a stage does not know become others.
Normalize(stage, d) ==
  LET a == d.action
      becomes ==
        CASE stage = "post_rag" /\ a \in {"context_lookup", "knowledge_probe", "direct_answer"}
               -> Decide("clarify")
          [] stage = "post_rag" /\ a \in {"knowledge_search", "conversation_answer"}
               -> DefaultPostRAG
          [] stage = "probe_resolved"
               /\ a \in {"context_lookup", "knowledge_probe", "conversation_answer"}
               -> Decide("clarify")
          [] stage \in {"post_rag", "probe_resolved"} /\ a = "web_search" /\ ~CanUseWebSearch
               -> Decide("reject")
          [] stage \in {"pre_rag", "context_resolved"} /\ a = "web_search" /\ ~CanUseWebSearch
               -> [d EXCEPT !.action = "knowledge_search"]
          [] stage = "context_resolved" /\ a = "context_lookup" -> Decide("clarify")
          [] a \in {"context_lookup", "conversation_answer"} \ Tools(stage) -> Decide("clarify")
          [] OTHER -> d
  IN WithPlan(becomes)

\* The calls ParseToolCallDecision accepts, with the arguments of their tools.
Calls ==
  {d \in Decision : /\ d.ids = {} <=> d.action # "conversation_answer"
                    /\ d.plan = {} \/ d.action \in {"knowledge_search", "knowledge_probe"}}

Parsed(stage) == {d \in Calls : d.action \in Tools(stage)}

\* What the callers do when the planner fails, and the FallbackPlanner's answer.
OnError(stage) ==
  CASE stage = "pre_rag" -> {DefaultSearch}
    [] stage = "context_resolved" /\ basis = "assembled" -> {DefaultSearch}
    [] stage = "post_rag" -> {Decide("clarify"), DefaultPostRAG}
    [] OTHER -> {Decide("clarify")}

WithoutPlanner(stage) == {IF stage = "post_rag" THEN DefaultPostRAG ELSE DefaultSearch}

Plans(stage) ==
  {Normalize(stage, d) : d \in IF "planner" \in config THEN Parsed(stage) \cup OnError(stage)
                               ELSE WithoutPlanner(stage)}

-----------------------------------------------------------------------------
(* Agent: planning and dispatch *)

\* Chat's switch over the decision.
Dispatch(d) ==
  CASE d.action = "clarify" -> Saves(Clarify)
    [] d.action = "reject" \/ (d.action = "web_search" /\ ~CanUseWebSearch) -> Saves(Reject)
    [] OTHER -> /\ UNCHANGED prepared
                /\ Goto(CASE d.action = "web_search" -> "web"
                          [] d.action = "direct_answer" -> "direct"
                          [] d.action = "conversation_answer" -> "recollect"
                          [] d.action = "knowledge_search" -> "search"
                          [] d.action = "knowledge_probe" -> "probe"
                          [] d.action = "context_lookup" -> "lookup")

PlannedIn(stage) ==
  /\ \E d \in Plans(stage) : decision' = d /\ Dispatch(d)
  /\ UNCHANGED <<chainVars, basis, resolved, chatReq, lease, memory, resultVars>>

Plan == at = "plan" /\ PlannedIn("pre_rag")

PlanInContext == at = "resolve" /\ PlannedIn("context_resolved")

PlanAfterProbe == at = "probed" /\ PlannedIn("probe_resolved")

\* lookupConversationContext
LookUp ==
  /\ at = "lookup"
  /\ Goto("resolve") /\ UNCHANGED prepared
  /\ UNCHANGED <<chainVars, agentVars, memory, resultVars>>

Probe ==
  /\ at = "probe"
  /\ Goto("probed") /\ UNCHANGED prepared
  /\ UNCHANGED <<chainVars, agentVars, memory, resultVars>>

\* The statement or the retriever fails, or a model that should transform an
\* earlier answer is missing, fails or says nothing.
AsksBack ==
  /\ at \in {"lookup", "probe", "recollect", "transform"}
  /\ Saves(Clarify)
  /\ UNCHANGED <<chainVars, agentVars, memory, resultVars>>

DirectAnswer ==
  /\ at = "direct" /\ "direct" \in config
  /\ Saves(Reply("direct", "direct_answer"))
  /\ UNCHANGED <<chainVars, agentVars, memory, resultVars>>

\* No model, a failed call, a blank answer.
DirectAnswerFails ==
  /\ at = "direct"
  /\ Saves(Reject)
  /\ UNCHANGED <<chainVars, agentVars, memory, resultVars>>

Found(ids) == ids \cap 1..turns

\* FindManyOwnedByConversation has found as many turns as were named.
AllFound(ids) == Cardinality(Found(ids)) = Cardinality(ids)

Recollect ==
  /\ at = "recollect" /\ "direct" \in config
  /\ AllFound(decision.ids)
  /\ Goto("transform") /\ UNCHANGED prepared
  /\ UNCHANGED <<chainVars, agentVars, memory, resultVars>>

ConversationAnswer ==
  /\ at = "transform"
  /\ Saves([Reply("conversation", "conversation_answer") EXCEPT !.cites = decision.ids])
  /\ UNCHANGED <<chainVars, agentVars, memory, resultVars>>

-----------------------------------------------------------------------------
(* Agent: knowledge search, web search *)

FromWeb(p) == [p EXCEPT !.answer = <<"web">>, !.web = TRUE, !.mode = "web_fallback"]

WebSearchDirect ==
  /\ at = "web"
  /\ \E p \in {FromWeb(Reject), Reject} : Saves(p)
  /\ UNCHANGED <<chainVars, agentVars, memory, resultVars>>

\* PrepareKnowledgeAnswerWithOptions with the plan's features.
Search ==
  /\ at = "search"
  /\ IF docs = {} THEN /\ prepared' = EarlyRefusal(chatReq)
                       /\ Goto("post")
                       /\ UNCHANGED chainVars
     ELSE /\ StartChain(decision.plan, FALSE)
          /\ Goto("chain")
          /\ UNCHANGED <<prepared, writer, pipe>>
  /\ UNCHANGED <<agentVars, memory, resultVars>>

SearchFails ==
  /\ at = "search" \/ (at = "chain" /\ state.node = "error")
  /\ ErrorReturn

IsLowConfidence(p) == p.answer = Fallback /\ p.used = << >> /\ p.rejected

SearchAnswers ==
  /\ at = "chain" /\ asked.kind = "agent" /\ state.node = "done"
  /\ LET p == FromChain(chatReq, "knowledge_base")
     IN /\ prepared' = p
        /\ Goto(IF IsLowConfidence(p) THEN "post" ELSE "save")
  /\ state' = NoState
  /\ UNCHANGED <<writer, pipe, agentVars, memory, resultVars>>

\* handleLowConfidence: every other answer keeps the search's request.
PlanAfterRAG ==
  /\ at = "post"
  /\ \E d \in Plans("post_rag") :
       /\ decision' = d
       /\ CASE d.action = "clarify" ->
                 Saves([prepared EXCEPT !.answer = <<"clarify">>, !.mode = "clarify"])
            [] d.action = "web_search" /\ CanUseWebSearch ->
                 Goto("supplement") /\ UNCHANGED prepared
            [] OTHER -> Saves([prepared EXCEPT !.mode = "rejected"])
  /\ UNCHANGED <<chainVars, basis, resolved, chatReq, lease, memory, resultVars>>

WebSearch ==
  /\ at = "supplement"
  /\ \E p \in {FromWeb(prepared), [prepared EXCEPT !.mode = "rejected"]} : Saves(p)
  /\ UNCHANGED <<chainVars, agentVars, memory, resultVars>>

-----------------------------------------------------------------------------
(* ChatService.Chat and Stream *)

\* validate; without a completed document the answer is there already.
Validate ==
  /\ at = "received" /\ asked.kind # "agent"
  /\ IF docs = {} THEN /\ prepared' = EarlyRefusal(NoCarry)
                       /\ Goto("fallback")
                       /\ UNCHANGED chainVars
     ELSE /\ StartChain(Defaults, asked.kind = "stream")
          /\ Goto("chain")
          /\ UNCHANGED <<prepared, writer, pipe>>
  /\ UNCHANGED <<agentVars, memory, resultVars>>

ValidateFails ==
  /\ at = "received" /\ asked.kind # "agent"
  /\ ErrorReturn

ChatAnswers ==
  /\ at = "chain" /\ asked.kind = "chat" /\ state.node = "done"
  /\ prepared' = FromChain(NoCarry, "")
  /\ Goto("fallback")
  /\ state' = NoState
  /\ UNCHANGED <<writer, pipe, agentVars, memory, resultVars>>

StreamOpens ==
  /\ at = "chain" /\ asked.kind = "stream" /\ state.node = "done"
  /\ Goto("streaming")
  /\ UNCHANGED <<chainVars, agentVars, prepared, memory, resultVars>>

ChainFailsRequest ==
  /\ at = "chain" /\ asked.kind # "agent" /\ state.node = "error"
  /\ ErrorReturn

\* Mutant of StillWithheld: what has been shown stays in the builder.
StillWithheldAll == withheld

\* withheldFallback.Reset after it has been shown.
StillWithheld == << >>

Emit(pieces) == shown' = shown \o pieces

\* Recv of a piece: FallbackAnswer waits for what follows it. The handler
\* takes every event from the unbuffered channel until it is closed.
ReceivePiece ==
  /\ at = "streaming" /\ pipe # << >> /\ Head(pipe) \in Pieces
  /\ pipe' = Tail(pipe)
  /\ IF Head(pipe) = "fallback"
     THEN withheld' = Append(withheld, "fallback") /\ UNCHANGED shown
     ELSE Emit(Append(withheld, Head(pipe))) /\ withheld' = StillWithheld
  /\ UNCHANGED <<state, writer, at, outcome, agentVars, prepared, memory, turn, feedback>>

ReceiveResult ==
  /\ at = "streaming" /\ pipe # << >> /\ Head(pipe) = "prepared"
  /\ pipe' = Tail(pipe)
  /\ prepared' = FromChain(NoCarry, "")
  /\ UNCHANGED <<state, writer, at, outcome, agentVars, memory, resultVars>>

\* The goroutine returns after the error event, as the handler does.
ReceiveError ==
  /\ at = "streaming" /\ pipe # << >> /\ Head(pipe) = "error"
  /\ pipe' = Tail(pipe)
  /\ Fails
  /\ UNCHANGED <<state, writer, agentVars, prepared, memory, resultVars>>

\* io.EOF; a stream without a result would be a refusal.
ReceiveEnd ==
  /\ at = "streaming" /\ pipe = << >> /\ writer.pc = "closed"
  /\ Goto("fallback")
  /\ prepared' = IF prepared.answer = << >> THEN [prepared EXCEPT !.answer = Fallback]
                 ELSE prepared
  /\ state' = NoState
  /\ UNCHANGED <<writer, pipe, agentVars, memory, resultVars>>

\* Mutant of ShouldUseWebFallback: the chunks that were used are not looked at.
ShouldUseWebFallbackAnyway(p) == CanUseWebSearch /\ asked.web /\ p.answer = Fallback

ShouldUseWebFallback(p) ==
  CanUseWebSearch /\ asked.web /\ p.answer = Fallback /\ p.used = << >>

\* applyWebFallback; a web search that fails leaves the refusal.
ApplyWebFallback ==
  /\ at = "fallback"
  /\ \E p \in IF ShouldUseWebFallback(prepared)
               THEN {prepared, [prepared EXCEPT !.answer = <<"web">>, !.web = TRUE]}
               ELSE {prepared} : prepared' = p
  /\ Goto(IF writer.pc = "closed" THEN "flush" ELSE "save")
  /\ UNCHANGED <<chainVars, agentVars, memory, resultVars>>

\* The web's answer, what is still withheld, or an answer nobody has seen.
Flush ==
  /\ at = "flush"
  /\ Goto("save")
  /\ Emit(CASE prepared.web -> prepared.answer
            [] ~prepared.web /\ withheld # << >> -> withheld
            [] ~prepared.web /\ withheld = << >> /\ shown = << >> -> prepared.answer
            [] OTHER -> << >>)
  /\ UNCHANGED <<chainVars, agentVars, prepared, memory, withheld, turn, feedback>>

-----------------------------------------------------------------------------
(* The turn is stored and the request ends *)

\* saveTurn: which of the repositories' transactions stores the log.
Home(carry) ==
  IF carry.fresh THEN "created" ELSE IF carry.token THEN "appended" ELSE "none"

SaveTurn ==
  /\ at = "save"
  /\ LET home == Home(prepared.carry)
     IN /\ home = "appended" => lease
        /\ lease' = (lease /\ home # "appended")
        /\ turn' = [stored |-> TRUE, operation |-> prepared.carry.operation, home |-> home,
                    answer |-> prepared.answer, used |-> prepared.used,
                    web |-> prepared.web, cites |-> prepared.cites, mode |-> prepared.mode]
  /\ IF asked.kind = "agent" THEN Return("answered") ELSE Goto("show")
  /\ UNCHANGED <<chainVars, basis, resolved, chatReq, decision, prepared, memory, withheld,
                 shown, feedback>>

\* The transaction fails, or the lease has expired and is another request's.
SaveFails ==
  /\ at = "save"
  /\ ErrorReturn

\* The response of Chat; of Stream the message it has not sent, sources and done.
Show ==
  /\ at = "show"
  /\ Return("answered")
  /\ Emit(IF writer.pc = "closed" THEN << >> ELSE turn.answer)
  /\ UNCHANGED <<chainVars, agentVars, prepared, memory, withheld, turn, feedback>>

\* The deferred ReleaseProcessingLease, where a token was ever held; its error is
\* dropped. Then the handler responds.
Release ==
  /\ at = "release"
  /\ lease' \in {FALSE, lease}
  /\ at' = outcome
  /\ shown' = IF outcome = "answered" THEN turn.answer ELSE shown
  /\ UNCHANGED <<chainVars, outcome, basis, resolved, chatReq, decision, prepared, memory,
                 withheld, turn, feedback>>

\* SubmitFeedback creates or replaces the row.
SubmitFeedback ==
  /\ at = "answered"
  /\ feedback' \in {"like", "dislike"}
  /\ UNCHANGED <<chainVars, at, outcome, agentVars, prepared, memory, withheld, shown, turn>>

-----------------------------------------------------------------------------
AgentStep ==
  \/ Authorize \/ AuthorizeFails \/ NewConversation \/ AcquireLease \/ AssembleContext
  \/ ResolveConversation \/ ConversationFails \/ AssembleFails \/ ProcessDirective
  \/ DirectiveFails \/ AwaitMemory \/ Plan \/ PlanInContext \/ PlanAfterProbe \/ LookUp
  \/ Probe \/ AsksBack \/ DirectAnswer \/ DirectAnswerFails \/ Recollect
  \/ ConversationAnswer \/ WebSearchDirect \/ Search \/ SearchFails \/ SearchAnswers
  \/ PlanAfterRAG \/ WebSearch \/ Release

ChatStep ==
  \/ Validate \/ ValidateFails \/ ChatAnswers \/ StreamOpens \/ ChainFailsRequest
  \/ ReceivePiece \/ ReceiveResult \/ ReceiveError \/ ReceiveEnd \/ ApplyWebFallback
  \/ Flush \/ SaveTurn \/ SaveFails \/ Show

HandlerStep == (AgentStep \/ ChatStep) /\ UNCHANGED <<docs, request>>

InChain == (ChainStep \/ WriterStep)
             /\ UNCHANGED <<docs, request, at, outcome, agentVars, prepared, memory,
                            resultVars>>

Others == \/ SubmitFeedback /\ UNCHANGED <<docs, request>>
          \/ DocumentChanges /\ UNCHANGED <<chainVars, request, at, outcome, agentVars,
                                            prepared, memory, resultVars>>

Next == HandlerStep \/ InChain \/ MemoryStep \/ Others

Spec == Init /\ [][Next]_vars

\* Every goroutine of the request runs on, and what it calls returns: the handlers
\* put a deadline of 2 or 5 minutes on the context of all calls.
Fairness == WF_vars(HandlerStep) /\ WF_vars(InChain) /\ WF_vars(MemoryStep)

FairSpec == Spec /\ Fairness

-----------------------------------------------------------------------------
(* Properties *)

TypeOK ==
  /\ ChainTypeOK
  /\ config \in Configs /\ asked \in Asked /\ turns \in 0..MaxTurns
  /\ at \in Places /\ outcome \in {"none", "answered", "failed"}
  /\ basis \in {"none", "latest", "clarify", "assembled"}
  /\ resolved \in Carry /\ chatReq \in Carry
  /\ decision \in Decision /\ prepared \in Prepared
  /\ lease \in BOOLEAN /\ memory \in {"off", "running", "ready", "sent"}
  /\ withheld \in Seq({"fallback"}) /\ shown \in Seq(Texts)
  /\ turn \in Turn /\ feedback \in {"none", "like", "dislike"}

\* What is stored has a ground (README.md:231, runConversationAnswer,
\* shouldUseWebFallback): an answer in the model's words was given with chunks of
\* the knowledge base before it, one from the web only where none was used and the
\* web is enabled, one made of earlier answers only from turns that were found.
AnswerHasGround ==
  turn.stored =>
    /\ (\E i \in DOMAIN turn.answer : turn.answer[i] = "text") => turn.used # << >>
    /\ turn.web => turn.used = << >> /\ CanUseWebSearch
    /\ turn.mode = "conversation_answer" => turn.cites # {} /\ turn.cites \subseteq 1..turns
    /\ turn.mode = "rejected" => turn.answer = Fallback /\ turn.used = << >>

\* What a client has been shown when its stream is done is what is stored, the blanks
\* around it aside (Stream withholds pieces, falls back to the web, trims): nothing
\* withheld is lost and nothing is shown twice. Only of a stream of nothing but blanks
\* the client has seen the blanks, and a refusal is stored.
ShownIsStored ==
  at = "answered" =>
    \/ shown = turn.answer
    \/ Trimmed(shown) = turn.answer
    \/ shown # << >> /\ Trimmed(shown) = << >> /\ turn.answer = Fallback

(* The promise *)

Phase == IF at \in {"answered", "failed"} THEN at
         ELSE IF turn.stored THEN "stored" ELSE "open"

Wish == [operation |-> resolved.operation, home |-> Home(resolved)]

StoredTurn == [stored |-> turn.stored, operation |-> turn.operation, home |-> turn.home]

Promise == INSTANCE AnsweredTurn WITH
  Operations <- {"none", "pending"},
  Homes <- {"none", "created", "appended"},
  phase <- Phase, wish <- Wish, turn <- StoredTurn

\* The request keeps the promise of AnsweredTurn (saveTurn, saveAgentResponse): one
\* instant stores the turn, in the conversation it was asked in and with the memory
\* operation that was understood, whichever of the paths led to the answer; after an
\* error nothing is stored.
KeepsPromise == Promise!Spec

\* Every request ends and leaves no goroutine behind (Chat's buffered channel, the
\* pipe's writer, Stream's unbuffered channel).
EndsClean ==
  <>(/\ at \in {"answered", "failed"}
     /\ memory \in {"off", "sent"}
     /\ writer.pc \in {"off", "closed"})
=============================================================================
