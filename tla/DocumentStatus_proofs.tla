------------------------ MODULE DocumentStatus_proofs ------------------------
(***************************************************************************)
(* What consumers may do to the status of a document, with any failures:   *)
(* they never undo a completed index and never revive a withdrawn document; *)
(* a mapping is closed only over a removed document. And what the token is  *)
(* for: the executions of a document that is submitted once exclude each    *)
(* other, a completed document is stored exactly, and the pipeline          *)
(* implements SearchableDocument.                                           *)
(***************************************************************************)
EXTENDS DocumentPipeline_proofs

\* The status changes that are not a client's.
ConsumerMove(from, to) ==
  \/ to = from
  \/ from \in {"pending", "processing"} /\ to = "processing"
  \/ from = "processing" /\ to \in {"completed", "failed"}
  \/ from \in {"processing", "failed"} /\ to \in {"pending", "failed"}
  \/ from \in {"inactive", "deindexing"} /\ to \in {"inactive", "deindexing"}
  \/ to = "gone"

LEMMA IndexMove ==
  ASSUME AttemptsInv, NEW w \in IndexWorkers, IndexStep(w)
  PROVE  ConsumerMove(doc.status, doc'.status)
<1>1. CASE UNCHANGED doc
  BY <1>1 DEF ConsumerMove
<1>2. CASE Claim(w)
  BY <1>2 DEF Claim, Claimable, ConsumerMove
<1>3. CASE FailIndex(w) \/ Complete(w)
  BY <1>3 DEF FailIndex, Complete, HoldsToken, ConsumerMove, AttemptsInv, DocInv,
         DocState
<1>4. CASE RetryIndex(w)
  BY <1>4 DEF RetryIndex, Requeued, ConsumerMove, AttemptsInv, DocInv, DocState
<1>5. CASE \/ \E m \in Msg : FindForIndex(w, m)
           \/ Reread(w) \/ CheckToken(w) \/ WriteRow(w) \/ WriteVector(w)
  BY <1>1, <1>5 DEF FindForIndex, Reread, CheckToken, WriteRow, WriteVector
<1> QED
  BY <1>2, <1>3, <1>4, <1>5 DEF IndexStep

LEMMA DeleteMove ==
  ASSUME AttemptsInv, NEW w \in DeleteWorkers, DeleteStep(w)
  PROVE  ConsumerMove(doc.status, doc'.status)
<1>1. CASE UNCHANGED doc
  BY <1>1 DEF ConsumerMove
<1>2. CASE MarkDeindexing(w) \/ FinishDeindex(w) \/ RetryDelete(w)
  BY <1>2 DEF MarkDeindexing, FinishDeindex, RetryDelete, BackOffline, ConsumerMove,
              AttemptsInv, DocInv, DocState
<1>3. CASE RemoveDocument(w)
  BY <1>3 DEF RemoveDocument, ConsumerMove
<1>4. CASE DeleteObject(w) \/ \E m \in Msg : FindForDelete(w, m)
  BY <1>1, <1>4 DEF FindForDelete, DeleteObject
<1> QED
  BY <1>2, <1>3, <1>4 DEF DeleteStep

LEMMA CommonMove ==
  ASSUME NEW w \in Workers, CommonStep(w) \/ Crash(w) \/ LoseChannel(w)
  PROVE  ConsumerMove(doc.status, doc'.status)
<1>1. UNCHANGED doc
  BY DEF CommonStep, CleanVectors, CleanRows, MarkExternalDone, MarkExternalFailed,
         Publish,
         Ack, Crash, LoseChannel
<1> QED
  BY <1>1 DEF ConsumerMove

\* A client that changes the row takes a step of its own.
LEMMA ClientMove ==
  ASSUME AttemptsInv, NEW c \in Clients, ClientStep(c), client' = client
  PROVE  UNCHANGED doc
<1>1. ASSUME NEW s, client' = [client EXCEPT ![c] = s]
      PROVE  s = client[c]
  BY <1>1 DEF AttemptsInv, ClientInv
<1>2. ASSUME NEW pc, client' = [client EXCEPT ![c].pc = pc]
      PROVE  pc = client[c].pc
  BY <1>2 DEF AttemptsInv, ClientInv, ClientState
<1>3. CASE Upload(c) \/ FirstUpsert(c)
  BY <1>1, <1>3 DEF Upload, FirstUpsert, Create, Call, ClientAt
<1>4. CASE UpdateStatus(c)
  <2>1. CASE Rest(c)
    BY <1>1, <1>4, <2>1 DEF UpdateStatus, Rest, Resting
  <2>2. CASE ~Rest(c)
    <3>1. PICK pc \in {"map", "publish"} : client' = [client EXCEPT ![c].pc = pc]
      BY <1>4, <2>2 DEF UpdateStatus
    <3>2. client[c].pc = "update"
      BY <1>4 DEF UpdateStatus
    <3> QED
      BY <1>2, <3>1, <3>2
  <2> QED
    BY <2>1, <2>2
<1>5. CASE UndoPublish(c)
  <2>1. client[c].pc = "undo" /\ Rest(c)
    BY <1>5 DEF UndoPublish
  <2>2. client[c] = Resting
    BY <1>1, <2>1 DEF Rest
  <2> QED
    BY <2>1, <2>2 DEF Resting
<1>6. CASE \/ Delete(c) \/ Reindex(c) \/ Upsert(c) \/ Missing(c) \/ MissingFound(c)
           \/ SaveMapping(c) \/ PublishTask(c) \/ ClientStops(c)
  BY <1>6 DEF Delete, Reindex, Upsert, Missing, MissingFound, SaveMapping, PublishTask,
              ClientStops
<1> QED
  BY <1>3, <1>4, <1>5, <1>6 DEF ClientStep

LEMMA StatusMove ==
  ASSUME AttemptsInv, [Next]_vars, client' = client
  PROVE  ConsumerMove(doc.status, doc'.status)
<1>1. CASE \/ \E c \in Clients : ClientStep(c)
           \/ \E m \in Msg : RetryDelayExpires(m)
           \/ UNCHANGED vars
  <2>1. UNCHANGED doc
    BY <1>1, ClientMove DEF RetryDelayExpires, vars
  <2> QED
    BY <2>1 DEF ConsumerMove
<1>2. CASE LeaseExpires \/ LeaseOutrun
  BY <1>2 DEF LeaseExpires, LeaseOutrun, LeaseRunsOut, ConsumerMove, AttemptsInv,
         DocInv,
              DocState
<1> QED
  BY <1>1, <1>2, IndexMove, DeleteMove, CommonMove DEF Next

\* A completed document is only taken back to the queue by a client; whatever
\* consumers do, it stays completed or is removed by a deletion under way.
THEOREM CompletedIsKept == Spec => ConsumersKeepCompleted
<1>1. AttemptsInv /\ [Next]_vars =>
        [doc.status = "completed" /\ client' = client =>
           doc'.status \in {"completed", "gone"}]_vars
  BY StatusMove DEF ConsumerMove
<1> QED
  BY <1>1, AttemptsInvariant, PTL DEF Spec, ConsumersKeepCompleted

\* A withdrawn document is only brought back by a client: no execution still
\* running, no redelivered, late or retried message revives it.
THEOREM WithdrawnIsFinal == Spec => WithdrawnStays
<1>1. AttemptsInv /\ [Next]_vars =>
        [doc.status \in Withdrawn /\ client' = client => doc'.status \in Withdrawn]_vars
  BY StatusMove DEF ConsumerMove, Withdrawn
<1> QED
  BY <1>1, AttemptsInvariant, PTL DEF Spec, WithdrawnStays

-----------------------------------------------------------------------------
(* A document that is submitted once: nothing but its upload makes it pending. *)
(* Reindex and the sync's upsert overwrite the row whatever it has become since *)
(* they read it, so they may hand out a second token while the first still runs.*)

SubmittedOnce == Ops \cap {"reindex", "upsert"} = {}

\* An execution that has the token, up to its last statement under it.
Building == {"check", "vclean", "rclean", "row", "vec", "fail", "complete"}

\* A document on its way out: nobody brings it back.
Ended == {"deleting", "gone"}

Cleaning == {"vclean", "rclean", "object", "remove"}

\* What submitting the document once leaves out of the model's state space: there
\* is no remote page, and nothing is taken offline.
OnceClient(c) ==
  client[c].pc # "idle" =>
    /\ ~client[c].msg.ext
    /\ \/ client[c].msg.kind = "index" /\ client[c].pc \in {"publish", "undo"}
       \/ client[c].msg.kind = "delete" /\ client[c].pc \in {"update", "publish"}

OnceWorker(w) ==
  /\ worker[w].pc = "idle" => worker[w] = Idle
  /\ ~worker[w].msg.ext
  /\ w \in IndexWorkers => worker[w].msg.kind = "index"
  /\ w \in DeleteWorkers /\ worker[w].pc # "idle" =>
       /\ worker[w].msg.kind = "delete"
       /\ worker[w].pc \notin {"mark", "offline"}
  /\ w \in DeleteWorkers /\ worker[w].pc \in Cleaning => doc.status \in Ended

OnceInv ==
  /\ ext.status = "none"
  /\ doc.status \notin {"inactive", "deindexing"}
  /\ \A m \in Msg : Waiting(m) => ~m.ext /\ m.kind # "deindex"
  /\ \A c \in Clients : OnceClient(c)
  /\ \A w \in Workers : OnceWorker(w)

\* Until the upload has published its message, or has given up, nothing has
\* happened to the document: that is why it may write "failed" then.
Untouched ==
  /\ doc.status \in {"none", "pending"} /\ doc.task = 0 /\ nextTask = 0
  /\ \A m \in Msg : m.kind = "index" => ~Waiting(m)
  /\ \A w \in IndexWorkers : worker[w].pc = "idle"
  /\ \A c \in Clients : client[c].pc # "update"

FreshInv ==
  /\ \A c, d \in Clients : Submitting(c) /\ Submitting(d) => c = d
  /\ doc.status = "none" => Untouched /\ \A c \in Clients : ~Submitting(c)
  /\ (\E c \in Clients : Submitting(c)) => Untouched

\* The token: it is fresh, one execution has it, and as long as that execution is
\* building the lease is live, unless the document is being deleted.
TokenInv ==
  /\ doc.task <= nextTask
  /\ doc.status = "processing" => doc.task # 0
  /\ \A w \in IndexWorkers : worker[w].task <= nextTask
  /\ doc.status = "processing" =>
       \A v, w \in IndexWorkers :
         worker[v].task = doc.task /\ worker[w].task = doc.task => v = w
  /\ \A v, w \in IndexWorkers :
       worker[v].pc \in Building /\ worker[w].pc \in Building => v = w
  /\ \A w \in IndexWorkers : worker[w].pc \in Building =>
       (HoldsToken(w) /\ doc.lease = "live") \/ doc.status \in Ended

\* The first n chunks of the build of one execution.
Build(task, n) == {task} \X (1..n)

\* How far the stores are with the build of the execution that holds the token.
BuildSoFar(w) ==
  /\ worker[w].pc = "rclean" => vectors = {}
  /\ worker[w].pc \in {"row", "complete"} => /\ rows = Build(worker[w].task, worker[w].n)
                                             /\ vectors = rows
  /\ worker[w].pc = "vec" => /\ rows = Build(worker[w].task, worker[w].n + 1)
                             /\ vectors = Build(worker[w].task, worker[w].n)

ChunkCount(w) ==
  /\ worker[w].pc \in {"claim", "reread", "check", "vclean", "rclean"} => worker[w].n = 0
  /\ worker[w].pc \in {"row", "vec"} => worker[w].n < NumChunks
  /\ worker[w].pc = "complete" => worker[w].n = NumChunks /\ NumChunks # 0

\* A document without text is never completed (Indexer.Index fails on no chunks).
CompletedBuild == CompletedExact /\ (doc.status = "completed" => NumChunks # 0)

BuildInv ==
  /\ \A w \in IndexWorkers : ChunkCount(w)
  /\ \A w \in IndexWorkers : HoldsToken(w) => BuildSoFar(w)
  /\ CompletedBuild

OnceInvs == AttemptsInv /\ OnceInv /\ FreshInv

-----------------------------------------------------------------------------
(* What a step of one consumer does to its own state *)

Others(w) == \A v \in Workers \ {w} : worker'[v] = worker[v]

LEMMA WorkerType ==
  ASSUME AttemptsInv, NEW w \in Workers
  PROVE  worker[w] \in WorkerState /\ worker \in [Workers -> WorkerState]
BY DEF AttemptsInv, WorkerInv

LEMMA GotoFields ==
  ASSUME AttemptsInv, NEW w \in Workers, NEW pc, Goto(w, pc)
  PROVE  /\ Others(w)
         /\ worker'[w].pc = pc
         /\ worker'[w].msg = worker[w].msg /\ worker'[w].held = worker[w].held
         /\ worker'[w].task = worker[w].task /\ worker'[w].n = worker[w].n
BY WorkerType DEF WorkerState, Goto, Others

LEMMA SendFields ==
  ASSUME AttemptsInv, NEW w \in Workers, NEW to, NEW attempt, Send(w, to, attempt)
  PROVE  /\ Others(w)
         /\ worker'[w].pc = "publish"
         /\ worker'[w].msg = worker[w].msg /\ worker'[w].held = worker[w].held
         /\ worker'[w].task = worker[w].task /\ worker'[w].n = worker[w].n
BY WorkerType DEF WorkerState, Send, Others

LEMMA IdleFields ==
  ASSUME AttemptsInv, NEW w \in Workers, worker' = [worker EXCEPT ![w] = Idle]
  PROVE  /\ Others(w) /\ worker'[w] = Idle
         /\ worker'[w].pc = "idle" /\ worker'[w].task = 0 /\ worker'[w].n = 0
BY WorkerType DEF Idle, Others

LEMMA ReceiveFields ==
  ASSUME AttemptsInv, NEW w \in Workers, NEW m \in Msg, NEW s \in WorkerState,
         Receive(w, m, s)
  PROVE  /\ Others(w)
         /\ worker[w].pc = "idle" /\ main[m] > 0 /\ worker'[w].msg = m
         /\ worker'[w].pc = s.pc /\ worker'[w].task = s.task /\ worker'[w].n = s.n
<1>1. worker'[w] = [s EXCEPT !.msg = m, !.held = TRUE]
  BY WorkerType DEF Receive
<1>2. [s EXCEPT !.msg = m, !.held = TRUE].pc = s.pc
  BY DEF WorkerState
<1> QED
  BY <1>1, <1>2, WorkerType DEF Receive, Others, WorkerState

LEMMA LoseFields ==
  ASSUME AttemptsInv, NEW w \in Workers, LoseChannel(w)
  PROVE  /\ Others(w)
         /\ worker'[w].pc = worker[w].pc /\ worker'[w].msg = worker[w].msg
         /\ worker'[w].task = worker[w].task /\ worker'[w].n = worker[w].n
BY WorkerType DEF WorkerState, LoseChannel, Others

\* What the first SELECT can decide.
LEMMA RoutedCases ==
  ASSUME AttemptsInv, NEW m \in Msg, main[m] > 0
  PROVE  /\ Routed(m) \in WorkerState
         /\ Routed(m).n = 0
         /\ Routed(m).pc \in {"ack", "extdone", "publish", "retry", "claim"}
         /\ Routed(m).task = 0 \/ (doc.status = "failed" /\ Routed(m).task = doc.task)
<1>1. Routed(m) \in WorkerState
  BY RoutedSound DEF AttemptsInv, QueueInv, Sound
<1> DEFINE a == Larger(m.attempt, doc.attempt)
<1>2. Idle.n = 0 /\ Idle.task = 0
  BY DEF Idle
<1> HIDE DEF a
<1>3. \A pc : LET s == [Idle EXCEPT !.pc = pc, !.attempt = a]
              IN s.n = 0 /\ s.task = 0 /\ s.pc = pc
  BY DEF Idle
<1>4. LET s == [Idle EXCEPT !.pc = "publish", !.attempt = a, !.to = "dlq"]
      IN s.n = 0 /\ s.task = 0 /\ s.pc = "publish"
  BY DEF Idle
<1>5. LET s == [Idle EXCEPT !.pc = "retry", !.attempt = a, !.task = doc.task]
      IN s.n = 0 /\ s.task = doc.task /\ s.pc = "retry"
  BY DEF Idle
<1>6. \/ \E pc \in {"ack", "extdone", "claim"} :
            Routed(m) = [Idle EXCEPT !.pc = pc, !.attempt = a]
      \/ Routed(m) = [Idle EXCEPT !.pc = "publish", !.attempt = a, !.to = "dlq"]
      \/ /\ doc.status = "failed"
         /\ Routed(m) = [Idle EXCEPT !.pc = "retry", !.attempt = a, !.task = doc.task]
  <2>1. doc.status = "failed" => a > MaxRetries \/ a <= MaxRetries
    BY MsgFields, BoundsAssumption DEF AttemptsInv, DocInv, DocState, Larger, a
  <2>2. /\ [[Idle EXCEPT !.pc = "publish", !.attempt = a] EXCEPT !.to = "dlq"]
             = [Idle EXCEPT !.pc = "publish", !.attempt = a, !.to = "dlq"]
        /\ [[Idle EXCEPT !.pc = "retry", !.attempt = a] EXCEPT !.task = doc.task]
             = [Idle EXCEPT !.pc = "retry", !.attempt = a, !.task = doc.task]
    BY DEF Idle
  <2>3. CASE doc.status = "failed"
    BY <2>1, <2>2, <2>3 DEF Routed, a, Absent
  <2>4. CASE doc.status = "completed"
    BY <2>4 DEF Routed, a, Done, Absent
  <2>5. CASE doc.status \notin {"failed", "completed"}
    BY <2>5 DEF Routed, a, Absent
  <2> QED
    BY <2>3, <2>4, <2>5
<1> QED
  BY <1>1, <1>3, <1>4, <1>5, <1>6

-----------------------------------------------------------------------------
(* The five things a step of an index consumer can be, for token and stores *)

\* It is not building, or stops to.
Drops(w) ==
  /\ UNCHANGED <<doc, rows, vectors, nextTask>>
  /\ worker'[w].pc \notin Building
  /\ \/ worker'[w].task \in {0, worker[w].task}
     \/ doc.status = "failed" /\ worker'[w].task = doc.task
  /\ worker'[w].pc \in {"claim", "reread"} =>
       \/ worker'[w].n = 0
       \/ worker[w].pc \in {"claim", "reread"} /\ worker'[w].n = worker[w].n

\* It takes a fresh token.
Claims(w) ==
  /\ Claimable /\ worker[w].pc = "claim"
  /\ UNCHANGED <<rows, vectors>>
  /\ nextTask' = nextTask + 1
  /\ doc'.status = "processing" /\ doc'.task = nextTask' /\ doc'.lease = "live"
  /\ worker'[w].pc = "check" /\ worker'[w].task = nextTask'
  /\ worker'[w].n = worker[w].n

\* It goes on with the build under its token.
Builds(w) ==
  /\ UNCHANGED <<doc, nextTask>>
  /\ worker[w].pc \in Building /\ worker'[w].task = worker[w].task
  /\ \/ /\ worker'[w].pc \in {worker[w].pc, "fail"} /\ worker'[w].n = worker[w].n
        /\ UNCHANGED <<rows, vectors>>
     \/ /\ worker[w].pc = "check" /\ worker'[w].pc = "vclean"
        /\ worker'[w].n = worker[w].n /\ UNCHANGED <<rows, vectors>>
     \/ /\ worker[w].pc = "vclean" /\ worker'[w].pc = "rclean"
        /\ worker'[w].n = worker[w].n /\ vectors' = {} /\ UNCHANGED rows
     \/ /\ worker[w].pc = "rclean" /\ worker'[w].pc = "row" /\ NumChunks # 0
        /\ worker'[w].n = worker[w].n /\ rows' = {} /\ UNCHANGED vectors
     \/ /\ worker[w].pc = "rclean" /\ worker'[w].pc = "fail"
        /\ worker'[w].n = worker[w].n /\ rows' = {} /\ UNCHANGED vectors
     \/ /\ worker[w].pc = "row" /\ worker'[w].pc = "vec"
        /\ worker'[w].n = worker[w].n
        /\ rows' = rows \cup {Chunk(w)} /\ UNCHANGED vectors
     \/ /\ worker[w].pc = "vec" /\ worker'[w].n = worker[w].n + 1
        /\ worker'[w].pc = IF worker[w].n + 1 = NumChunks THEN "complete" ELSE "row"
        /\ vectors' = vectors \cup {Chunk(w)} /\ UNCHANGED rows

\* It says under its token how the build ended.
Ends(w) ==
  /\ HoldsToken(w) /\ UNCHANGED <<rows, vectors, nextTask>>
  /\ \/ worker[w].pc = "fail" /\ doc'.status = "failed"
     \/ worker[w].pc = "complete" /\ doc'.status = "completed"
  /\ doc'.task = doc.task
  /\ worker'[w].pc \in {"retry", "ack", "extdone"} /\ worker'[w].task = worker[w].task

\* It gives the row back under its token.
Requeues(w) ==
  /\ UNCHANGED <<rows, vectors, nextTask>>
  /\ worker[w].pc = "retry"
  /\ doc.status \in {"processing", "failed"} /\ doc.task = worker[w].task
  /\ doc'.status \in {"pending", "failed"} /\ doc'.task = doc.task
  /\ worker'[w].pc \in {"publish", "extfail"} /\ worker'[w].task = worker[w].task

IndexMoves(w) ==
  Others(w) /\ (Drops(w) \/ Claims(w) \/ Builds(w) \/ Ends(w) \/ Requeues(w))

LEMMA MovesFindForIndex ==
  ASSUME AttemptsInv, NEW w \in IndexWorkers, NEW m \in Msg, FindForIndex(w, m)
  PROVE  IndexMoves(w)
<1> w \in Workers
  BY DEF Workers
<1>1. main[m] > 0 /\ UNCHANGED <<doc, rows, vectors, nextTask>>
  BY DEF FindForIndex, Receive, stores
<1>2. CASE Receive(w, m, Routed(m))
  BY <1>1, <1>2, RoutedCases, ReceiveFields DEF IndexMoves, Drops, Building
<1>3. CASE Receive(w, m, [Idle EXCEPT !.pc = "retry", !.attempt = m.attempt])
  <2> DEFINE s == [Idle EXCEPT !.pc = "retry", !.attempt = m.attempt]
  <2>1. s \in WorkerState /\ s.task = 0 /\ s.n = 0 /\ s.pc = "retry"
    BY IdleSound, MsgFields DEF Idle, Sound, WorkerState, WorkerPCs
  <2>2. Receive(w, m, s)
    BY <1>3
  <2> HIDE DEF s
  <2>3. /\ Others(w) /\ worker'[w].pc = "retry" /\ worker'[w].task = 0
    BY <2>1, <2>2, ReceiveFields
  <2> QED
    BY <1>1, <2>3 DEF IndexMoves, Drops, Building
<1> QED
  BY <1>2, <1>3 DEF FindForIndex

LEMMA MovesClaim ==
  ASSUME AttemptsInv, NEW w \in IndexWorkers, Claim(w)
  PROVE  IndexMoves(w)
<1> w \in Workers
  BY DEF Workers
<1>1. worker[w].pc = "claim" /\ UNCHANGED <<rows, vectors>>
  BY DEF Claim, stores
<1>2. CASE (Goto(w, "reread") \/ Goto(w, "retry")) /\ UNCHANGED <<doc, nextTask>>
  BY <1>1, <1>2, GotoFields DEF IndexMoves, Drops, Building
<1>3. CASE /\ Claimable /\ nextTask' = nextTask + 1
           /\ doc' = [status |-> "processing", task |-> nextTask',
                      attempt |-> worker[w].attempt, lease |-> "live"]
           /\ worker' = [worker EXCEPT ![w].pc = "check", ![w].task = nextTask']
  <2>1. /\ Others(w) /\ worker'[w].pc = "check" /\ worker'[w].task = nextTask'
        /\ worker'[w].n = worker[w].n
    BY <1>3, WorkerType DEF Others, WorkerState
  <2>2. doc'.status = "processing" /\ doc'.task = nextTask' /\ doc'.lease = "live"
    BY <1>3
  <2>3. Claimable /\ nextTask' = nextTask + 1
    BY <1>3
  <2> QED
    BY <1>1, <2>1, <2>2, <2>3 DEF IndexMoves, Claims
<1> QED
  BY <1>2, <1>3 DEF Claim

LEMMA MovesReread ==
  ASSUME AttemptsInv, NEW w \in IndexWorkers, Reread(w)
  PROVE  IndexMoves(w)
<1> w \in Workers
  BY DEF Workers
<1>1. UNCHANGED <<doc, rows, vectors, nextTask>>
  BY DEF Reread, stores
<1>2. \/ \E to, a : Send(w, to, a)
      \/ \E pc \in {"extdone", "ack", "retry"} : Goto(w, pc)
  BY DEF Reread, Done
<1> QED
  BY <1>1, <1>2, GotoFields, SendFields DEF IndexMoves, Drops, Building

LEMMA MovesCheckToken ==
  ASSUME AttemptsInv, NEW w \in IndexWorkers, CheckToken(w)
  PROVE  IndexMoves(w)
<1> w \in Workers
  BY DEF Workers
<1>1. UNCHANGED <<doc, rows, vectors, nextTask>> /\ worker[w].pc = "check"
  BY DEF CheckToken, stores
<1>2. CASE Goto(w, "vclean")
  <2>1. Builds(w)
    BY <1>1, <1>2, GotoFields DEF Builds, Building
  <2> QED
    BY <1>2, <2>1, GotoFields DEF IndexMoves
<1>3. CASE Goto(w, "retry") \/ \E to, a : Send(w, to, a)
  BY <1>1, <1>3, GotoFields, SendFields DEF IndexMoves, Drops, Building
<1> QED
  BY <1>2, <1>3 DEF CheckToken, LeaseLost

LEMMA MovesWriteRow ==
  ASSUME AttemptsInv, NEW w \in IndexWorkers, WriteRow(w)
  PROVE  IndexMoves(w)
<1> w \in Workers
  BY DEF Workers
<1>1. UNCHANGED <<doc, vectors, nextTask>> /\ worker[w].pc = "row"
  BY DEF WriteRow
<1>2. \/ rows' = rows \cup {Chunk(w)} /\ Goto(w, "vec")
      \/ rows' = rows /\ Goto(w, "fail")
  BY DEF WriteRow
<1>3. Builds(w)
  BY <1>1, <1>2, GotoFields DEF Builds, Building
<1> QED
  BY <1>2, <1>3, GotoFields DEF IndexMoves

LEMMA MovesWriteVector ==
  ASSUME AttemptsInv, NEW w \in IndexWorkers, WriteVector(w)
  PROVE  IndexMoves(w)
<1> w \in Workers
  BY DEF Workers
<1>1. UNCHANGED <<doc, rows, nextTask>> /\ worker[w].pc = "vec"
  BY DEF WriteVector
<1> DEFINE pc == IF worker[w].n + 1 = NumChunks THEN "complete" ELSE "row"
<1>2. CASE /\ vectors' = vectors \cup {Chunk(w)}
           /\ worker' = [worker EXCEPT ![w].n = @ + 1, ![w].pc = pc]
  <2>1. /\ Others(w) /\ worker'[w].pc = pc /\ worker'[w].n = worker[w].n + 1
        /\ worker'[w].task = worker[w].task
    BY <1>2, WorkerType DEF Others, WorkerState
  <2>2. Builds(w)
    BY <1>1, <1>2, <2>1 DEF Builds, Building
  <2> QED
    BY <2>1, <2>2 DEF IndexMoves
<1>3. CASE Goto(w, "fail") /\ UNCHANGED vectors
  <2>1. Builds(w)
    BY <1>1, <1>3, GotoFields DEF Builds, Building
  <2> QED
    BY <1>3, <2>1, GotoFields DEF IndexMoves
<1> QED
  BY <1>2, <1>3 DEF WriteVector

LEMMA MovesFailIndex ==
  ASSUME AttemptsInv, NEW w \in IndexWorkers, FailIndex(w)
  PROVE  IndexMoves(w)
<1> w \in Workers
  BY DEF Workers
<1>1. UNCHANGED <<rows, vectors, nextTask>> /\ worker[w].pc = "fail"
  BY DEF FailIndex, stores
<1>2. CASE UNCHANGED doc /\ (Goto(w, "retry") \/ \E to, a : Send(w, to, a))
  BY <1>1, <1>2, GotoFields, SendFields DEF IndexMoves, Drops, Building
<1>3. CASE /\ HoldsToken(w) /\ Goto(w, "retry")
           /\ doc' = [doc EXCEPT !.status = "failed", !.lease = "none"]
  <2>1. doc'.status = "failed" /\ doc'.task = doc.task
    BY <1>3 DEF AttemptsInv, DocInv, DocState
  <2>2. Ends(w)
    BY <1>1, <1>3, <2>1, GotoFields DEF Ends
  <2> QED
    BY <1>3, <2>2, GotoFields DEF IndexMoves
<1> QED
  BY <1>2, <1>3 DEF FailIndex, LeaseLost

LEMMA MovesComplete ==
  ASSUME AttemptsInv, NEW w \in IndexWorkers, Complete(w)
  PROVE  IndexMoves(w)
<1> w \in Workers
  BY DEF Workers
<1>1. UNCHANGED <<rows, vectors, nextTask>> /\ worker[w].pc = "complete"
  BY DEF Complete, stores
<1>2. CASE UNCHANGED doc /\ (Goto(w, "retry") \/ \E to, a : Send(w, to, a))
  BY <1>1, <1>2, GotoFields, SendFields DEF IndexMoves, Drops, Building
<1>3. CASE /\ HoldsToken(w) /\ Goto(w, Done(worker[w].msg))
           /\ doc' = [doc EXCEPT !.status = "completed", !.lease = "none"]
  <2>1. doc'.status = "completed" /\ doc'.task = doc.task
    BY <1>3 DEF AttemptsInv, DocInv, DocState
  <2>2. Ends(w)
    BY <1>1, <1>3, <2>1, GotoFields DEF Ends, Done
  <2> QED
    BY <1>3, <2>2, GotoFields DEF IndexMoves
<1> QED
  BY <1>2, <1>3 DEF Complete, LeaseLost

LEMMA MovesRetryIndex ==
  ASSUME AttemptsInv, NEW w \in IndexWorkers, RetryIndex(w)
  PROVE  IndexMoves(w)
<1> w \in Workers
  BY DEF Workers
<1>1. UNCHANGED <<rows, vectors, nextTask>> /\ worker[w].pc = "retry"
  BY DEF RetryIndex, stores
<1>2. CASE worker' = [worker EXCEPT ![w] = Idle] /\ UNCHANGED doc
  BY <1>1, <1>2, IdleFields DEF IndexMoves, Drops, Building
<1> DEFINE next == worker[w].attempt + 1
<1>3. CASE /\ doc' = Requeued(w)
           /\ worker' = [worker EXCEPT
                ![w].pc = IF worker[w].msg.ext THEN "extfail" ELSE "publish",
                ![w].to = RetryQueue(next), ![w].attempt = next]
  <2>1. /\ Others(w) /\ worker'[w].pc \in {"publish", "extfail"}
        /\ worker'[w].task = worker[w].task
    BY <1>3, WorkerType DEF Others, WorkerState
  <2>2. CASE doc.status \in {"processing", "failed"} /\ doc.task = worker[w].task
    <3>1. doc'.status \in {"pending", "failed"} /\ doc'.task = doc.task
      BY <1>3, <2>2 DEF Requeued, AttemptsInv, DocInv, DocState
    <3> QED
      BY <1>1, <2>1, <2>2, <3>1 DEF IndexMoves, Requeues
  <2>3. CASE ~(doc.status \in {"processing", "failed"} /\ doc.task = worker[w].task)
    <3>1. doc' = doc
      BY <1>3, <2>3 DEF Requeued
    <3> QED
      BY <1>1, <2>1, <3>1 DEF IndexMoves, Drops, Building
  <2> QED
    BY <2>2, <2>3
<1> QED
  BY <1>2, <1>3 DEF RetryIndex

LEMMA MovesCommon ==
  ASSUME AttemptsInv, NEW w \in IndexWorkers, worker[w].msg.kind = "index",
         CommonStep(w) \/ Crash(w) \/ LoseChannel(w)
  PROVE  IndexMoves(w)
<1> w \in Workers
  BY DEF Workers
<1>1. CASE CleanVectors(w)
  <2>1. \/ Goto(w, "rclean") /\ vectors' = {}
        \/ Goto(w, "fail") /\ UNCHANGED vectors
    BY <1>1 DEF CleanVectors, StoreError
  <2>2. Builds(w)
    BY <1>1, <2>1, GotoFields DEF CleanVectors, Builds, Building
  <2> QED
    BY <2>1, <2>2, GotoFields DEF IndexMoves
<1>2. CASE CleanRows(w)
  <2>1. \/ Goto(w, "row") /\ rows' = {} /\ NumChunks # 0
        \/ Goto(w, "fail") /\ rows' = {}
        \/ Goto(w, "fail") /\ UNCHANGED rows
    BY <1>2 DEF CleanRows, StoreError, AfterClean
  <2>2. Builds(w)
    BY <1>2, <2>1, GotoFields DEF CleanRows, Builds, Building
  <2> QED
    BY <2>1, <2>2, GotoFields DEF IndexMoves
<1>3. CASE MarkExternalDone(w) \/ MarkExternalFailed(w)
  <2>1. \E pc \in {"ack", "retry", "publish", "extfail"} : Goto(w, pc)
    BY <1>3 DEF MarkExternalDone, MarkExternalFailed
  <2>2. UNCHANGED <<doc, rows, vectors, nextTask>>
    BY <1>3 DEF MarkExternalDone, MarkExternalFailed, stores
  <2> QED
    BY <2>1, <2>2, GotoFields DEF IndexMoves, Drops, Building
<1>4. CASE Publish(w) \/ Ack(w) \/ Crash(w)
  <2>1. Goto(w, "ack") \/ worker' = [worker EXCEPT ![w] = Idle]
    BY <1>4 DEF Publish, Ack, Crash
  <2>2. UNCHANGED <<doc, rows, vectors, nextTask>>
    BY <1>4 DEF Publish, Ack, Crash, stores
  <2> QED
    BY <2>1, <2>2, GotoFields, IdleFields DEF IndexMoves, Drops, Building
<1>5. CASE LoseChannel(w)
  <2>1. UNCHANGED <<doc, rows, vectors, nextTask>>
    BY <1>5 DEF LoseChannel, stores
  <2>2. CASE worker[w].pc \in Building
    <3>1. Builds(w)
      BY <1>5, <2>1, <2>2, LoseFields DEF Builds
    <3> QED
      BY <1>5, <3>1, LoseFields DEF IndexMoves
  <2>3. CASE worker[w].pc \notin Building
    BY <1>5, <2>1, <2>3, LoseFields DEF IndexMoves, Drops
  <2> QED
    BY <2>2, <2>3
<1> QED
  BY <1>1, <1>2, <1>3, <1>4, <1>5 DEF CommonStep

LEMMA MovesIndex ==
  ASSUME AttemptsInv, NEW w \in IndexWorkers, worker[w].msg.kind = "index",
         IndexStep(w) \/ CommonStep(w) \/ Crash(w) \/ LoseChannel(w)
  PROVE  IndexMoves(w)
BY MovesFindForIndex, MovesClaim, MovesReread, MovesCheckToken, MovesWriteRow,
   MovesWriteVector, MovesFailIndex, MovesComplete, MovesRetryIndex, MovesCommon
   DEF IndexStep

-----------------------------------------------------------------------------
(* What the other processes can be for the row and the stores *)

LEMMA DeleteOnce ==
  ASSUME AttemptsInv, OnceInv, NEW w \in DeleteWorkers,
         DeleteStep(w) \/ CommonStep(w) \/ Crash(w) \/ LoseChannel(w)
  PROVE  /\ Others(w) /\ nextTask' = nextTask
         /\ \/ doc' = doc
            \/ doc.status \in Ended /\ doc'.status = "gone" /\ doc'.task = 0
         /\ UNCHANGED <<rows, vectors>> \/ doc.status \in Ended
<1> w \in Workers
  BY DEF Workers
<1>1. /\ worker[w].pc # "idle" => worker[w].msg.kind = "delete"
      /\ worker[w].pc \notin {"mark", "offline"}
      /\ worker[w].pc \in Cleaning => doc.status \in Ended
      /\ doc.status # "deindexing"
  BY DEF OnceInv, OnceWorker, Idle
<1>2. CASE \E m \in Msg : FindForDelete(w, m)
  BY <1>2, WorkerType DEF FindForDelete, Receive, Others, stores
<1>3. CASE RetryDelete(w)
  BY <1>1, <1>3, SendFields DEF RetryDelete, BackOffline, stores
<1>4. CASE DeleteObject(w)
  BY <1>4, GotoFields DEF DeleteObject
<1>5. CASE RemoveDocument(w)
  BY <1>1, <1>5, GotoFields DEF RemoveDocument, Cleaning, stores
<1>6. CASE CleanVectors(w)
  BY <1>1, <1>6, GotoFields DEF CleanVectors, Cleaning
<1>7. CASE CleanRows(w)
  BY <1>1, <1>7, GotoFields DEF CleanRows, Cleaning
<1>8. CASE MarkExternalDone(w) \/ MarkExternalFailed(w)
  <2>1. \E pc : Goto(w, pc)
    BY <1>8 DEF MarkExternalDone, MarkExternalFailed
  <2> QED
    BY <1>8, <2>1, GotoFields DEF MarkExternalDone, MarkExternalFailed, stores
<1>9. CASE Publish(w) \/ Ack(w) \/ Crash(w)
  <2>1. Goto(w, "ack") \/ worker' = [worker EXCEPT ![w] = Idle]
    BY <1>9 DEF Publish, Ack, Crash
  <2> QED
    BY <1>9, <2>1, GotoFields, IdleFields DEF Publish, Ack, Crash, stores
<1>10. CASE LoseChannel(w)
  BY <1>10, LoseFields DEF LoseChannel, stores
<1>11. ~MarkDeindexing(w) /\ ~FinishDeindex(w)
  BY <1>1 DEF MarkDeindexing, FinishDeindex
<1> QED
  BY <1>2, <1>3, <1>4, <1>5, <1>6, <1>7, <1>8, <1>9, <1>10, <1>11
     DEF DeleteStep, CommonStep

\* The statements of a client that change the row.
ClientMoves ==
  /\ UNCHANGED <<worker, rows, vectors, nextTask>>
  /\ \/ doc' = doc
     \/ doc.status = "none" /\ doc'.status = "pending" /\ doc'.task = doc.task
     \/ ~Absent /\ doc'.status = "deleting" /\ doc'.task = doc.task
     \/ /\ Untouched /\ doc.status = "pending"
        /\ doc'.status = "failed" /\ doc'.task = doc.task

LEMMA ClientOnce ==
  ASSUME SubmittedOnce, OnceInvs, NEW c \in Clients, ClientStep(c)
  PROVE  ClientMoves
<1> USE DEF OnceInvs
<1>1. UNCHANGED <<worker, rows, vectors, nextTask>>
  BY DEF ClientStep, Upload, FirstUpsert, Create, Delete, Reindex, Upsert, Missing,
         MissingFound, UpdateStatus, SaveMapping, PublishTask, UndoPublish, ClientStops,
         stores
<1>2. ~FirstUpsert(c) /\ ~Reindex(c) /\ ~Upsert(c)
  BY DEF SubmittedOnce, FirstUpsert, Create, Reindex, Upsert, Call
<1>3. CASE Upload(c)
  BY <1>1, <1>3 DEF Upload, Create, ClientMoves, AttemptsInv, DocInv, DocState
<1>4. CASE UpdateStatus(c)
  <2>1. client[c].msg.kind = "delete"
    BY <1>4 DEF UpdateStatus, OnceInv, OnceClient
  <2>2. doc' = doc \/ (~Absent /\ doc' = [doc EXCEPT !.status = "deleting", !.lease = "none"])
    BY <1>4, <2>1 DEF UpdateStatus, Reset
  <2> QED
    BY <1>1, <2>2 DEF ClientMoves, AttemptsInv, DocInv, DocState
<1>5. CASE UndoPublish(c)
  <2>1. CASE client[c].msg.kind = "index"
    <3>1. Untouched /\ doc.status = "pending"
      BY <1>5, <2>1 DEF UndoPublish, FreshInv, Submitting, Untouched
    <3> QED
      BY <1>1, <1>5, <3>1 DEF UndoPublish, ClientMoves, AttemptsInv, DocInv, DocState
  <2>2. CASE client[c].msg.kind # "index"
    BY <1>1, <1>5, <2>2 DEF UndoPublish, ClientMoves
  <2> QED
    BY <2>1, <2>2
<1>6. CASE \/ Delete(c) \/ Missing(c) \/ MissingFound(c) \/ SaveMapping(c)
           \/ PublishTask(c) \/ ClientStops(c)
  BY <1>1, <1>6 DEF Delete, Missing, MissingFound, SaveMapping, PublishTask,
                    ClientStops, ClientMoves
<1> QED
  BY <1>2, <1>3, <1>4, <1>5, <1>6 DEF ClientStep

\* Time. The lease runs out only on an execution that is no longer there.
TimeMoves ==
  /\ UNCHANGED <<worker, rows, vectors, nextTask>>
  /\ \/ doc' = doc
     \/ /\ \A w \in IndexWorkers : ~Owns(w)
        /\ doc.status = "processing"
        /\ doc'.status = doc.status /\ doc'.task = doc.task

LEMMA TimeOnce ==
  ASSUME "late" \notin FaultKinds, AttemptsInv,
         (\E m \in Msg : RetryDelayExpires(m)) \/ LeaseExpires \/ LeaseOutrun
           \/ UNCHANGED vars
  PROVE  TimeMoves
<1>1. CASE \E m \in Msg : RetryDelayExpires(m)
  BY <1>1 DEF RetryDelayExpires, TimeMoves, stores
<1>2. CASE LeaseExpires
  BY <1>2 DEF LeaseExpires, LeaseRunsOut, TimeMoves, stores, AttemptsInv, DocInv,
              DocState
<1>3. ~LeaseOutrun
  BY DEF LeaseOutrun, Fault
<1>4. CASE UNCHANGED vars
  BY <1>4 DEF vars, stores, TimeMoves
<1> QED
  BY <1>1, <1>2, <1>3, <1>4

\* The steps of the system, as far as the token and the stores can tell.
Moves ==
  \/ \E w \in IndexWorkers : IndexMoves(w)
  \/ /\ \A v \in IndexWorkers : worker'[v] = worker[v]
     /\ nextTask' = nextTask
     /\ doc' = doc \/ (doc.status \in Ended /\ doc'.status = "gone" /\ doc'.task = 0)
     /\ UNCHANGED <<rows, vectors>> \/ doc.status \in Ended
  \/ ClientMoves
  \/ TimeMoves

LEMMA MovesNext ==
  ASSUME SubmittedOnce, "late" \notin FaultKinds, OnceInvs, [Next]_vars
  PROVE  Moves
<1>1. ASSUME NEW w \in IndexWorkers,
             IndexStep(w) \/ CommonStep(w) \/ Crash(w) \/ LoseChannel(w)
      PROVE  Moves
  <2>1. worker[w].msg.kind = "index"
    BY DEF OnceInvs, OnceInv, OnceWorker, Workers
  <2> QED
    BY <1>1, <2>1, MovesIndex DEF Moves, OnceInvs
<1>2. ASSUME NEW w \in DeleteWorkers,
             DeleteStep(w) \/ CommonStep(w) \/ Crash(w) \/ LoseChannel(w)
      PROVE  Moves
  <2>1. Others(w) => \A v \in IndexWorkers : worker'[v] = worker[v]
    BY WorkersAssumption DEF Others, Workers
  <2> QED
    BY <1>2, <2>1, DeleteOnce DEF Moves, OnceInvs
<1>3. ASSUME NEW c \in Clients, ClientStep(c)
      PROVE  Moves
  BY <1>3, ClientOnce DEF Moves
<1>4. CASE (\E m \in Msg : RetryDelayExpires(m)) \/ LeaseExpires \/ LeaseOutrun
             \/ UNCHANGED vars
  BY <1>4, TimeOnce DEF Moves, OnceInvs
<1> QED
  BY <1>1, <1>2, <1>3, <1>4 DEF Next, Workers

-----------------------------------------------------------------------------
(* One token, one execution *)

LEMMA TokenTypes ==
  ASSUME AttemptsInv
  PROVE  /\ doc.task \in Nat /\ nextTask \in Nat
         /\ \A w \in IndexWorkers : worker[w].task \in Nat /\ worker[w].n \in Nat
BY WorkerType DEF AttemptsInv, DocInv, DocState, RestInv, WorkerState, Workers

LEMMA TokenDrops ==
  ASSUME AttemptsInv, TokenInv, NEW w \in IndexWorkers, Others(w), Drops(w)
  PROVE  TokenInv'
<1>1. \A v \in IndexWorkers : v # w => worker'[v] = worker[v]
  BY DEF Others, Workers
<1>2. worker'[w].pc \notin Building /\ UNCHANGED <<doc, nextTask>>
  BY DEF Drops
<1>3. worker'[w].task <= nextTask
  BY TokenTypes DEF Drops, TokenInv
<1>4. doc.status = "processing" /\ worker'[w].task = doc.task => worker[w].task = doc.task
  BY DEF Drops, TokenInv
<1> QED
  BY <1>1, <1>2, <1>3, <1>4 DEF TokenInv, HoldsToken

LEMMA TokenClaims ==
  ASSUME AttemptsInv, TokenInv, NEW w \in IndexWorkers, Others(w), Claims(w)
  PROVE  TokenInv'
<1>1. \A v \in IndexWorkers : v # w => worker'[v] = worker[v]
  BY DEF Others, Workers
<1>2. \A v \in IndexWorkers : worker[v].pc \notin Building
  BY DEF Claims, Claimable, TokenInv, HoldsToken, Ended
<1>3. \A v \in IndexWorkers : v # w => worker'[v].task < nextTask'
  BY <1>1, TokenTypes DEF Claims, TokenInv
<1>4. /\ doc'.task = nextTask' /\ worker'[w].task = nextTask' /\ nextTask' \in Nat
      /\ nextTask' # 0 /\ doc'.status = "processing" /\ doc'.lease = "live"
  BY TokenTypes DEF Claims
<1>5. HoldsToken(w)'
  BY <1>4 DEF HoldsToken
<1>6. \A v \in IndexWorkers : worker'[v].pc \in Building => v = w
  BY <1>1, <1>2
<1>7. \A v \in IndexWorkers : worker'[v].task = doc'.task => v = w
  <2> SUFFICES ASSUME NEW v \in IndexWorkers, worker'[v].task = doc'.task, v # w
               PROVE  FALSE
    OBVIOUS
  <2>1. worker'[v].task < nextTask' /\ worker'[v].task = nextTask'
    BY <1>3, <1>4
  <2> QED
    BY <1>4, <2>1
<1>8. \A v \in IndexWorkers : worker'[v].task <= nextTask'
  BY <1>1, <1>4, TokenTypes DEF Claims, TokenInv
<1> QED
  BY <1>4, <1>5, <1>6, <1>7, <1>8 DEF TokenInv

LEMMA TokenBuilds ==
  ASSUME AttemptsInv, TokenInv, NEW w \in IndexWorkers, Others(w), Builds(w)
  PROVE  TokenInv'
<1>1. \A v \in IndexWorkers : v # w => worker'[v] = worker[v]
  BY DEF Others, Workers
<1>2. /\ UNCHANGED <<doc, nextTask>> /\ worker'[w].task = worker[w].task
      /\ worker[w].pc \in Building
  BY DEF Builds
<1>3. \A v \in IndexWorkers : worker'[v].task = worker[v].task
  BY <1>1, <1>2
<1>4. \A v \in IndexWorkers : worker'[v].pc \in Building => worker[v].pc \in Building
  BY <1>1, <1>2
<1> QED
  BY <1>2, <1>3, <1>4 DEF TokenInv, HoldsToken

\* The holder of the token gives it up: no other execution is building then.
LEMMA TokenReturned ==
  ASSUME AttemptsInv, TokenInv, NEW w \in IndexWorkers, Others(w),
         nextTask' = nextTask, doc'.task = doc.task,
         doc'.status \notin {"processing", "deleting", "gone"},
         worker'[w].pc \notin Building, worker'[w].task = worker[w].task,
         \A v \in IndexWorkers : v # w => worker[v].pc \notin Building
  PROVE  TokenInv'
<1>1. \A v \in IndexWorkers : v # w => worker'[v] = worker[v]
  BY DEF Others, Workers
<1>2. \A v \in IndexWorkers : worker'[v].task = worker[v].task
  BY <1>1
<1>3. \A v \in IndexWorkers : worker'[v].pc \notin Building
  BY <1>1
<1> QED
  BY <1>2, <1>3 DEF TokenInv

LEMMA TokenEnds ==
  ASSUME AttemptsInv, TokenInv, NEW w \in IndexWorkers, Others(w), Ends(w)
  PROVE  TokenInv'
<1>1. worker[w].pc \in Building /\ worker'[w].pc \notin Building
  BY DEF Ends, Building
<1>2. \A v \in IndexWorkers : v # w => worker[v].pc \notin Building
  BY <1>1 DEF TokenInv
<1>3. doc'.status \notin {"processing", "deleting", "gone"}
  BY DEF Ends
<1> QED
  BY <1>1, <1>2, <1>3, TokenReturned DEF Ends

LEMMA TokenRequeues ==
  ASSUME AttemptsInv, TokenInv, NEW w \in IndexWorkers, Others(w), Requeues(w)
  PROVE  TokenInv'
<1>1. worker'[w].pc \notin Building
  BY DEF Requeues, Building
<1>2. \A v \in IndexWorkers : v # w => worker[v].pc \notin Building
  BY DEF Requeues, TokenInv, HoldsToken, Ended
<1>3. doc'.status \notin {"processing", "deleting", "gone"}
  BY DEF Requeues
<1> QED
  BY <1>1, <1>2, <1>3, TokenReturned DEF Requeues

LEMMA TokenOutside ==
  ASSUME AttemptsInv, TokenInv, UNCHANGED nextTask,
         \A v \in IndexWorkers : worker'[v] = worker[v],
         \/ doc' = doc
         \/ /\ doc'.status \in Ended /\ doc'.task \in {0, doc.task}
         \/ /\ \A v \in IndexWorkers : worker[v].pc \notin Building
            /\ doc'.task = doc.task /\ doc'.status \notin {"processing"}
  PROVE  TokenInv'
<1>1. \A v \in IndexWorkers : worker'[v].pc = worker[v].pc /\ worker'[v].task = worker[v].task
  OBVIOUS
<1>2. CASE doc' = doc
  BY <1>1, <1>2 DEF TokenInv, HoldsToken
<1>3. CASE doc'.status \in Ended /\ doc'.task \in {0, doc.task}
  <2>1. doc'.task <= nextTask' /\ doc'.status # "processing"
    BY <1>3, TokenTypes DEF TokenInv, Ended
  <2> QED
    BY <1>1, <1>3, <2>1 DEF TokenInv
<1>4. CASE /\ \A v \in IndexWorkers : worker[v].pc \notin Building
           /\ doc'.task = doc.task /\ doc'.status \notin {"processing"}
  BY <1>1, <1>4 DEF TokenInv
<1> QED
  BY <1>2, <1>3, <1>4

LEMMA TokenLease ==
  ASSUME AttemptsInv, TokenInv, UNCHANGED <<worker, nextTask>>,
         \A w \in IndexWorkers : ~Owns(w), doc.status = "processing",
         doc'.status = doc.status, doc'.task = doc.task
  PROVE  TokenInv'
<1>1. \A w \in IndexWorkers : worker[w].pc \notin Building
  <2> SUFFICES ASSUME NEW w \in IndexWorkers, worker[w].pc \in Building
               PROVE  FALSE
    OBVIOUS
  <2>1. doc.task = worker[w].task /\ doc.task # 0
    BY DEF TokenInv, HoldsToken, Ended
  <2>2. worker[w].pc # "idle"
    BY DEF Building
  <2> QED
    BY <2>1, <2>2 DEF Owns
<1> QED
  BY <1>1 DEF TokenInv

LEMMA TokenNext ==
  ASSUME AttemptsInv, TokenInv, Moves
  PROVE  TokenInv'
<1>1. CASE \E w \in IndexWorkers : IndexMoves(w)
  BY <1>1, TokenDrops, TokenClaims, TokenBuilds, TokenEnds, TokenRequeues DEF IndexMoves
<1>2. CASE /\ \A v \in IndexWorkers : worker'[v] = worker[v]
           /\ nextTask' = nextTask
           /\ doc' = doc \/ (doc.status \in Ended /\ doc'.status = "gone" /\ doc'.task = 0)
  BY <1>2, TokenOutside DEF Ended
<1>3. CASE ClientMoves
  <2>1. UNCHANGED <<worker, nextTask>>
    BY <1>3 DEF ClientMoves
  <2>2. CASE doc' = doc
    BY <2>1, <2>2, TokenOutside
  <2>3. CASE doc.status = "none" /\ doc'.status = "pending" /\ doc'.task = doc.task
    <3>1. \A v \in IndexWorkers : worker[v].pc \notin Building
      BY <2>3 DEF TokenInv, HoldsToken, Ended
    <3> QED
      BY <2>1, <2>3, <3>1, TokenOutside
  <2>4. CASE ~Absent /\ doc'.status = "deleting" /\ doc'.task = doc.task
    BY <2>1, <2>4, TokenOutside DEF Ended
  <2>5. CASE /\ Untouched /\ doc.status = "pending"
             /\ doc'.status = "failed" /\ doc'.task = doc.task
    BY <2>1, <2>5, TokenOutside DEF Untouched, Building
  <2> QED
    BY <1>3, <2>2, <2>3, <2>4, <2>5 DEF ClientMoves
<1>4. CASE TimeMoves
  BY <1>4, TokenOutside, TokenLease DEF TimeMoves
<1> QED
  BY <1>1, <1>2, <1>3, <1>4 DEF Moves

LEMMA TokenInit == Init => TokenInv
BY DEF Init, TokenInv, Building, Idle, Workers

LEMMA TokenExclusive == OnceInv /\ TokenInv => OneExecution
BY DEF TokenInv, OneExecution, Executing, Building

-----------------------------------------------------------------------------
(* What a build leaves in the stores *)

LEMMA BuildNone == \A t : Build(t, 0) = {}
BY DEF Build

LEMMA BuildNext ==
  ASSUME NEW t, NEW n \in Nat
  PROVE  Build(t, n + 1) = Build(t, n) \cup {<<t, n + 1>>}
BY DEF Build

LEMMA BuildDrops ==
  ASSUME AttemptsInv, TokenInv, BuildInv, NEW w \in IndexWorkers, Others(w), Drops(w)
  PROVE  BuildInv'
<1>1. \A v \in IndexWorkers : v # w => worker'[v] = worker[v]
  BY DEF Others, Workers
<1>2. worker'[w].pc \notin Building /\ UNCHANGED <<doc, rows, vectors>>
  BY DEF Drops
<1>3. ChunkCount(w)'
  BY <1>2 DEF Drops, ChunkCount, Building, BuildInv
<1>4. BuildSoFar(w)'
  BY <1>2 DEF BuildSoFar, Building
<1>5. \A v \in IndexWorkers : v # w => ChunkCount(v)'
  BY <1>1 DEF BuildInv, ChunkCount
<1>6. \A v \in IndexWorkers : v # w => (HoldsToken(v)' => BuildSoFar(v)')
  BY <1>1, <1>2 DEF BuildInv, HoldsToken, BuildSoFar
<1>7. CompletedBuild'
  BY <1>2 DEF BuildInv, CompletedBuild, CompletedExact
<1> QED
  BY <1>3, <1>4, <1>5, <1>6, <1>7 DEF BuildInv

LEMMA BuildClaims ==
  ASSUME AttemptsInv, TokenInv, TokenInv', BuildInv, NEW w \in IndexWorkers,
         Others(w), Claims(w)
  PROVE  BuildInv'
<1>1. \A v \in IndexWorkers : v # w => worker'[v] = worker[v]
  BY DEF Others, Workers
<1>2. ChunkCount(w)' /\ BuildSoFar(w)'
  BY DEF Claims, ChunkCount, BuildSoFar, BuildInv
<1>3. \A v \in IndexWorkers : v # w => ChunkCount(v)'
  BY <1>1 DEF BuildInv, ChunkCount
<1>4. \A v \in IndexWorkers : v # w => ~HoldsToken(v)'
  BY DEF TokenInv, HoldsToken, Claims
<1>5. CompletedBuild'
  BY DEF Claims, CompletedBuild, CompletedExact
<1> QED
  BY <1>2, <1>3, <1>4, <1>5 DEF BuildInv

LEMMA BuildBuilds ==
  ASSUME AttemptsInv, TokenInv, BuildInv, NEW w \in IndexWorkers, Others(w), Builds(w)
  PROVE  BuildInv'
<1>1. \A v \in IndexWorkers : v # w => worker'[v] = worker[v]
  BY DEF Others, Workers
<1>2. UNCHANGED doc /\ worker'[w].task = worker[w].task /\ worker[w].pc \in Building
  BY DEF Builds
<1>n. worker[w].n \in Nat /\ NumChunks \in Nat
  BY TokenTypes, BoundsAssumption
<1>3. ChunkCount(w) /\ (HoldsToken(w) => BuildSoFar(w))
  BY DEF BuildInv
<1>4. ChunkCount(w)'
  BY <1>3, <1>n DEF Builds, ChunkCount, Building
<1>5. HoldsToken(w)' => BuildSoFar(w)'
  <2> SUFFICES ASSUME HoldsToken(w), BuildSoFar(w)
               PROVE  BuildSoFar(w)'
    BY <1>2, <1>3 DEF HoldsToken
  <2>1. CASE /\ worker'[w].pc \in {worker[w].pc, "fail"} /\ worker'[w].n = worker[w].n
             /\ UNCHANGED <<rows, vectors>>
    BY <1>2, <2>1 DEF BuildSoFar
  <2>2. CASE worker'[w].pc \in {"vclean", "fail"}
    BY <2>2 DEF BuildSoFar
  <2>3. CASE worker'[w].pc = "rclean" /\ vectors' = {}
    BY <2>3 DEF BuildSoFar
  <2>4. CASE /\ worker[w].pc = "rclean" /\ worker'[w].pc = "row"
             /\ worker'[w].n = worker[w].n /\ rows' = {} /\ UNCHANGED vectors
    <3>1. worker'[w].n = 0 /\ vectors' = {} /\ rows' = {}
      BY <1>3, <2>4 DEF BuildSoFar, ChunkCount
    <3> QED
      BY <2>4, <3>1, BuildNone DEF BuildSoFar
  <2>5. CASE /\ worker[w].pc = "row" /\ worker'[w].pc = "vec"
             /\ worker'[w].n = worker[w].n
             /\ rows' = rows \cup {Chunk(w)} /\ UNCHANGED vectors
    <3>1. rows = Build(worker[w].task, worker[w].n) /\ vectors = rows
      BY <2>5 DEF BuildSoFar
    <3>2. rows' = Build(worker[w].task, worker[w].n + 1)
      BY <1>n, <2>5, <3>1, BuildNext DEF Chunk
    <3> QED
      BY <1>2, <2>5, <3>1, <3>2 DEF BuildSoFar
  <2>6. CASE /\ worker[w].pc = "vec" /\ worker'[w].n = worker[w].n + 1
             /\ worker'[w].pc \in {"complete", "row"}
             /\ vectors' = vectors \cup {Chunk(w)} /\ UNCHANGED rows
    <3>1. /\ rows = Build(worker[w].task, worker[w].n + 1)
          /\ vectors = Build(worker[w].task, worker[w].n)
      BY <2>6 DEF BuildSoFar
    <3>2. vectors' = Build(worker[w].task, worker[w].n + 1)
      BY <1>n, <2>6, <3>1, BuildNext DEF Chunk
    <3> QED
      BY <1>2, <2>6, <3>1, <3>2 DEF BuildSoFar
  <2> QED
    BY <2>1, <2>2, <2>3, <2>4, <2>5, <2>6 DEF Builds
<1>6. \A v \in IndexWorkers : v # w => ChunkCount(v)'
  BY <1>1 DEF BuildInv, ChunkCount
<1>7. \A v \in IndexWorkers : v # w => (HoldsToken(v)' => BuildSoFar(v)')
  <2> SUFFICES ASSUME NEW v \in IndexWorkers, v # w
               PROVE  BuildSoFar(v)'
    OBVIOUS
  <2>1. worker[v].pc \notin Building
    BY <1>2 DEF TokenInv
  <2> QED
    BY <1>1, <2>1 DEF BuildSoFar, Building
<1>8. CompletedBuild'
  BY <1>2 DEF TokenInv, HoldsToken, Ended, CompletedBuild, CompletedExact
<1> QED
  BY <1>4, <1>5, <1>6, <1>7, <1>8 DEF BuildInv

LEMMA BuildEnds ==
  ASSUME AttemptsInv, TokenInv, BuildInv, NEW w \in IndexWorkers, Others(w), Ends(w)
  PROVE  BuildInv'
<1>1. \A v \in IndexWorkers : v # w => worker'[v] = worker[v]
  BY DEF Others, Workers
<1>2. ChunkCount(w)'
  BY DEF Ends, ChunkCount
<1>3. \A v \in IndexWorkers : v # w => ChunkCount(v)'
  BY <1>1 DEF BuildInv, ChunkCount
<1>4. \A v \in IndexWorkers : ~HoldsToken(v)'
  BY DEF Ends, HoldsToken
<1>5. CompletedBuild'
  <2> SUFFICES ASSUME worker[w].pc = "complete"
               PROVE  CompletedBuild'
    BY DEF Ends, CompletedBuild, CompletedExact
  <2>1. HoldsToken(w) /\ BuildSoFar(w) /\ ChunkCount(w)
    BY DEF Ends, BuildInv
  <2>2. rows = Build(doc.task, NumChunks) /\ vectors = rows
    BY <2>1 DEF HoldsToken, BuildSoFar, ChunkCount
  <2>3. NumChunks # 0
    BY <2>1 DEF ChunkCount
  <2> QED
    BY <2>2, <2>3 DEF Ends, CompletedBuild, CompletedExact, Build
<1> QED
  BY <1>2, <1>3, <1>4, <1>5 DEF BuildInv

LEMMA BuildRequeues ==
  ASSUME AttemptsInv, TokenInv, BuildInv, NEW w \in IndexWorkers, Others(w), Requeues(w)
  PROVE  BuildInv'
<1>1. \A v \in IndexWorkers : v # w => worker'[v] = worker[v]
  BY DEF Others, Workers
<1>2. ChunkCount(w)'
  BY DEF Requeues, ChunkCount
<1>3. \A v \in IndexWorkers : v # w => ChunkCount(v)'
  BY <1>1 DEF BuildInv, ChunkCount
<1>4. \A v \in IndexWorkers : ~HoldsToken(v)'
  BY DEF Requeues, HoldsToken
<1>5. CompletedBuild'
  BY DEF Requeues, CompletedBuild, CompletedExact
<1> QED
  BY <1>2, <1>3, <1>4, <1>5 DEF BuildInv

LEMMA BuildOutside ==
  ASSUME BuildInv, \A v \in IndexWorkers : worker'[v] = worker[v],
         \/ doc' = doc
         \/ doc'.status \notin {"processing", "completed"}
         \/ /\ doc'.status = doc.status /\ doc'.task = doc.task
            /\ UNCHANGED <<rows, vectors>>,
         UNCHANGED <<rows, vectors>> \/ doc.status \in Ended
  PROVE  BuildInv'
<1>1. \A v \in IndexWorkers : ChunkCount(v)'
  BY DEF BuildInv, ChunkCount
<1>2. CASE doc'.status \notin {"processing", "completed"}
  BY <1>1, <1>2 DEF BuildInv, HoldsToken, CompletedBuild, CompletedExact
<1>3. CASE doc'.status = doc.status /\ doc'.task = doc.task /\ UNCHANGED <<rows, vectors>>
  BY <1>1, <1>3 DEF BuildInv, HoldsToken, BuildSoFar, CompletedBuild, CompletedExact
<1> QED
  BY <1>2, <1>3 DEF Ended

LEMMA BuildNextState ==
  ASSUME AttemptsInv, TokenInv, TokenInv', BuildInv, Moves
  PROVE  BuildInv'
<1>1. CASE \E w \in IndexWorkers : IndexMoves(w)
  BY <1>1, BuildDrops, BuildClaims, BuildBuilds, BuildEnds, BuildRequeues DEF IndexMoves
<1>2. CASE /\ \A v \in IndexWorkers : worker'[v] = worker[v]
           /\ doc' = doc \/ (doc.status \in Ended /\ doc'.status = "gone" /\ doc'.task = 0)
           /\ UNCHANGED <<rows, vectors>> \/ doc.status \in Ended
  BY <1>2, BuildOutside
<1>3. CASE ClientMoves
  BY <1>3, BuildOutside DEF ClientMoves
<1>4. CASE TimeMoves
  BY <1>4, BuildOutside DEF TimeMoves
<1> QED
  BY <1>1, <1>2, <1>3, <1>4 DEF Moves

LEMMA BuildInit == Init => BuildInv
BY DEF Init, BuildInv, ChunkCount, HoldsToken, CompletedBuild, CompletedExact, Idle, Workers

-----------------------------------------------------------------------------
(* Messages: consumers pass on what they were given *)

MessageMoves(w) ==
  \/ worker'[w] = Idle
  \/ /\ worker[w].pc # "idle" /\ worker'[w].pc # "idle"
     /\ worker'[w].msg = worker[w].msg
  \/ \E m \in Msg : /\ main[m] > 0 /\ worker'[w].pc # "idle" /\ worker'[w].msg = m
                    /\ m.kind = "index" <=> w \in IndexWorkers

QueueMoves(w) ==
  \A m \in Msg : Waiting(m)' => \/ Waiting(m)
                                \/ /\ worker[w].pc # "idle"
                                   /\ m.kind = worker[w].msg.kind
                                   /\ m.ext = worker[w].msg.ext

\* What a deletion consumer with a deletion may come to do.
CleaningMoves(w) ==
  w \in DeleteWorkers /\ (worker[w].pc # "idle" => worker[w].msg.kind = "delete") =>
    /\ worker'[w].msg.kind = "delete" => worker'[w].pc \notin {"mark", "offline"}
    /\ worker'[w].msg.kind = "delete" /\ worker'[w].pc \in Cleaning =>
         worker[w].pc \in Cleaning \/ doc.status \in Ended

ConsumerMoves(w) ==
  Others(w) /\ MessageMoves(w) /\ QueueMoves(w) /\ CleaningMoves(w) /\ UNCHANGED client

LEMMA QueuesKept ==
  ASSUME NEW w \in Workers, UNCHANGED <<main, retry>>
  PROVE  QueueMoves(w)
BY DEF QueueMoves, Waiting

LEMMA RedeliveredMoves ==
  ASSUME AttemptsInv, OnceInv, NEW w \in Workers, main' = Redelivered(w), UNCHANGED retry
  PROVE  QueueMoves(w)
<1>1. worker[w].held => worker[w].pc # "idle"
  BY DEF OnceInv, OnceWorker, Idle
<1>2. worker[w].msg \in Msg
  BY WorkerMsg DEF AttemptsInv
<1>3. main \in [Msg -> Nat]
  BY DEF AttemptsInv, QueueInv
<1> QED
  BY <1>1, <1>2, <1>3, PutBag DEF QueueMoves, Waiting, Redelivered

LEMMA IdleMoves ==
  ASSUME AttemptsInv, NEW w \in Workers, worker' = [worker EXCEPT ![w] = Idle]
  PROVE  Others(w) /\ MessageMoves(w) /\ CleaningMoves(w)
BY IdleFields DEF MessageMoves, CleaningMoves, Cleaning

\* A step that keeps the message, and goes nowhere a deletion would not go.
LEMMA GotoMoves ==
  ASSUME AttemptsInv, NEW w \in Workers, worker[w].pc # "idle",
         NEW pc, pc # "idle", Goto(w, pc),
         worker[w].msg.kind = "delete" =>
           /\ pc \notin {"mark", "offline"}
           /\ pc \in Cleaning => worker[w].pc \in Cleaning \/ doc.status \in Ended
  PROVE  Others(w) /\ MessageMoves(w) /\ CleaningMoves(w)
BY GotoFields DEF MessageMoves, CleaningMoves

LEMMA SendMoves ==
  ASSUME AttemptsInv, NEW w \in Workers, worker[w].pc # "idle",
         NEW to, NEW attempt, Send(w, to, attempt)
  PROVE  Others(w) /\ MessageMoves(w) /\ CleaningMoves(w)
BY SendFields DEF MessageMoves, CleaningMoves, Cleaning

\* Steps of an index consumer that touch neither the queues nor the message.
LEMMA QuietIndex ==
  ASSUME AttemptsInv, NEW w \in IndexWorkers, worker[w].pc # "idle",
         worker'[w].pc # "idle", worker'[w].msg = worker[w].msg, Others(w),
         UNCHANGED <<main, retry, client>>
  PROVE  ConsumerMoves(w)
<1>1. w \in Workers /\ w \notin DeleteWorkers
  BY WorkersAssumption DEF Workers
<1> QED
  BY <1>1, QueuesKept DEF ConsumerMoves, MessageMoves, CleaningMoves

LEMMA ConsumersIndex ==
  ASSUME OnceInvs, NEW w \in IndexWorkers, IndexStep(w)
  PROVE  ConsumerMoves(w)
<1> USE DEF OnceInvs
<1> w \in Workers /\ w \notin DeleteWorkers
  BY WorkersAssumption DEF Workers
<1>1. ASSUME NEW m \in Msg, FindForIndex(w, m)
      PROVE  ConsumerMoves(w)
  <2>1. PICK s \in WorkerState : Receive(w, m, s) /\ s.pc # "idle"
    <3>1. CASE Receive(w, m, Routed(m))
      BY <3>1, RoutedCases DEF Receive
    <3>2. CASE Receive(w, m, [Idle EXCEPT !.pc = "retry", !.attempt = m.attempt])
      <4>1. /\ [Idle EXCEPT !.pc = "retry", !.attempt = m.attempt] \in WorkerState
            /\ [Idle EXCEPT !.pc = "retry", !.attempt = m.attempt].pc # "idle"
        BY IdleSound, MsgFields DEF Idle, Sound, WorkerState, WorkerPCs
      <4> QED
        BY <3>2, <4>1
    <3> QED
      BY <1>1, <3>1, <3>2 DEF FindForIndex
  <2>2. main' = Take(main, m) /\ main[m] > 0
    BY <2>1 DEF Receive
  <2>3. QueueMoves(w)
    BY <1>1, <2>2, TakeBag DEF FindForIndex, QueueMoves, Waiting, AttemptsInv, QueueInv
  <2>4. Others(w) /\ worker'[w].pc # "idle" /\ worker'[w].msg = m
    BY <2>1, ReceiveFields
  <2> QED
    BY <1>1, <2>2, <2>3, <2>4
       DEF FindForIndex, ConsumerMoves, MessageMoves, CleaningMoves
<1>2. CASE Claim(w)
  <2>1. /\ Others(w) /\ worker'[w].pc # "idle" /\ worker'[w].msg = worker[w].msg
    BY <1>2, WorkerType DEF Claim, Goto, Others, WorkerState
  <2> QED
    BY <1>2, <2>1, QuietIndex DEF Claim, queues
<1>3. CASE Reread(w)
  <2>1. \/ \E to, a : Send(w, to, a)
        \/ \E pc \in {"extdone", "ack", "retry"} : Goto(w, pc)
    BY <1>3 DEF Reread, Done
  <2>2. worker[w].pc # "idle" /\ UNCHANGED <<main, retry, client>>
    BY <1>3 DEF Reread, queues
  <2> QED
    BY <2>1, <2>2, QuietIndex, GotoFields, SendFields
<1>4. CASE CheckToken(w) \/ FailIndex(w) \/ Complete(w)
  <2>1. \/ \E to, a : Send(w, to, a)
        \/ \E pc \in {"vclean", "extdone", "ack", "retry"} : Goto(w, pc)
    BY <1>4 DEF CheckToken, FailIndex, Complete, LeaseLost, Done
  <2>2. worker[w].pc # "idle" /\ UNCHANGED <<main, retry, client>>
    BY <1>4 DEF CheckToken, FailIndex, Complete, queues
  <2> QED
    BY <2>1, <2>2, QuietIndex, GotoFields, SendFields
<1>5. CASE WriteRow(w)
  <2>1. \E pc \in {"vec", "fail"} : Goto(w, pc)
    BY <1>5 DEF WriteRow
  <2>2. worker[w].pc # "idle" /\ UNCHANGED <<main, retry, client>>
    BY <1>5 DEF WriteRow, queues
  <2> QED
    BY <2>1, <2>2, QuietIndex, GotoFields
<1>6. CASE WriteVector(w)
  <2>1. /\ Others(w) /\ worker'[w].pc # "idle" /\ worker'[w].msg = worker[w].msg
    BY <1>6, WorkerType DEF WriteVector, Goto, Others, WorkerState
  <2> QED
    BY <1>6, <2>1, QuietIndex DEF WriteVector, queues
<1>7. CASE RetryIndex(w)
  <2>1. CASE worker' = [worker EXCEPT ![w] = Idle] /\ main' = Redelivered(w)
    BY <1>7, <2>1, IdleMoves, RedeliveredMoves DEF RetryIndex, ConsumerMoves
  <2>2. CASE UNCHANGED main /\ worker' # [worker EXCEPT ![w] = Idle]
    <3>1. /\ Others(w) /\ worker'[w].pc # "idle" /\ worker'[w].msg = worker[w].msg
      BY <1>7, <2>2, WorkerType DEF RetryIndex, Others, WorkerState
    <3> QED
      BY <1>7, <2>2, <3>1, QuietIndex DEF RetryIndex
  <2>3. CASE UNCHANGED main /\ worker' = [worker EXCEPT ![w] = Idle]
    BY <1>7, <2>3, IdleMoves, QueuesKept DEF RetryIndex, ConsumerMoves
  <2> QED
    BY <1>7, <2>1, <2>2, <2>3 DEF RetryIndex
<1> QED
  BY <1>1, <1>2, <1>3, <1>4, <1>5, <1>6, <1>7 DEF IndexStep

LEMMA ConsumersDelete ==
  ASSUME OnceInvs, NEW w \in DeleteWorkers, DeleteStep(w)
  PROVE  ConsumerMoves(w)
<1> USE DEF OnceInvs
<1> w \in Workers /\ w \notin IndexWorkers
  BY WorkersAssumption DEF Workers
<1>1. ASSUME NEW m \in Msg, FindForDelete(w, m)
      PROVE  ConsumerMoves(w)
  <2>1. PICK pc \in WorkerPCs : /\ Receive(w, m, [Idle EXCEPT !.pc = pc]) /\ pc # "idle"
                                /\ m.kind = "delete" => pc \notin {"mark", "offline"}
                                /\ m.kind = "delete" /\ pc \in Cleaning => doc.status \in Ended
    BY <1>1 DEF FindForDelete, CleanupRouted, DeleteError, Done, WorkerPCs, Cleaning,
                Ended, Absent
  <2> DEFINE s == [Idle EXCEPT !.pc = pc]
  <2>2. s \in WorkerState /\ s.pc = pc
    BY IdleSound DEF Sound, WorkerState
  <2>3. Receive(w, m, s)
    BY <2>1
  <2> HIDE DEF s
  <2>4. main' = Take(main, m) /\ main[m] > 0
    BY <2>3 DEF Receive
  <2>5. QueueMoves(w)
    BY <1>1, <2>4, TakeBag DEF FindForDelete, QueueMoves, Waiting, AttemptsInv, QueueInv
  <2>6. Others(w) /\ worker'[w].pc = pc /\ worker'[w].msg = m
    BY <2>2, <2>3, ReceiveFields
  <2>7. MessageMoves(w)
    BY <1>1, <2>1, <2>4, <2>6 DEF FindForDelete, MessageMoves
  <2> QED
    BY <1>1, <2>1, <2>5, <2>6, <2>7 DEF FindForDelete, ConsumerMoves, CleaningMoves
<1>2. CASE MarkDeindexing(w) \/ FinishDeindex(w)
  BY <1>2 DEF MarkDeindexing, FinishDeindex, OnceInv, OnceWorker
<1>3. CASE DeleteObject(w) \/ RemoveDocument(w)
  <2>1. PICK pc \in {"remove", "extdone", "ack", "extfail", "retry"} : Goto(w, pc)
    BY <1>3 DEF DeleteObject, RemoveDocument, DeleteError, Done
  <2>2. /\ worker[w].pc \in Cleaning /\ worker[w].pc # "idle"
        /\ UNCHANGED <<main, retry, client>>
    BY <1>3 DEF DeleteObject, RemoveDocument, queues, Cleaning
  <2> QED
    BY <2>1, <2>2, GotoMoves, QueuesKept DEF ConsumerMoves
<1>4. CASE RetryDelete(w)
  <2>1. \E to, a : Send(w, to, a)
    BY <1>4 DEF RetryDelete
  <2>2. worker[w].pc # "idle" /\ UNCHANGED <<main, retry, client>>
    BY <1>4 DEF RetryDelete, queues
  <2> QED
    BY <2>1, <2>2, SendMoves, QueuesKept DEF ConsumerMoves
<1> QED
  BY <1>1, <1>2, <1>3, <1>4 DEF DeleteStep

LEMMA ConsumersCommon ==
  ASSUME OnceInvs, NEW w \in Workers, CommonStep(w) \/ Crash(w) \/ LoseChannel(w)
  PROVE  ConsumerMoves(w)
<1> USE DEF OnceInvs
<1>0. worker[w].msg \in Msg /\ worker[w].msg.kind \in {"index", "delete", "deindex"}
  BY WorkerMsg DEF AttemptsInv
<1>1. CASE CleanVectors(w) \/ CleanRows(w)
  <2>1. PICK pc : Goto(w, pc) /\ pc # "idle" /\ (worker[w].msg.kind = "delete" => pc # "offline")
                  /\ pc # "mark"
    BY <1>0, <1>1 DEF CleanVectors, CleanRows, StoreError, DeleteError, AfterClean
  <2>2. /\ worker[w].pc \in Cleaning /\ worker[w].pc # "idle"
        /\ UNCHANGED <<main, retry, client>>
    BY <1>1 DEF CleanVectors, CleanRows, Cleaning, queues
  <2> QED
    BY <2>1, <2>2, GotoMoves, QueuesKept DEF ConsumerMoves
<1>2. CASE MarkExternalDone(w) \/ MarkExternalFailed(w)
  <2>1. PICK pc \in {"ack", "retry", "publish", "extfail"} : Goto(w, pc)
    BY <1>2 DEF MarkExternalDone, MarkExternalFailed
  <2>2. worker[w].pc # "idle" /\ UNCHANGED <<main, retry, client>>
    BY <1>2 DEF MarkExternalDone, MarkExternalFailed, queues
  <2>3. pc \notin Cleaning /\ pc # "idle" /\ pc \notin {"mark", "offline"}
    BY DEF Cleaning
  <2> QED
    BY <2>1, <2>2, <2>3, GotoMoves, QueuesKept DEF ConsumerMoves
<1>3. CASE Publish(w)
  <2>1. worker[w].pc # "idle" /\ UNCHANGED client
    BY <1>3 DEF Publish
  <2>2. CASE main' = Redelivered(w) /\ UNCHANGED retry /\ worker' = [worker EXCEPT ![w] = Idle]
    BY <2>1, <2>2, IdleMoves, RedeliveredMoves DEF ConsumerMoves
  <2>3. CASE Goto(w, "ack") /\ ~(main' = Redelivered(w) /\ UNCHANGED retry
                                   /\ worker' = [worker EXCEPT ![w] = Idle])
    <3>1. PICK m : /\ m = [worker[w].msg EXCEPT !.attempt = worker[w].attempt]
                   /\ UNCHANGED main
                   /\ retry' \in {retry, Put(retry, m)}
      BY <1>3, <2>3 DEF Publish
    <3>2. m \in Msg /\ m.kind = worker[w].msg.kind /\ m.ext = worker[w].msg.ext
      BY <1>0, <3>1, WorkerType DEF Msg, WorkerState
    <3>3. \A x \in Msg : Waiting(x)' => Waiting(x) \/ x = m
      <4>1. CASE retry' = retry
        BY <3>1, <4>1 DEF Waiting
      <4>2. CASE retry' = Put(retry, m)
        BY <3>1, <3>2, <4>2, PutBag DEF Waiting, AttemptsInv, QueueInv
      <4> QED
        BY <3>1, <4>1, <4>2
    <3>5. QueueMoves(w)
      BY <2>1, <3>2, <3>3 DEF QueueMoves
    <3>4. Others(w) /\ MessageMoves(w) /\ CleaningMoves(w)
      BY <2>1, <2>3, GotoMoves DEF Cleaning
    <3> QED
      BY <2>1, <3>4, <3>5 DEF ConsumerMoves
  <2> QED
    BY <1>3, <2>2, <2>3 DEF Publish
<1>4. CASE Ack(w)
  BY <1>4, IdleMoves, QueuesKept DEF Ack, queues, ConsumerMoves
<1>5. CASE Crash(w)
  BY <1>5, IdleMoves, RedeliveredMoves DEF Crash, ConsumerMoves
<1>6. CASE LoseChannel(w)
  <2>1. worker[w].pc # "idle"
    BY <1>6 DEF LoseChannel, OnceInv, OnceWorker, Idle
  <2>2. QueueMoves(w)
    BY <1>6, RedeliveredMoves DEF LoseChannel
  <2>3. Others(w) /\ MessageMoves(w)
    BY <1>6, <2>1, LoseFields DEF MessageMoves
  <2>4. CleaningMoves(w)
    BY <1>6, <2>1, LoseFields DEF CleaningMoves, OnceInv, OnceWorker
  <2> QED
    BY <1>6, <2>2, <2>3, <2>4 DEF LoseChannel, ConsumerMoves
<1> QED
  BY <1>1, <1>2, <1>3, <1>4, <1>5, <1>6 DEF CommonStep

-----------------------------------------------------------------------------
(* A document submitted once stays one that was submitted once *)

LEMMA ExternalKept ==
  ASSUME SubmittedOnce, OnceInvs, [Next]_vars
  PROVE  ext' = ext
<1> USE DEF OnceInvs
<1>1. ExternalFailed = ext /\ \A kind : ExternalDone(kind) = ext
  BY DEF OnceInv, ExternalFailed, ExternalDone
<1>2. ASSUME NEW w \in Workers, IndexStep(w) \/ DeleteStep(w) \/ CommonStep(w)
                                  \/ Crash(w) \/ LoseChannel(w)
      PROVE  ext' = ext
  BY <1>1, <1>2 DEF IndexStep, DeleteStep, CommonStep, Crash, LoseChannel, FindForIndex,
         Claim, Reread, CheckToken, WriteRow, WriteVector, FailIndex, Complete, RetryIndex,
         FindForDelete, MarkDeindexing, FinishDeindex, DeleteObject, RemoveDocument,
         RetryDelete, CleanVectors, CleanRows, MarkExternalDone, MarkExternalFailed,
         Publish, Ack
<1>3. ASSUME NEW c \in Clients, ClientStep(c)
      PROVE  ext' = ext
  <2>1. ~FirstUpsert(c) /\ ~Reindex(c) /\ ~Upsert(c) /\ ~Missing(c)
    BY DEF SubmittedOnce, FirstUpsert, Create, Reindex, Upsert, Missing, Call, OnceInv
  <2>2. ~MissingFound(c) /\ ~SaveMapping(c)
    BY DEF MissingFound, SaveMapping, OnceInv, OnceClient
  <2> QED
    BY <1>1, <1>3, <2>1, <2>2 DEF ClientStep, Upload, Create, Delete, UpdateStatus,
           PublishTask, UndoPublish, ClientStops
<1>4. (\E m \in Msg : RetryDelayExpires(m)) \/ LeaseExpires \/ LeaseOutrun
        \/ UNCHANGED vars => ext' = ext
  BY DEF RetryDelayExpires, LeaseExpires, LeaseOutrun, LeaseRunsOut, vars
<1> QED
  BY <1>2, <1>3, <1>4 DEF Next, Workers

\* Where the row can go: never offline, and never back from its end.
LEMMA StatusOnce ==
  ASSUME OnceInv, Moves
  PROVE  /\ doc'.status \notin {"inactive", "deindexing"}
         /\ doc.status \in Ended => doc'.status \in Ended
         /\ doc'.status = "none" => doc.status = "none"
<1>1. CASE \E w \in IndexWorkers : IndexMoves(w)
  BY <1>1 DEF IndexMoves, Drops, Claims, Builds, Ends, Requeues, OnceInv, Ended,
              Claimable, HoldsToken
<1>2. CASE ClientMoves
  BY <1>2 DEF ClientMoves, OnceInv, Ended, Untouched
<1>3. CASE TimeMoves
  BY <1>3 DEF TimeMoves, OnceInv, Ended
<1> QED
  BY <1>1, <1>2, <1>3 DEF Moves, OnceInv, Ended

LEMMA OnceConsumer ==
  ASSUME OnceInvs, NEW w \in Workers, ConsumerMoves(w), ext' = ext, Moves
  PROVE  OnceInv'
<1> USE DEF OnceInvs
<1>0. worker[w].msg \in Msg /\ worker[w].msg.kind \in {"index", "delete", "deindex"}
  BY WorkerMsg DEF AttemptsInv
<1>1. /\ doc'.status \notin {"inactive", "deindexing"}
      /\ doc.status \in Ended => doc'.status \in Ended
  BY StatusOnce
<1>2. \A m \in Msg : Waiting(m)' => ~m.ext /\ m.kind # "deindex"
  BY <1>0, WorkersAssumption DEF ConsumerMoves, QueueMoves, OnceInv, OnceWorker, Workers
<1>3. \A c \in Clients : OnceClient(c)'
  BY DEF ConsumerMoves, OnceInv, OnceClient
<1>4. \A v \in Workers : v # w => OnceWorker(v)'
  BY <1>1 DEF ConsumerMoves, Others, OnceInv, OnceWorker
<1>5. OnceWorker(w)'
  <2>0. OnceWorker(w)
    BY DEF OnceInv
  <2>1. CASE worker'[w] = Idle
    BY <2>1 DEF OnceWorker, Idle, NoTask, Task, Cleaning
  <2>2. CASE /\ worker[w].pc # "idle" /\ worker'[w].pc # "idle"
             /\ worker'[w].msg = worker[w].msg
    BY <1>1, <2>0, <2>2 DEF OnceWorker, ConsumerMoves, CleaningMoves
  <2>3. CASE \E m \in Msg : /\ main[m] > 0 /\ worker'[w].pc # "idle" /\ worker'[w].msg = m
                            /\ m.kind = "index" <=> w \in IndexWorkers
    <3>1. PICK m \in Msg : /\ main[m] > 0 /\ worker'[w].pc # "idle" /\ worker'[w].msg = m
                           /\ m.kind = "index" <=> w \in IndexWorkers
      BY <2>3
    <3>2. ~m.ext /\ m.kind # "deindex" /\ m.kind \in {"index", "delete", "deindex"}
      BY <3>1, MsgFields DEF OnceInv, Waiting
    <3> QED
      BY <1>1, <2>0, <3>1, <3>2, WorkersAssumption
         DEF OnceWorker, ConsumerMoves, CleaningMoves
  <2> QED
    BY <2>1, <2>2, <2>3 DEF ConsumerMoves, MessageMoves
<1> QED
  BY <1>1, <1>2, <1>3, <1>4, <1>5 DEF OnceInv

\* What a client's step does to its own state and to the queues.
LEMMA ClientFields ==
  ASSUME AttemptsInv, NEW c \in Clients, NEW pc, NEW m, NEW seen, ClientAt(c, pc, m, seen)
  PROVE  /\ \A d \in Clients \ {c} : client'[d] = client[d]
         /\ client'[c].pc = pc /\ client'[c].msg = m
BY DEF AttemptsInv, ClientInv, ClientAt

LEMMA ClientRest ==
  ASSUME AttemptsInv, NEW c \in Clients, Rest(c)
  PROVE  /\ \A d \in Clients \ {c} : client'[d] = client[d]
         /\ client'[c].pc = "idle"
BY DEF AttemptsInv, ClientInv, Rest, Resting

LEMMA ClientPc ==
  ASSUME AttemptsInv, NEW c \in Clients, NEW pc,
         client' = [client EXCEPT ![c].pc = pc]
  PROVE  /\ \A d \in Clients \ {c} : client'[d] = client[d]
         /\ client'[c].pc = pc /\ client'[c].msg = client[c].msg
BY DEF AttemptsInv, ClientInv, ClientState

\* The steps left to a client that submits documents once.
OnceMoves(c) ==
  /\ \A d \in Clients \ {c} : client'[d] = client[d]
  /\ \/ /\ doc.status = "none" /\ UNCHANGED <<main, retry>>
        /\ doc'.status = "pending"
        /\ client'[c].pc = "publish" /\ client'[c].msg = Task("index", FALSE)
     \/ /\ doc.status \notin {"none", "pending"} /\ UNCHANGED <<doc, main, retry>>
        /\ client'[c].pc \in {"publish", "update"} /\ client'[c].msg = Task("delete", FALSE)
     \/ /\ client[c].pc = "update" /\ client'[c].pc \in {"idle", "publish"}
        /\ client'[c].msg = client[c].msg /\ UNCHANGED <<main, retry>>
     \/ /\ client[c].pc = "publish" /\ main' = Put(main, client[c].msg)
        /\ client'[c].pc = "idle" /\ UNCHANGED <<doc, retry>>
     \/ /\ client[c].pc = "publish" /\ client[c].msg.kind = "index"
        /\ client'[c].pc = "undo" /\ client'[c].msg = client[c].msg
        /\ UNCHANGED <<doc, main, retry>>
     \/ /\ client[c].pc = "undo" /\ client'[c].pc = "idle" /\ UNCHANGED <<main, retry>>
        /\ doc.status = "pending" => doc'.status = "failed"
     \/ client'[c].pc = "idle" /\ UNCHANGED <<doc, main, retry>>

LEMMA ClientOnly ==
  ASSUME SubmittedOnce, OnceInvs, NEW c \in Clients, ClientStep(c)
  PROVE  OnceMoves(c)
<1> USE DEF OnceInvs
<1>1. ~FirstUpsert(c) /\ ~Reindex(c) /\ ~Upsert(c) /\ ~Missing(c)
  BY DEF SubmittedOnce, FirstUpsert, Create, Reindex, Upsert, Missing, Call, OnceInv
<1>2. ~MissingFound(c) /\ ~SaveMapping(c)
  BY DEF MissingFound, SaveMapping, OnceInv, OnceClient
<1>3. CASE Upload(c)
  <2>1. ClientAt(c, "publish", Task("index", FALSE), "none")
    BY <1>3 DEF Upload, Create
  <2>2. doc.status = "none" /\ doc'.status = "pending" /\ UNCHANGED <<main, retry>>
    BY <1>3 DEF Upload, Create, queues, AttemptsInv, DocInv, DocState
  <2> QED
    BY <2>1, <2>2, ClientFields DEF OnceMoves
<1>4. CASE Delete(c)
  <2>1. PICK pc \in {"publish", "update"} : ClientAt(c, pc, Task("delete", FALSE), doc.status)
    BY <1>4 DEF Delete
  <2>2. doc.status \notin {"none", "pending"} /\ UNCHANGED <<doc, main, retry>>
    BY <1>4 DEF Delete, Absent, queues
  <2> QED
    BY <2>1, <2>2, ClientFields DEF OnceMoves
<1>5. CASE UpdateStatus(c)
  <2>1. client[c].msg.kind = "delete"
    BY <1>5 DEF UpdateStatus, OnceInv, OnceClient
  <2>2. client' = [client EXCEPT ![c].pc = "publish"]
    BY <1>5, <2>1 DEF UpdateStatus
  <2> QED
    BY <1>5, <2>2, ClientPc DEF UpdateStatus, OnceMoves, queues
<1>6. CASE PublishTask(c)
  <2>1. CASE main' = Put(main, client[c].msg) /\ Rest(c)
    BY <1>6, <2>1, ClientRest DEF PublishTask, OnceMoves
  <2>2. CASE Rest(c) /\ UNCHANGED main
    BY <1>6, <2>2, ClientRest DEF PublishTask, OnceMoves
  <2>3. CASE client' = [client EXCEPT ![c].pc = "undo"] /\ UNCHANGED main
               /\ (client[c].msg.kind = "index" \/ client[c].msg.ext)
    <3>1. client[c].msg.kind = "index"
      BY <1>6, <2>3 DEF PublishTask, OnceInv, OnceClient
    <3> QED
      BY <1>6, <2>3, <3>1, ClientPc DEF PublishTask, OnceMoves
  <2> QED
    BY <1>6, <2>1, <2>2, <2>3 DEF PublishTask
<1>7. CASE UndoPublish(c)
  <2>1. client[c].msg.kind = "index"
    BY <1>7 DEF UndoPublish, OnceInv, OnceClient
  <2>2. doc.status = "pending" => doc'.status = "failed"
    BY <1>7, <2>1 DEF UndoPublish, Absent, AttemptsInv, DocInv, DocState
  <2> QED
    BY <1>7, <2>2, ClientRest DEF UndoPublish, OnceMoves, queues
<1>8. CASE ClientStops(c)
  BY <1>8, ClientRest DEF ClientStops, OnceMoves, queues
<1> QED
  BY <1>1, <1>2, <1>3, <1>4, <1>5, <1>6, <1>7, <1>8 DEF ClientStep

LEMMA TaskFields ==
  \A kind, external : Task(kind, external).kind = kind /\ Task(kind, external).ext = external
BY DEF Task

LEMMA OnceClientNext ==
  ASSUME OnceInvs, NEW c \in Clients, OnceMoves(c), ext' = ext, UNCHANGED worker, Moves
  PROVE  OnceInv'
<1> USE DEF OnceInvs
<1>1. /\ doc'.status \notin {"inactive", "deindexing"}
      /\ doc.status \in Ended => doc'.status \in Ended
  BY StatusOnce
<1>2. \A m \in Msg : Waiting(m)' => ~m.ext /\ m.kind # "deindex"
  <2>1. CASE UNCHANGED <<main, retry>>
    BY <2>1 DEF OnceInv, Waiting
  <2>2. CASE client[c].pc = "publish" /\ main' = Put(main, client[c].msg) /\ UNCHANGED retry
    <3>1. /\ client[c].msg \in Msg /\ ~client[c].msg.ext
          /\ client[c].msg.kind # "deindex" /\ main \in [Msg -> Nat]
      BY <2>2 DEF OnceInv, OnceClient, AttemptsInv, ClientInv, ClientState, QueueInv
    <3> QED
      BY <2>2, <3>1, PutBag DEF OnceInv, Waiting
  <2> QED
    BY <2>1, <2>2 DEF OnceMoves
<1>3. \A d \in Clients : d # c => OnceClient(d)'
  BY DEF OnceMoves, OnceInv, OnceClient
<1>4. OnceClient(c)'
  <2>0. OnceClient(c)
    BY DEF OnceInv
  <2>1. CASE client'[c].msg = client[c].msg /\ client[c].pc # "idle"
    BY <2>0, <2>1 DEF OnceMoves, OnceClient, Task
  <2>2. CASE client'[c].pc = "idle"
    BY <2>2 DEF OnceClient
  <2>3. CASE client'[c].pc = "publish" /\ client'[c].msg = Task("index", FALSE)
    BY <2>3, TaskFields DEF OnceClient
  <2>4. CASE /\ client'[c].pc \in {"publish", "update"}
             /\ client'[c].msg = Task("delete", FALSE)
    BY <2>4, TaskFields DEF OnceClient
  <2> QED
    BY <2>1, <2>2, <2>3, <2>4 DEF OnceMoves
<1>5. \A w \in Workers : OnceWorker(w)'
  BY <1>1 DEF OnceInv, OnceWorker
<1> QED
  BY <1>1, <1>2, <1>3, <1>4, <1>5 DEF OnceInv

LEMMA OnceOther ==
  ASSUME OnceInvs, UNCHANGED <<worker, client>>, ext' = ext, Moves,
         \A m \in Msg : Waiting(m)' => Waiting(m)
  PROVE  OnceInv'
<1>1. /\ doc'.status \notin {"inactive", "deindexing"}
      /\ doc.status \in Ended => doc'.status \in Ended
  BY StatusOnce DEF OnceInvs
<1> QED
  BY <1>1 DEF OnceInvs, OnceInv, OnceClient, OnceWorker

-----------------------------------------------------------------------------
(* Nothing has happened to the document while its upload is not over *)

LEMMA FreshConsumer ==
  ASSUME OnceInvs, NEW w \in Workers, ConsumerMoves(w), Moves,
         \/ w \in IndexWorkers /\ IndexMoves(w)
         \/ UNCHANGED <<doc, nextTask>>
         \/ doc.status \in Ended
  PROVE  FreshInv'
<1> USE DEF OnceInvs
<1>1. UNCHANGED client /\ (doc'.status = "none" => doc.status = "none")
  BY StatusOnce DEF ConsumerMoves
<1>2. \A c \in Clients : Submitting(c)' <=> Submitting(c)
  BY <1>1 DEF Submitting
<1>3. ASSUME Untouched
      PROVE  Untouched'
  <2>1. \A m \in Msg : m.kind = "index" => ~Waiting(m)'
    BY <1>3, WorkersAssumption
       DEF ConsumerMoves, QueueMoves, Untouched, OnceInv, OnceWorker, Workers
  <2>2. \A v \in IndexWorkers : worker'[v].pc = "idle"
    <3>1. \A v \in Workers : v # w => worker'[v] = worker[v]
      BY DEF ConsumerMoves, Others
    <3>2. w \in IndexWorkers => worker'[w].pc = "idle"
      BY <1>3 DEF ConsumerMoves, MessageMoves, Untouched, Waiting, Idle
    <3> QED
      BY <1>3, <3>1, <3>2 DEF Untouched, Workers
  <2>3. doc'.status \in {"none", "pending"} /\ doc'.task = 0 /\ nextTask' = 0
    <3>1. CASE w \in IndexWorkers /\ IndexMoves(w)
      BY <1>3, <3>1 DEF IndexMoves, Drops, Claims, Builds, Ends, Requeues, Untouched,
                        HoldsToken, Building
    <3> QED
      BY <1>3, <3>1 DEF Untouched, Ended
  <2>4. \A c \in Clients : client'[c].pc # "update"
    BY <1>1, <1>3 DEF Untouched
  <2> QED
    BY <2>1, <2>2, <2>3, <2>4 DEF Untouched
<1> QED
  BY <1>1, <1>2, <1>3 DEF FreshInv

LEMMA FreshClient ==
  ASSUME OnceInvs, NEW c \in Clients, OnceMoves(c), ClientMoves
  PROVE  FreshInv'
<1> USE DEF OnceInvs
<1>1. UNCHANGED <<worker, nextTask>>
  BY DEF ClientMoves
<1>2. \A d \in Clients : d # c => (Submitting(d)' <=> Submitting(d))
  BY DEF OnceMoves, Submitting
<1>w. ASSUME Untouched, \A d \in Clients : client'[d].pc # "update",
             doc'.status \in {"none", "pending"}, doc'.task = 0,
             \A m \in Msg : m.kind = "index" /\ Waiting(m)' => Waiting(m)
      PROVE  Untouched'
  BY <1>1, <1>w DEF Untouched
<1>3. CASE /\ doc.status = "none" /\ UNCHANGED <<main, retry>>
           /\ doc'.status = "pending"
           /\ client'[c].pc = "publish"
  <2>1. Untouched /\ \A d \in Clients : ~Submitting(d)
    BY <1>3 DEF FreshInv
  <2>2. doc'.task = 0
    BY <1>3, <2>1 DEF ClientMoves, Untouched
  <2>3. \A d \in Clients : client'[d].pc # "update"
    BY <1>3, <2>1 DEF OnceMoves, Untouched
  <2>4. Untouched'
    BY <1>3, <1>w, <2>1, <2>2, <2>3 DEF Waiting
  <2> QED
    BY <1>2, <1>3, <2>1, <2>4 DEF FreshInv
<1>4. CASE /\ doc.status \notin {"none", "pending"} /\ UNCHANGED doc
           /\ client'[c].msg = Task("delete", FALSE)
  <2>1. \A d \in Clients : ~Submitting(d)
    BY <1>4 DEF FreshInv, Untouched
  <2>2. ~Submitting(c)'
    BY <1>4 DEF Submitting, Task
  <2> QED
    BY <1>2, <1>4, <2>1, <2>2 DEF FreshInv
<1>5. CASE client[c].pc = "update" /\ client'[c].msg = client[c].msg
  <2>1. ~Untouched
    BY <1>5 DEF Untouched
  <2>2. doc.status # "none" /\ \A d \in Clients : ~Submitting(d)
    BY <2>1 DEF FreshInv
  <2>3. client[c].msg.kind = "delete"
    BY <1>5 DEF OnceInv, OnceClient
  <2>4. ~Submitting(c)'
    BY <1>5, <2>3 DEF Submitting
  <2>5. doc'.status # "none"
    BY <2>2 DEF ClientMoves
  <2> QED
    BY <1>2, <2>2, <2>4, <2>5 DEF FreshInv
<1>6. CASE /\ client[c].pc = "publish" /\ main' = Put(main, client[c].msg)
           /\ client'[c].pc = "idle" /\ UNCHANGED <<doc, retry>>
  <2>1. ~Submitting(c)'
    BY <1>6 DEF Submitting
  <2>2. CASE client[c].msg.kind = "index"
    <3>1. Submitting(c)
      BY <1>6, <2>2 DEF Submitting
    <3>2. doc.status # "none" /\ \A d \in Clients : ~Submitting(d)'
      BY <1>2, <2>1, <3>1 DEF FreshInv
    <3> QED
      BY <1>6, <3>2 DEF FreshInv
  <2>3. CASE client[c].msg.kind = "delete"
    <3>1. \A m \in Msg : m.kind = "index" /\ Waiting(m)' => Waiting(m)
      <4>1. client[c].msg \in Msg /\ main \in [Msg -> Nat]
        BY DEF AttemptsInv, ClientInv, ClientState, QueueInv
      <4> QED
        BY <1>6, <2>3, <4>1, PutBag DEF Waiting
    <3>2. Untouched => Untouched'
      <4> SUFFICES ASSUME Untouched PROVE Untouched'
        OBVIOUS
      <4>1. \A d \in Clients : client'[d].pc # "update"
        BY <1>6 DEF OnceMoves, Untouched
      <4> QED
        BY <1>6, <1>w, <3>1, <4>1 DEF Untouched
    <3> QED
      BY <1>2, <1>6, <2>1, <3>2 DEF FreshInv
  <2> QED
    BY <1>6, <2>2, <2>3 DEF OnceInv, OnceClient
<1>7. CASE /\ client[c].pc = "publish" /\ client[c].msg.kind = "index"
           /\ client'[c].pc = "undo" /\ client'[c].msg = client[c].msg
           /\ UNCHANGED <<doc, main, retry>>
  <2>1. Submitting(c) /\ Submitting(c)'
    BY <1>7 DEF Submitting
  <2>2. Untouched /\ doc.status # "none"
    BY <2>1 DEF FreshInv
  <2>3. \A d \in Clients : client'[d].pc # "update"
    BY <1>7, <2>2 DEF OnceMoves, Untouched
  <2>4. Untouched'
    BY <1>7, <1>w, <2>2, <2>3 DEF Waiting, Untouched
  <2> QED
    BY <1>2, <1>7, <2>1, <2>2, <2>4 DEF FreshInv
<1>8. CASE /\ client[c].pc = "undo" /\ client'[c].pc = "idle"
           /\ doc.status = "pending" => doc'.status = "failed"
  <2>1. Submitting(c) /\ ~Submitting(c)'
    BY <1>8 DEF Submitting, OnceInv, OnceClient
  <2>2. doc.status = "pending"
    BY <2>1 DEF FreshInv, Untouched
  <2>3. \A d \in Clients : ~Submitting(d)'
    BY <1>2, <2>1 DEF FreshInv
  <2> QED
    BY <1>8, <2>2, <2>3 DEF FreshInv
<1>9. CASE client'[c].pc = "idle" /\ UNCHANGED <<doc, main, retry>>
  <2>1. ~Submitting(c)'
    BY <1>9 DEF Submitting
  <2>2. Untouched => Untouched'
    <3> SUFFICES ASSUME Untouched PROVE Untouched'
      OBVIOUS
    <3>1. \A d \in Clients : client'[d].pc # "update"
      BY <1>9 DEF OnceMoves, Untouched
    <3> QED
      BY <1>9, <1>w, <3>1 DEF Waiting, Untouched
  <2> QED
    BY <1>2, <1>9, <2>1, <2>2 DEF FreshInv
<1> QED
  BY <1>3, <1>4, <1>5, <1>6, <1>7, <1>8, <1>9 DEF OnceMoves

LEMMA FreshOther ==
  ASSUME OnceInvs, TimeMoves, UNCHANGED client, \A m \in Msg : Waiting(m)' => Waiting(m)
  PROVE  FreshInv'
<1>1. UNCHANGED <<worker, nextTask>>
  BY DEF TimeMoves
<1>2. \A d \in Clients : Submitting(d)' <=> Submitting(d)
  BY DEF Submitting
<1>3. Untouched => Untouched'
  BY <1>1 DEF Untouched, TimeMoves
<1>4. doc'.status = "none" => doc.status = "none"
  BY DEF TimeMoves
<1> QED
  BY <1>2, <1>3, <1>4 DEF OnceInvs, FreshInv

LEMMA TimeQueues ==
  ASSUME AttemptsInv, (\E m \in Msg : RetryDelayExpires(m)) \/ LeaseExpires \/ LeaseOutrun
                        \/ UNCHANGED vars
  PROVE  UNCHANGED client /\ \A m \in Msg : Waiting(m)' => Waiting(m)
<1>1. ASSUME NEW x \in Msg, RetryDelayExpires(x)
      PROVE  UNCHANGED client /\ \A m \in Msg : Waiting(m)' => Waiting(m)
  BY <1>1, PutBag, TakeBag DEF RetryDelayExpires, Waiting, AttemptsInv, QueueInv
<1>2. CASE LeaseExpires \/ LeaseOutrun \/ UNCHANGED vars
  BY <1>2 DEF LeaseExpires, LeaseOutrun, LeaseRunsOut, vars, queues, Waiting
<1> QED
  BY <1>1, <1>2

LEMMA OnceNext ==
  ASSUME SubmittedOnce, "late" \notin FaultKinds, OnceInvs, [Next]_vars
  PROVE  OnceInv' /\ FreshInv'
<1>1. Moves /\ ext' = ext
  BY MovesNext, ExternalKept
<1>2. ASSUME NEW w \in IndexWorkers,
             IndexStep(w) \/ CommonStep(w) \/ Crash(w) \/ LoseChannel(w)
      PROVE  OnceInv' /\ FreshInv'
  <2>1. w \in Workers /\ worker[w].msg.kind = "index"
    BY DEF OnceInvs, OnceInv, OnceWorker, Workers
  <2>2. ConsumerMoves(w)
    BY <1>2, <2>1, ConsumersIndex, ConsumersCommon
  <2>3. IndexMoves(w)
    BY <1>2, <2>1, MovesIndex DEF OnceInvs
  <2> QED
    BY <1>1, <2>1, <2>2, <2>3, OnceConsumer, FreshConsumer
<1>3. ASSUME NEW w \in DeleteWorkers,
             DeleteStep(w) \/ CommonStep(w) \/ Crash(w) \/ LoseChannel(w)
      PROVE  OnceInv' /\ FreshInv'
  <2>1. w \in Workers
    BY DEF Workers
  <2>2. ConsumerMoves(w)
    BY <1>3, <2>1, ConsumersDelete, ConsumersCommon
  <2>3. UNCHANGED <<doc, nextTask>> \/ doc.status \in Ended
    BY <1>3, DeleteOnce DEF OnceInvs
  <2> QED
    BY <1>1, <2>1, <2>2, <2>3, OnceConsumer, FreshConsumer
<1>4. ASSUME NEW c \in Clients, ClientStep(c)
      PROVE  OnceInv' /\ FreshInv'
  <2>1. OnceMoves(c) /\ ClientMoves
    BY <1>4, ClientOnly, ClientOnce
  <2>2. UNCHANGED worker
    BY <2>1 DEF ClientMoves
  <2> QED
    BY <1>1, <2>1, <2>2, OnceClientNext, FreshClient
<1>5. CASE (\E m \in Msg : RetryDelayExpires(m)) \/ LeaseExpires \/ LeaseOutrun
             \/ UNCHANGED vars
  <2>1. TimeMoves /\ UNCHANGED client /\ \A m \in Msg : Waiting(m)' => Waiting(m)
    BY <1>5, TimeOnce, TimeQueues DEF OnceInvs
  <2>2. UNCHANGED worker
    BY <2>1 DEF TimeMoves
  <2> QED
    BY <1>1, <2>1, <2>2, OnceOther, FreshOther
<1> QED
  BY <1>2, <1>3, <1>4, <1>5 DEF Next, Workers

LEMMA OnceInit == Init => OnceInv /\ FreshInv
<1> SUFFICES ASSUME Init PROVE OnceInv /\ FreshInv
  OBVIOUS
<1>1. \A m \in Msg : ~Waiting(m)
  BY DEF Init, Waiting
<1>2. \A c \in Clients : client[c].pc = "idle"
  BY DEF Init, Resting
<1>3. \A w \in Workers : worker[w] = Idle
  BY DEF Init
<1>4. OnceInv
  BY <1>1, <1>2, <1>3 DEF Init, OnceInv, OnceClient, OnceWorker, Idle, NoTask, Task,
                          Cleaning
<1>5. Untouched
  BY <1>1, <1>2, <1>3 DEF Init, Untouched, Idle, Workers
<1>6. \A c \in Clients : ~Submitting(c)
  BY <1>2 DEF Submitting
<1> QED
  BY <1>4, <1>5, <1>6 DEF FreshInv

LEMMA OnceInvariant ==
  ASSUME SubmittedOnce, "late" \notin FaultKinds
  PROVE  Spec => [](OnceInvs /\ TokenInv /\ BuildInv)
<1> DEFINE Inv == OnceInvs /\ TokenInv /\ BuildInv
<1>1. Init => Inv
  BY AttemptsInit, OnceInit, TokenInit, BuildInit DEF OnceInvs
<1>2. Inv /\ [Next]_vars => Inv'
  BY AttemptsNext, MovesNext, OnceNext, TokenNext, BuildNextState DEF OnceInvs
<1> QED
  BY <1>1, <1>2, PTL DEF Spec

\* Mutual exclusion of index executions, with any crashes, lost channels, failing
\* statements and repeated messages: for a document submitted once, as long as no
\* execution outlives its lease, no two consumers clean and write its stores at
\* once. The lease is renewed by the execution it belongs to; a second submission
\* overwrites the token while the first is being built (Reindex reads the status
\* and updates the row in two statements), and then two executions do overlap.
THEOREM ExecutionsExclude ==
  ASSUME SubmittedOnce, "late" \notin FaultKinds
  PROVE  Spec => []OneExecution
<1>1. OnceInvs /\ TokenInv => OneExecution
  BY TokenExclusive DEF OnceInvs
<1> QED
  BY <1>1, OnceInvariant, PTL

\* Under the same assumptions a document that says it is completed is stored
\* exactly, by the execution whose token completed it, whatever earlier attempts
\* had left behind when they failed or died.
THEOREM CompletedIsExact ==
  ASSUME SubmittedOnce, "late" \notin FaultKinds
  PROVE  Spec => []CompletedExact
<1>1. BuildInv => CompletedExact
  BY DEF BuildInv, CompletedBuild
<1> QED
  BY <1>1, OnceInvariant, PTL

-----------------------------------------------------------------------------
(* The pipeline implements SearchableDocument *)

\* A completed document is searchable with the whole content of one build.
LEMMA SearchableBuild ==
  ASSUME BuildInv', doc'.status = "completed"
  PROVE  \E b \in {c[1] : c \in Visible'} : Visible' = {b} \X (1..NumChunks)
<1>1. rows' = {doc'.task} \X (1..NumChunks) /\ vectors' = rows' /\ NumChunks # 0
  BY DEF BuildInv, CompletedBuild, CompletedExact
<1>2. Visible' = {doc'.task} \X (1..NumChunks)
  BY <1>1 DEF Visible
<1>3. <<doc'.task, 1>> \in Visible'
  BY <1>1, <1>2, BoundsAssumption
<1>4. doc'.task \in {c[1] : c \in Visible'}
  BY <1>3
<1> QED
  BY <1>2, <1>4

LEMMA PromiseInit == Init => Promise!Init
BY DEF Init, Promise!Init, Phase, Visible, Withdrawn

\* While it is not completed nothing of it is visible.
LEMMA NothingVisible ==
  ASSUME doc.status # "completed"
  PROVE  Visible = {}
BY DEF Visible

\* A step that leaves the row's status alone.
LEMMA PromiseStutter ==
  ASSUME doc'.status = doc.status, doc.status = "completed" => UNCHANGED <<rows, vectors>>
  PROVE  UNCHANGED <<Phase, Visible>>
BY DEF Phase, Visible, Withdrawn

LEMMA PromiseConsumer ==
  ASSUME AttemptsInv, TokenInv, BuildInv', NEW w \in IndexWorkers, IndexMoves(w)
  PROVE  Promise!Next \/ UNCHANGED <<Phase, Visible>>
<1>1. CASE Drops(w)
  BY <1>1, PromiseStutter DEF Drops
<1>2. CASE Claims(w)
  <2>1. doc.status \in {"pending", "processing"} /\ doc'.status = "processing"
    BY <1>2 DEF Claims, Claimable
  <2> QED
    BY <2>1 DEF Phase, Visible, Withdrawn
<1>3. CASE Builds(w)
  <2>1. doc' = doc /\ worker[w].pc \in Building
    BY <1>3 DEF Builds
  <2>2. doc.status # "completed"
    BY <2>1 DEF TokenInv, HoldsToken, Ended
  <2> QED
    BY <2>1, <2>2, PromiseStutter
<1>4. CASE Ends(w)
  <2>1. Phase = "indexing"
    BY <1>4 DEF Ends, HoldsToken, Phase, Withdrawn
  <2>2. CASE doc'.status = "failed"
    <3>1. Phase' = "failed" /\ Visible' = {}
      BY <2>2 DEF Phase, Visible, Withdrawn
    <3> QED
      BY <2>1, <3>1 DEF Promise!Next, Promise!Fail, Promise!Move
  <2>3. CASE doc'.status = "completed"
    <3>1. Phase' = "searchable"
      BY <2>3 DEF Phase, Withdrawn
    <3>2. \E b \in {c[1] : c \in Visible'} : Visible' = {b} \X (1..NumChunks)
      BY <2>3, SearchableBuild
    <3>3. Promise!Index
      BY <2>1, <3>1, <3>2 DEF Promise!Index, Promise!IsBuild, Promise!Content
    <3> QED
      BY <3>3 DEF Promise!Next
  <2> QED
    BY <1>4, <2>2, <2>3 DEF Ends
<1>5. CASE Requeues(w)
  <2>1. Visible' = {} /\ Visible = {}
    BY <1>5 DEF Requeues, Visible
  <2>2. Phase \in {"indexing", "failed"} /\ Phase' \in {"indexing", "failed"}
    BY <1>5 DEF Requeues, Phase, Withdrawn
  <2>3. Phase = "indexing" /\ Phase' = "failed" => Promise!Fail
    BY <2>1 DEF Promise!Fail, Promise!Move
  <2>4. Phase = "failed" /\ Phase' = "indexing" => Promise!Retry
    BY <2>1 DEF Promise!Retry, Promise!Move
  <2> QED
    BY <2>1, <2>2, <2>3, <2>4 DEF Promise!Next
<1> QED
  BY <1>1, <1>2, <1>3, <1>4, <1>5 DEF IndexMoves

LEMMA PromiseClient ==
  ASSUME AttemptsInv, OnceInv, ClientMoves
  PROVE  Promise!Next \/ UNCHANGED <<Phase, Visible>>
<1>1. CASE doc' = doc
  BY <1>1, PromiseStutter DEF ClientMoves
<1>2. CASE doc.status = "none" /\ doc'.status = "pending"
  <2>1. Phase = "absent" /\ Phase' = "indexing" /\ Visible' = {}
    BY <1>2 DEF Phase, Visible, Withdrawn
  <2> QED
    BY <2>1 DEF Promise!Next, Promise!Submit, Promise!Move
<1>3. CASE ~Absent /\ doc'.status = "deleting"
  <2>1. Phase' = "withdrawn" /\ Visible' = {}
    BY <1>3 DEF Phase, Visible, Withdrawn
  <2>2. CASE doc.status \in {"pending", "processing", "completed", "failed"}
    <3>1. Phase \in {"indexing", "failed", "searchable"}
      BY <2>2 DEF Phase, Withdrawn
    <3> QED
      BY <2>1, <3>1 DEF Promise!Next, Promise!Withdraw, Promise!Move
  <2>3. CASE doc.status \in {"inactive", "deindexing", "deleting"}
    <3>1. Phase = "withdrawn" /\ Visible = {}
      BY <2>3 DEF Phase, Visible, Withdrawn
    <3> QED
      BY <2>1, <3>1
  <2> QED
    BY <1>3, <2>2, <2>3 DEF Absent, AttemptsInv, DocInv, DocState, Statuses
<1>4. CASE doc.status = "pending" /\ doc'.status = "failed"
  <2>1. Phase = "indexing" /\ Phase' = "failed" /\ Visible' = {}
    BY <1>4 DEF Phase, Visible, Withdrawn
  <2> QED
    BY <2>1 DEF Promise!Next, Promise!Fail, Promise!Move
<1> QED
  BY <1>1, <1>2, <1>3, <1>4 DEF ClientMoves

LEMMA PromiseNext ==
  ASSUME AttemptsInv, OnceInv, TokenInv, BuildInv', Moves
  PROVE  [Promise!Next]_<<Phase, Visible>>
<1>1. CASE \E w \in IndexWorkers : IndexMoves(w)
  BY <1>1, PromiseConsumer
<1>2. CASE /\ doc' = doc \/ (doc.status \in Ended /\ doc'.status = "gone" /\ doc'.task = 0)
           /\ UNCHANGED <<rows, vectors>> \/ doc.status \in Ended
  <2>1. CASE doc' = doc
    BY <1>2, <2>1, PromiseStutter DEF Ended
  <2>2. CASE doc.status = "deleting" /\ doc'.status = "gone"
    <3>1. Phase = "withdrawn" /\ Phase' = "removed" /\ Visible' = {}
      BY <2>2 DEF Phase, Visible, Withdrawn
    <3> QED
      BY <3>1 DEF Promise!Next, Promise!Remove, Promise!Move
  <2>3. CASE doc.status = "gone" /\ doc'.status = "gone"
    BY <2>3, PromiseStutter
  <2> QED
    BY <1>2, <2>1, <2>2, <2>3 DEF Ended
<1>3. CASE ClientMoves
  BY <1>3, PromiseClient
<1>4. CASE TimeMoves
  BY <1>4, PromiseStutter DEF TimeMoves
<1> QED
  BY <1>1, <1>2, <1>3, <1>4 DEF Moves

\* The safety part of KeepsPromise: every behaviour of the pipeline, seen through
\* the document's phase and the chunks retrieval can return, is one of
\* SearchableDocument. The document is indexed at one instant, with the whole of
\* one build; between retries, redeliveries and crashes nothing of it is visible,
\* and once withdrawn it never returns.
THEOREM PipelineImplementsPromise ==
  ASSUME SubmittedOnce, "late" \notin FaultKinds
  PROVE  Spec => Promise!Spec
<1>1. Init => Promise!Init
  BY PromiseInit
<1>2. OnceInvs /\ TokenInv /\ BuildInv /\ BuildInv' /\ [Next]_vars
        => [Promise!Next]_<<Phase, Visible>>
  BY PromiseNext, MovesNext DEF OnceInvs
<1>3. OnceInvs /\ TokenInv /\ BuildInv /\ (OnceInvs /\ TokenInv /\ BuildInv)'
        /\ [Next]_vars => [Promise!Next]_(Promise!vars)
  BY <1>2 DEF Promise!vars
<1> QED
  BY <1>1, <1>3, OnceInvariant, PTL DEF Spec, Promise!Spec

-----------------------------------------------------------------------------
(* A closed mapping means a removed document, with any calls and any failures *)

\* A cleanup consumer has the mapping of a deletion to close only once the
\* document is gone.
GoneWorker(w) ==
  /\ worker[w].pc = "idle" => ~worker[w].held
  /\ w \in IndexWorkers => worker[w].msg.kind = "index"
  /\ worker[w].pc = "offline" => worker[w].msg.kind = "deindex"
  /\ worker[w].pc = "extdone" /\ worker[w].msg.kind = "delete" => doc.status = "gone"

\* Before the document is created there is nobody to do anything to it.
GoneInv ==
  /\ doc.status = "none" => /\ ext.status = "none"
                            /\ \A m \in Msg : ~Waiting(m)
                            /\ \A c \in Clients : client[c].pc = "idle"
                            /\ \A w \in Workers : worker[w].pc = "idle"
  /\ \A w \in Workers : GoneWorker(w)
  /\ DeletedMeansGone

ConsumerStep(w) ==
  \/ w \in IndexWorkers /\ IndexStep(w)
  \/ w \in DeleteWorkers /\ DeleteStep(w)
  \/ CommonStep(w) \/ Crash(w) \/ LoseChannel(w)

\* No consumer has anything to do before the document is created.
LEMMA ConsumerFinds ==
  ASSUME GoneInv, NEW w \in Workers, ConsumerStep(w)
  PROVE  doc.status # "none"
<1> SUFFICES ASSUME doc.status = "none"
             PROVE  FALSE
  OBVIOUS
<1>1. worker[w].pc = "idle" /\ ~worker[w].held /\ \A m \in Msg : ~(main[m] > 0)
  BY DEF GoneInv, GoneWorker, Waiting
<1>2. ~CommonStep(w) /\ ~Crash(w) /\ ~LoseChannel(w)
  BY <1>1 DEF CommonStep, Crash, LoseChannel, CleanVectors, CleanRows, MarkExternalDone,
              MarkExternalFailed, Publish, Ack
<1>3. ~IndexStep(w)
  BY <1>1 DEF IndexStep, FindForIndex, Receive, Claim, Reread, CheckToken, WriteRow,
              WriteVector, FailIndex, Complete, RetryIndex
<1>4. ~DeleteStep(w)
  BY <1>1 DEF DeleteStep, FindForDelete, Receive, MarkDeindexing, FinishDeindex,
              DeleteObject, RemoveDocument, RetryDelete
<1> QED
  BY <1>2, <1>3, <1>4 DEF ConsumerStep

LEMMA ReceiveMessage ==
  ASSUME AttemptsInv, NEW w \in Workers, NEW m \in Msg, NEW s \in WorkerState,
         Receive(w, m, s)
  PROVE  /\ Others(w) /\ worker'[w].msg = m /\ worker'[w].held /\ worker'[w].pc = s.pc
<1>1. worker'[w] = [s EXCEPT !.msg = m, !.held = TRUE]
  BY WorkerType DEF Receive
<1>2. /\ [s EXCEPT !.msg = m, !.held = TRUE].msg = m
      /\ [s EXCEPT !.msg = m, !.held = TRUE].held
      /\ [s EXCEPT !.msg = m, !.held = TRUE].pc = s.pc
  BY DEF WorkerState
<1> QED
  BY <1>1, <1>2, ReceiveFields

\* A consumer that goes from one statement to the next.
LEMMA GoneGoto ==
  ASSUME AttemptsInv, NEW w \in Workers, GoneWorker(w), NEW pc \in WorkerPCs \ {"idle"},
         Goto(w, pc) \/ (pc = "publish" /\ \E to, a : Send(w, to, a)),
         pc = "offline" => worker[w].msg.kind = "deindex",
         pc = "extdone" /\ worker[w].msg.kind = "delete" => doc'.status = "gone"
  PROVE  Others(w) /\ GoneWorker(w)'
BY GotoFields, SendFields DEF GoneWorker

LEMMA GoneIdle ==
  ASSUME AttemptsInv, NEW w \in Workers, worker' = [worker EXCEPT ![w] = Idle]
  PROVE  Others(w) /\ GoneWorker(w)'
<1>1. Idle.pc = "idle" /\ ~Idle.held /\ Idle.msg.kind = "index"
  BY DEF Idle, NoTask, Task
<1> QED
  BY <1>1, IdleFields DEF GoneWorker

LEMMA GoneIndexStep ==
  ASSUME AttemptsInv, NEW w \in IndexWorkers, GoneWorker(w), IndexStep(w)
  PROVE  Others(w) /\ GoneWorker(w)'
<1> w \in Workers
  BY DEF Workers
<1>0. worker[w].msg.kind = "index"
  BY DEF GoneWorker
<1>1. ASSUME NEW m \in Msg, FindForIndex(w, m)
      PROVE  Others(w) /\ GoneWorker(w)'
  <2>1. PICK s \in WorkerState :
          Receive(w, m, s) /\ s.pc \in {"ack", "extdone", "publish", "retry", "claim"}
    <3>1. CASE Receive(w, m, Routed(m))
      BY <3>1, RoutedCases DEF Receive
    <3>2. CASE Receive(w, m, [Idle EXCEPT !.pc = "retry", !.attempt = m.attempt])
      <4>1. /\ [Idle EXCEPT !.pc = "retry", !.attempt = m.attempt] \in WorkerState
            /\ [Idle EXCEPT !.pc = "retry", !.attempt = m.attempt].pc = "retry"
        BY IdleSound, MsgFields DEF Idle, Sound, WorkerState, WorkerPCs
      <4> QED
        BY <3>2, <4>1
    <3> QED
      BY <1>1, <3>1, <3>2 DEF FindForIndex
  <2> QED
    BY <1>1, <2>1, ReceiveMessage DEF FindForIndex, GoneWorker
<1>2. CASE Claim(w)
  <2>1. /\ Others(w) /\ worker'[w].msg = worker[w].msg
        /\ worker'[w].pc \in {"check", "reread", "retry"}
    BY <1>2, WorkerType DEF Claim, Goto, Others, WorkerState
  <2> QED
    BY <1>0, <2>1 DEF GoneWorker
<1>3. CASE Reread(w) \/ CheckToken(w) \/ FailIndex(w) \/ Complete(w) \/ WriteRow(w)
  <2>1. \E pc \in WorkerPCs \ {"idle", "offline"} :
          Goto(w, pc) \/ (pc = "publish" /\ \E to, a : Send(w, to, a))
    BY <1>3 DEF Reread, CheckToken, FailIndex, Complete, WriteRow, LeaseLost, Done,
                WorkerPCs
  <2> QED
    BY <1>0, <2>1, GoneGoto
<1>4. CASE WriteVector(w)
  <2>1. /\ Others(w) /\ worker'[w].msg = worker[w].msg
        /\ worker'[w].pc \in {"row", "complete", "fail"}
    BY <1>4, WorkerType DEF WriteVector, Goto, Others, WorkerState
  <2> QED
    BY <1>0, <2>1 DEF GoneWorker
<1>5. CASE RetryIndex(w)
  <2>1. CASE worker' = [worker EXCEPT ![w] = Idle]
    BY <2>1, GoneIdle
  <2>2. CASE worker' # [worker EXCEPT ![w] = Idle]
    <3>1. /\ Others(w) /\ worker'[w].msg = worker[w].msg
          /\ worker'[w].pc \in {"extfail", "publish"}
      BY <1>5, <2>2, WorkerType DEF RetryIndex, Others, WorkerState
    <3> QED
      BY <1>0, <3>1 DEF GoneWorker
  <2> QED
    BY <2>1, <2>2
<1> QED
  BY <1>1, <1>2, <1>3, <1>4, <1>5 DEF IndexStep

LEMMA GoneDeleteStep ==
  ASSUME AttemptsInv, NEW w \in DeleteWorkers, GoneWorker(w), DeleteStep(w),
         doc.status # "none"
  PROVE  Others(w) /\ GoneWorker(w)'
<1> w \in Workers /\ w \notin IndexWorkers
  BY WorkersAssumption DEF Workers
<1>1. ASSUME NEW m \in Msg, FindForDelete(w, m)
      PROVE  Others(w) /\ GoneWorker(w)'
  <2>1. PICK pc \in WorkerPCs :
          /\ Receive(w, m, [Idle EXCEPT !.pc = pc]) /\ pc \notin {"idle", "offline"}
          /\ pc = "extdone" => doc.status = "gone"
    BY <1>1 DEF FindForDelete, CleanupRouted, DeleteError, Done, WorkerPCs, Absent
  <2> DEFINE s == [Idle EXCEPT !.pc = pc]
  <2>2. s \in WorkerState /\ s.pc = pc
    BY IdleSound DEF Sound, WorkerState
  <2>3. Receive(w, m, s)
    BY <2>1
  <2> HIDE DEF s
  <2> QED
    BY <1>1, <2>1, <2>2, <2>3, ReceiveMessage DEF FindForDelete, GoneWorker
<1>2. CASE MarkDeindexing(w) \/ DeleteObject(w)
  <2>1. \E pc \in WorkerPCs \ {"idle", "offline", "extdone"} : Goto(w, pc)
    BY <1>2 DEF MarkDeindexing, DeleteObject, DeleteError, WorkerPCs
  <2> QED
    BY <2>1, GoneGoto
<1>3. CASE FinishDeindex(w)
  <2>1. worker[w].msg.kind = "deindex"
    BY <1>3 DEF FinishDeindex, GoneWorker
  <2>2. \E pc \in WorkerPCs \ {"idle", "offline"} : Goto(w, pc)
    BY <1>3 DEF FinishDeindex, DeleteError, Done, WorkerPCs
  <2> QED
    BY <2>1, <2>2, GoneGoto
<1>4. CASE RemoveDocument(w)
  <2>1. CASE doc'.status = "gone"
    <3>1. \E pc \in WorkerPCs \ {"idle", "offline"} : Goto(w, pc)
      BY <1>4 DEF RemoveDocument, DeleteError, Done, WorkerPCs
    <3> QED
      BY <2>1, <3>1, GoneGoto
  <2>2. CASE doc'.status # "gone"
    <3>1. \E pc \in WorkerPCs \ {"idle", "offline", "extdone"} : Goto(w, pc)
      BY <1>4, <2>2 DEF RemoveDocument, DeleteError, WorkerPCs
    <3> QED
      BY <3>1, GoneGoto
  <2> QED
    BY <2>1, <2>2
<1>5. CASE RetryDelete(w)
  <2>1. \E to, a : Send(w, to, a)
    BY <1>5 DEF RetryDelete
  <2> QED
    BY <2>1, GoneGoto DEF WorkerPCs
<1> QED
  BY <1>1, <1>2, <1>3, <1>4, <1>5 DEF DeleteStep

LEMMA GoneCommonStep ==
  ASSUME AttemptsInv, NEW w \in Workers, GoneWorker(w),
         CommonStep(w) \/ Crash(w) \/ LoseChannel(w)
  PROVE  Others(w) /\ GoneWorker(w)'
<1>0. worker[w].msg.kind \in {"index", "delete", "deindex"}
  BY WorkerMsg DEF AttemptsInv
<1>1. CASE CleanVectors(w) \/ CleanRows(w)
  <2>1. PICK pc \in WorkerPCs \ {"idle", "extdone"} :
          Goto(w, pc) /\ (pc = "offline" => worker[w].msg.kind = "deindex")
    BY <1>0, <1>1 DEF CleanVectors, CleanRows, StoreError, DeleteError, AfterClean,
                      WorkerPCs
  <2> QED
    BY <2>1, GoneGoto
<1>2. CASE MarkExternalDone(w) \/ MarkExternalFailed(w)
  <2>1. \E pc \in WorkerPCs \ {"idle", "offline", "extdone"} : Goto(w, pc)
    BY <1>2 DEF MarkExternalDone, MarkExternalFailed, WorkerPCs
  <2> QED
    BY <2>1, GoneGoto
<1>3. CASE Publish(w) \/ Ack(w) \/ Crash(w)
  <2>1. Goto(w, "ack") \/ worker' = [worker EXCEPT ![w] = Idle]
    BY <1>3 DEF Publish, Ack, Crash
  <2> QED
    BY <2>1, GoneGoto, GoneIdle DEF WorkerPCs
<1>4. CASE LoseChannel(w)
  <2>1. Others(w) /\ ~worker'[w].held
    BY <1>4, WorkerType DEF LoseChannel, Others, WorkerState
  <2>2. doc' = doc
    BY <1>4 DEF LoseChannel
  <2> QED
    BY <1>4, <2>1, <2>2, LoseFields DEF GoneWorker
<1> QED
  BY <1>1, <1>2, <1>3, <1>4 DEF CommonStep

LEMMA GoneConsumer ==
  ASSUME AttemptsInv, GoneInv, NEW w \in Workers, ConsumerStep(w),
         ConsumerMove(doc.status, doc'.status)
  PROVE  GoneInv'
<1>1. doc.status # "none" /\ GoneWorker(w)
  BY ConsumerFinds DEF GoneInv
<1>2. doc'.status # "none" /\ (doc.status = "gone" => doc'.status = "gone")
  BY <1>1 DEF ConsumerMove
<1>3. Others(w) /\ GoneWorker(w)'
  BY <1>1, GoneIndexStep, GoneDeleteStep, GoneCommonStep DEF ConsumerStep
<1>4. \A v \in Workers : v # w => GoneWorker(v)'
  BY <1>2, <1>3 DEF Others, GoneInv, GoneWorker
<1>5. ext' = ext \/ ext' = ExternalFailed \/ ext' = ExternalDone(worker[w].msg.kind)
  BY DEF ConsumerStep, IndexStep, DeleteStep, CommonStep, Crash, LoseChannel, FindForIndex,
         Claim, Reread, CheckToken, WriteRow, WriteVector, FailIndex, Complete, RetryIndex,
         FindForDelete, MarkDeindexing, FinishDeindex, DeleteObject, RemoveDocument,
         RetryDelete, CleanVectors, CleanRows, MarkExternalDone, MarkExternalFailed,
         Publish, Ack
<1>6. DeletedMeansGone'
  <2>1. CASE ext' = ext \/ ext' = ExternalFailed
    <3>1. ext'.status = "deleted" => ext.status = "deleted"
      BY <2>1 DEF ExternalFailed, AttemptsInv, RestInv, ExternalState
    <3> QED
      BY <1>2, <3>1 DEF DeletedMeansGone, GoneInv
  <2>2. CASE ext' = ExternalDone(worker[w].msg.kind) /\ ext' # ext
    <3>1. CASE MarkExternalDone(w)
      <4>1. worker[w].pc = "extdone"
        BY <3>1 DEF MarkExternalDone
      <4>2. ext'.status = "deleted" => ext.status = "deleted" \/ worker[w].msg.kind = "delete"
        BY <2>2, WorkerMsg DEF ExternalDone, AttemptsInv, RestInv, ExternalState
      <4> QED
        BY <1>1, <1>2, <4>1, <4>2 DEF GoneWorker, DeletedMeansGone, GoneInv
    <3>2. CASE ~MarkExternalDone(w)
      <4>1. ext' = ext \/ ext' = ExternalFailed
        BY <3>2 DEF ConsumerStep, IndexStep, DeleteStep, CommonStep, Crash, LoseChannel,
               FindForIndex, Claim, Reread, CheckToken, WriteRow, WriteVector, FailIndex,
               Complete, RetryIndex, FindForDelete, MarkDeindexing, FinishDeindex,
               DeleteObject, RemoveDocument, RetryDelete, CleanVectors, CleanRows,
               MarkExternalFailed, Publish, Ack
      <4> QED
        BY <2>1, <4>1
    <3> QED
      BY <3>1, <3>2
  <2> QED
    BY <1>5, <2>1, <2>2
<1> QED
  BY <1>2, <1>3, <1>4, <1>6 DEF GoneInv

LEMMA GoneClient ==
  ASSUME AttemptsInv, GoneInv, NEW c \in Clients, ClientStep(c)
  PROVE  GoneInv'
<1>1. UNCHANGED worker
  BY DEF ClientStep, Upload, FirstUpsert, Create, Delete, Reindex, Upsert, Missing,
         MissingFound, UpdateStatus, SaveMapping, PublishTask, UndoPublish, ClientStops
<1>2. CASE Upload(c) \/ FirstUpsert(c)
  <2>1. doc.status = "none" /\ doc'.status = "pending" /\ ext' = ext
    BY <1>2 DEF Upload, FirstUpsert, Create, AttemptsInv, DocInv, DocState
  <2>2. \A w \in Workers : worker[w].pc = "idle"
    BY <2>1 DEF GoneInv
  <2> QED
    BY <1>1, <2>1, <2>2 DEF GoneInv, GoneWorker, DeletedMeansGone
<1>3. CASE ~Upload(c) /\ ~FirstUpsert(c)
  <2>1. doc.status # "none"
    <3> SUFFICES ASSUME doc.status = "none"
                 PROVE  FALSE
      OBVIOUS
    <3>1. client[c].pc = "idle" /\ ext.status = "none"
      BY DEF GoneInv
    <3> QED
      BY <1>3, <3>1 DEF ClientStep, Delete, Reindex, Upsert, Missing, MissingFound,
             UpdateStatus, SaveMapping, PublishTask, UndoPublish, ClientStops, Absent
  <2>2. doc'.status # "none" /\ (doc.status = "gone" => doc'.status = "gone")
    <3>1. CASE doc' = doc
      BY <2>1, <3>1
    <3>2. CASE UpdateStatus(c)
      <4>1. doc' = doc \/ doc' = Reset(client[c].msg.kind)
        BY <3>2 DEF UpdateStatus
      <4>2. client[c].msg.kind \in {"index", "delete", "deindex"}
        BY MsgFields DEF AttemptsInv, ClientInv, ClientState
      <4>3. CASE Absent
        BY <2>1, <4>1, <4>2, <4>3 DEF Reset
      <4>4. CASE ~Absent
        <5>1. doc.status # "gone" /\ doc \in DocState
          BY <4>4 DEF Absent, AttemptsInv, DocInv
        <5>2. Reset(client[c].msg.kind).status \in {"pending", "deleting", "inactive"}
          BY <4>2, <4>4, <5>1 DEF Reset, DocState
        <5> QED
          BY <2>1, <4>1, <5>1, <5>2
      <4> QED
        BY <4>3, <4>4
    <3>3. CASE UndoPublish(c)
      BY <2>1, <3>3 DEF UndoPublish, Absent, AttemptsInv, DocInv, DocState
    <3> QED
      BY <1>3, <3>1, <3>2, <3>3 DEF ClientStep, Delete, Reindex, Upsert, Missing,
             MissingFound, SaveMapping, PublishTask, ClientStops
  <2>3. \A w \in Workers : GoneWorker(w)'
    BY <1>1, <2>2 DEF GoneInv, GoneWorker
  <2>4. ext'.status = "deleted" => ext.status = "deleted" \/ doc.status = "gone"
    <3>1. CASE ext' = ext \/ ext' = ExternalFailed
      <4>1. ext'.status = "deleted" => ext.status = "deleted"
        BY <3>1 DEF ExternalFailed, AttemptsInv, RestInv, ExternalState
      <4> QED
        BY <4>1
    <3>2. CASE Upsert(c) \/ SaveMapping(c) \/ Missing(c)
      <4>1. \/ ext' = ext
            \/ ext' = [status |-> "synced", missing |-> 0, marked |-> FALSE]
            \/ ext' = [status |-> "changed", missing |-> 0, marked |-> FALSE]
            \/ \E n : ext' = [status |-> "missing", missing |-> n, marked |-> TRUE]
        BY <3>2 DEF Upsert, SaveMapping, Missing
      <4> QED
        BY <4>1
    <3>3. CASE MissingFound(c)
      BY <2>1, <3>3 DEF MissingFound, Absent
    <3> QED
      BY <1>3, <3>1, <3>2, <3>3 DEF ClientStep, Delete, Reindex, UpdateStatus,
             PublishTask, UndoPublish, ClientStops
  <2> QED
    BY <2>2, <2>3, <2>4 DEF GoneInv, DeletedMeansGone
<1> QED
  BY <1>2, <1>3

LEMMA GoneTime ==
  ASSUME AttemptsInv, GoneInv,
         (\E m \in Msg : RetryDelayExpires(m)) \/ LeaseExpires \/ LeaseOutrun
           \/ UNCHANGED vars
  PROVE  GoneInv'
<1>1. UNCHANGED <<worker, client, ext>> /\ \A m \in Msg : Waiting(m)' => Waiting(m)
  BY TimeQueues DEF RetryDelayExpires, LeaseExpires, LeaseOutrun, LeaseRunsOut, vars
<1>2. doc'.status = doc.status
  BY DEF RetryDelayExpires, LeaseExpires, LeaseOutrun, LeaseRunsOut, vars, AttemptsInv,
         DocInv, DocState
<1> QED
  BY <1>1, <1>2 DEF GoneInv, GoneWorker, DeletedMeansGone

LEMMA GoneNext ==
  ASSUME AttemptsInv, GoneInv, [Next]_vars
  PROVE  GoneInv'
<1>1. ASSUME NEW w \in Workers, ConsumerStep(w)
      PROVE  GoneInv'
  <2>1. ConsumerMove(doc.status, doc'.status)
    BY <1>1, IndexMove, DeleteMove, CommonMove DEF ConsumerStep
  <2> QED
    BY <1>1, <2>1, GoneConsumer
<1> QED
  BY <1>1, GoneClient, GoneTime DEF Next, ConsumerStep, Workers

LEMMA GoneInit == Init => GoneInv
<1> SUFFICES ASSUME Init PROVE GoneInv
  OBVIOUS
<1>1. \A m \in Msg : ~Waiting(m)
  BY DEF Init, Waiting
<1>2. \A w \in Workers : worker[w].pc = "idle" /\ GoneWorker(w)
  BY DEF Init, GoneWorker, Idle, NoTask, Task
<1>3. \A c \in Clients : client[c].pc = "idle"
  BY DEF Init, Resting
<1> QED
  BY <1>1, <1>2, <1>3 DEF Init, GoneInv, DeletedMeansGone

\* The mapping of a remote page is never closed over a live document, with any
\* calls, failures and orders of messages: a cleanup consumer says "deleted" only
\* after it has removed the row or found it removed, the sync only when it finds
\* it removed, and a removed row does not come back.
THEOREM ClosedMeansGone == Spec => []DeletedMeansGone
<1>1. GoneInv => DeletedMeansGone
  BY DEF GoneInv
<1>2. AttemptsInv /\ GoneInv /\ [Next]_vars => GoneInv'
  BY GoneNext
<1> QED
  BY <1>1, <1>2, GoneInit, AttemptsInvariant, PTL DEF Spec
=============================================================================
