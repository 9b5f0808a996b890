-------------------------- MODULE DocumentPipeline --------------------------
(***************************************************************************)
(* The life of one row of the documents table: the API calls and source    *)
(* syncs that submit, reset or withdraw it (Clients), the RabbitMQ index    *)
(* and delete queues, the index and delete consumers that act on it, the    *)
(* chunk rows and vectors they write, and the lease with which an index     *)
(* execution owns the row.                                                  *)
(*                                                                          *)
(* Every SQL statement, store call, publish and acknowledgement is a step   *)
(* of its own, so other processes, crashes and time may come in between.    *)
(* Qdrant and Bluge are written and cleaned together and appear as the set  *)
(* "vectors"; parent and child chunk rows as the set "rows".                *)
(***************************************************************************)
EXTENDS Naturals

CONSTANTS
  IndexWorkers,   \* goroutines of IndexConsumer
  DeleteWorkers,  \* goroutines of DeleteConsumer
  Clients,        \* concurrent API requests and source syncs
  Ops,            \* the calls the clients make
  MaxCalls,       \* bound: number of client calls
  MaxRetries,     \* ConsumerOptions.MaxRetries
  NumChunks,      \* chunks SplitDocument yields for this document
  DeleteAfter,    \* DeleteAfterMissingSyncs
  FaultKinds,     \* the failures of the environment that may occur
  MaxFaults       \* bound: how many of them occur

AllOps == {"upload", "delete", "reindex", "upsert", "missing"}

(***************************************************************************)
(* store   an object, vector, chunk or embedding call fails                 *)
(* db      an UPDATE of the documents or external_documents row fails       *)
(* lookup  a consumer's SELECT or claim fails before it owns a token        *)
(* publish PublishJSON fails                                                *)
(* conn    the broker drops a consumer's channel and redelivers its         *)
(*         message while the handler is still running                       *)
(* crash   a consumer dies, its message is redelivered                      *)
(* late    an execution is still running when its index lease expires       *)
(* client  a client dies, or fails in SQL, between two steps of its call    *)
(***************************************************************************)
AllFaults == {"store", "db", "lookup", "publish", "conn", "crash",
              "late", "client"}

ASSUME WorkersAssumption == IndexWorkers \cap DeleteWorkers = {}
ASSUME BoundsAssumption == /\ MaxRetries \in Nat \ {0}
                           /\ NumChunks \in Nat
                           /\ DeleteAfter \in Nat \ {0, 1}
                           /\ MaxCalls \in Nat
                           /\ MaxFaults \in Nat
ASSUME EnvironmentAssumption == /\ Ops \subseteq AllOps
                                /\ FaultKinds \subseteq AllFaults

VARIABLES
  doc,       \* the row: status, index_task_id, index_attempt, index_lease_until
  object,    \* whether the MinIO object exists
  rows,      \* chunk rows, each <<execution that wrote it, chunk number>>
  vectors,   \* their vectors and keyword entries
  main,      \* messages waiting in the main queues, with multiplicity
  retry,     \* messages waiting in the .retry queues
  dlq,       \* messages in the .dlq queues
  worker,    \* control state of each consumer goroutine
  client,    \* control state of each client
  ext,       \* the external_documents row that maps a remote page to this one
  nextTask,  \* number of execution tokens (uuids) handed out
  calls,     \* calls made (bounded by MaxCalls)
  faults     \* failures that occurred (bounded by MaxFaults)

stores == <<object, rows, vectors>>
queues == <<main, retry, dlq>>
vars == <<doc, stores, queues, worker, client, ext, nextTask, calls, faults>>

Workers == IndexWorkers \cup DeleteWorkers

Statuses == {"none", "pending", "processing", "completed", "failed",
             "inactive", "deindexing", "deleting", "gone"}

Msg == [kind : {"index", "delete", "deindex"},
        attempt : 0..MaxRetries + 1,
        ext : BOOLEAN]

Task(kind, external) == [kind |-> kind, attempt |-> 0, ext |-> external]

NoTask == Task("index", FALSE)

WorkerPCs == {"idle", "claim", "reread", "check", "vclean", "rclean", "row",
              "vec", "fail", "complete", "mark", "object", "remove", "offline",
              "extdone", "extfail", "retry", "publish", "ack"}

ClientPCs == {"idle", "update", "map", "publish", "undo", "missed"}

DocState == [status : Statuses, task : Nat, attempt : Nat,
             lease : {"none", "live", "expired"}]

WorkerState == [pc : WorkerPCs, msg : Msg, held : BOOLEAN, task : Nat,
                attempt : 0..MaxRetries + 1, n : Nat, to : {"retry", "dlq"}]

ClientState == [pc : ClientPCs, msg : Msg, seen : Statuses]

ExternalState ==
  [status : {"none", "changed", "synced", "missing", "deleted", "failed"},
   missing : Nat, marked : BOOLEAN]

Idle == [pc |-> "idle", msg |-> NoTask, held |-> FALSE,
         task |-> 0, attempt |-> 0, n |-> 0, to |-> "retry"]

Resting == [pc |-> "idle", msg |-> NoTask, seen |-> "none"]

Absent == doc.status \in {"none", "gone"}

Init ==
  /\ doc = [status |-> "none", task |-> 0, attempt |-> 0, lease |-> "none"]
  /\ object = FALSE
  /\ rows = {}
  /\ vectors = {}
  /\ main = [m \in Msg |-> 0]
  /\ retry = [m \in Msg |-> 0]
  /\ dlq = [m \in Msg |-> 0]
  /\ worker = [w \in Workers |-> Idle]
  /\ client = [c \in Clients |-> Resting]
  /\ ext = [status |-> "none", missing |-> 0, marked |-> FALSE]
  /\ nextTask = 0
  /\ calls = 0
  /\ faults = 0

-----------------------------------------------------------------------------
(* Failures, the broker and time *)

Fault(kind) == /\ kind \in FaultKinds
               /\ faults < MaxFaults
               /\ faults' = faults + 1

NoFault == UNCHANGED faults

Put(q, m) == [q EXCEPT ![m] = @ + 1]
Take(q, m) == [q EXCEPT ![m] = @ - 1]

\* Mutant: deliveries are consumed with autoAck.
RedeliveredAutoAck(w) == main

\* A delivery whose channel is lost, or that is Nack'ed, goes back unchanged.
Redelivered(w) == IF worker[w].held THEN Put(main, worker[w].msg) ELSE main

RetryDelayExpires(m) ==
  /\ retry[m] > 0
  /\ retry' = Take(retry, m)
  /\ main' = Put(main, m)
  /\ UNCHANGED <<doc, stores, dlq, worker, client, ext, nextTask, calls, faults>>

Crash(w) ==
  /\ worker[w].pc # "idle"
  /\ Fault("crash")
  /\ main' = Redelivered(w)
  /\ worker' = [worker EXCEPT ![w] = Idle]
  /\ UNCHANGED <<doc, stores, retry, dlq, client, ext, nextTask, calls>>

LoseChannel(w) ==
  /\ worker[w].held
  /\ Fault("conn")
  /\ main' = Redelivered(w)
  /\ worker' = [worker EXCEPT ![w].held = FALSE]
  /\ UNCHANGED <<doc, stores, retry, dlq, client, ext, nextTask, calls>>

\* An execution holds the row's token and is still running.
Owns(w) == /\ worker[w].pc # "idle"
           /\ worker[w].task = doc.task
           /\ doc.task # 0

LeaseRunsOut ==
  /\ doc.status = "processing"
  /\ doc.lease = "live"
  /\ doc' = [doc EXCEPT !.lease = "expired"]
  /\ UNCHANGED <<stores, queues, worker, client, ext, nextTask, calls>>

\* The lease of an execution that is dead, and of one that is merely slow.
LeaseExpires == (\A w \in IndexWorkers : ~Owns(w)) /\ LeaseRunsOut /\ NoFault
LeaseOutrun == (\E w \in IndexWorkers : Owns(w)) /\ LeaseRunsOut /\ Fault("late")

-----------------------------------------------------------------------------
(* Consumer steps common to both queues *)

Goto(w, pc) == worker' = [worker EXCEPT ![w].pc = pc]

\* Publish message m of worker w with this attempt to queue "to".
Send(w, to, attempt) ==
  worker' = [worker EXCEPT ![w].pc = "publish", ![w].to = to,
                           ![w].attempt = attempt]

\* Worker w takes message m off its queue and goes to state s with it.
Receive(w, m, s) ==
  /\ worker[w].pc = "idle"
  /\ main[m] > 0
  /\ main' = Take(main, m)
  /\ worker' = [worker EXCEPT ![w] = [s EXCEPT !.msg = m, !.held = TRUE]]

\* handleDelivery and retry: publish the message again, then acknowledge;
\* if the publish fails, Nack the original delivery.
Publish(w) ==
  /\ worker[w].pc = "publish"
  /\ LET m == [worker[w].msg EXCEPT !.attempt = worker[w].attempt]
     IN \/ /\ NoFault
           /\ retry' = IF worker[w].to = "retry" THEN Put(retry, m) ELSE retry
           /\ dlq' = IF worker[w].to = "dlq" THEN Put(dlq, m) ELSE dlq
           /\ Goto(w, "ack")
           /\ UNCHANGED main
        \/ /\ Fault("publish")
           /\ main' = Redelivered(w)
           /\ worker' = [worker EXCEPT ![w] = Idle]
           /\ UNCHANGED <<retry, dlq>>
  /\ UNCHANGED <<doc, stores, client, ext, nextTask, calls>>

Ack(w) ==
  /\ worker[w].pc = "ack"
  /\ worker' = [worker EXCEPT ![w] = Idle]
  /\ UNCHANGED <<doc, stores, queues, client, ext, nextTask, calls, faults>>

\* Mutants: the retry limit off by one, either way.
RetryQueueLate(attempt) == IF attempt > MaxRetries + 1 THEN "dlq" ELSE "retry"
RetryQueueEarly(attempt) == IF attempt >= MaxRetries THEN "dlq" ELSE "retry"

\* publishRetry: past the last retry the message goes to the dead letters.
RetryQueue(attempt) == IF attempt > MaxRetries THEN "dlq" ELSE "retry"

\* The step that follows once the handler has done its work.
Done(m) == IF m.ext THEN "extdone" ELSE "ack"

\* Mutant: the error of a cleanup step is dropped.
DeleteErrorIgnored(m) == Done(m)

\* How DeleteConsumer.retryDelete starts.
DeleteError(m) == IF m.ext THEN "extfail" ELSE "retry"

\* How a handler goes on after a failing store call.
StoreError(m) == IF m.kind = "index" THEN "fail" ELSE DeleteError(m)

ExternalFailed == IF ext.status \in {"none", "deleted"} THEN ext
                  ELSE [ext EXCEPT !.status = "failed"]

\* MarkExternalDocumentSynced, ...Deindexed and ...Deleted.
ExternalDone(kind) ==
  IF ext.status = "none" THEN ext
  ELSE CASE kind = "index"   -> [status |-> "synced", missing |-> 0, marked |-> FALSE]
         [] kind = "deindex" -> IF ext.status = "deleted" THEN ext
                                ELSE [ext EXCEPT !.status = "missing"]
         [] kind = "delete"  -> [ext EXCEPT !.status = "deleted"]

MarkExternalDone(w) ==
  /\ worker[w].pc = "extdone"
  /\ \/ /\ NoFault
        /\ ext' = ExternalDone(worker[w].msg.kind)
        /\ Goto(w, "ack")
     \/ /\ Fault("db")
        /\ Goto(w, IF worker[w].msg.kind = "index" THEN "retry" ELSE "extfail")
        /\ UNCHANGED ext
  /\ UNCHANGED <<doc, stores, queues, client, nextTask, calls>>

\* MarkExternalDocumentFailed; its own error is ignored by every caller.
MarkExternalFailed(w) ==
  /\ worker[w].pc = "extfail"
  /\ \/ NoFault /\ ext' = ExternalFailed
     \/ Fault("db") /\ UNCHANGED ext
  /\ Goto(w, IF worker[w].msg.kind = "index" THEN "publish" ELSE "retry")
  /\ UNCHANGED <<doc, stores, queues, client, nextTask, calls>>

\* Mutant: the cleanup removes what this execution wrote, not the document's.
CleanVectorsByExecution(w) ==
  /\ worker[w].pc = "vclean"
  /\ NoFault
  /\ vectors' = {v \in vectors : v[1] # worker[w].task}
  /\ Goto(w, "rclean")
  /\ UNCHANGED <<doc, object, rows, queues, client, ext, nextTask, calls>>

\* Indexer.Index and DeleteConsumer.handle remove what is stored for the
\* document, whichever execution wrote it.
CleanVectors(w) ==
  /\ worker[w].pc = "vclean"
  /\ \/ NoFault /\ vectors' = {} /\ Goto(w, "rclean")
     \/ Fault("store") /\ Goto(w, StoreError(worker[w].msg)) /\ UNCHANGED vectors
  /\ UNCHANGED <<doc, object, rows, queues, client, ext, nextTask, calls>>

AfterClean(kind) ==
  CASE kind = "index"   -> IF NumChunks = 0 THEN "fail" ELSE "row"
    [] kind = "deindex" -> "offline"
    [] kind = "delete"  -> "object"

CleanRows(w) ==
  /\ worker[w].pc = "rclean"
  /\ \/ NoFault /\ rows' = {} /\ Goto(w, AfterClean(worker[w].msg.kind))
     \/ Fault("store") /\ Goto(w, StoreError(worker[w].msg)) /\ UNCHANGED rows
  /\ UNCHANGED <<doc, object, vectors, queues, client, ext, nextTask, calls>>

-----------------------------------------------------------------------------
(* IndexConsumer and Indexer *)

\* Mutant: the row's attempts and the message's are added up.
LargerSum(a, b) == a + b

Larger(a, b) == IF a > b THEN a ELSE b

\* IndexConsumer.handle up to the claim: what the first SELECT decides.
Routed(m) ==
  LET attempt == Larger(m.attempt, doc.attempt)
      At(pc) == [Idle EXCEPT !.pc = pc, !.attempt = attempt]
  IN CASE Absent -> At("ack")
       [] doc.status = "completed" -> At(Done(m))
       [] doc.status = "failed" /\ attempt > MaxRetries ->
            [At("publish") EXCEPT !.to = "dlq"]
       [] doc.status = "failed" /\ attempt <= MaxRetries ->
            [At("retry") EXCEPT !.task = doc.task]
       [] doc.status \in {"pending", "processing"} -> At("claim")
       [] OTHER -> At("ack")

FindForIndex(w, m) ==
  /\ m.kind = "index"
  /\ \/ /\ NoFault
        /\ Receive(w, m, Routed(m))
        /\ ext' = IF Absent /\ m.ext THEN ExternalFailed ELSE ext
     \/ /\ Fault("lookup")
        /\ Receive(w, m, [Idle EXCEPT !.pc = "retry", !.attempt = m.attempt])
        /\ UNCHANGED ext
  /\ UNCHANGED <<doc, stores, retry, dlq, client, nextTask, calls>>

\* Mutants: the claim ignores the lease, or looks at nothing but the lease.
ClaimableInUse == doc.status \in {"pending", "processing"}
ClaimableUnleased == doc.lease # "live"

Claimable == \/ doc.status = "pending"
             \/ doc.status = "processing" /\ doc.lease # "live"

\* ClaimDocumentIndex with a fresh token.
Claim(w) ==
  /\ worker[w].pc = "claim"
  /\ \/ /\ NoFault
        /\ Claimable
        /\ nextTask' = nextTask + 1
        /\ doc' = [status |-> "processing", task |-> nextTask',
                   attempt |-> worker[w].attempt, lease |-> "live"]
        /\ worker' = [worker EXCEPT ![w].pc = "check", ![w].task = nextTask']
     \/ /\ NoFault
        /\ ~Claimable
        /\ Goto(w, "reread")
        /\ UNCHANGED <<doc, nextTask>>
     \/ /\ Fault("lookup")
        /\ Goto(w, "retry")
        /\ UNCHANGED <<doc, nextTask>>
  /\ UNCHANGED <<stores, queues, client, ext, calls>>

\* The claim found no row: read it again to tell why. An active lease sends the
\* message to the retry queue without counting an attempt.
Reread(w) ==
  /\ worker[w].pc = "reread"
  /\ \/ /\ NoFault
        /\ CASE doc.status = "processing" ->
                 Send(w, "retry", Larger(worker[w].attempt, doc.attempt))
             [] doc.status = "completed" -> Goto(w, Done(worker[w].msg))
             [] OTHER -> Goto(w, "ack")
     \/ Fault("lookup") /\ Goto(w, "retry")
  /\ UNCHANGED <<doc, stores, queues, client, ext, nextTask, calls>>

\* Mutant: the token alone is compared, not the status.
HoldsTokenOnly(w) == doc.task = worker[w].task

HoldsToken(w) == doc.status = "processing" /\ doc.task = worker[w].task

\* waitIndexLease: the execution lost its token, the message is kept.
LeaseLost(w) == Send(w, "retry", worker[w].attempt)

\* Indexer.Index compares the token once, before it touches the stores.
CheckToken(w) ==
  /\ worker[w].pc = "check"
  /\ \/ NoFault /\ HoldsToken(w) /\ Goto(w, "vclean")
     \/ NoFault /\ ~Absent /\ ~HoldsToken(w) /\ LeaseLost(w)
     \/ NoFault /\ Absent /\ Goto(w, "retry")
     \/ Fault("db") /\ Goto(w, "retry")
  /\ UNCHANGED <<doc, stores, queues, client, ext, nextTask, calls>>

Chunk(w) == <<worker[w].task, worker[w].n + 1>>

\* Reading the object and the chunk row; the object may be gone.
WriteRow(w) ==
  /\ worker[w].pc = "row"
  /\ \/ /\ NoFault
        /\ object \/ worker[w].n > 0
        /\ rows' = rows \cup {Chunk(w)}
        /\ Goto(w, "vec")
     \/ /\ NoFault
        /\ ~object /\ worker[w].n = 0
        /\ Goto(w, "fail")
        /\ UNCHANGED rows
     \/ Fault("store") /\ Goto(w, "fail") /\ UNCHANGED rows
  /\ UNCHANGED <<doc, object, vectors, queues, client, ext, nextTask, calls>>

WriteVector(w) ==
  /\ worker[w].pc = "vec"
  /\ \/ /\ NoFault
        /\ vectors' = vectors \cup {Chunk(w)}
        /\ worker' = [worker EXCEPT
             ![w].n = @ + 1,
             ![w].pc = IF worker[w].n + 1 = NumChunks THEN "complete" ELSE "row"]
     \/ Fault("store") /\ Goto(w, "fail") /\ UNCHANGED vectors
  /\ UNCHANGED <<doc, object, rows, queues, client, ext, nextTask, calls>>

\* Indexer.fail: FailDocumentIndex under the token.
FailIndex(w) ==
  /\ worker[w].pc = "fail"
  /\ \/ /\ NoFault
        /\ HoldsToken(w)
        /\ doc' = [doc EXCEPT !.status = "failed", !.lease = "none"]
        /\ Goto(w, "retry")
     \/ NoFault /\ ~HoldsToken(w) /\ LeaseLost(w) /\ UNCHANGED doc
     \/ Fault("db") /\ Goto(w, "retry") /\ UNCHANGED doc
  /\ UNCHANGED <<stores, queues, client, ext, nextTask, calls>>

\* CompleteDocumentIndex under the token.
Complete(w) ==
  /\ worker[w].pc = "complete"
  /\ \/ /\ NoFault
        /\ HoldsToken(w)
        /\ doc' = [doc EXCEPT !.status = "completed", !.lease = "none"]
        /\ Goto(w, Done(worker[w].msg))
     \/ NoFault /\ ~HoldsToken(w) /\ LeaseLost(w) /\ UNCHANGED doc
     \/ Fault("db") /\ Goto(w, "retry") /\ UNCHANGED doc
  /\ UNCHANGED <<stores, queues, client, ext, nextTask, calls>>

\* RequeueDocumentIndex or, past the last retry, FinalizeDocumentIndexFailure.
\* Both match the token and leave any other row alone.
Requeued(w) ==
  IF doc.status \in {"processing", "failed"} /\ doc.task = worker[w].task
  THEN [doc EXCEPT
          !.status = IF worker[w].attempt + 1 <= MaxRetries THEN "pending" ELSE "failed",
          !.attempt = worker[w].attempt + 1,
          !.lease = "none"]
  ELSE doc

RetryIndex(w) ==
  /\ worker[w].pc = "retry"
  /\ worker[w].msg.kind = "index"
  /\ LET next == worker[w].attempt + 1
     IN \/ /\ NoFault
           /\ doc' = Requeued(w)
           /\ worker' = [worker EXCEPT
                ![w].pc = IF worker[w].msg.ext THEN "extfail" ELSE "publish",
                ![w].to = RetryQueue(next),
                ![w].attempt = next]
           /\ UNCHANGED main
        \/ /\ Fault("db")
           /\ main' = Redelivered(w)
           /\ worker' = [worker EXCEPT ![w] = Idle]
           /\ UNCHANGED doc
  /\ UNCHANGED <<stores, retry, dlq, client, ext, nextTask, calls>>

-----------------------------------------------------------------------------
(* DeleteConsumer *)

CleanupRouted(m) ==
  CASE Absent -> IF m.kind = "delete" THEN Done(m) ELSE "ack"
    [] m.kind = "deindex" /\ doc.status = "inactive" -> "mark"
    [] m.kind = "delete" /\ doc.status = "deleting" -> "vclean"
    [] OTHER -> "ack"

FindForDelete(w, m) ==
  /\ m.kind \in {"delete", "deindex"}
  /\ \/ NoFault /\ Receive(w, m, [Idle EXCEPT !.pc = CleanupRouted(m)])
     \/ Fault("lookup") /\ Receive(w, m, [Idle EXCEPT !.pc = DeleteError(m)])
  /\ UNCHANGED <<doc, stores, retry, dlq, client, ext, nextTask, calls>>

MarkDeindexing(w) ==
  /\ worker[w].pc = "mark"
  /\ \/ /\ NoFault
        /\ doc.status = "inactive"
        /\ doc' = [doc EXCEPT !.status = "deindexing"]
        /\ Goto(w, "vclean")
     \/ NoFault /\ doc.status # "inactive" /\ Goto(w, "ack") /\ UNCHANGED doc
     \/ Fault("db") /\ Goto(w, DeleteError(worker[w].msg)) /\ UNCHANGED doc
  /\ UNCHANGED <<stores, queues, client, ext, nextTask, calls>>

\* Mutant: the expected and the new status are swapped.
BackOfflineSwapped == IF doc.status = "inactive"
                      THEN [doc EXCEPT !.status = "deindexing"]
                      ELSE doc

\* UpdateStatusIfCurrent(deindexing -> inactive).
BackOffline == IF doc.status = "deindexing"
               THEN [doc EXCEPT !.status = "inactive", !.lease = "none"]
               ELSE doc

FinishDeindex(w) ==
  /\ worker[w].pc = "offline"
  /\ \/ /\ NoFault
        /\ doc' = BackOffline
        /\ Goto(w, Done(worker[w].msg))
     \/ Fault("db") /\ Goto(w, DeleteError(worker[w].msg)) /\ UNCHANGED doc
  /\ UNCHANGED <<stores, queues, client, ext, nextTask, calls>>

DeleteObject(w) ==
  /\ worker[w].pc = "object"
  /\ \/ NoFault /\ object' = FALSE /\ Goto(w, "remove")
     \/ Fault("store") /\ Goto(w, DeleteError(worker[w].msg)) /\ UNCHANGED object
  /\ UNCHANGED <<doc, rows, vectors, queues, client, ext, nextTask, calls>>

\* DeleteByIDAndUserID; a row already gone is as good.
RemoveDocument(w) ==
  /\ worker[w].pc = "remove"
  /\ \/ /\ NoFault
        /\ doc' = [status |-> "gone", task |-> 0, attempt |-> 0, lease |-> "none"]
        /\ Goto(w, Done(worker[w].msg))
     \/ Fault("db") /\ Goto(w, DeleteError(worker[w].msg)) /\ UNCHANGED doc
  /\ UNCHANGED <<stores, queues, client, ext, nextTask, calls>>

\* retryDelete takes a document that is being deindexed back to inactive, even
\* when another delivery is the one deindexing it; its own error is ignored.
RetryDelete(w) ==
  /\ worker[w].pc = "retry"
  /\ worker[w].msg.kind # "index"
  /\ LET next == worker[w].msg.attempt + 1
     IN Send(w, RetryQueue(next), next)
  /\ \/ NoFault /\ doc' = IF worker[w].msg.kind = "deindex" THEN BackOffline ELSE doc
     \/ worker[w].msg.kind = "deindex" /\ Fault("db") /\ UNCHANGED doc
  /\ UNCHANGED <<stores, queues, client, ext, nextTask, calls>>

-----------------------------------------------------------------------------
(* Clients: DocumentService.Upload, Delete and Reindex, and the source sync's *)
(* upsertRemoteDocument and handleMissingDocument                             *)

ClientAt(c, pc, m, seen) ==
  client' = [client EXCEPT ![c] = [pc |-> pc, msg |-> m, seen |-> seen]]

Rest(c) == client' = [client EXCEPT ![c] = Resting]

Call(c, op) == /\ client[c].pc = "idle"
               /\ op \in Ops
               /\ calls < MaxCalls
               /\ calls' = calls + 1
               /\ NoFault

\* Upload stores the object and creates the row; so does the first sync of a
\* remote page, which then also creates the mapping.
Create(c, op, pc) ==
  /\ Call(c, op)
  /\ doc.status = "none"
  /\ doc' = [doc EXCEPT !.status = "pending"]
  /\ object' = TRUE
  /\ ClientAt(c, pc, Task("index", op = "upsert"), "none")
  /\ UNCHANGED <<rows, vectors, queues, worker, ext, nextTask>>

Upload(c) == Create(c, "upload", "publish")
FirstUpsert(c) == Create(c, "upsert", "map")

Delete(c) ==
  /\ Call(c, "delete")
  /\ ~Absent
  /\ doc.status \notin {"pending", "processing"}
  /\ ClientAt(c, IF doc.status = "deleting" THEN "publish" ELSE "update",
              Task("delete", FALSE), doc.status)
  /\ UNCHANGED <<doc, stores, queues, worker, ext, nextTask>>

Reindex(c) ==
  /\ Call(c, "reindex")
  /\ doc.status \in {"completed", "failed"}
  /\ ClientAt(c, "update", Task("index", FALSE), doc.status)
  /\ UNCHANGED <<doc, stores, queues, worker, ext, nextTask>>

\* The page is in the remote listing. If its content is unchanged and indexed
\* only the mapping is refreshed, otherwise its content replaces the object.
Upsert(c) ==
  /\ Call(c, "upsert")
  /\ ext.status # "none"
  /\ \/ /\ doc.status \in {"pending", "completed", "failed", "inactive"}
        /\ object' = TRUE
        /\ ClientAt(c, "update", Task("index", TRUE), doc.status)
        /\ UNCHANGED ext
     \/ /\ doc.status = "completed"
        /\ ext' = [status |-> "synced", missing |-> 0, marked |-> FALSE]
        /\ UNCHANGED <<object, client>>
  /\ UNCHANGED <<doc, rows, vectors, queues, worker, nextTask>>

\* The page is not in the listing. MarkExternalDocumentMissing counts it once
\* per sync task; "again" is a retry of the task that counted it last.
Missing(c) ==
  /\ Call(c, "missing")
  /\ ext.status \notin {"none", "deleted"}
  /\ \E again \in BOOLEAN :
       LET count == IF again /\ ext.marked THEN ext.missing ELSE ext.missing + 1
       IN /\ ext' = IF again /\ ext.marked THEN ext
                    ELSE [status |-> "missing", missing |-> count, marked |-> TRUE]
          /\ ClientAt(c, "missed",
                      Task(IF count >= DeleteAfter THEN "delete" ELSE "deindex", TRUE),
                      "none")
  /\ UNCHANGED <<doc, stores, queues, worker, nextTask>>

\* The rest of handleMissingDocument's reading: what the document is now.
MissingFound(c) ==
  /\ client[c].pc = "missed"
  /\ NoFault
  /\ LET m == client[c].msg
     IN CASE Absent -> Rest(c) /\ ext' = ExternalDone("delete")
          [] ~Absent /\ m.kind = "deindex" /\ doc.status = "deindexing" ->
               Rest(c) /\ UNCHANGED ext
          [] OTHER ->
               /\ ClientAt(c, IF doc.status = (IF m.kind = "delete" THEN "deleting"
                                                 ELSE "inactive")
                              THEN "publish" ELSE "update", m, doc.status)
               /\ UNCHANGED ext
  /\ UNCHANGED <<doc, stores, queues, worker, nextTask, calls>>

\* The statement with which each call takes the row over. Only an upsert that
\* saw "inactive" compares the status again (UpdateSyncedDocumentIfStatus).
Reset(kind) ==
  CASE Absent            -> doc
    [] ~Absent /\ kind = "index" ->
         [status |-> "pending", task |-> 0, attempt |-> 0, lease |-> "none"]
    [] ~Absent /\ kind = "delete" -> [doc EXCEPT !.status = "deleting", !.lease = "none"]
    [] ~Absent /\ kind = "deindex" -> [doc EXCEPT !.status = "inactive", !.lease = "none"]

UpdateStatus(c) ==
  /\ client[c].pc = "update"
  /\ NoFault
  /\ LET m == client[c].msg
         upsert == m.kind = "index" /\ m.ext
     IN IF upsert /\ client[c].seen = "inactive" /\ doc.status # "inactive"
        THEN Rest(c) /\ UNCHANGED doc
        ELSE /\ doc' = Reset(m.kind)
             /\ client' = [client EXCEPT ![c].pc = IF upsert THEN "map" ELSE "publish"]
  /\ UNCHANGED <<stores, queues, worker, ext, nextTask, calls>>

SaveMapping(c) ==
  /\ client[c].pc = "map"
  /\ NoFault
  /\ ext' = [status |-> "changed", missing |-> 0, marked |-> FALSE]
  /\ client' = [client EXCEPT ![c].pc = "publish"]
  /\ UNCHANGED <<doc, stores, queues, worker, nextTask, calls>>

PublishTask(c) ==
  /\ client[c].pc = "publish"
  /\ \/ NoFault /\ main' = Put(main, client[c].msg) /\ Rest(c)
     \/ /\ Fault("publish")
        /\ IF client[c].msg.kind = "index" \/ client[c].msg.ext
           THEN client' = [client EXCEPT ![c].pc = "undo"]
           ELSE Rest(c)
        /\ UNCHANGED main
  /\ UNCHANGED <<doc, stores, retry, dlq, worker, ext, nextTask, calls>>

\* After a failed publish: UpdateStatus(failed) for an index task, and
\* MarkExternalDocumentFailed for a source document.
UndoPublish(c) ==
  /\ client[c].pc = "undo"
  /\ NoFault
  /\ doc' = IF client[c].msg.kind = "index" /\ ~Absent
            THEN [doc EXCEPT !.status = "failed", !.lease = "none"] ELSE doc
  /\ ext' = IF client[c].msg.ext THEN ExternalFailed ELSE ext
  /\ Rest(c)
  /\ UNCHANGED <<stores, queues, worker, nextTask, calls>>

\* The process dies or a statement fails: the call ends where it is.
ClientStops(c) ==
  /\ client[c].pc # "idle"
  /\ Fault("client")
  /\ Rest(c)
  /\ UNCHANGED <<doc, stores, queues, worker, ext, nextTask, calls>>

-----------------------------------------------------------------------------

IndexStep(w) ==
  \/ \E m \in Msg : FindForIndex(w, m)
  \/ Claim(w) \/ Reread(w) \/ CheckToken(w)
  \/ WriteRow(w) \/ WriteVector(w)
  \/ FailIndex(w) \/ Complete(w) \/ RetryIndex(w)

DeleteStep(w) ==
  \/ \E m \in Msg : FindForDelete(w, m)
  \/ MarkDeindexing(w) \/ FinishDeindex(w)
  \/ DeleteObject(w) \/ RemoveDocument(w) \/ RetryDelete(w)

CommonStep(w) ==
  \/ CleanVectors(w) \/ CleanRows(w)
  \/ MarkExternalDone(w) \/ MarkExternalFailed(w)
  \/ Publish(w) \/ Ack(w)

ClientStep(c) ==
  \/ Upload(c) \/ FirstUpsert(c) \/ Delete(c) \/ Reindex(c) \/ Upsert(c)
  \/ Missing(c) \/ MissingFound(c) \/ UpdateStatus(c) \/ SaveMapping(c)
  \/ PublishTask(c) \/ UndoPublish(c) \/ ClientStops(c)

Next ==
  \/ \E w \in IndexWorkers : IndexStep(w)
  \/ \E w \in DeleteWorkers : DeleteStep(w)
  \/ \E w \in Workers : CommonStep(w) \/ Crash(w) \/ LoseChannel(w)
  \/ \E c \in Clients : ClientStep(c)
  \/ \E m \in Msg : RetryDelayExpires(m)
  \/ LeaseExpires \/ LeaseOutrun

Spec == Init /\ [][Next]_vars

(***************************************************************************)
(* Fairness. Every consumer goroutine runs until its handler returns, the   *)
(* retry queue's TTL and the lease's deadline pass, and a client that has   *)
(* started finishes. RabbitMQ queues are FIFO, so a message that keeps      *)
(* being available while its consumers keep coming back to idle is          *)
(* delivered: strong fairness for each kind of message.                     *)
(***************************************************************************)
WorkerRuns(w) ==
  \/ Claim(w) \/ Reread(w) \/ CheckToken(w) \/ WriteRow(w) \/ WriteVector(w)
  \/ FailIndex(w) \/ Complete(w) \/ RetryIndex(w)
  \/ MarkDeindexing(w) \/ FinishDeindex(w)
  \/ DeleteObject(w) \/ RemoveDocument(w) \/ RetryDelete(w)
  \/ CommonStep(w)

ClientRuns(c) == \/ MissingFound(c) \/ UpdateStatus(c) \/ SaveMapping(c)
                 \/ PublishTask(c) \/ UndoPublish(c)

\* The messages the calls of Ops and their retries can put into the queues.
Produced(m) ==
  /\ m.attempt <= MaxRetries
  /\ CASE m.kind = "index" -> Ops \cap (IF m.ext THEN {"upsert"}
                                         ELSE {"upload", "reindex"}) # {}
       [] m.kind = "delete" -> (IF m.ext THEN "missing" ELSE "delete") \in Ops
       [] m.kind = "deindex" -> m.ext /\ "missing" \in Ops

IndexMsg == {m \in Msg : m.kind = "index" /\ Produced(m)}
DeleteMsg == {m \in Msg : m.kind # "index" /\ Produced(m)}

Fairness ==
  /\ \A w \in Workers : WF_vars(WorkerRuns(w))
  /\ \A m \in IndexMsg : SF_vars(\E w \in IndexWorkers : FindForIndex(w, m))
  /\ \A m \in DeleteMsg : SF_vars(\E w \in DeleteWorkers : FindForDelete(w, m))
  /\ \A m \in IndexMsg \cup DeleteMsg : WF_vars(RetryDelayExpires(m))
  /\ \A c \in Clients : WF_vars(ClientRuns(c))
  /\ WF_vars(LeaseExpires)

FairSpec == Spec /\ Fairness

-----------------------------------------------------------------------------
(* Properties *)

\* The types of the variables.
TypeOK ==
  /\ doc \in DocState
  /\ object \in BOOLEAN
  /\ rows \subseteq (Nat \X Nat)
  /\ vectors \subseteq (Nat \X Nat)
  /\ main \in [Msg -> Nat]
  /\ retry \in [Msg -> Nat]
  /\ dlq \in [Msg -> Nat]
  /\ worker \in [Workers -> WorkerState]
  /\ client \in [Clients -> ClientState]
  /\ ext \in ExternalState
  /\ nextTask \in Nat
  /\ calls \in Nat
  /\ faults \in Nat

Waiting(m) == main[m] > 0 \/ retry[m] > 0

\* A consumer that will move the row on, or put its message back.
Carries(w) ==
  \/ worker[w].pc \in {"claim", "reread"} /\ doc.status = "processing"
  \/ worker[w].pc = "claim" /\ doc.status = "pending"
  \/ worker[w].pc \in {"extfail", "publish"} /\ worker[w].to = "retry"
  \/ /\ worker[w].pc \in {"check", "vclean", "rclean", "row", "vec", "fail",
                           "complete", "retry"}
     /\ HoldsToken(w)

Submitting(c) == /\ client[c].pc \in {"map", "publish", "undo"}
                 /\ client[c].msg.kind = "index"

\* No index task is lost: a document that is pending or processing has an index
\* message in the queues, a consumer that carries it on, or a client that is
\* about to publish one. Otherwise it would never move again, and Reindex and
\* Delete refuse such a document (document_service.go isDocumentIndexing).
IndexingHasTask ==
  doc.status \in {"pending", "processing"} =>
    \/ \E m \in Msg : m.kind = "index" /\ Waiting(m)
    \/ \E w \in IndexWorkers : Carries(w)
    \/ \E c \in Clients : Submitting(c)

\* A completed document is stored exactly: every chunk row and every vector was
\* written by the execution whose token completed it, none is missing and none
\* is left over from an attempt that failed, crashed or was taken over. It is
\* what cleaning before every build (indexer.go Index) is for.
CompletedExact ==
  doc.status = "completed" =>
    /\ rows = {doc.task} \X (1..NumChunks)
    /\ vectors = rows

Executing(w) == /\ worker[w].msg.kind = "index"
                /\ worker[w].pc \in {"vclean", "rclean", "row", "vec", "complete"}

\* Mutual exclusion: redeliveries, lost channels and retries never let two
\* consumers clean and write the stores for the document at the same time; the
\* conditional claim and the lease (ClaimDocumentIndex) are the only lock.
OneExecution ==
  \A v, w \in IndexWorkers : Executing(v) /\ Executing(w) => v = w

\* A message is retried MaxRetries times and no more, also when its attempt is
\* carried by the row while a redelivered copy still has the old one: what waits
\* has attempts left, what is dead has none, and a live document has some.
AttemptsBounded ==
  /\ doc.attempt <= MaxRetries + 1
  /\ \A m \in Msg : Waiting(m) => m.attempt <= MaxRetries
  /\ \A m \in Msg : dlq[m] > 0 => m.attempt = MaxRetries + 1
  /\ doc.status \in {"pending", "processing"} => doc.attempt <= MaxRetries

\* A redelivered or late message never undoes a completed index: only a client
\* submits it again, and only a deletion already under way removes it.
ConsumersKeepCompleted ==
  [][doc.status = "completed" /\ client' = client =>
       doc'.status \in {"completed", "gone"}]_vars

Withdrawn == {"inactive", "deindexing", "deleting", "gone"}

\* A withdrawn document is never revived by an index execution that was already
\* running, although its token still matches: Delete and the sync leave
\* index_task_id in the row, only the status guards of Complete-, Fail-,
\* Requeue- and FinalizeDocumentIndex keep it out. Only a client brings it back.
WithdrawnStays ==
  [][doc.status \in Withdrawn /\ client' = client => doc'.status \in Withdrawn]_vars

\* The mapping of a remote page says "deleted" only when the document is gone: a
\* cleanup message that is late, repeated or overtaken by a new version of the
\* page does not close the mapping of a live document.
DeletedMeansGone == ext.status = "deleted" => doc.status = "gone"

\* A deletion that is queued ends: the document is removed or, past the last
\* retry, its cleanup message is in the dead letter queue.
DeleteEnds ==
  (doc.status = "deleting" /\ \E m \in Msg : m.kind = "delete" /\ Waiting(m))
    ~> (doc.status = "gone" \/ \E m \in Msg : m.kind = "delete" /\ dlq[m] > 0)

\* A document does not stay "deindexing": while it is, upsertRemoteDocument
\* refuses the page, so a page that reappears could not be indexed again.
DeindexEnds == doc.status = "deindexing" ~> doc.status # "deindexing"

\* An uploaded document, as its owner sees it.
Phase ==
  CASE doc.status = "none"                        -> "absent"
    [] doc.status \in {"pending", "processing"}    -> "indexing"
    [] doc.status = "completed"                   -> "searchable"
    [] doc.status = "failed"                      -> "failed"
    [] doc.status \in Withdrawn \ {"gone"}        -> "withdrawn"
    [] doc.status = "gone"                        -> "removed"

\* retrievedChunkLoader returns the chunks of completed documents only.
Visible == IF doc.status = "completed" THEN rows \cap vectors ELSE {}

Promise == INSTANCE SearchableDocument WITH phase <- Phase, visible <- Visible

\* The pipeline implements its promise: between retries, redeliveries, crashes
\* and a deletion, retrieval only ever sees nothing or one whole build, a removed
\* or withdrawn document never returns, and indexing always ends.
KeepsPromise == Promise!FairSpec

-----------------------------------------------------------------------------
(* What the repository says of the program and the program does not do *)

\* "Delete removes the document and its index data".
DeletedLeavesNothing ==
  doc.status = "gone" => rows = {} /\ vectors = {} /\ ~object
=============================================================================
