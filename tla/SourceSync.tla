------------------------------ MODULE SourceSync ------------------------------
(***************************************************************************)
(* The sync task of one row of the knowledge_sources table: the users who   *)
(* trigger it, the schedulers that start it when it is due and take it over *)
(* when its lease has expired, the queue, and the consumers that run Sync.  *)
(*                                                                          *)
(* Of what Sync does, one remote page that has a mapping is followed:       *)
(* whether the listing has it, and how often it was counted as missing.     *)
(* What then happens to its document is the subject of DocumentPipeline.    *)
(***************************************************************************)
EXTENDS Naturals, FiniteSets

CONSTANTS
  Workers,      \* goroutines of source.Consumer
  Users,        \* concurrent TriggerSync calls
  Schedulers,   \* one per server process
  MaxRetries,   \* consumerOptions.maxRetries
  DeleteAfter,  \* DeleteAfterMissingSyncs
  MaxCalls,     \* bound: triggers and scheduled starts
  MaxTasks,     \* bound: task ids handed out
  FaultKinds,   \* the failures that may occur
  MaxFaults     \* bound: how many of them occur

(***************************************************************************)
(* db      an UPDATE of the source row fails, other than the claim          *)
(* lookup  a consumer's SELECT or claim fails before it has the row         *)
(* publish PublishJSON fails                                                *)
(* conn    a consumer's channel is lost while its handler runs; the model   *)
(*         goes on to deliver to it, the code does not (queue.Consume)      *)
(* crash   a consumer dies                                                  *)
(* caller  a user's call or a scheduler dies between its two steps          *)
(* late    a lease expires although the task is waiting or running          *)
(***************************************************************************)
AllFaults == {"db", "lookup", "publish", "conn", "crash", "caller", "late"}

ASSUME CallersAssumption == Users \cap Schedulers = {}
ASSUME LimitsAssumption == /\ MaxRetries \in Nat \ {0}
                           /\ DeleteAfter \in Nat \ {0, 1}
                           /\ MaxCalls \in Nat
                           /\ MaxTasks \in Nat
                           /\ MaxFaults \in Nat
                           /\ FaultKinds \subseteq AllFaults

VARIABLES
  src,       \* the row: sync_status, sync_task_id, sync_attempt, sync_lease_until
  due,       \* next_sync_at: not set, in the future, or passed
  queue,     \* messages in the main and retry queues, with multiplicity
  dlq,       \* messages in the dead letter queue
  worker,    \* control state of each consumer goroutine
  caller,    \* control state of each user's call and each scheduler
  page,      \* the page's mapping: missing_count, missing_task_id, deletion begun
  seen,      \* history: the tasks that missed the page since it was last synced
  nextTask,  \* number of task ids handed out
  calls,
  faults,
  disturbed  \* history: a failure of Disturbing has occurred

vars == <<src, due, queue, dlq, worker, caller, page, seen, nextTask,
          calls, faults, disturbed>>

Callers == Users \cup Schedulers

Msg == [task : 1..MaxTasks, attempt : 0..MaxRetries + 1]

NoMsg == [task |-> 0, attempt |-> 0]

WorkerPCs == {"idle", "claim", "list", "listed", "missed", "stored", "complete",
              "retry", "publish", "dead", "ack"}

\* What Sync has of the page's mapping: the row, as it was when Sync read it.
Row == [missing : Nat, marked : 0..MaxTasks]

NoRow == [missing |-> 0, marked |-> 0]

SourceState == [status : {"idle", "queued", "syncing", "failed"}, task : 0..MaxTasks,
                attempt : 0..MaxRetries + 1, lease : {"none", "live", "expired"}]

WorkerState == [pc : WorkerPCs, msg : Msg \cup {NoMsg}, held : BOOLEAN,
                attempt : 0..MaxRetries + 1, local : Row]

CallerState == [pc : {"idle", "recover", "publish", "undo"},
                kind : {"trigger", "due", "recover"},
                task : 0..MaxTasks, attempt : 0..MaxRetries + 1]

Idle == [pc |-> "idle", msg |-> NoMsg, held |-> FALSE, attempt |-> 0,
         local |-> NoRow]

Resting == [pc |-> "idle", kind |-> "trigger", task |-> 0, attempt |-> 0]

Init ==
  /\ src = [status |-> "idle", task |-> 0, attempt |-> 0, lease |-> "none"]
  /\ due = "unset"
  /\ queue = [m \in Msg |-> 0]
  /\ dlq = [m \in Msg |-> 0]
  /\ worker = [w \in Workers |-> Idle]
  /\ caller = [c \in Callers |-> Resting]
  /\ page = [missing |-> 0, marked |-> 0, deleted |-> FALSE]
  /\ seen = {}
  /\ nextTask = 0
  /\ calls = 0
  /\ faults = 0
  /\ disturbed = FALSE

-----------------------------------------------------------------------------
(* Failures, the broker and time *)

\* The failures by which a second consumer comes to run Sync: the lease of the first
\* is outrun, or another copy of its message fails before it is claimed and requeued.
Disturbing == {"late", "lookup"}

Fault(kind) ==
  /\ kind \in FaultKinds
  /\ faults < MaxFaults
  /\ faults' = faults + 1
  /\ disturbed' = (disturbed \/ kind \in Disturbing)

NoFault == UNCHANGED <<faults, disturbed>>

Put(q, m) == [q EXCEPT ![m] = @ + 1]

Redelivered(w) == IF worker[w].held THEN Put(queue, worker[w].msg) ELSE queue

Crash(w) ==
  /\ worker[w].pc # "idle"
  /\ Fault("crash")
  /\ queue' = Redelivered(w)
  /\ worker' = [worker EXCEPT ![w] = Idle]
  /\ UNCHANGED <<src, due, dlq, caller, page, seen, nextTask, calls>>

LoseChannel(w) ==
  /\ worker[w].held
  /\ Fault("conn")
  /\ queue' = Redelivered(w)
  /\ worker' = [worker EXCEPT ![w].held = FALSE]
  /\ UNCHANGED <<src, due, dlq, caller, page, seen, nextTask, calls>>

\* Someone still has the current task: a message, a consumer or its publisher.
Alive == \/ \E m \in Msg : m.task = src.task /\ queue[m] > 0
         \/ \E w \in Workers : worker[w].pc # "idle" /\ worker[w].msg.task = src.task
         \/ \E c \in Callers : caller[c].pc \in {"publish", "undo"}
                               /\ caller[c].task = src.task

LeaseExpires ==
  /\ src.lease = "live"
  /\ src' = [src EXCEPT !.lease = "expired"]
  /\ \/ ~Alive /\ NoFault
     \/ Alive /\ Fault("late")
  /\ UNCHANGED <<due, queue, dlq, worker, caller, page, seen, nextTask, calls>>

BecomesDue ==
  /\ due = "later"
  /\ due' = "now"
  /\ UNCHANGED <<src, queue, dlq, worker, caller, page, seen, nextTask,
                 calls, faults,
                 disturbed>>

-----------------------------------------------------------------------------
(* TriggerSync and the scheduler *)

NewTask(c, kind, attempt) ==
  /\ nextTask < MaxTasks
  /\ nextTask' = nextTask + 1
  /\ caller' = [caller EXCEPT ![c] = [pc |-> "publish", kind |-> kind,
                                      task |-> nextTask', attempt |-> attempt]]

Queued(task, attempt) ==
  [status |-> "queued", task |-> task, attempt |-> attempt, lease |-> "live"]

Start(c, kind) ==
  /\ caller[c].pc = "idle"
  /\ calls < MaxCalls
  /\ calls' = calls + 1
  /\ NewTask(c, kind, 0)
  /\ src' = Queued(nextTask', 0)
  /\ NoFault
  /\ UNCHANGED <<due, queue, dlq, worker, page, seen>>

\* MarkSourceQueued; in any other state TriggerSync changes nothing.
Trigger(c) == src.status \in {"idle", "failed"} /\ Start(c, "trigger")

Schedulable == src.status = "idle" /\ due = "now"

\* scheduleDue: ClaimDueSource checks again all that ListDueSources selected by.
ScheduleDue(c) == Schedulable /\ Start(c, "due")

\* recoverExpired reads the expired row ...
FindExpired(c) ==
  /\ caller[c].pc = "idle"
  /\ src.status \in {"queued", "syncing"}
  /\ src.lease = "expired"
  /\ caller' = [caller EXCEPT ![c] = [pc |-> "recover", kind |-> "recover",
                                      task |-> src.task, attempt |-> src.attempt]]
  /\ UNCHANGED <<src, due, queue, dlq, worker, page, seen, nextTask, calls,
                 faults, disturbed>>

\* Mutant of Recoverable: only tasks that wait are taken over.
RecoverableQueued(task) ==
  src.status = "queued" /\ src.task = task /\ src.lease = "expired"

Recoverable(task) ==
  src.status \in {"queued", "syncing"} /\ src.task = task /\ src.lease = "expired"

\* ... and takes it over under a new id, unless it has changed in between.
Recover(c) ==
  /\ caller[c].pc = "recover"
  /\ \/ /\ Recoverable(caller[c].task)
        /\ NewTask(c, "recover", caller[c].attempt)
        /\ src' = Queued(nextTask', src.attempt)
     \/ /\ ~Recoverable(caller[c].task)
        /\ caller' = [caller EXCEPT ![c] = Resting]
        /\ UNCHANGED <<src, nextTask>>
  /\ NoFault
  /\ UNCHANGED <<due, queue, dlq, worker, page, seen, calls>>

PublishTask(c) ==
  /\ caller[c].pc = "publish"
  /\ \/ /\ NoFault
        /\ queue' = Put(queue, [task |-> caller[c].task, attempt |-> caller[c].attempt])
        /\ caller' = [caller EXCEPT ![c] = Resting]
     \/ /\ Fault("publish")
        /\ caller' = [caller EXCEPT ![c].pc = "undo"]
        /\ UNCHANGED queue
  /\ UNCHANGED <<src, due, dlq, worker, page, seen, nextTask, calls>>

\* FailSourceSync, RestoreScheduledSource or MarkRecoveryPublishFailed.
Undone(kind, task) ==
  CASE src.task # task -> src
    [] src.task = task /\ kind = "trigger" ->
         IF src.status \in {"queued", "syncing"}
         THEN [src EXCEPT !.status = "failed", !.attempt = 0, !.lease = "none"] ELSE src
    [] src.task = task /\ kind = "due" ->
         IF src.status = "queued"
         THEN [status |-> "idle", task |-> 0, attempt |-> 0, lease |-> "none"] ELSE src
    [] src.task = task /\ kind = "recover" ->
         IF src.status = "queued" THEN [src EXCEPT !.lease = "expired"] ELSE src

UndoPublish(c) ==
  /\ caller[c].pc = "undo"
  /\ \/ NoFault /\ src' = Undone(caller[c].kind, caller[c].task)
     \/ Fault("db") /\ UNCHANGED src
  /\ caller' = [caller EXCEPT ![c] = Resting]
  /\ UNCHANGED <<due, queue, dlq, worker, page, seen, nextTask, calls>>

CallerDies(c) ==
  /\ caller[c].pc # "idle"
  /\ Fault("caller")
  /\ caller' = [caller EXCEPT ![c] = Resting]
  /\ UNCHANGED <<src, due, queue, dlq, worker, page, seen, nextTask, calls>>

-----------------------------------------------------------------------------
(* The consumer *)

Goto(w, pc) == worker' = [worker EXCEPT ![w].pc = pc]

\* Mutant of Final: the attempt past the limit is retried too.
FinalTooLate(attempt) == attempt > MaxRetries + 1

\* Mutant of Final: the last retry is given up before it runs.
FinalTooEarly(attempt) == attempt >= MaxRetries

\* The attempt has no retry after it.
Final(attempt) == attempt > MaxRetries

Larger(a, b) == IF a > b THEN a ELSE b

\* handle up to MarkSourceSyncing: what the row says of the message.
Routed(m) ==
  LET At(pc, attempt) == [Idle EXCEPT !.pc = pc, !.attempt = attempt]
  IN CASE src.task # m.task -> At("ack", m.attempt)
       [] src.task = m.task /\ src.status = "failed" /\ Final(src.attempt) ->
            At("dead", src.attempt)
       [] src.task = m.task /\ src.status = "queued" ->
            At("claim", Larger(m.attempt, src.attempt))
       [] OTHER -> At("ack", m.attempt)

Receive(w, m) ==
  /\ worker[w].pc = "idle"
  /\ queue[m] > 0
  /\ queue' = [queue EXCEPT ![m] = @ - 1]
  /\ LET To(s) == worker' = [worker EXCEPT ![w] = [s EXCEPT !.msg = m, !.held = TRUE]]
     IN \/ NoFault /\ To(Routed(m))
        \/ Fault("lookup") /\ To([Idle EXCEPT !.pc = "retry", !.attempt = m.attempt])
  /\ UNCHANGED <<src, due, dlq, caller, page, seen, nextTask, calls>>

\* Mutant of Current: the status is compared, the task is not.
CurrentAny(w) == worker[w].pc # "idle"

\* The row belongs to the task that worker w's message names.
Current(w) == src.task = worker[w].msg.task

\* Mutant of Claimable: the row is claimed in whatever state the task has left it.
ClaimableAlways(w) == Current(w)

Claimable(w) == Current(w) /\ src.status = "queued"

\* MarkSourceSyncing
Claim(w) ==
  /\ worker[w].pc = "claim"
  /\ \/ /\ NoFault
        /\ Claimable(w)
        /\ src' = [src EXCEPT !.status = "syncing", !.attempt = worker[w].attempt,
                              !.lease = "live"]
        /\ Goto(w, "list")
     \/ NoFault /\ ~Claimable(w) /\ Goto(w, "ack") /\ UNCHANGED src
     \/ Fault("lookup") /\ Goto(w, "retry") /\ UNCHANGED src
  /\ UNCHANGED <<due, queue, dlq, caller, page, seen, nextTask, calls>>

\* Sync lists the remote pages, reads all mappings, and then goes through them. A
\* page whose deletion has ended is passed over when the listing has it not.
List(w) ==
  /\ worker[w].pc = "list"
  /\ \/ worker' = [worker EXCEPT ![w].pc = "listed",
                                 ![w].local = [missing |-> page.missing,
                                               marked |-> page.marked]]
     \/ Goto(w, "missed")
     \/ page.deleted /\ Goto(w, "complete")
  /\ UNCHANGED <<src, due, queue, dlq, caller, page, seen, nextTask, calls,
                 faults, disturbed>>

Running(w) == worker[w].pc \in {"list", "listed", "missed", "stored", "complete"}

Leave(w, pc) == worker' = [worker EXCEPT ![w].pc = pc, ![w].local = NoRow]

\* Any part of Sync may fail: the listing, storing a page, publishing its task, or
\* because the page's document is just being indexed or cleaned. The retries bound
\* how often.
SyncFails(w) ==
  /\ Running(w)
  /\ Leave(w, "retry")
  /\ UNCHANGED <<src, due, queue, dlq, caller, page, seen, nextTask, calls,
                 faults, disturbed>>

\* The listing has the page: it is unchanged, or upsertRemoteDocument saves the
\* mapping anew.
Present(w) ==
  /\ worker[w].pc = "listed"
  /\ page' = [missing |-> 0, marked |-> 0, deleted |-> FALSE]
  /\ Leave(w, "stored")
  /\ UNCHANGED <<src, due, queue, dlq, caller, seen, nextTask, calls, faults,
                 disturbed>>

\* The page is listed and Fetch fails: UpdateExternalDocument saves every column of
\* the row that Sync has read, the missing count and its task among them.
FetchFails(w) ==
  /\ worker[w].pc = "listed"
  /\ page' = [page EXCEPT !.missing = worker[w].local.missing,
                          !.marked = worker[w].local.marked]
  /\ Leave(w, "retry")
  /\ UNCHANGED <<src, due, queue, dlq, caller, seen, nextTask, calls, faults,
                 disturbed>>

\* Mutant of Counted: every execution counts the page.
CountedAlways(task) == page.missing + 1

\* MarkExternalDocumentMissing counts the page once in a row for each task.
Counted(task) == IF page.marked = task THEN page.missing ELSE page.missing + 1

\* The listing has it not: handleMissingDocument marks the page, and begins its
\* deletion at the limit. A row that says deleted by now is not counted.
Absent(w) ==
  /\ worker[w].pc = "missed"
  /\ LET task == worker[w].msg.task
         n == Counted(task)
     IN \/ /\ page' = [missing |-> n, marked |-> task,
                        deleted |-> page.deleted \/ n >= DeleteAfter]
           /\ seen' = seen \cup {task}
        \/ page.deleted /\ UNCHANGED <<page, seen>>
  /\ Goto(w, "complete")
  /\ UNCHANGED <<src, due, queue, dlq, caller, nextTask, calls, faults,
                 disturbed>>

\* CompleteSourceSync
Complete(w) ==
  /\ worker[w].pc \in {"stored", "complete"}
  /\ \/ /\ NoFault
        /\ Current(w) /\ src.status = "syncing"
        /\ src' = [src EXCEPT !.status = "idle", !.lease = "none"]
        /\ due' = "later"
        /\ seen' = IF worker[w].pc = "stored" THEN {} ELSE seen
        /\ Goto(w, "ack")
     \/ /\ NoFault
        /\ ~(Current(w) /\ src.status = "syncing")
        /\ Goto(w, "ack")
        /\ UNCHANGED <<src, due, seen>>
     \/ Fault("db") /\ Goto(w, "retry") /\ UNCHANGED <<src, due, seen>>
  /\ UNCHANGED <<queue, dlq, caller, page, nextTask, calls>>

\* retry: RequeueSourceSync or, past the last retry, FailSourceSync. A row that
\* has moved on drops the message.
Retry(w) ==
  /\ worker[w].pc = "retry"
  /\ LET next == worker[w].attempt + 1
         final == Final(next)
         mine == Current(w) /\ src.status \in (IF final THEN {"queued", "syncing"} ELSE {"syncing"})
     IN \/ /\ NoFault
           /\ mine
           /\ src' = [src EXCEPT !.status = IF final THEN "failed" ELSE "queued",
                                 !.attempt = next,
                                 !.lease = IF final THEN "none" ELSE "live"]
           /\ worker' = [worker EXCEPT ![w].attempt = next,
                                       ![w].pc = IF final THEN "dead" ELSE "publish"]
           /\ UNCHANGED queue
        \/ NoFault /\ ~mine /\ Goto(w, "ack") /\ UNCHANGED <<src, queue>>
        \/ /\ Fault("db")
           /\ queue' = Redelivered(w)
           /\ worker' = [worker EXCEPT ![w] = Idle]
           /\ UNCHANGED src
  /\ UNCHANGED <<due, dlq, caller, page, seen, nextTask, calls>>

\* The end of retry, and publishFinalFailure.
Publish(w) ==
  /\ worker[w].pc \in {"publish", "dead"}
  /\ LET m == [task |-> worker[w].msg.task, attempt |-> worker[w].attempt]
     IN \/ /\ NoFault
           /\ queue' = IF worker[w].pc = "publish" THEN Put(queue, m) ELSE queue
           /\ dlq' = IF worker[w].pc = "dead" THEN Put(dlq, m) ELSE dlq
           /\ Goto(w, "ack")
        \/ /\ Fault("publish")
           /\ queue' = Redelivered(w)
           /\ worker' = [worker EXCEPT ![w] = Idle]
           /\ UNCHANGED dlq
  /\ UNCHANGED <<src, due, caller, page, seen, nextTask, calls>>

Ack(w) ==
  /\ worker[w].pc = "ack"
  /\ worker' = [worker EXCEPT ![w] = Idle]
  /\ UNCHANGED <<src, due, queue, dlq, caller, page, seen, nextTask, calls,
                 faults, disturbed>>

-----------------------------------------------------------------------------

Handles(w) == \/ Claim(w) \/ List(w) \/ Present(w) \/ FetchFails(w) \/ Absent(w)
              \/ SyncFails(w) \/ Complete(w) \/ Retry(w) \/ Publish(w) \/ Ack(w)

CallerRuns(c) == Recover(c) \/ PublishTask(c) \/ UndoPublish(c)

Next ==
  \/ \E w \in Workers : \/ \E m \in Msg : Receive(w, m)
                        \/ Handles(w) \/ Crash(w) \/ LoseChannel(w)
  \/ \E c \in Users : Trigger(c)
  \/ \E c \in Schedulers : ScheduleDue(c) \/ FindExpired(c)
  \/ \E c \in Callers : CallerRuns(c) \/ CallerDies(c)
  \/ LeaseExpires \/ BecomesDue

Spec == Init /\ [][Next]_vars

(***************************************************************************)
(* Fairness. Handlers and calls run to their end, the queue delivers while  *)
(* a consumer is free, the scheduler's ticker goes on scanning for expired  *)
(* rows, and a lease that nobody renews runs out. Nobody has to trigger.    *)
(***************************************************************************)
Fairness ==
  /\ \A w \in Workers : WF_vars(Handles(w))
  /\ WF_vars(\E w \in Workers, m \in Msg : Receive(w, m))
  /\ \A c \in Callers : WF_vars(CallerRuns(c))
  /\ \A c \in Schedulers : SF_vars(FindExpired(c))
  /\ WF_vars(LeaseExpires)

FairSpec == Spec /\ Fairness

-----------------------------------------------------------------------------
(* Properties *)

\* The types of the variables.
TypeOK ==
  /\ src \in SourceState
  /\ due \in {"unset", "later", "now"}
  /\ queue \in [Msg -> Nat]
  /\ dlq \in [Msg -> Nat]
  /\ worker \in [Workers -> WorkerState]
  /\ caller \in [Callers -> CallerState]
  /\ page \in [missing : Nat, marked : 0..MaxTasks, deleted : BOOLEAN]
  /\ seen \in SUBSET (1..MaxTasks)
  /\ nextTask \in 0..MaxTasks
  /\ calls \in Nat
  /\ faults \in Nat
  /\ disturbed \in BOOLEAN

Active == src.status \in {"queued", "syncing"}

\* A task is retried MaxRetries times, also when a scheduler takes it over with
\* the attempts it has used: a row that is active has attempts left, and only a
\* task that has none is in the dead letter queue.
RetriesLeft ==
  /\ Active => src.attempt <= MaxRetries
  /\ \A m \in Msg : queue[m] > 0 => m.attempt <= MaxRetries
  /\ \A m \in Msg : dlq[m] > 0 => m.attempt > MaxRetries

\* A failed source is left alone by consumers and schedulers, late messages of its
\* last task included: only a user's TriggerSync starts it again (README.md:363).
FailedStays ==
  [][src.status = "failed" /\ src'.status # "failed" =>
       \E c \in Users : caller[c].pc = "idle" /\ caller'[c].pc = "publish"]_vars

\* A consumer whose task was taken over no longer writes the source row: whether it
\* claims, completes, requeues the task or gives it up, its result is dropped.
LateResultDropped ==
  [][\A w \in Workers :
       worker[w].pc # "idle" /\ src.task # worker[w].msg.task /\ worker'[w] # worker[w] =>
         src' = src]_vars

\* The source is synced by one consumer at a time, over redelivered copies, failed
\* syncs, retries, crashes, lost channels and takeovers, unless a lease was outrun or
\* a copy of the message failed before its claim.
OneSync == disturbed \/ \A v, w \in Workers : Running(v) /\ Running(w) => v = w

\* A page is deleted only after two syncs have missed it with no sync between them
\* that stored it and completed (README.md:393): the retries and the redelivered
\* copies of one task count it once, and a failed Fetch saves the count that the row
\* has. A takeover is another task and lists anew. Syncs that ran side by side are
\* excepted: the one that is late writes what it has read.
NoTaskDeletesAlone == disturbed \/ (page.deleted => Cardinality(seen) >= 2)

\* A sync ends: whatever is lost on the way, the lease expires, a scheduler takes
\* the task over, and the source becomes idle again or failed.
SyncEnds == Active ~> ~Active
=============================================================================
