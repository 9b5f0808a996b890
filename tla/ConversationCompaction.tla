------------------------- MODULE ConversationCompaction -------------------------
(***************************************************************************)
(* One row of the conversations table with its chat_logs: the agent         *)
(* requests that take its processing lease, assemble a context and append a *)
(* turn, the plain chats that append without the lease, and the background  *)
(* task that replaces old turns by a summary and moves the cursor           *)
(* summarized_through_id over them.                                         *)
(*                                                                          *)
(* A summary stands for the set of logs it was made of, a context for the   *)
(* set of logs it holds, in the summary or raw, before the token budget     *)
(* cuts the oldest.                                                         *)
(***************************************************************************)
EXTENDS FiniteSetsExt

CONSTANTS
  Requests,    \* concurrent /agent/chat requests of the conversation
  Plain,       \* concurrent /chat requests that name the conversation
  Workers,     \* goroutines of ConversationCompactConsumer
  Sizes,       \* estimated tokens of a turn
  Trigger,     \* SummaryTriggerTokens
  Keep,        \* KeepRecentTokens
  MaxRetries,
  MaxLogs,     \* bound: log ids handed out
  MaxTasks,    \* bound: compaction tasks queued
  FaultKinds,  \* the failures that may occur
  MaxFaults    \* bound: how many of them occur

(***************************************************************************)
(* db      a statement of the consumer fails                                *)
(* start   a goroutine that starts a compaction dies, or its statement fails *)
(* model   the model's call fails, or its answer is refused                 *)
(* publish PublishJSON fails                                                *)
(* conn    a consumer's channel is lost while its handler runs; the model   *)
(*         goes on to deliver to it, the code does not (queue.Consume), so  *)
(*         no liveness is checked with this kind                            *)
(* crash   a consumer dies                                                  *)
(* server  a request dies before it has given its lease back                *)
(* late    a lease expires although its task is waiting or its holder runs  *)
(* ttl     the conversation expires while work on it still goes on           *)
(***************************************************************************)
AllFaults == {"db", "start", "model", "publish", "conn", "crash", "server", "late", "ttl"}

LogIds == 1..MaxLogs

ASSUME LimitsAssumption == /\ Sizes \subseteq Nat \ {0}
                           /\ Trigger \in Nat \ {0}
                           /\ Keep \in Nat \ {0}
                           /\ MaxRetries \in Nat \ {0}
                           /\ MaxLogs \in Nat \ {0}
                           /\ MaxTasks \in Nat
                           /\ MaxFaults \in Nat
                           /\ FaultKinds \subseteq AllFaults
ASSUME NamesAssumption == Workers \cap LogIds = {} /\ "none" \notin Requests

VARIABLES
  conv,      \* the conversations row
  logs,      \* chat_logs by id; 0 tokens: not there, or not yet committed
  nextLog,   \* the last id that an INSERT was given
  request,   \* control state of each agent request
  plain,     \* control state of each plain chat
  starter,   \* maybeQueueCompaction after each log, queueNext of each consumer
  job,       \* what all messages of a task carry: its snapshot and base version
  queue,     \* messages in the main and retry queues, with multiplicity
  worker,    \* control state of each consumer
  nextTask,  \* number of task ids handed out
  lost,      \* history: the compaction that was due has been given up silently
  faults

vars == <<conv, logs, nextLog, request, plain, starter, job, queue, worker,
          nextTask, lost, faults>>

Starters == LogIds \cup Workers

Msg == [task : 1..MaxTasks, attempt : 0..MaxRetries]

NoMsg == [task |-> 0, attempt |-> 0]

Conversation ==
  [token : Requests \cup {"none"}, lease : {"none", "live", "expired"},
   through : 0..MaxLogs, summary : SUBSET LogIds, tokens : Nat, version : Nat,
   status : {"idle", "queued", "processing", "failed"}, task : 0..MaxTasks,
   summaryLease : {"none", "live", "expired"}, expired : BOOLEAN]

ChatLog == [tokens : Sizes \cup {0}, by : {"none", "agent", "plain"},
            saw : SUBSET LogIds]

RequestState ==
  [pc : {"idle", "read", "list", "work", "commit", "release"},
   after : 0..MaxLogs, saw : SUBSET LogIds, id : 0..MaxLogs,
   tokens : Sizes \cup {0}, outrun : BOOLEAN]

PlainState == [id : 0..MaxLogs, tokens : Sizes \cup {0}]

StarterState == [pc : {"idle", "try", "publish", "undo"}, task : 0..MaxTasks]

WorkerState ==
  [pc : {"idle", "claim", "look", "wait", "read", "list", "complete", "giveup",
         "retry", "resend", "ack", "done"},
   msg : Msg \cup {NoMsg}, held : BOOLEAN,
   after : 0..MaxLogs, old : SUBSET LogIds, cut : SUBSET LogIds]

NoLog == [tokens |-> 0, by |-> "none", saw |-> {}]

Resting == [pc |-> "idle", after |-> 0, saw |-> {}, id |-> 0, tokens |-> 0,
            outrun |-> FALSE]

Idle == [pc |-> "idle", msg |-> NoMsg, held |-> FALSE, after |-> 0, old |-> {},
         cut |-> {}]

Waiting == [id |-> 0, tokens |-> 0]

NoStart == [pc |-> "idle", task |-> 0]

\* CreateWithFirstLogAndSignal has created the row and the first log together.
Init ==
  \E n \in Sizes :
    /\ conv = [token |-> "none", lease |-> "none", through |-> 0, summary |-> {},
               tokens |-> n, version |-> 0, status |-> "idle", task |-> 0,
               summaryLease |-> "none", expired |-> FALSE]
    /\ logs = [i \in LogIds |-> IF i = 1 THEN [NoLog EXCEPT !.tokens = n, !.by = "agent"]
                                         ELSE NoLog]
    /\ nextLog = 1
    /\ request = [r \in Requests |-> Resting]
    /\ plain = [p \in Plain |-> Waiting]
    /\ starter = [s \in Starters |-> [NoStart EXCEPT !.pc = IF s = 1 THEN "try" ELSE "idle"]]
    /\ job = [t \in 1..MaxTasks |-> [snapshot |-> 0, version |-> 0]]
    /\ queue = [m \in Msg |-> 0]
    /\ worker = [w \in Workers |-> Idle]
    /\ nextTask = 0
    /\ lost = FALSE
    /\ faults = 0

-----------------------------------------------------------------------------
(* Failures, the broker and time *)

Fault(kind) == kind \in FaultKinds /\ faults < MaxFaults /\ faults' = faults + 1

NoFault == UNCHANGED faults

Saved == {i \in LogIds : logs[i].tokens > 0}

TokensOf(ids) == SumFunctionOnSet([i \in LogIds |-> logs[i].tokens], ids)

Put(m) == [queue EXCEPT ![m] = @ + 1]

Redelivered(w) == IF worker[w].held THEN Put(worker[w].msg) ELSE queue

\* A consumer that dies after its ack takes the start of the next task with it.
Crash(w) ==
  /\ worker[w].pc # "idle" \/ starter[w].pc # "idle"
  /\ Fault("crash")
  /\ queue' = Redelivered(w)
  /\ worker' = [worker EXCEPT ![w] = Idle]
  /\ starter' = [starter EXCEPT ![w] = NoStart]
  /\ lost' = (lost \/ starter[w].pc # "idle")
  /\ UNCHANGED <<conv, logs, nextLog, request, plain, job, nextTask>>

LoseChannel(w) ==
  /\ worker[w].held
  /\ Fault("conn")
  /\ queue' = Redelivered(w)
  /\ worker' = [worker EXCEPT ![w].held = FALSE]
  /\ UNCHANGED <<conv, logs, nextLog, request, plain, starter, job, nextTask, lost>>

LeaseExpires ==
  /\ conv.lease = "live"
  /\ conv' = [conv EXCEPT !.lease = "expired"]
  /\ \/ NoFault /\ request[conv.token].pc = "idle" /\ UNCHANGED request
     \/ /\ Fault("late")
        /\ request[conv.token].pc # "idle"
        /\ request' = [request EXCEPT ![conv.token].outrun = TRUE]
  /\ UNCHANGED <<logs, nextLog, plain, starter, job, queue, worker, nextTask, lost>>

\* Somebody has the current task: it waits to be claimed, or it is executed.
Alive ==
  \/ /\ conv.status = "queued"
     /\ \/ \E m \in Msg : m.task = conv.task /\ queue[m] > 0
        \/ \E s \in Starters : starter[s].pc # "idle" /\ starter[s].task = conv.task
        \/ \E w \in Workers : worker[w].pc # "idle" /\ worker[w].msg.task = conv.task
  \/ \E w \in Workers : /\ worker[w].pc \in {"read", "list", "complete", "giveup", "retry"}
                        /\ worker[w].msg.task = conv.task

SummaryLeaseExpires ==
  /\ conv.summaryLease = "live"
  /\ conv' = [conv EXCEPT !.summaryLease = "expired"]
  /\ \/ ~Alive /\ NoFault
     \/ Alive /\ Fault("late")
  /\ UNCHANGED <<logs, nextLog, request, plain, starter, job, queue, worker,
                 nextTask, lost>>

\* ConversationTTLHours have passed since the last turn.
ConversationExpires ==
  /\ ~conv.expired
  /\ Fault("ttl")
  /\ conv' = [conv EXCEPT !.expired = TRUE]
  /\ UNCHANGED <<logs, nextLog, request, plain, starter, job, queue, worker,
                 nextTask, lost>>

-----------------------------------------------------------------------------
(* An agent request *)

\* TryAcquireProcessingLease; a request that is refused changes nothing.
Acquire(r) ==
  /\ request[r].pc = "idle"
  /\ nextLog < MaxLogs
  /\ ~conv.expired
  /\ conv.lease # "live"
  /\ conv' = [conv EXCEPT !.token = r, !.lease = "live"]
  /\ request' = [request EXCEPT ![r].pc = "read"]
  /\ UNCHANGED <<logs, nextLog, plain, starter, job, queue, worker, nextTask,
                 lost, faults>>

\* ConversationContextAssembler.Build reads the row ...
ReadSummary(r) ==
  /\ request[r].pc = "read"
  /\ request' = [request EXCEPT ![r].pc = "list", ![r].saw = conv.summary,
                                ![r].after = conv.through]
  /\ UNCHANGED <<conv, logs, nextLog, plain, starter, job, queue, worker, nextTask,
                 lost, faults>>

\* ... and then the logs behind the cursor it has read.
ReadLogs(r) ==
  /\ request[r].pc = "list"
  /\ request' = [request EXCEPT ![r].pc = "work", ![r].after = 0,
                   ![r].saw = @ \cup {i \in Saved : i > request[r].after}]
  /\ UNCHANGED <<conv, logs, nextLog, plain, starter, job, queue, worker, nextTask,
                 lost, faults>>

\* AppendLogRefreshAndSignal inserts the log, which gives it its id ...
Insert(r) ==
  /\ request[r].pc = "work"
  /\ nextLog < MaxLogs
  /\ nextLog' = nextLog + 1
  /\ \E n \in Sizes :
       request' = [request EXCEPT ![r].pc = "commit", ![r].id = nextLog',
                                  ![r].tokens = n]
  /\ UNCHANGED <<conv, logs, plain, starter, job, queue, worker, nextTask, lost,
                 faults>>

\* Mutant of HoldsLease: the append is not fenced by the token.
HoldsLeaseAlways(r) == TRUE

HoldsLease(r) == conv.token = r

\* ... and updates the row, if the token is still this request's; otherwise the
\* transaction is rolled back. The deferred release finds no token then.
Commit(r) ==
  /\ request[r].pc = "commit"
  /\ \/ /\ HoldsLease(r)
        /\ logs' = [logs EXCEPT ![request[r].id] =
                      [tokens |-> request[r].tokens, by |-> "agent",
                       saw |-> request[r].saw]]
        /\ conv' = [conv EXCEPT !.tokens = @ + request[r].tokens, !.expired = FALSE,
                                !.token = "none", !.lease = "none"]
        /\ starter' = [starter EXCEPT ![request[r].id].pc = "try"]
     \/ ~HoldsLease(r) /\ UNCHANGED <<logs, conv, starter>>
  /\ request' = [request EXCEPT ![r] = Resting]
  /\ UNCHANGED <<nextLog, plain, job, queue, worker, nextTask, lost, faults>>

\* The plan, the answer or a statement fails: nothing is saved.
RequestFails(r) ==
  /\ request[r].pc \in {"read", "list", "work", "commit"}
  /\ request' = [request EXCEPT ![r] = [Resting EXCEPT !.pc = "release",
                                          !.outrun = request[r].outrun]]
  /\ UNCHANGED <<conv, logs, nextLog, plain, starter, job, queue, worker, nextTask,
                 lost, faults>>

\* Mutant of Releases: whatever token the row has is cleared.
ReleasesAny(r) == TRUE

Releases(r) == conv.token = r

\* ReleaseProcessingLease
Release(r) ==
  /\ request[r].pc = "release"
  /\ conv' = IF Releases(r) THEN [conv EXCEPT !.token = "none", !.lease = "none"]
                            ELSE conv
  /\ request' = [request EXCEPT ![r] = Resting]
  /\ UNCHANGED <<logs, nextLog, plain, starter, job, queue, worker, nextTask, lost,
                 faults>>

RequestDies(r) ==
  /\ request[r].pc # "idle"
  /\ Fault("server")
  /\ request' = [request EXCEPT ![r] = Resting]
  /\ UNCHANGED <<conv, logs, nextLog, plain, starter, job, queue, worker, nextTask,
                 lost>>

-----------------------------------------------------------------------------
(* A plain chat: CreateWithMemorySignal saves the log and nothing else *)

PlainInsert(p) ==
  /\ plain[p].id = 0
  /\ nextLog < MaxLogs
  /\ nextLog' = nextLog + 1
  /\ \E n \in Sizes : plain' = [plain EXCEPT ![p] = [id |-> nextLog', tokens |-> n]]
  /\ UNCHANGED <<conv, logs, request, starter, job, queue, worker, nextTask, lost,
                 faults>>

PlainCommit(p) ==
  /\ plain[p].id # 0
  /\ logs' = [logs EXCEPT ![plain[p].id] =
                [tokens |-> plain[p].tokens, by |-> "plain", saw |-> {}]]
  /\ starter' = [starter EXCEPT ![plain[p].id].pc = "try"]
  /\ plain' = [plain EXCEPT ![p] = Waiting]
  /\ UNCHANGED <<conv, nextLog, request, job, queue, worker, nextTask, lost, faults>>

-----------------------------------------------------------------------------
(* Starting a compaction: maybeQueueCompaction and queueNext *)

\* Mutant of Unclaimed: a task that is under way is never replaced.
UnclaimedStrict == conv.status \notin {"queued", "processing"}

\* No other task is under way.
Unclaimed == conv.status \in {"queued", "processing"} => conv.summaryLease # "live"

Queueable == /\ ~conv.expired
             /\ conv.tokens >= Trigger
             /\ Unclaimed
             /\ \E i \in Saved : i > conv.through

\* TryQueueCompaction, one transaction under the row's lock.
TryQueue(s) ==
  /\ starter[s].pc = "try"
  /\ \/ /\ NoFault
        /\ Queueable
        /\ nextTask < MaxTasks
        /\ nextTask' = nextTask + 1
        /\ conv' = [conv EXCEPT !.status = "queued", !.task = nextTask',
                                !.summaryLease = "live"]
        /\ job' = [job EXCEPT ![nextTask'] = [snapshot |-> Max(Saved),
                                              version |-> conv.version]]
        /\ starter' = [starter EXCEPT ![s] = [pc |-> "publish", task |-> nextTask']]
        /\ lost' = FALSE
     \/ /\ NoFault
        /\ ~Queueable
        /\ starter' = [starter EXCEPT ![s] = NoStart]
        /\ UNCHANGED <<conv, job, nextTask, lost>>
  /\ UNCHANGED <<logs, nextLog, request, plain, queue, worker>>

PublishTask(s) ==
  /\ starter[s].pc = "publish"
  /\ \/ /\ NoFault
        /\ queue' = Put([task |-> starter[s].task, attempt |-> 0])
        /\ starter' = [starter EXCEPT ![s] = NoStart]
     \/ /\ Fault("publish")
        /\ starter' = [starter EXCEPT ![s].pc = "undo"]
        /\ UNCHANGED queue
  /\ UNCHANGED <<conv, logs, nextLog, request, plain, job, worker, nextTask, lost>>

\* FailCompaction compares nothing but the task.
Failed(task) ==
  IF conv.task = task THEN [conv EXCEPT !.status = "failed", !.summaryLease = "none"]
                      ELSE conv

UndoStart(s) ==
  /\ starter[s].pc = "undo"
  /\ conv' = Failed(starter[s].task)
  /\ starter' = [starter EXCEPT ![s] = NoStart]
  /\ UNCHANGED <<logs, nextLog, request, plain, job, queue, worker, nextTask, lost,
                 faults>>

\* A statement fails, or the process dies on the way.
StartLost(s) ==
  /\ starter[s].pc # "idle"
  /\ Fault("start")
  /\ starter' = [starter EXCEPT ![s] = NoStart]
  /\ lost' = TRUE
  /\ UNCHANGED <<conv, logs, nextLog, request, plain, job, queue, worker, nextTask>>

-----------------------------------------------------------------------------
(* The consumer *)

\* What the step has read is forgotten: the steps that keep it do not use Goto.
Goto(w, pc) == worker' = [worker EXCEPT ![w] = [Idle EXCEPT !.pc = pc,
                                   !.msg = worker[w].msg, !.held = worker[w].held]]

Task(w) == worker[w].msg.task

Receive(w, m) ==
  /\ worker[w].pc = "idle" /\ starter[w].pc = "idle"
  /\ queue[m] > 0
  /\ queue' = [queue EXCEPT ![m] = @ - 1]
  /\ worker' = [worker EXCEPT ![w] = [Idle EXCEPT !.pc = "claim", !.msg = m,
                                                  !.held = TRUE]]
  /\ UNCHANGED <<conv, logs, nextLog, request, plain, starter, job, nextTask, lost,
                 faults>>

Claimable(w) ==
  /\ conv.task = Task(w)
  /\ \/ conv.status \in {"queued", "failed"}
     \/ conv.status = "processing" /\ conv.summaryLease # "live"

\* ClaimCompaction
Claim(w) ==
  /\ worker[w].pc = "claim"
  /\ \/ /\ NoFault
        /\ Claimable(w)
        /\ conv' = [conv EXCEPT !.status = "processing", !.summaryLease = "live"]
        /\ Goto(w, "read")
     \/ NoFault /\ ~Claimable(w) /\ Goto(w, "look") /\ UNCHANGED conv
     \/ Fault("db") /\ Goto(w, "retry") /\ UNCHANGED conv
  /\ UNCHANGED <<logs, nextLog, request, plain, starter, job, queue, nextTask, lost>>

\* Compact, not claimed: the message waits for a live lease and is dropped in every
\* other case, a failed SELECT included.
Look(w) ==
  /\ worker[w].pc = "look"
  /\ LET busy == /\ conv.task = Task(w)
                 /\ conv.status = "processing"
                 /\ conv.summaryLease = "live"
     IN \/ NoFault /\ Goto(w, IF busy THEN "wait" ELSE "done") /\ UNCHANGED lost
        \/ Fault("db") /\ Goto(w, "done") /\ lost' = TRUE
  /\ UNCHANGED <<conv, logs, nextLog, request, plain, starter, job, queue, nextTask>>

\* Compact reads the row ...
ReadRow(w) ==
  /\ worker[w].pc = "read"
  /\ \/ NoFault /\ conv.expired /\ Goto(w, "giveup")
     \/ /\ NoFault
        /\ ~conv.expired
        /\ worker' = [worker EXCEPT ![w].pc = "list", ![w].after = conv.through,
                                    ![w].old = conv.summary]
     \/ Fault("db") /\ Goto(w, "retry")
  /\ UNCHANGED <<conv, logs, nextLog, request, plain, starter, job, queue, nextTask,
                 lost>>

\* selectCompactLogs keeps the newest log, and the ones before it as long as they
\* fit into Keep together. When that leaves nothing, Compact takes all.
Compacted(range) ==
  LET kept == {i \in range : i = Max(range) \/ TokensOf({j \in range : j >= i}) <= Keep}
  IN IF kept = range THEN range ELSE range \ kept

\* ... and the logs between its cursor and the task's snapshot.
ListRange(w) ==
  /\ worker[w].pc = "list"
  /\ LET range == {i \in Saved : worker[w].after < i /\ i <= job[Task(w)].snapshot}
     IN \/ NoFault /\ range = {} /\ Goto(w, "giveup")
        \/ /\ NoFault
           /\ range # {}
           /\ worker' = [worker EXCEPT ![w].pc = "complete", ![w].cut = Compacted(range)]
        \/ Fault("db") /\ Goto(w, "retry")
  /\ UNCHANGED <<conv, logs, nextLog, request, plain, starter, job, queue, nextTask,
                 lost>>

\* The model fails, or its answer is refused by ParseConversationSummary or
\* validateSummary.
SummaryFails(w) ==
  /\ worker[w].pc = "complete"
  /\ Fault("model")
  /\ Goto(w, "retry")
  /\ UNCHANGED <<conv, logs, nextLog, request, plain, starter, job, queue, nextTask,
                 lost>>

\* Mutant of Completable: neither the task nor the version is compared.
CompletableAny(w) == conv.status = "processing"

Completable(w) == /\ conv.task = Task(w)
                  /\ conv.status = "processing"
                  /\ conv.version = job[Task(w)].version

\* Mutant of NewCursor: the cursor is set to the snapshot.
NewCursorSnapshot(w) == job[Task(w)].snapshot

NewCursor(w) == Max(worker[w].cut)

\* Mutant of Removed: the tokens of the whole range are taken off.
RemovedRange(w) ==
  TokensOf({i \in Saved : worker[w].after < i /\ i <= job[Task(w)].snapshot})

Removed(w) == TokensOf(worker[w].cut)

\* Mutant of Minus: without GREATEST(0, ...).
MinusPlain(a, b) == a - b

Minus(a, b) == IF a > b THEN a - b ELSE 0

\* CompleteCompaction; a task that has lost the row is retried.
Complete(w) ==
  /\ worker[w].pc = "complete"
  /\ \/ /\ NoFault
        /\ Completable(w)
        /\ conv' = [conv EXCEPT !.summary = worker[w].old \cup worker[w].cut,
                                !.through = NewCursor(w),
                                !.tokens = Minus(@, Removed(w)),
                                !.version = @ + 1, !.status = "idle", !.task = 0,
                                !.summaryLease = "none"]
        /\ Goto(w, "done")
     \/ NoFault /\ ~Completable(w) /\ Goto(w, "retry") /\ UNCHANGED conv
     \/ Fault("db") /\ Goto(w, "retry") /\ UNCHANGED conv
  /\ UNCHANGED <<logs, nextLog, request, plain, starter, job, queue, nextTask, lost>>

\* Expired, or nothing to compact.
GiveUp(w) ==
  /\ worker[w].pc = "giveup"
  /\ \/ NoFault /\ conv' = Failed(Task(w)) /\ Goto(w, "done")
     \/ Fault("db") /\ Goto(w, "retry") /\ UNCHANGED conv
  /\ UNCHANGED <<logs, nextLog, request, plain, starter, job, queue, nextTask, lost>>

\* retry: the error of FailCompaction is ignored.
Retry(w) ==
  /\ worker[w].pc = "retry"
  /\ \/ NoFault /\ conv' = Failed(Task(w)) /\ UNCHANGED lost
     \/ /\ Fault("db")
        /\ lost' = (lost \/ worker[w].msg.attempt = MaxRetries)
        /\ UNCHANGED conv
  /\ Goto(w, "resend")
  /\ UNCHANGED <<logs, nextLog, request, plain, starter, job, queue, nextTask>>

\* publishRetry, and the return of a message that met a live lease. Past the last
\* retry the message leaves for the dead letter queue.
Resend(w) ==
  /\ worker[w].pc \in {"resend", "wait"}
  /\ LET m == worker[w].msg
     IN \/ /\ NoFault
           /\ \/ worker[w].pc = "wait" /\ queue' = Put(m)
              \/ /\ worker[w].pc = "resend"
                 /\ m.attempt < MaxRetries
                 /\ queue' = Put([m EXCEPT !.attempt = @ + 1])
              \/ worker[w].pc = "resend" /\ m.attempt = MaxRetries /\ UNCHANGED queue
           /\ Goto(w, "ack")
        \/ /\ Fault("publish")
           /\ queue' = Redelivered(w)
           /\ worker' = [worker EXCEPT ![w] = Idle]
  /\ UNCHANGED <<conv, logs, nextLog, request, plain, starter, job, nextTask, lost>>

\* Mutant of AfterAck: the consumer does not look for more.
AfterAckIdle(w) == "idle"

\* handleDelivery goes on to queueNext when Compact has returned no error.
AfterAck(w) == IF worker[w].pc = "done" THEN "try" ELSE "idle"

Ack(w) ==
  /\ worker[w].pc \in {"ack", "done"}
  /\ worker' = [worker EXCEPT ![w] = Idle]
  /\ starter' = [starter EXCEPT ![w].pc = AfterAck(w)]
  /\ UNCHANGED <<conv, logs, nextLog, request, plain, job, queue, nextTask, lost,
                 faults>>

-----------------------------------------------------------------------------

RequestRuns(r) == \/ ReadSummary(r) \/ ReadLogs(r) \/ Insert(r) \/ Commit(r)
                  \/ RequestFails(r) \/ Release(r)

Starts(s) == TryQueue(s) \/ PublishTask(s) \/ UndoStart(s)

Handles(w) == \/ Claim(w) \/ Look(w) \/ ReadRow(w) \/ ListRange(w)
              \/ SummaryFails(w) \/ Complete(w) \/ GiveUp(w) \/ Retry(w)
              \/ Resend(w) \/ Ack(w)

Next ==
  \/ \E r \in Requests : Acquire(r) \/ RequestRuns(r) \/ RequestDies(r)
  \/ \E p \in Plain : PlainInsert(p) \/ PlainCommit(p)
  \/ \E s \in Starters : Starts(s) \/ StartLost(s)
  \/ \E w \in Workers : \/ \E m \in Msg : Receive(w, m)
                        \/ Handles(w) \/ Crash(w) \/ LoseChannel(w)
  \/ LeaseExpires \/ SummaryLeaseExpires \/ ConversationExpires

Spec == Init /\ [][Next]_vars

(***************************************************************************)
(* Fairness. The goroutines that start a compaction and the handlers run to *)
(* their end, the queue delivers while a consumer is free, and a lease that *)
(* nobody renews runs out. Nobody has to ask anything.                      *)
(***************************************************************************)
Fairness ==
  /\ \A s \in Starters : WF_vars(Starts(s))
  /\ \A w \in Workers : WF_vars(Handles(w))
  /\ WF_vars(\E w \in Workers, m \in Msg : Receive(w, m))
  /\ WF_vars(SummaryLeaseExpires)

FairSpec == Spec /\ Fairness

-----------------------------------------------------------------------------
(* Properties *)

\* The types of the variables.
TypeOK ==
  /\ conv \in Conversation
  /\ logs \in [LogIds -> ChatLog]
  /\ nextLog \in LogIds
  /\ request \in [Requests -> RequestState]
  /\ plain \in [Plain -> PlainState]
  /\ starter \in [Starters -> StarterState]
  /\ job \in [1..MaxTasks -> [snapshot : 0..MaxLogs, version : Nat]]
  /\ queue \in [Msg -> Nat]
  /\ worker \in [Workers -> WorkerState]
  /\ nextTask \in 0..MaxTasks
  /\ lost \in BOOLEAN
  /\ faults \in Nat

\* A plain chat has written to the conversation.
Mixed == \E i \in LogIds : logs[i].by = "plain"

\* While only agent turns write to the conversation, the summary stands for exactly
\* the logs up to the cursor: no turn is lost between the summary and the raw
\* history, and none is in both, whatever tasks run beside each other.
SummaryExact == Mixed \/ conv.summary = {i \in Saved : i <= conv.through}

\* While only agent turns write, unsummarized_tokens is the size of the logs behind
\* the cursor: turns appended during a compaction stay counted, and GREATEST(0, ...)
\* in CompleteCompaction never has anything to cut off.
TokensExact == Mixed \/ conv.tokens = TokensOf({i \in Saved : i > conv.through})

\* While only agent turns write, a saved turn was answered in view of every turn
\* saved before it, although leases expire under running requests and compactions
\* move the cursor while a context is read.
TurnSawAll ==
  Mixed \/ \A i, j \in Saved : i < j => i \in logs[j].saw

\* A request whose lease has not expired keeps it until it saves or releases it: no
\* other request, and no release of an earlier one, takes it away.
LeaseProtects ==
  \A r \in Requests : request[r].pc # "idle" /\ ~request[r].outrun => conv.token = r

\* The cursor and the summary only grow, one version at a time, plain chats or not:
\* an execution that was superseded never puts an older summary back.
CursorForward ==
  [][conv'.summary # conv.summary \/ conv'.through # conv.through =>
       /\ conv'.through > conv.through
       /\ conv.summary \subseteq conv'.summary
       /\ conv'.version = conv.version + 1]_vars

Backlog == conv.tokens >= Trigger /\ ~conv.expired

\* A history over the threshold is compacted, the turns that arrive during a
\* compaction included, or its compaction is recorded as failed, unless whoever had
\* to start it or to record its failure was lost.
BacklogWorkedOff == Backlog ~> (~Backlog \/ conv.status = "failed" \/ lost)
=============================================================================
