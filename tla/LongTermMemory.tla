--------------------------- MODULE LongTermMemory ---------------------------
(***************************************************************************)
(* What the agent remembers of one user in one knowledge base under one     *)
(* identity_hash: the row of long_term_memories and its evidence, the       *)
(* vector derived from it, the signals saved with the chat logs, the jobs,  *)
(* the scheduler that batches signals and publishes jobs, the consumers     *)
(* that consolidate, index and delete, and the user's calls.                *)
(*                                                                          *)
(* identity_hash is unique, so there is one row at a time; a row created    *)
(* after a removed one has a new id, and jobs and vectors of the old id may *)
(* still be about. An id stands for one row, a log for one turn of a        *)
(* conversation. A job's slot is used again once nothing can touch its row. *)
(***************************************************************************)
EXTENDS Naturals, FiniteSets

CONSTANTS
  Consolidators,  \* goroutines of each kind of memory consumer, one each by default
  Indexers,
  Deleters,
  Clients,        \* concurrent requests of the user
  Values,         \* what the memory may say
  NoValue,
  Conversations,
  PromoteMin,     \* AutoPromoteMinConversations
  BatchSize,      \* ConsolidationMaxSignals
  MaxCandidates,  \* MaxCandidatesPerBatch
  Ops,            \* the operations the clients call; elapse: a row's time passes
  MaxCalls,       \* bound: calls, and expiries
  MaxLogs,        \* bound: chat logs
  MaxRows,        \* bound: rows created
  MaxVersion,     \* bound: version of a row
  MaxJobs,        \* bound: job slots
  MaxCopies,      \* bound: copies of one job's message in the queue
  FaultKinds,     \* the failures that may occur
  MaxFaults       \* bound: how many of them occur

(***************************************************************************)
(* db      a statement fails and the handler notices                        *)
(* ignored a statement fails and its error is dropped                       *)
(* model   the extraction model fails or answers nonsense                   *)
(* embed   the embedder fails                                               *)
(* upsert  the vector store refuses the new vector                          *)
(* vector  the vector store refuses a deletion                              *)
(* publish PublishJSON fails                                                *)
(* crash   a consumer, the scheduler's round or a user's call dies          *)
(* late    a job's lease expires although its message waits or runs         *)
(***************************************************************************)
AllFaults == {"db", "ignored", "model", "embed", "upsert", "vector", "publish",
              "crash", "late"}

AllOps == {"turn", "remember", "forget", "confirm", "update", "delete", "scope",
           "recall", "elapse"}

Workers == Consolidators \cup Indexers \cup Deleters

ASSUME WorkersAssumption == /\ Consolidators \cap Indexers = {}
                            /\ Consolidators \cap Deleters = {}
                            /\ Indexers \cap Deleters = {}
ASSUME BoundsAssumption ==
  /\ PromoteMin \in Nat \ {0} /\ BatchSize \in Nat \ {0}
  /\ MaxCandidates \in Nat /\ MaxCalls \in Nat /\ MaxLogs \in Nat
  /\ MaxRows \in Nat /\ MaxVersion \in Nat \ {0} /\ MaxJobs \in Nat
  /\ MaxCopies \in Nat \ {0} /\ MaxFaults \in Nat
ASSUME ValuesAssumption == NoValue \notin Values
ASSUME KindsAssumption == Ops \subseteq AllOps /\ FaultKinds \subseteq AllFaults

VARIABLES
  row,        \* the rows by id
  evidence,   \* the logs each row rests on
  vector,     \* the version of a row that the vector store has, 0 if none
  log,        \* the chat logs with the status of their signals
  logs,       \* number of logs saved
  tombstone,  \* the latest forget_before_chat_log_id of the identity
  job,        \* the job rows
  queue,      \* messages of each job in the main and retry queues
  worker,     \* control state of each consumer goroutine
  todo,       \* the scheduler's round: the jobs it has still to publish
  published,  \* ... and the one it has just published and not yet marked, 0 if none
  client,     \* control state of each request
  explicit,   \* history: rows the user stated or confirmed
  revived,    \* history: rows brought back after they had expired or were forgotten
  calls,
  faults

stored == <<row, evidence, vector, log, logs, tombstone>>
history == <<explicit, revived>>
vars == <<stored, job, queue, worker, todo, published, client, history, calls,
          faults>>

Ids == 1..MaxRows
LogIds == 1..MaxLogs
Jobs == 1..MaxJobs

Live == {"candidate", "active", "conflicted"}

Row == [status : {"none", "gone", "expired", "deleting"} \cup Live,
        version : 0..MaxVersion, value : Values \cup {NoValue}, ready : BOOLEAN,
        due : BOOLEAN]

NoRow == [status |-> "none", version |-> 0, value |-> NoValue, ready |-> FALSE,
          due |-> FALSE]

Log == [conv : Conversations, task : 0..MaxJobs,
        signal : {"none", "pending", "queued", "completed", "cancelled"}]

Job == [type : {"consolidate", "index", "delete_vector", "expire"},
        mem : 0..MaxRows, signals : SUBSET LogIds,
        status : {"unused", "queued", "published", "processing", "completed",
                  "failed", "cancelled"},
        expired : BOOLEAN]

NoJob == [type |-> "index", mem |-> 0, signals |-> {}, status |-> "unused",
          expired |-> FALSE]

WorkerState ==
  [pc : {"idle", "read", "merge", "load", "upsert", "check",
         "clean", "mark", "still", "remove", "erase", "finish", "fail"},
   job : 0..MaxJobs, version : 0..MaxVersion, left : 0..MaxCandidates]

Idle == [pc |-> "idle", job |-> 0, version |-> 0, left |-> 0]

ClientState ==
  [pc : {"idle", "mark", "write", "lookup", "answer"},
   op : AllOps, id : 0..MaxRows, copy : Row, max : 0..MaxLogs,
   barred : SUBSET Ids, hits : SUBSET Ids]

Resting == [pc |-> "idle", op |-> "turn", id |-> 0, copy |-> NoRow, max |-> 0,
            barred |-> {}, hits |-> {}]

Init ==
  /\ row = [i \in Ids |-> NoRow]
  /\ evidence = [i \in Ids |-> {}]
  /\ vector = [i \in Ids |-> 0]
  /\ log = << >>
  /\ logs = 0
  /\ tombstone = 0
  /\ job = [j \in Jobs |-> NoJob]
  /\ queue = [j \in Jobs |-> 0]
  /\ worker = [w \in Workers |-> Idle]
  /\ todo = {}
  /\ published = 0
  /\ client = [c \in Clients |-> Resting]
  /\ explicit = {}
  /\ revived = {}
  /\ calls = 0
  /\ faults = 0

-----------------------------------------------------------------------------
(* Rows, jobs and failures *)

Fault(kind) == kind \in FaultKinds /\ faults < MaxFaults /\ faults' = faults + 1

NoFault == UNCHANGED faults

Exists(i) == row[i].status \notin {"none", "gone"}

\* No message, no round and no signal that is not done names the job.
Unseen(j) ==
  /\ queue[j] = 0 /\ j \notin todo /\ j # published
  /\ \A l \in 1..logs : log[l].task = j => log[l].signal = "completed"

\* Nothing can touch the row of this job any more: its slot may be used again.
Spent(j) ==
  /\ job[j].status \in {"unused", "completed", "cancelled"}
  /\ Unseen(j)
  /\ \A w \in Workers : worker[w].job # j

HasSlot == \E j \in Jobs : Spent(j)

Slot == CHOOSE j \in Jobs : Spent(j)

\* createMemoryJob, in the transaction of the change it follows from.
WithJob(jobs, type, id, signals) ==
  [jobs EXCEPT ![Slot] = [NoJob EXCEPT !.type = type, !.mem = id,
                                       !.signals = signals, !.status = "queued"]]

CreateJob(type, id) == HasSlot /\ job' = WithJob(job, type, id, {})

\* Mutant of Reindexed: the service counts the version and the repository again.
ReindexedTwice(r) == [r EXCEPT !.version = @ + 2, !.ready = FALSE]

\* A change that needs a new version of the vector.
Reindexed(r) == [r EXCEPT !.version = @ + 1, !.ready = FALSE]

CanReindex(i) == row[i].version < MaxVersion

Put(q, j) == IF q[j] < MaxCopies THEN [q EXCEPT ![j] = @ + 1] ELSE q

\* Rows that come back to life, whoever brings them.
NoteRevived ==
  revived' = revived \cup {i \in Ids : /\ row[i].status \in {"expired", "deleting"}
                                       /\ row'[i].status \in Live}

\* expires_at passes.
Elapses(i) ==
  /\ "elapse" \in Ops /\ calls < MaxCalls
  /\ calls' = calls + 1
  /\ row[i].status \in Live /\ ~row[i].due
  /\ row' = [row EXCEPT ![i].due = TRUE]
  /\ UNCHANGED <<evidence, vector, log, logs, tombstone, job, queue, worker, todo,
                 published, client, history, faults>>

-----------------------------------------------------------------------------
(* The user's calls *)

Begins(c, op) ==
  /\ client[c].pc = "idle"
  /\ op \in Ops
  /\ calls < MaxCalls
  /\ calls' = calls + 1

Goes(c, s) == client' = [client EXCEPT ![c] = s]

SavesLog(conv, signal) ==
  /\ logs < MaxLogs
  /\ logs' = logs + 1
  /\ log' = [l \in 1..logs + 1 |-> IF l = logs + 1
                                   THEN [conv |-> conv, task |-> 0, signal |-> signal]
                                   ELSE log[l]]

\* saveTurn: a turn that passes the worthiness gate saves its log with a signal.
Turn(c, conv) ==
  /\ Begins(c, "turn")
  /\ SavesLog(conv, "pending")
  /\ UNCHANGED <<row, evidence, vector, tombstone, job, queue, worker, todo,
                 published, client, history, faults>>

\* SaveTurnWithExplicitMemory of a remember: the row is created, or corrected in
\* whatever state it is.
Remember(c, conv, v) ==
  /\ Begins(c, "remember")
  /\ SavesLog(conv, "none")
  /\ \E i \in Ids :
       /\ \/ /\ \A k \in Ids : ~Exists(k)
             /\ row[i].status = "none" /\ \A k \in Ids : k < i => row[k].status # "none"
             /\ row' = [row EXCEPT ![i] = [NoRow EXCEPT !.status = "active",
                                                        !.version = 1, !.value = v]]
          \/ /\ Exists(i) /\ CanReindex(i)
             /\ row' = [row EXCEPT ![i] = [Reindexed(@) EXCEPT !.status = "active",
                                                               !.value = v,
                                                               !.due = FALSE]]
       /\ evidence' = [evidence EXCEPT ![i] = @ \cup {logs'}]
       /\ CreateJob("index", i)
       /\ explicit' = explicit \cup {i}
  /\ NoteRevived
  /\ UNCHANGED <<vector, tombstone, queue, worker, todo, published, client, faults>>

Larger(a, b) == IF a > b THEN a ELSE b

\* SaveTurnWithExplicitMemory of a forget: the log of the turn is the barrier.
Forget(c, conv) ==
  /\ Begins(c, "forget")
  /\ SavesLog(conv, "none")
  /\ \/ \E i \in Ids :
          /\ Exists(i) /\ row[i].status # "deleting"
          /\ row' = [row EXCEPT ![i].status = "deleting"]
          /\ tombstone' = Larger(tombstone, logs')
          /\ CreateJob("delete_vector", i)
     \/ /\ \A i \in Ids : Exists(i) => row[i].status = "deleting"
        /\ UNCHANGED <<row, tombstone, job>>
  /\ UNCHANGED <<evidence, vector, queue, worker, todo, published, client, history,
                 faults>>

\* Confirm: only a candidate is confirmed.
Confirm(c, i) ==
  /\ Begins(c, "confirm")
  /\ row[i].status = "candidate" /\ CanReindex(i)
  /\ row' = [row EXCEPT ![i] = [Reindexed(@) EXCEPT !.status = "active", !.due = FALSE]]
  /\ CreateJob("index", i)
  /\ explicit' = explicit \cup {i}
  /\ UNCHANGED <<evidence, vector, log, logs, tombstone, queue, worker, todo,
                 published, client, revived, faults>>

\* Update reads the row ...
UpdateReads(c, i) ==
  /\ Begins(c, "update")
  /\ Exists(i)
  /\ Goes(c, [Resting EXCEPT !.pc = "write", !.op = "update", !.id = i, !.copy = row[i]])
  /\ UNCHANGED <<stored, job, queue, worker, todo, published, history, faults>>

\* ... and UpdateOwned saves all of it, with the version that follows the current
\* one. The expiry is the user's new one or the one read.
UpdateWrites(c, v) ==
  LET i == client[c].id
  IN /\ client[c].pc = "write"
     /\ \/ /\ Exists(i) /\ CanReindex(i)
           /\ \E due \in BOOLEAN :
                row' = [row EXCEPT ![i] = [client[c].copy EXCEPT
                                             !.version = row[i].version + 1,
                                             !.ready = FALSE, !.value = v, !.due = due]]
           /\ CreateJob("index", i)
        \/ ~Exists(i) /\ UNCHANGED <<row, job>>
     /\ NoteRevived
     /\ Goes(c, Resting)
     /\ UNCHANGED <<evidence, vector, log, logs, tombstone, queue, worker, todo,
                    published, explicit, calls, faults>>

\* Delete and DeleteByScope: MaxChatLogID is read first, as 0 when that fails ...
DeleteReads(c, op, i) ==
  /\ Begins(c, op)
  /\ op \in {"delete", "scope"}
  /\ op = "delete" => Exists(i)
  /\ \E max \in {logs, 0} :
       /\ IF max = logs THEN NoFault ELSE Fault("ignored")
       /\ Goes(c, [Resting EXCEPT !.pc = "mark", !.op = op, !.id = i, !.max = max])
  /\ UNCHANGED <<stored, job, queue, worker, todo, published, history>>

\* The jobs of the row that wait are cancelled.
Cancelled(jobs, i) ==
  [j \in Jobs |-> IF jobs[j].mem = i /\ jobs[j].status \in {"queued", "published"}
                  THEN [jobs[j] EXCEPT !.status = "cancelled"] ELSE jobs[j]]

SignalsCancelled(set) ==
  log' = [l \in 1..logs |->
            IF l \in set /\ log[l].signal \in {"pending", "queued"}
            THEN [log[l] EXCEPT !.signal = "cancelled"] ELSE log[l]]

Barrier(c, i) ==
  /\ row' = [row EXCEPT ![i].status = "deleting"]
  /\ tombstone' = Larger(tombstone, client[c].max)
  /\ HasSlot
  /\ job' = WithJob(Cancelled(job, i), "delete_vector", i, {})

\* ... then MarkDeleting begins the deletion, with the signals of the evidence.
MarkDeleting(c) ==
  LET i == client[c].id
  IN /\ client[c].pc = "mark" /\ client[c].op = "delete"
     /\ \/ /\ Exists(i) /\ row[i].status # "deleting"
           /\ Barrier(c, i)
           /\ SignalsCancelled(evidence[i])
        \/ ~(Exists(i) /\ row[i].status # "deleting") /\ UNCHANGED <<row, tombstone, job, log>>
     /\ Goes(c, Resting)
     /\ UNCHANGED <<evidence, vector, logs, queue, worker, todo, published, history,
                    calls, faults>>

\* MarkDeletingByScope: every signal of the knowledge base, every row of it.
MarkDeletingByScope(c) ==
  /\ client[c].pc = "mark" /\ client[c].op = "scope"
  /\ SignalsCancelled(1..logs)
  /\ \/ \E i \in Ids : Exists(i) /\ row[i].status # "deleting" /\ Barrier(c, i)
     \/ /\ \A i \in Ids : Exists(i) => row[i].status = "deleting"
        /\ UNCHANGED <<row, tombstone, job>>
  /\ Goes(c, Resting)
  /\ UNCHANGED <<evidence, vector, logs, queue, worker, todo, published, history,
                 calls, faults>>

\* Mutant of Recallable: the vector store's word is taken for it.
RecallableFound(i) == row[i].status # "none"

\* FindFixedAndLexical and FindActiveByIDs select by the row's current state.
Recallable(i) == row[i].status = "active" /\ ~row[i].due

Forgotten(i) == row[i].status \in {"deleting", "gone", "expired"}

\* Retrieve: the vector store is searched, which may find any vector it has, ...
Recall(c) ==
  /\ Begins(c, "recall")
  /\ \E hits \in SUBSET {i \in Ids : vector[i] > 0} :
       Goes(c, [Resting EXCEPT !.pc = "lookup", !.op = "recall", !.hits = hits,
                               !.barred = {i \in Ids : Forgotten(i)}])
  /\ UNCHANGED <<stored, job, queue, worker, todo, published, history, faults>>

\* ... and what it found is looked up in the database.
RecallLooksUp(c) ==
  /\ client[c].pc = "lookup"
  /\ client' = [client EXCEPT ![c].pc = "answer",
                              ![c].hits = {i \in @ : Recallable(i)}]
  /\ UNCHANGED <<stored, job, queue, worker, todo, published, history, calls, faults>>

RecallEnds(c) ==
  /\ client[c].pc = "answer"
  /\ Goes(c, Resting)
  /\ UNCHANGED <<stored, job, queue, worker, todo, published, history, calls, faults>>

CallDies(c) ==
  /\ client[c].pc # "idle"
  /\ Fault("crash")
  /\ Goes(c, Resting)
  /\ UNCHANGED <<stored, job, queue, worker, todo, published, history, calls>>

-----------------------------------------------------------------------------
(* The scheduler *)

\* The signals of the conversation that wait, the first k of them.
Waiting(conv) == {l \in 1..logs : log[l].signal = "pending" /\ log[l].conv = conv}

First(set, k) == {l \in set : Cardinality({m \in set : m <= l}) <= k}

\* ScheduleSignalBatches: one conversation's batch becomes a job.
ScheduleBatch(conv) ==
  /\ Waiting(conv) # {}
  /\ HasSlot
  /\ \E k \in 1..BatchSize :
       LET batch == First(Waiting(conv), k)
       IN /\ job' = WithJob(job, "consolidate", 0, batch)
          /\ log' = [l \in 1..logs |-> IF l \in batch
                                       THEN [log[l] EXCEPT !.signal = "queued", !.task = Slot]
                                       ELSE log[l]]
  /\ UNCHANGED <<row, evidence, vector, logs, tombstone, queue, worker, todo, published,
                 client, history, calls, faults>>

\* ExpireDue
ExpireDue(i) ==
  /\ row[i].status \in Live /\ row[i].due
  /\ row' = [row EXCEPT ![i].status = "expired"]
  /\ CreateJob("expire", i)
  /\ UNCHANGED <<evidence, vector, log, logs, tombstone, queue, worker, todo, published,
                 client, history, calls, faults>>

\* Mutant of Publishable: a failed job is left to the retry queue.
PublishableWaiting(j) ==
  \/ job[j].status = "queued"
  \/ job[j].status \in {"published", "processing"} /\ job[j].expired

\* Mutant of Publishable: a job in processing is left to its consumer.
PublishableUnclaimed(j) ==
  \/ job[j].status \in {"queued", "failed"}
  \/ job[j].status = "published" /\ job[j].expired

Publishable(j) ==
  \/ job[j].status \in {"queued", "failed"}
  \/ job[j].status \in {"published", "processing"} /\ job[j].expired

\* QueuedJobs: a round takes the jobs that wait, failed or lost their lease.
Scan ==
  /\ todo = {} /\ published = 0
  /\ \E j \in Jobs : Publishable(j)
  /\ todo' = {j \in Jobs : Publishable(j)}
  /\ UNCHANGED <<stored, job, queue, worker, published, client, history, calls, faults>>

\* They are published in their order; when that fails the row becomes failed,
\* whatever it was.
PublishJob(j) ==
  /\ j \in todo /\ published = 0
  /\ \A k \in todo : j <= k
  /\ todo' = todo \ {j}
  /\ \/ /\ NoFault
        /\ queue' = Put(queue, j)
        /\ published' = j
        /\ UNCHANGED job
     \/ /\ Fault("publish")
        /\ job' = [job EXCEPT ![j].status = "failed", ![j].expired = FALSE]
        /\ UNCHANGED <<queue, published>>
  /\ UNCHANGED <<stored, worker, client, history, calls>>

\* MarkPublished: only a job that still waits.
MarkPublished ==
  /\ published # 0
  /\ \/ /\ NoFault
        /\ job' = IF job[published].status \in {"queued", "failed"}
                  THEN [job EXCEPT ![published].status = "published",
                                   ![published].expired = FALSE]
                  ELSE job
     \/ Fault("db") /\ UNCHANGED job
  /\ published' = 0
  /\ UNCHANGED <<stored, queue, worker, todo, client, history, calls>>

RoundDies ==
  /\ todo # {} \/ published # 0
  /\ Fault("crash")
  /\ todo' = {}
  /\ published' = 0
  /\ UNCHANGED <<stored, job, queue, worker, client, history, calls>>

\* A lease ends: of itself when nobody has the job, by a fault while somebody has.
LeaseExpires(j) ==
  /\ job[j].status \in {"published", "processing"} /\ ~job[j].expired
  /\ job' = [job EXCEPT ![j].expired = TRUE]
  /\ IF queue[j] = 0 /\ \A w \in Workers : worker[w].job # j
     THEN NoFault ELSE Fault("late")
  /\ UNCHANGED <<stored, queue, worker, todo, published, client, history, calls>>

-----------------------------------------------------------------------------
(* The consumers *)

Mine(w) == job[worker[w].job]

Mem(w) == Mine(w).mem

Goto(w, pc) == worker' = [worker EXCEPT ![w].pc = pc]

Rests(w) == worker' = [worker EXCEPT ![w] = Idle]

Kinds(w) == UNION {IF w \in Consolidators THEN {"consolidate"} ELSE {},
                   IF w \in Indexers THEN {"index"} ELSE {},
                   IF w \in Deleters THEN {"delete_vector", "expire"} ELSE {}}

Claimable(j) ==
  \/ job[j].status \in {"queued", "published", "failed"}
  \/ job[j].status = "processing" /\ job[j].expired

FirstStep(type) == CASE type = "consolidate" -> "read"
                     [] type = "index" -> "load"
                     [] type = "expire" -> "still"
                     [] type = "delete_vector" -> "remove"

\* A message arrives, and claim: a job that is not to be claimed, or whose row
\* cannot be read, loses the message; when the row is read again in vain after the
\* claim, the message goes back.
Claim(w, j) ==
  LET claimed == [job EXCEPT ![j].status = "processing", ![j].expired = FALSE]
  IN /\ worker[w].pc = "idle"
     /\ queue[j] > 0 /\ job[j].type \in Kinds(w)
     /\ \/ /\ NoFault /\ Claimable(j)
           /\ job' = claimed
           /\ queue' = [queue EXCEPT ![j] = @ - 1]
           /\ worker' = [worker EXCEPT ![w] = [Idle EXCEPT !.pc = FirstStep(job[j].type),
                                                          !.job = j]]
        \/ /\ (~Claimable(j) /\ NoFault) \/ Fault("db")
           /\ queue' = [queue EXCEPT ![j] = @ - 1]
           /\ UNCHANGED <<job, worker>>
        \/ /\ Fault("db") /\ Claimable(j)
           /\ job' = claimed
           /\ UNCHANGED <<queue, worker>>
     /\ UNCHANGED <<stored, todo, published, client, history, calls>>

\* What the steps of a handler leave alone.
Around == UNCHANGED <<job, queue, todo, published, client, history, calls>>

\* Consolidate reads the batch, which must be as it was queued, and asks the model.
ReadBatch(w) ==
  LET batch == Mine(w).signals
      open == {l \in batch : log[l].signal = "queued"}
  IN /\ worker[w].pc = "read"
     /\ \/ NoFault /\ open = {} /\ Goto(w, "merge")
        \/ NoFault /\ open # {} /\ open # batch /\ Goto(w, "fail")
        \/ /\ NoFault /\ open = batch /\ batch # {}
           /\ worker' = [worker EXCEPT ![w].pc = "merge", ![w].left = MaxCandidates]
        \/ (Fault("db") \/ Fault("model")) /\ Goto(w, "fail")
     /\ UNCHANGED stored /\ Around

\* Mutant of Fresh: the barrier is not looked at.
FreshAlways(l) == l > 0

\* No tombstone covers the log.
Fresh(l) == l > tombstone

Convs(set) == {log[l].conv : l \in set}

\* Mutant of Enough: the evidence is counted, not its conversations.
EnoughEvidence(set) == Cardinality(set) >= PromoteMin

Enough(set) == Cardinality(Convs(set)) >= PromoteMin

\* MergeCandidate on an existing row: the evidence is added; another value makes
\* it conflicted, the same value promotes a candidate seen in enough conversations.
\* An excerpt the row has already changes nothing.
MergesInto(i, l, v) ==
  LET known == evidence[i] \cup {l}
      promoted == /\ row[i].value = v /\ row[i].status = "candidate"
                  /\ Enough(known)
  IN /\ evidence' = [evidence EXCEPT ![i] = known]
     /\ \/ /\ row[i].value # v
           /\ row' = [row EXCEPT ![i].status = IF @ \in {"active", "candidate"}
                                               THEN "conflicted" ELSE @]
           /\ UNCHANGED job
        \/ /\ promoted /\ CanReindex(i)
           /\ \E promotes \in BOOLEAN :    \* canAutoPromoteMemoryType
                /\ row' = IF promotes
                          THEN [row EXCEPT ![i] = [Reindexed(@) EXCEPT !.status = "active"]]
                          ELSE row
                /\ IF promotes THEN CreateJob("index", i) ELSE UNCHANGED job
        \/ row[i].value = v /\ ~promoted /\ UNCHANGED <<row, job>>

\* MergeCandidate without a row: one is created unless a tombstone covers the log.
MergesNew(i, l, v) ==
  /\ row[i].status = "none" /\ \A k \in Ids : k < i => row[k].status # "none"
  /\ IF Fresh(l)
     THEN /\ row' = [row EXCEPT ![i] = [NoRow EXCEPT !.status = "candidate",
                                                     !.version = 1, !.value = v]]
          /\ evidence' = [evidence EXCEPT ![i] = {l}]
          /\ CreateJob("index", i)
     ELSE UNCHANGED <<row, evidence, job>>

\* One candidate of the model's answer, about one log of the batch.
Merge(w, l, v) ==
  /\ worker[w].pc = "merge"
  /\ worker[w].left > 0
  /\ l \in Mine(w).signals
  /\ IF \E i \in Ids : Exists(i)
     THEN \E i \in Ids : /\ Exists(i)
                         /\ IF row[i].status = "deleting"
                            THEN UNCHANGED <<row, evidence, job>>
                            ELSE MergesInto(i, l, v)
     ELSE \E i \in Ids : MergesNew(i, l, v)
  /\ worker' = [worker EXCEPT ![w].left = @ - 1]
  /\ UNCHANGED <<vector, log, logs, tombstone, queue, todo, published, client,
                 history, calls, faults>>

MergeFails(w) ==
  /\ worker[w].pc = "merge"
  /\ Fault("db")
  /\ Goto(w, "fail")
  /\ UNCHANGED stored /\ Around

\* The end of the answer. CompleteSignals: all that carry the job's id, the
\* cancelled ones too.
CompleteSignals(w) ==
  /\ worker[w].pc = "merge"
  /\ \/ /\ NoFault
        /\ log' = [l \in 1..logs |-> IF log[l].task = worker[w].job
                                     THEN [log[l] EXCEPT !.signal = "completed"] ELSE log[l]]
     \/ Fault("ignored") /\ UNCHANGED log
  /\ Goto(w, "finish")
  /\ UNCHANGED <<row, evidence, vector, logs, tombstone>> /\ Around

Indexable(i) == row[i].status \in {"active", "candidate"}

\* handleIndex reads the row ...
LoadMemory(w) ==
  /\ worker[w].pc = "load"
  /\ \/ NoFault /\ Indexable(Mem(w))
        /\ worker' = [worker EXCEPT ![w].pc = "upsert", ![w].version = row[Mem(w)].version]
     \/ NoFault /\ ~Indexable(Mem(w)) /\ Goto(w, "finish")
     \/ Fault("db") /\ Goto(w, "fail")
  /\ UNCHANGED stored /\ Around

\* ... embeds it and stores the vector. The error of EnsureCollection and Upsert is
\* kept in a variable of the inner scope and lost.
UpsertVector(w) ==
  /\ worker[w].pc = "upsert"
  /\ \/ /\ NoFault /\ Goto(w, "check")
        /\ vector' = [vector EXCEPT ![Mem(w)] = worker[w].version]
     \/ Fault("upsert") /\ Goto(w, "check") /\ UNCHANGED vector
     \/ Fault("embed") /\ Goto(w, "fail") /\ UNCHANGED vector
  /\ UNCHANGED <<row, evidence, log, logs, tombstone>> /\ Around

\* Mutant of IndexCurrent: the version is compared, the status is not.
IndexCurrentVersion(w) == row[Mem(w)].version = worker[w].version

\* Mutant of IndexCurrent: the status is compared, the version is not.
IndexCurrentStatus(w) == Indexable(Mem(w))

IndexCurrent(w) == Indexable(Mem(w)) /\ row[Mem(w)].version = worker[w].version

\* IsMemoryIndexCurrent; a failing SELECT says no.
CheckIndex(w) ==
  /\ worker[w].pc = "check"
  /\ \/ NoFault /\ Goto(w, IF IndexCurrent(w) THEN "mark" ELSE "clean")
     \/ Fault("ignored") /\ Goto(w, "clean")
  /\ UNCHANGED stored /\ Around

\* The vector of an outdated row is taken back.
CleanIndex(w) ==
  /\ worker[w].pc = "clean"
  /\ \/ NoFault /\ vector' = [vector EXCEPT ![Mem(w)] = 0]
     \/ Fault("vector") /\ UNCHANGED vector
  /\ Goto(w, "finish")
  /\ UNCHANGED <<row, evidence, log, logs, tombstone>> /\ Around

\* MarkIndexed asks once more.
MarkIndexed(w) ==
  /\ worker[w].pc = "mark"
  /\ \/ NoFault /\ row' = IF IndexCurrent(w) THEN [row EXCEPT ![Mem(w)].ready = TRUE] ELSE row
     \/ Fault("ignored") /\ UNCHANGED row
  /\ Goto(w, "finish")
  /\ UNCHANGED <<evidence, vector, log, logs, tombstone>> /\ Around

\* handleDelete: an expire job asks IsMemoryExpired, where a failing SELECT says no.
StillExpired(w) ==
  /\ worker[w].pc = "still"
  /\ \/ NoFault /\ Goto(w, IF row[Mem(w)].status = "expired" THEN "remove" ELSE "finish")
     \/ Fault("ignored") /\ Goto(w, "finish")
  /\ UNCHANGED stored /\ Around

RemoveVector(w) ==
  /\ worker[w].pc = "remove"
  /\ \/ /\ NoFault
        /\ vector' = [vector EXCEPT ![Mem(w)] = 0]
        /\ Goto(w, IF Mine(w).type = "expire" THEN "finish" ELSE "erase")
     \/ Fault("vector") /\ Goto(w, "fail") /\ UNCHANGED vector
  /\ UNCHANGED <<row, evidence, log, logs, tombstone>> /\ Around

\* CompleteDelete: the evidence goes in any case, the row if it is still deleting.
CompleteDelete(w) ==
  LET i == Mem(w)
  IN /\ worker[w].pc = "erase"
     /\ \/ /\ NoFault
           /\ evidence' = [evidence EXCEPT ![i] = {}]
           /\ row' = IF row[i].status = "deleting"
                     THEN [row EXCEPT ![i] = [NoRow EXCEPT !.status = "gone"]] ELSE row
           /\ Goto(w, "finish")
        \/ Fault("db") /\ Goto(w, "fail") /\ UNCHANGED <<row, evidence>>
     /\ UNCHANGED <<vector, log, logs, tombstone>> /\ Around

\* CompleteJob, whatever the job has become, and the acknowledgement.
Finish(w) ==
  /\ worker[w].pc = "finish"
  /\ \/ NoFault /\ job' = [job EXCEPT ![worker[w].job].status = "completed"]
     \/ Fault("db") /\ UNCHANGED job
  /\ Rests(w)
  /\ UNCHANGED <<stored, queue, todo, published, client, history, calls>>

\* FailJob, then publishRetry: the message is sent again or ends in the dead letter
\* queue, the job stays failed until the scheduler takes it up.
Fail(w) ==
  LET j == worker[w].job
  IN /\ worker[w].pc = "fail"
     /\ \/ NoFault /\ job' = [job EXCEPT ![j].status = "failed", ![j].expired = FALSE]
        \/ Fault("db") /\ UNCHANGED job
     /\ queue' \in {queue, Put(queue, j)}
     /\ Rests(w)
     /\ UNCHANGED <<stored, todo, published, client, history, calls>>

Crash(w) ==
  /\ worker[w].pc # "idle"
  /\ Fault("crash")
  /\ queue' = Put(queue, worker[w].job)
  /\ Rests(w)
  /\ UNCHANGED <<stored, job, todo, published, client, history, calls>>

-----------------------------------------------------------------------------

Consolidates(w) == \/ ReadBatch(w) \/ MergeFails(w) \/ CompleteSignals(w)
                   \/ \E l \in 1..logs, v \in Values : Merge(w, l, v)

Indexes(w) == \/ LoadMemory(w) \/ UpsertVector(w) \/ CheckIndex(w) \/ CleanIndex(w)
              \/ MarkIndexed(w)

Deletes(w) == StillExpired(w) \/ RemoveVector(w) \/ CompleteDelete(w)

Handles(w) == Consolidates(w) \/ Indexes(w) \/ Deletes(w) \/ Finish(w) \/ Fail(w)

Calls(c) ==
  \/ \E conv \in Conversations : \/ Turn(c, conv) \/ Forget(c, conv)
                                 \/ \E v \in Values : Remember(c, conv, v)
  \/ \E i \in Ids : Confirm(c, i) \/ UpdateReads(c, i) \/ DeleteReads(c, "delete", i)
  \/ DeleteReads(c, "scope", 0) \/ Recall(c)

CallRuns(c) == \/ MarkDeleting(c) \/ MarkDeletingByScope(c)
               \/ \E v \in Values : UpdateWrites(c, v)
               \/ RecallLooksUp(c) \/ RecallEnds(c)

Schedules == \/ \E conv \in Conversations : ScheduleBatch(conv)
             \/ \E i \in Ids : ExpireDue(i)
             \/ Scan \/ MarkPublished \/ \E j \in Jobs : PublishJob(j)

Next ==
  \/ \E c \in Clients : Calls(c) \/ CallRuns(c) \/ CallDies(c)
  \/ Schedules \/ RoundDies
  \/ \E w \in Workers : Handles(w) \/ Crash(w) \/ \E j \in Jobs : Claim(w, j)
  \/ \E j \in Jobs : LeaseExpires(j)
  \/ \E i \in Ids : Elapses(i)

Spec == Init /\ [][Next]_vars

(***************************************************************************)
(* Fairness. Handlers and calls run to their end, the queue delivers to an  *)
(* idle consumer, the scheduler's ticker goes on (each of its steps is      *)
(* reached in every round), and a lease that nobody uses runs out. Nobody   *)
(* has to call anything.                                                    *)
(***************************************************************************)
Fairness ==
  /\ \A w \in Workers : /\ WF_vars(Handles(w))
                        /\ WF_vars(\E j \in Jobs : Claim(w, j))
  /\ \A c \in Clients : WF_vars(CallRuns(c))
  /\ \A conv \in Conversations : WF_vars(ScheduleBatch(conv))
  /\ WF_vars(Scan)
  /\ WF_vars(MarkPublished \/ \E j \in Jobs : PublishJob(j))
  /\ \A j \in Jobs : WF_vars(LeaseExpires(j))

FairSpec == Spec /\ Fairness

-----------------------------------------------------------------------------
(* Properties *)

\* The types of the variables.
TypeOK ==
  /\ row \in [Ids -> Row]
  /\ evidence \in [Ids -> SUBSET LogIds]
  /\ vector \in [Ids -> 0..MaxVersion]
  /\ logs \in 0..MaxLogs /\ log \in [1..logs -> Log]
  /\ tombstone \in 0..MaxLogs
  /\ job \in [Jobs -> Job]
  /\ queue \in [Jobs -> 0..MaxCopies]
  /\ worker \in [Workers -> WorkerState]
  /\ todo \subseteq Jobs /\ published \in 0..MaxJobs
  /\ client \in [Clients -> ClientState]
  /\ explicit \subseteq Ids /\ revived \subseteq Ids
  /\ calls \in Nat /\ faults \in Nat

\* A memory that nobody stated or confirmed is used only after at least PromoteMin
\* conversations gave evidence for it: retries, redelivered jobs and several
\* excerpts of one log count once.
PromotedByConversations ==
  \A i \in Ids : row[i].status = "active" /\ i \notin explicit \cup revived =>
                   Cardinality(Convs(evidence[i])) >= PromoteMin

\* A memory has evidence that was said after the last time it was forgotten: neither
\* a batch queued before nor one that runs while the deletion runs restores it
\* ("the barrier keeps old tasks from restoring a memory",
\* docs/long-term-memory-implementation.md:403). Beside a new log an older one may
\* count again: the barrier is asked for a memory, not for each log.
RestsOnNewEvidence ==
  \A i \in Ids : row[i].status \in Live /\ i \notin revived =>
                   \E l \in evidence[i] : l > tombstone

\* The vector is gone, or an index consumer is about to find that it must go.
Cleared(i) == \/ vector[i] = 0
              \/ \E w \in Indexers : worker[w].pc \in {"check", "clean"} /\ Mem(w) = i

\* Nothing is left of a memory whose row is gone, in the database or in the vector
\* store, but the vector that an index consumer has stored and is about to take back.
\* One that came back while it was being deleted and was deleted again may be gone
\* before its second deletion has run. (A row that has expired keeps its evidence.)
ForgottenLeavesNothing ==
  \A i \in Ids : row[i].status = "gone" =>
    evidence[i] = {} /\ (Cleared(i) \/ i \in revived)

\* The row is gone, or the consumer that removes it has removed its vector.
Emptied(i) == \/ row[i].status = "gone"
              \/ \E w \in Workers : worker[w].pc = "erase" /\ Mem(w) = i

Orphaned(i) == Emptied(i) /\ i \notin revived /\ ~Cleared(i)

\* The consumer that should take the vector back dies, or the store refuses.
Abandoned(i) == \E w \in Indexers : /\ Mem(w) = i
                                    /\ Crash(w) \/ (CleanIndex(w) /\ vector'[i] # 0)

\* However an index job and a deletion run beside each other, the vector of a removed
\* memory stays behind only where the index consumer that stored it dies before it has
\* looked at the row again, or is refused when it takes the vector back (the error of
\* vectors.Delete is dropped, memory_consumers.go:138).
OnlyFailuresOrphan ==
  [][\A i \in Ids : Orphaned(i)' => Orphaned(i) \/ Abandoned(i)]_vars

\* A row marked ready has the vector of its current version (MarkIndexed "commits
\* the vector index status of the given version",
\* src/internal/repository/long_term_memory_repository.go:457).
ReadyMeansVector ==
  \A i \in Ids : row[i].ready /\ Indexable(i) /\ i \notin revived =>
                   vector[i] = row[i].version

\* A question asked after a memory expired or was forgotten does not get it, though
\* the vector store may still find it.
ForgottenNotRecalled ==
  \A c \in Clients : client[c].pc = "answer" => client[c].hits \cap client[c].barred \subseteq revived

\* A deletion that has begun is not undone ("the status becomes deleting, recall is
\* forbidden from this request on", docs/long-term-memory-implementation.md:674),
\* unless the user asks for the memory to be remembered again.
ForgottenIsFinal ==
  [][\A i \in Ids : row[i].status = "deleting" /\ row'[i].status \in Live => logs' > logs]_vars

\* A deletion that has begun ends, whatever fails on the way.
ForgetEnds == \A i \in Ids : row[i].status = "deleting" ~> row[i].status # "deleting"

\* A change of a memory reaches the vector store: it does not stay outdated.
IndexEnds == \A i \in Ids : (Indexable(i) /\ ~row[i].ready) ~> (row[i].ready \/ ~Indexable(i))

Open(l) == l <= logs /\ log[l].signal \in {"pending", "queued"}

InBrokenBatch(l) ==
  l <= logs /\ \E m \in 1..logs : log[m].task = log[l].task /\ log[m].signal = "cancelled"

\* A signal is worked off or cancelled, unless one of its batch has been cancelled.
SignalsWorkedOff == \A l \in LogIds : Open(l) ~> (~Open(l) \/ InBrokenBatch(l))
=============================================================================
