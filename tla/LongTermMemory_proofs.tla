------------------------- MODULE LongTermMemory_proofs -------------------------
(***************************************************************************)
(* Theorems about LongTermMemory, for any number of consumers, requests,    *)
(* rows, logs and jobs, and whatever fails.                                 *)
(***************************************************************************)
EXTENDS LongTermMemory, FiniteSetTheorems, TLAPS

-----------------------------------------------------------------------------
(* Types, and what a consumer knows of its job *)

RowTypes ==
  /\ row \in [Ids -> Row]
  /\ evidence \in [Ids -> SUBSET LogIds]
  /\ vector \in [Ids -> 0..MaxVersion]

LogTypes ==
  /\ logs \in 0..MaxLogs
  /\ log \in [1..logs -> Log]
  /\ tombstone \in 0..MaxLogs

\* All jobs but those of batches are about a row; only jobs are published.
JobSound ==
  /\ job \in [Jobs -> Job]
  /\ queue \in [Jobs -> 0..MaxCopies]
  /\ todo \subseteq Jobs /\ published \in 0..MaxJobs
  /\ \A j \in Jobs : job[j].status # "unused" /\ job[j].type # "consolidate"
                       => job[j].mem \in Ids
  /\ \A j \in todo : job[j].status # "unused"

MayHandle(pc, type) ==
  /\ pc \in {"read", "merge"} => type = "consolidate"
  /\ pc \in {"load", "upsert", "check", "clean", "mark"} => type = "index"
  /\ pc \in {"still", "remove"} => type \in {"delete_vector", "expire"}
  /\ pc = "erase" => type = "delete_vector"

\* The slot of a job that somebody works on is not used again.
WorkerSound(w) ==
  worker[w].pc # "idle" =>
    /\ worker[w].job \in Jobs
    /\ Mine(w).status # "unused"
    /\ MayHandle(worker[w].pc, Mine(w).type)

WorkSound == /\ worker \in [Workers -> WorkerState]
             /\ \A w \in Workers : WorkerSound(w)

ClientSound ==
  /\ client \in [Clients -> ClientState]
  /\ \A c \in Clients : client[c].pc = "write" => client[c].id \in Ids
  /\ \A c \in Clients : client[c].pc = "mark" /\ client[c].op = "delete" => client[c].id \in Ids

RestTypes ==
  /\ explicit \subseteq Ids /\ revived \subseteq Ids
  /\ calls \in Nat /\ faults \in Nat

BaseInv == RowTypes /\ LogTypes /\ JobSound /\ WorkSound /\ ClientSound /\ RestTypes

LEMMA BaseInit == Init => BaseInv
<1> SUFFICES ASSUME Init PROVE BaseInv
  OBVIOUS
<1> USE BoundsAssumption DEF Init
<1>1. RowTypes
  <2>1. NoRow \in Row
    BY DEF NoRow, Row
  <2> QED
    BY <2>1 DEF RowTypes
<1>2. LogTypes
  BY DEF LogTypes
<1>3. JobSound
  <2>1. NoJob \in Job /\ NoJob.status = "unused"
    BY DEF NoJob, Job
  <2> QED
    BY <2>1 DEF JobSound
<1>4. WorkSound
  <2>1. Idle \in WorkerState /\ Idle.pc = "idle"
    BY DEF Idle, WorkerState
  <2> QED
    BY <2>1 DEF WorkSound, WorkerSound
<1>5. ClientSound
  <2>1. Resting \in ClientState /\ Resting.pc = "idle"
    BY DEF Resting, ClientState, AllOps, Row, NoRow
  <2> QED
    BY <2>1 DEF ClientSound
<1>6. RestTypes
  BY DEF RestTypes
<1> QED
  BY <1>1, <1>2, <1>3, <1>4, <1>5, <1>6 DEF BaseInv

-----------------------------------------------------------------------------
(* Job slots *)

LEMMA SlotIsSpent == HasSlot => Slot \in Jobs /\ Spent(Slot)
  BY DEF HasSlot, Slot

\* The jobs are what they were, but for their statuses and leases.
SameJobs(jobs) ==
  /\ jobs \in [Jobs -> Job]
  /\ \A j \in Jobs : /\ jobs[j].type = job[j].type
                     /\ jobs[j].mem = job[j].mem
                     /\ jobs[j].signals = job[j].signals
                     /\ job[j].status # "unused" => jobs[j].status # "unused"
                     /\ job[j].status = "unused" => jobs[j].status = "unused"

LEMMA SameJobsKeep ==
  ASSUME JobSound, WorkSound, SameJobs(job'),
         queue' \in [Jobs -> 0..MaxCopies],
         todo' \subseteq todo, published' \in 0..MaxJobs
  PROVE  JobSound' /\ (UNCHANGED worker => WorkSound')
<1>1. JobSound'
  BY DEF JobSound, SameJobs
<1>2. ASSUME UNCHANGED worker PROVE WorkSound'
  BY <1>2 DEF WorkSound, WorkerSound, Mine, SameJobs
<1> QED
  BY <1>1, <1>2

LEMMA UnchangedIsSame == JobSound => SameJobs(job)
  BY DEF JobSound, SameJobs

JobType == {"consolidate", "index", "delete_vector", "expire"}

\* Every consumer stays with its job.
SameWork == /\ worker' \in [Workers -> WorkerState]
            /\ \A w \in Workers : worker'[w].pc = worker[w].pc /\ worker'[w].job = worker[w].job

LEMMA NewJobGoes ==
  ASSUME JobSound, WorkSound, HasSlot,
         NEW jobs, SameJobs(jobs),
         NEW type \in JobType, NEW id \in 0..MaxRows, NEW signals \in SUBSET LogIds,
         type # "consolidate" => id \in Ids,
         job' = WithJob(jobs, type, id, signals),
         UNCHANGED <<queue, todo, published>>, SameWork
  PROVE  JobSound' /\ WorkSound'
<1>1. Slot \in Jobs /\ Slot \notin todo /\ \A w \in Workers : worker[w].job # Slot
  BY SlotIsSpent DEF Spent, Unseen
<1>2. [NoJob EXCEPT !.type = type, !.mem = id, !.signals = signals, !.status = "queued"] \in Job
  BY BoundsAssumption DEF NoJob, Job, JobType
<1>3. /\ job' \in [Jobs -> Job]
      /\ \A j \in Jobs : j # Slot => job'[j] = jobs[j]
      /\ job'[Slot].type = type /\ job'[Slot].mem = id
  BY <1>1, <1>2 DEF WithJob, SameJobs, NoJob
<1>4. JobSound'
  BY <1>1, <1>3 DEF JobSound, SameJobs
<1>5. WorkSound'
  BY <1>1, <1>3 DEF WorkSound, WorkerSound, Mine, SameJobs, SameWork
<1> QED
  BY <1>4, <1>5

LEMMA NewJobKeeps ==
  ASSUME JobSound, WorkSound, HasSlot,
         NEW jobs, SameJobs(jobs),
         NEW type \in JobType, NEW id \in 0..MaxRows, NEW signals \in SUBSET LogIds,
         type # "consolidate" => id \in Ids,
         job' = WithJob(jobs, type, id, signals),
         UNCHANGED <<queue, worker, todo, published>>
  PROVE  JobSound' /\ WorkSound'
<1>1. SameWork
  BY DEF SameWork, WorkSound
<1> QED
  BY <1>1, NewJobGoes

LEMMA CreatesKeeps ==
  ASSUME JobSound, WorkSound,
         NEW type \in {"index", "delete_vector", "expire"}, NEW id \in Ids,
         CreateJob(type, id), UNCHANGED <<queue, worker, todo, published>>
  PROVE  JobSound' /\ WorkSound'
<1>1. id \in 0..MaxRows /\ {} \in SUBSET LogIds
  BY BoundsAssumption DEF Ids
<1> QED
  BY <1>1, NewJobKeeps, UnchangedIsSame DEF CreateJob, JobType

-----------------------------------------------------------------------------
(* The user's calls *)

LEMMA RestKeeps ==
  ASSUME RestTypes, UNCHANGED <<explicit, revived>>,
         UNCHANGED calls \/ (\E c \in Clients, op \in AllOps : Begins(c, op)),
         UNCHANGED faults \/ (\E kind \in AllFaults : Fault(kind))
  PROVE  RestTypes'
  BY DEF RestTypes, Begins, Fault

LEMMA LogKeeps ==
  ASSUME LogTypes, NEW conv \in Conversations, NEW signal \in {"none", "pending"},
         SavesLog(conv, signal)
  PROVE  /\ logs' \in LogIds /\ logs' = logs + 1 /\ logs \in Nat
         /\ log' \in [1..logs' -> Log]
<1>1. /\ logs' \in LogIds /\ logs' = logs + 1 /\ logs \in Nat
  BY BoundsAssumption DEF LogTypes, SavesLog, LogIds
<1>2. [conv |-> conv, task |-> 0, signal |-> signal] \in Log
  BY BoundsAssumption DEF Log
<1>3. \A l \in 1..logs' : l # logs' => l \in 1..logs
  BY <1>1
<1> QED
  BY <1>1, <1>2, <1>3 DEF SavesLog, LogTypes

LEMMA TurnBase ==
  ASSUME BaseInv, NEW c \in Clients, NEW conv \in Conversations, Turn(c, conv)
  PROVE  BaseInv'
<1> USE DEF BaseInv, Turn
<1>1. RowTypes'
  BY DEF RowTypes
<1>2. LogTypes'
  BY LogKeeps, BoundsAssumption DEF LogTypes, LogIds
<1>3. JobSound' /\ WorkSound'
  BY DEF JobSound, WorkSound, WorkerSound, Mine
<1>4. ClientSound'
  BY DEF ClientSound
<1>5. RestTypes'
  BY RestKeeps DEF RestTypes, Begins, history
<1> QED
  BY <1>1, <1>2, <1>3, <1>4, <1>5

\* Rows stay rows.
LEMMA NewRowsAreSound ==
  /\ \A v \in Values, s \in {"active", "candidate"} :
       [NoRow EXCEPT !.status = s, !.version = 1, !.value = v] \in Row
  /\ [NoRow EXCEPT !.status = "gone"] \in Row
<1>1. NoRow \in Row
  BY BoundsAssumption DEF Row, NoRow
<1>2. 1 \in 0..MaxVersion
  BY BoundsAssumption
<1>3. ASSUME NEW v \in Values, NEW s \in {"active", "candidate"}
      PROVE  [NoRow EXCEPT !.status = s, !.version = 1, !.value = v] \in Row
  BY <1>1, <1>2 DEF Row, Live
<1>4. [NoRow EXCEPT !.status = "gone"] \in Row
  BY <1>1 DEF Row
<1> QED
  BY <1>3, <1>4

LEMMA RowsAreSound ==
  ASSUME NEW r \in Row
  PROVE  /\ r.version < MaxVersion => Reindexed(r) \in Row
         /\ \A s \in {"active", "expired", "deleting", "conflicted"} :
              [r EXCEPT !.status = s] \in Row
         /\ \A b \in BOOLEAN : [r EXCEPT !.due = b] \in Row /\ [r EXCEPT !.ready = b] \in Row
         /\ \A v \in Values : [r EXCEPT !.value = v] \in Row
<1>1. \A s \in {"active", "expired", "deleting", "conflicted"} : [r EXCEPT !.status = s] \in Row
  BY DEF Row, Live
<1>2. \A b \in BOOLEAN : [r EXCEPT !.due = b] \in Row /\ [r EXCEPT !.ready = b] \in Row
  BY DEF Row
<1>3. \A v \in Values : [r EXCEPT !.value = v] \in Row
  BY DEF Row
<1>4. ASSUME r.version < MaxVersion PROVE Reindexed(r) \in Row
  <2>1. r.version \in 0..MaxVersion
    BY DEF Row
  <2>2. r.version + 1 \in 0..MaxVersion
    BY <1>4, <2>1, BoundsAssumption
  <2> QED
    BY <2>2 DEF Reindexed, Row
<1> QED
  BY <1>1, <1>2, <1>3, <1>4

LEMMA RememberBase ==
  ASSUME BaseInv, NEW c \in Clients, NEW conv \in Conversations, NEW v \in Values,
         Remember(c, conv, v)
  PROVE  BaseInv'
<1> USE DEF BaseInv
<1>1. SavesLog(conv, "none") /\ UNCHANGED <<vector, tombstone, queue, worker, todo, published,
                                           client, faults>>
  BY DEF Remember
<1>2. logs' \in LogIds /\ LogTypes'
  BY <1>1, LogKeeps, BoundsAssumption DEF LogTypes, LogIds
<1>3. PICK i \in Ids :
        /\ \/ row' = [row EXCEPT ![i] = [NoRow EXCEPT !.status = "active",
                                                     !.version = 1, !.value = v]]
           \/ /\ CanReindex(i)
              /\ row' = [row EXCEPT ![i] = [Reindexed(@) EXCEPT !.status = "active",
                                                               !.value = v, !.due = FALSE]]
        /\ evidence' = [evidence EXCEPT ![i] = @ \cup {logs'}]
        /\ CreateJob("index", i)
        /\ explicit' = explicit \cup {i}
  BY DEF Remember
<1>4. row' \in [Ids -> Row]
  <2>1. CASE row' = [row EXCEPT ![i] = [NoRow EXCEPT !.status = "active",
                                                    !.version = 1, !.value = v]]
    BY <2>1, NewRowsAreSound DEF RowTypes
  <2>2. CASE /\ CanReindex(i)
             /\ row' = [row EXCEPT ![i] = [Reindexed(@) EXCEPT !.status = "active",
                                                              !.value = v, !.due = FALSE]]
    <3>1. Reindexed(row[i]) \in Row
      BY <2>2, RowsAreSound DEF RowTypes, CanReindex
    <3>2. [Reindexed(row[i]) EXCEPT !.status = "active", !.value = v, !.due = FALSE] \in Row
      BY <3>1 DEF Row, Live
    <3> QED
      BY <2>2, <3>2 DEF RowTypes
  <2> QED
    BY <1>3, <2>1, <2>2
<1>5. RowTypes'
  BY <1>1, <1>2, <1>3, <1>4 DEF RowTypes
<1>6. JobSound' /\ WorkSound'
  BY <1>1, <1>3, CreatesKeeps
<1>7. ClientSound'
  BY <1>1 DEF ClientSound
<1>8. RestTypes'
  BY <1>1, <1>3 DEF Remember, RestTypes, Begins, NoteRevived
<1> QED
  BY <1>2, <1>5, <1>6, <1>7, <1>8

LEMMA ForgetBase ==
  ASSUME BaseInv, NEW c \in Clients, NEW conv \in Conversations, Forget(c, conv)
  PROVE  BaseInv'
<1> USE DEF BaseInv
<1>1. /\ SavesLog(conv, "none")
      /\ UNCHANGED <<evidence, vector, queue, worker, todo, published, client, history, faults>>
  BY DEF Forget
<1>2. logs' \in LogIds /\ logs' = logs + 1 /\ log' \in [1..logs' -> Log]
  BY <1>1, LogKeeps
<1>3. /\ RowTypes' /\ LogTypes' /\ JobSound' /\ WorkSound'
  <2>1. CASE UNCHANGED <<row, tombstone, job>>
    <3>1. RowTypes'
      BY <1>1, <2>1 DEF RowTypes
    <3>2. LogTypes'
      BY <1>2, <2>1, BoundsAssumption DEF LogTypes, LogIds
    <3>3. JobSound' /\ WorkSound'
      BY <1>1, <2>1 DEF JobSound, WorkSound, WorkerSound, Mine
    <3> QED
      BY <3>1, <3>2, <3>3
  <2>2. CASE \E i \in Ids : /\ row' = [row EXCEPT ![i].status = "deleting"]
                            /\ tombstone' = Larger(tombstone, logs')
                            /\ CreateJob("delete_vector", i)
    <3>1. PICK i \in Ids : /\ row' = [row EXCEPT ![i].status = "deleting"]
                           /\ tombstone' = Larger(tombstone, logs')
                           /\ CreateJob("delete_vector", i)
      BY <2>2
    <3>2. RowTypes'
      BY <1>1, <3>1, RowsAreSound DEF RowTypes
    <3>3. LogTypes'
      BY <1>2, <3>1, BoundsAssumption DEF LogTypes, LogIds, Larger
    <3>4. JobSound' /\ WorkSound'
      BY <1>1, <3>1, CreatesKeeps
    <3> QED
      BY <3>2, <3>3, <3>4
  <2> QED
    BY <2>1, <2>2 DEF Forget
<1>4. ClientSound'
  BY <1>1 DEF ClientSound
<1>5. RestTypes'
  BY <1>1 DEF Forget, RestTypes, Begins, history
<1> QED
  BY <1>3, <1>4, <1>5

LEMMA ConfirmBase ==
  ASSUME BaseInv, NEW c \in Clients, NEW i \in Ids, Confirm(c, i) PROVE BaseInv'
<1> USE DEF BaseInv, Confirm
<1>1. RowTypes'
  <2>1. Reindexed(row[i]) \in Row
    BY RowsAreSound DEF RowTypes, CanReindex
  <2>2. [Reindexed(row[i]) EXCEPT !.status = "active", !.due = FALSE] \in Row
    BY <2>1 DEF Row, Live
  <2> QED
    BY <2>2 DEF RowTypes
<1>2. JobSound' /\ WorkSound'
  BY CreatesKeeps
<1>3. LogTypes' /\ ClientSound'
  BY DEF LogTypes, ClientSound
<1>4. RestTypes'
  BY DEF RestTypes, Begins
<1> QED
  BY <1>1, <1>2, <1>3, <1>4

\* A request goes on and nothing else happens but in the jobs and rows.
ClientGoes(s) == /\ s.pc = "write" => s.id \in Ids
                 /\ s.pc = "mark" /\ s.op = "delete" => s.id \in Ids

LEMMA GoesKeeps ==
  ASSUME ClientSound, NEW c \in Clients, NEW s \in ClientState, ClientGoes(s), Goes(c, s)
  PROVE  ClientSound'
  BY DEF ClientSound, ClientGoes, Goes

LEMMA RestingGoes == Resting \in ClientState /\ ClientGoes(Resting)
  BY BoundsAssumption DEF Resting, ClientState, AllOps, Row, NoRow, ClientGoes

LEMMA QuietBase ==
  ASSUME BaseInv, UNCHANGED <<stored, job, queue, worker, todo, published, history>>
  PROVE  RowTypes' /\ LogTypes' /\ JobSound' /\ WorkSound'
  BY DEF BaseInv, stored, RowTypes, LogTypes, JobSound, WorkSound, WorkerSound, Mine

LEMMA UpdateReadsBase ==
  ASSUME BaseInv, NEW c \in Clients, NEW i \in Ids, UpdateReads(c, i) PROVE BaseInv'
<1>1. RowTypes' /\ LogTypes' /\ JobSound' /\ WorkSound'
  BY QuietBase DEF UpdateReads
<1>2. ClientSound'
  <2> DEFINE s == [Resting EXCEPT !.pc = "write", !.op = "update", !.id = i, !.copy = row[i]]
  <2>1. row[i] \in Row /\ i \in 0..MaxRows
    BY BoundsAssumption DEF BaseInv, RowTypes, Ids
  <2>2. s \in ClientState
    BY <2>1, RestingGoes DEF ClientState, AllOps, Resting
  <2>3. ClientGoes(s)
    BY DEF ClientGoes, Resting
  <2> QED
    BY <2>2, <2>3, GoesKeeps DEF UpdateReads, BaseInv
<1>3. RestTypes'
  BY DEF BaseInv, UpdateReads, RestTypes, Begins, history
<1> QED
  BY <1>1, <1>2, <1>3 DEF BaseInv

LEMMA UpdateWritesBase ==
  ASSUME BaseInv, NEW c \in Clients, NEW v \in Values, UpdateWrites(c, v) PROVE BaseInv'
<1> DEFINE i == client[c].id
<1>1. i \in Ids /\ client[c].copy \in Row
  BY DEF BaseInv, ClientSound, ClientState, UpdateWrites
<1>2. RowTypes' /\ JobSound' /\ WorkSound'
  <2>1. CASE UNCHANGED <<row, job>>
    BY <2>1 DEF UpdateWrites, BaseInv, RowTypes, JobSound, WorkSound, WorkerSound, Mine
  <2>2. CASE /\ CanReindex(i)
             /\ \E due \in BOOLEAN :
                  row' = [row EXCEPT ![i] = [client[c].copy EXCEPT
                                               !.version = row[i].version + 1,
                                               !.ready = FALSE, !.value = v, !.due = due]]
             /\ CreateJob("index", i)
    <3>1. row[i].version + 1 \in 0..MaxVersion
      <4>1. row[i].version \in 0..MaxVersion /\ row[i].version < MaxVersion
        BY <1>1, <2>2 DEF BaseInv, RowTypes, Row, CanReindex
      <4> QED
        BY <4>1, BoundsAssumption
    <3>2. \A due \in BOOLEAN :
            [client[c].copy EXCEPT !.version = row[i].version + 1, !.ready = FALSE,
                                   !.value = v, !.due = due] \in Row
      BY <1>1, <3>1 DEF Row
    <3>3. RowTypes'
      BY <1>1, <2>2, <3>2 DEF UpdateWrites, BaseInv, RowTypes
    <3>4. JobSound' /\ WorkSound'
      BY <1>1, <2>2, CreatesKeeps DEF UpdateWrites, BaseInv
    <3> QED
      BY <3>3, <3>4
  <2> QED
    BY <2>1, <2>2 DEF UpdateWrites
<1>3. LogTypes'
  BY DEF UpdateWrites, BaseInv, LogTypes
<1>4. ClientSound'
  BY RestingGoes, GoesKeeps DEF UpdateWrites, BaseInv
<1>5. RestTypes'
  BY DEF UpdateWrites, BaseInv, RestTypes, NoteRevived
<1> QED
  BY <1>2, <1>3, <1>4, <1>5 DEF BaseInv

LEMMA DeleteReadsBase ==
  ASSUME BaseInv, NEW c \in Clients, NEW op \in {"delete", "scope"}, NEW i \in Ids \cup {0},
         op = "delete" => i \in Ids, DeleteReads(c, op, i)
  PROVE  BaseInv'
<1>1. RowTypes' /\ LogTypes' /\ JobSound' /\ WorkSound'
  BY QuietBase DEF DeleteReads
<1>2. ClientSound'
  <2>1. PICK max \in {logs, 0} :
          Goes(c, [Resting EXCEPT !.pc = "mark", !.op = op, !.id = i, !.max = max])
    BY DEF DeleteReads
  <2> DEFINE s == [Resting EXCEPT !.pc = "mark", !.op = op, !.id = i, !.max = max]
  <2>2. max \in 0..MaxLogs /\ i \in 0..MaxRows
    BY BoundsAssumption DEF BaseInv, LogTypes, Ids
  <2>3. s \in ClientState
    BY <2>2, RestingGoes DEF ClientState, AllOps, Resting
  <2>4. ClientGoes(s)
    BY DEF ClientGoes, Resting
  <2> QED
    BY <2>1, <2>3, <2>4, GoesKeeps DEF BaseInv
<1>3. RestTypes'
  BY DEF BaseInv, DeleteReads, RestTypes, Begins, history, Fault, NoFault
<1> QED
  BY <1>1, <1>2, <1>3 DEF BaseInv

LEMMA CancelledIsSame == ASSUME JobSound, NEW i PROVE SameJobs(Cancelled(job, i))
<1>1. \A j \in Jobs : [job[j] EXCEPT !.status = "cancelled"] \in Job
  BY DEF JobSound, Job
<1>2. Cancelled(job, i) \in [Jobs -> Job]
  BY <1>1 DEF JobSound, Cancelled
<1>3. ASSUME NEW j \in Jobs
      PROVE  \/ Cancelled(job, i)[j] = job[j]
             \/ /\ Cancelled(job, i)[j] = [job[j] EXCEPT !.status = "cancelled"]
                /\ job[j].status # "unused"
  BY DEF Cancelled
<1>4. job \in [Jobs -> Job]
  BY DEF JobSound
<1> QED
  BY <1>2, <1>3, <1>4 DEF SameJobs, Job

LEMMA SignalsCancelledKeep ==
  ASSUME LogTypes, NEW set, SignalsCancelled(set) PROVE log' \in [1..logs -> Log]
<1>1. \A l \in 1..logs : [log[l] EXCEPT !.signal = "cancelled"] \in Log
  BY DEF LogTypes, Log
<1> QED
  BY <1>1 DEF LogTypes, SignalsCancelled

LEMMA BarrierKeeps ==
  ASSUME BaseInv, NEW c \in Clients, NEW i \in Ids, Barrier(c, i),
         UNCHANGED <<evidence, vector, queue, worker, todo, published>>
  PROVE  RowTypes' /\ tombstone' \in 0..MaxLogs /\ JobSound' /\ WorkSound'
<1>1. RowTypes'
  BY RowsAreSound DEF BaseInv, Barrier, RowTypes
<1>2. tombstone' \in 0..MaxLogs
  BY DEF BaseInv, Barrier, LogTypes, Larger, ClientSound, ClientState
<1>3. JobSound' /\ WorkSound'
  <2>1. i \in 0..MaxRows
    BY BoundsAssumption DEF Ids
  <2> QED
    BY <2>1, CancelledIsSame, NewJobKeeps DEF BaseInv, Barrier, JobType
<1> QED
  BY <1>1, <1>2, <1>3

LEMMA MarkDeletingBase ==
  ASSUME BaseInv, NEW c \in Clients, MarkDeleting(c) \/ MarkDeletingByScope(c) PROVE BaseInv'
<1>1. UNCHANGED <<evidence, vector, logs, queue, worker, todo, published, history, calls, faults>>
      /\ Goes(c, Resting)
  BY DEF MarkDeleting, MarkDeletingByScope
<1>2. log' \in [1..logs -> Log]
  BY SignalsCancelledKeep DEF MarkDeleting, MarkDeletingByScope, BaseInv, LogTypes
<1>3. \/ UNCHANGED <<row, tombstone, job>>
      \/ \E i \in Ids : Barrier(c, i)
  BY DEF MarkDeleting, MarkDeletingByScope, BaseInv, ClientSound
<1>4. RowTypes' /\ tombstone' \in 0..MaxLogs /\ JobSound' /\ WorkSound'
  <2>1. CASE UNCHANGED <<row, tombstone, job>>
    BY <1>1, <2>1 DEF BaseInv, RowTypes, LogTypes, JobSound, WorkSound, WorkerSound, Mine
  <2>2. CASE \E i \in Ids : Barrier(c, i)
    BY <1>1, <2>2, BarrierKeeps
  <2> QED
    BY <1>3, <2>1, <2>2
<1>5. LogTypes'
  BY <1>1, <1>2, <1>4 DEF BaseInv, LogTypes
<1>6. ClientSound'
  BY <1>1, RestingGoes, GoesKeeps DEF BaseInv
<1>7. RestTypes'
  BY <1>1 DEF BaseInv, RestTypes, history
<1> QED
  BY <1>4, <1>5, <1>6, <1>7 DEF BaseInv

LEMMA RecallBase == ASSUME BaseInv, NEW c \in Clients, Recall(c) PROVE BaseInv'
<1>1. RowTypes' /\ LogTypes' /\ JobSound' /\ WorkSound'
  BY QuietBase DEF Recall
<1>2. ClientSound'
  <2>1. PICK hits \in SUBSET {i \in Ids : vector[i] > 0} :
          Goes(c, [Resting EXCEPT !.pc = "lookup", !.op = "recall", !.hits = hits,
                                  !.barred = {i \in Ids : Forgotten(i)}])
    BY DEF Recall
  <2> DEFINE s == [Resting EXCEPT !.pc = "lookup", !.op = "recall", !.hits = hits,
                                  !.barred = {i \in Ids : Forgotten(i)}]
  <2>2. hits \in SUBSET Ids /\ {i \in Ids : Forgotten(i)} \in SUBSET Ids
    OBVIOUS
  <2>3. s \in ClientState /\ ClientGoes(s)
    <3> HIDE <2>1
    <3>1. s \in ClientState
      BY <2>2, RestingGoes DEF ClientState, AllOps, Resting
    <3>2. ClientGoes(s)
      BY DEF ClientGoes, Resting
    <3> QED
      BY <3>1, <3>2
  <2> QED
    BY <2>1, <2>3, GoesKeeps DEF BaseInv
<1>3. RestTypes'
  BY DEF BaseInv, Recall, RestTypes, Begins, history
<1> QED
  BY <1>1, <1>2, <1>3 DEF BaseInv

LEMMA RecallRunsBase ==
  ASSUME BaseInv, NEW c \in Clients, RecallLooksUp(c) \/ RecallEnds(c) \/ CallDies(c)
  PROVE  BaseInv'
<1>1. RowTypes' /\ LogTypes' /\ JobSound' /\ WorkSound'
  BY QuietBase DEF RecallLooksUp, RecallEnds, CallDies
<1>2. ClientSound'
  <2>1. CASE RecallLooksUp(c)
    <3> DEFINE s == [client[c] EXCEPT !.pc = "answer",
                                      !.hits = {i \in @ : Recallable(i)}]
    <3>1. client' = [client EXCEPT ![c] = s]
      BY <2>1 DEF RecallLooksUp, BaseInv, ClientSound
    <3>2. client[c] \in ClientState
      BY DEF BaseInv, ClientSound
    <3>3. {i \in client[c].hits : Recallable(i)} \in SUBSET Ids
      BY <3>2 DEF ClientState
    <3>4. s \in ClientState /\ s.pc = "answer"
      BY <3>2, <3>3 DEF ClientState
    <3> QED
      BY <3>1, <3>4, GoesKeeps DEF BaseInv, Goes, ClientGoes
  <2>2. CASE RecallEnds(c) \/ CallDies(c)
    BY <2>2, RestingGoes, GoesKeeps DEF RecallEnds, CallDies, BaseInv
  <2> QED
    BY <2>1, <2>2
<1>3. RestTypes'
  BY DEF BaseInv, RecallLooksUp, RecallEnds, CallDies, RestTypes, history, Fault
<1> QED
  BY <1>1, <1>2, <1>3 DEF BaseInv

-----------------------------------------------------------------------------
(* The scheduler *)

LEMMA ScheduleBatchBase ==
  ASSUME BaseInv, NEW conv \in Conversations, ScheduleBatch(conv) PROVE BaseInv'
<1>1. PICK k \in 1..BatchSize :
        LET batch == First(Waiting(conv), k)
        IN /\ job' = WithJob(job, "consolidate", 0, batch)
           /\ log' = [l \in 1..logs |-> IF l \in batch
                                        THEN [log[l] EXCEPT !.signal = "queued", !.task = Slot]
                                        ELSE log[l]]
  BY DEF ScheduleBatch
<1> DEFINE batch == First(Waiting(conv), k)
<1>2. batch \in SUBSET LogIds /\ 0 \in 0..MaxRows
  <2>1. logs \in 0..MaxLogs /\ MaxLogs \in Nat /\ MaxRows \in Nat
    BY BoundsAssumption DEF BaseInv, LogTypes
  <2> QED
    BY <2>1 DEF First, Waiting, LogIds
<1>3. HasSlot /\ UNCHANGED <<row, evidence, vector, logs, tombstone, queue, worker, todo,
                            published, client, history, calls, faults>>
  BY DEF ScheduleBatch
<1>4. JobSound' /\ WorkSound'
  BY <1>1, <1>2, <1>3, UnchangedIsSame, NewJobKeeps DEF BaseInv, JobType
<1>5. LogTypes'
  <2>1. Slot \in 0..MaxJobs
    BY <1>3, SlotIsSpent, BoundsAssumption DEF Jobs
  <2>2. \A l \in 1..logs : [log[l] EXCEPT !.signal = "queued", !.task = Slot] \in Log
    BY <2>1 DEF BaseInv, LogTypes, Log
  <2> QED
    BY <1>1, <1>3, <2>2 DEF BaseInv, LogTypes
<1>6. RowTypes' /\ ClientSound' /\ RestTypes'
  BY <1>3 DEF BaseInv, RowTypes, ClientSound, RestTypes, history
<1> QED
  BY <1>4, <1>5, <1>6 DEF BaseInv

LEMMA ExpireDueBase == ASSUME BaseInv, NEW i \in Ids, ExpireDue(i) PROVE BaseInv'
<1>1. RowTypes'
  BY RowsAreSound DEF BaseInv, ExpireDue, RowTypes
<1>2. JobSound' /\ WorkSound'
  BY CreatesKeeps DEF BaseInv, ExpireDue
<1>3. LogTypes' /\ ClientSound' /\ RestTypes'
  BY DEF BaseInv, ExpireDue, LogTypes, ClientSound, RestTypes, history
<1> QED
  BY <1>1, <1>2, <1>3 DEF BaseInv

LEMMA ElapsesBase == ASSUME BaseInv, NEW i \in Ids, Elapses(i) PROVE BaseInv'
<1>1. RowTypes'
  BY RowsAreSound DEF BaseInv, Elapses, RowTypes
<1>2. JobSound' /\ WorkSound'
  BY DEF BaseInv, Elapses, JobSound, WorkSound, WorkerSound, Mine
<1>3. LogTypes' /\ ClientSound' /\ RestTypes'
  BY DEF BaseInv, Elapses, LogTypes, ClientSound, RestTypes, history
<1> QED
  BY <1>1, <1>2, <1>3 DEF BaseInv

\* Steps that touch jobs, queue and round only.
OnlyJobs == UNCHANGED <<stored, client, history, calls>>

LEMMA OnlyJobsKeeps ==
  ASSUME BaseInv, OnlyJobs, JobSound', WorkSound',
         UNCHANGED faults \/ (\E kind \in AllFaults : Fault(kind))
  PROVE  BaseInv'
  BY DEF BaseInv, OnlyJobs, stored, history, RowTypes, LogTypes, ClientSound, RestTypes,
         Fault

LEMMA JobUpdates ==
  ASSUME JobSound, NEW j \in Jobs, job[j].status # "unused",
         NEW s \in {"published", "processing", "completed", "failed"}
  PROVE  /\ SameJobs([job EXCEPT ![j].status = s, ![j].expired = FALSE])
         /\ SameJobs([job EXCEPT ![j].status = s])
         /\ SameJobs([job EXCEPT ![j].expired = TRUE])
<1>1. job \in [Jobs -> Job] /\ job[j] \in Job
  BY DEF JobSound
<1>2. /\ [job[j] EXCEPT !.status = s, !.expired = FALSE] \in Job
      /\ [job[j] EXCEPT !.status = s] \in Job
      /\ [job[j] EXCEPT !.expired = TRUE] \in Job
  BY <1>1 DEF Job
<1>3. SameJobs([job EXCEPT ![j].status = s, ![j].expired = FALSE])
  BY <1>1, <1>2 DEF SameJobs, Job
<1>4. SameJobs([job EXCEPT ![j].status = s])
  BY <1>1, <1>2 DEF SameJobs, Job
<1>5. SameJobs([job EXCEPT ![j].expired = TRUE])
  BY <1>1, <1>2 DEF SameJobs, Job
<1> QED
  BY <1>3, <1>4, <1>5

LEMMA PutKeeps ==
  ASSUME NEW q \in [Jobs -> 0..MaxCopies], NEW j PROVE Put(q, j) \in [Jobs -> 0..MaxCopies]
<1>1. MaxCopies \in Nat
  BY BoundsAssumption
<1>2. \A n \in 0..MaxCopies : n < MaxCopies => n + 1 \in 0..MaxCopies
  BY <1>1
<1> QED
  BY <1>2 DEF Put

LEMMA ScanBase == ASSUME BaseInv, Scan PROVE BaseInv'
<1>1. JobSound'
  BY DEF BaseInv, Scan, JobSound, Publishable
<1>2. WorkSound'
  BY DEF BaseInv, Scan, WorkSound, WorkerSound, Mine
<1> QED
  BY <1>1, <1>2, OnlyJobsKeeps DEF Scan, OnlyJobs

LEMMA PublishJobBase == ASSUME BaseInv, NEW j \in Jobs, PublishJob(j) PROVE BaseInv'
<1>1. JobSound /\ WorkSound /\ UNCHANGED worker /\ todo' \subseteq todo
      /\ job[j].status # "unused"
  BY DEF BaseInv, PublishJob, JobSound
<1>2. SameJobs(job') /\ queue' \in [Jobs -> 0..MaxCopies] /\ published' \in 0..MaxJobs
  <2>1. CASE NoFault /\ queue' = Put(queue, j) /\ published' = j /\ UNCHANGED job
    <3>1. published' \in 0..MaxJobs
      BY <2>1, BoundsAssumption DEF Jobs
    <3>2. queue' \in [Jobs -> 0..MaxCopies]
      BY <1>1, <2>1, PutKeeps DEF JobSound
    <3>3. SameJobs(job')
      BY <1>1, <2>1, UnchangedIsSame DEF SameJobs
    <3> QED
      BY <3>1, <3>2, <3>3
  <2>2. CASE /\ job' = [job EXCEPT ![j].status = "failed", ![j].expired = FALSE]
             /\ UNCHANGED <<queue, published>>
    BY <1>1, <2>2, JobUpdates DEF JobSound
  <2> QED
    BY <2>1, <2>2 DEF PublishJob
<1>3. JobSound' /\ WorkSound'
  BY <1>1, <1>2, SameJobsKeep
<1>4. OnlyJobs /\ (UNCHANGED faults \/ (\E kind \in AllFaults : Fault(kind)))
  BY DEF PublishJob, OnlyJobs, NoFault, AllFaults
<1> QED
  BY <1>3, <1>4, OnlyJobsKeeps

LEMMA MarkPublishedBase == ASSUME BaseInv, MarkPublished PROVE BaseInv'
<1>1. JobSound /\ WorkSound /\ published \in Jobs
  BY BoundsAssumption DEF BaseInv, MarkPublished, JobSound, Jobs
<1>2. SameJobs(job')
  <2>1. CASE UNCHANGED job
    BY <1>1, <2>1, UnchangedIsSame DEF SameJobs
  <2>2. CASE /\ job' = [job EXCEPT ![published].status = "published",
                                  ![published].expired = FALSE]
             /\ job[published].status \in {"queued", "failed"}
    BY <1>1, <2>2, JobUpdates
  <2> QED
    BY <2>1, <2>2 DEF MarkPublished
<1>3. UNCHANGED <<queue, worker, todo>> /\ published' \in 0..MaxJobs
  BY BoundsAssumption DEF MarkPublished
<1>4. JobSound' /\ WorkSound'
  BY <1>1, <1>2, <1>3, SameJobsKeep DEF JobSound
<1>5. OnlyJobs /\ (UNCHANGED faults \/ (\E kind \in AllFaults : Fault(kind)))
  BY DEF MarkPublished, OnlyJobs, NoFault, AllFaults
<1> QED
  BY <1>4, <1>5, OnlyJobsKeeps

LEMMA RoundDiesBase == ASSUME BaseInv, RoundDies PROVE BaseInv'
<1>1. JobSound' /\ WorkSound'
  BY BoundsAssumption
     DEF BaseInv, RoundDies, JobSound, WorkSound, WorkerSound, Mine
<1> QED
  BY <1>1, OnlyJobsKeeps DEF RoundDies, OnlyJobs, AllFaults

LEMMA LeaseExpiresBase == ASSUME BaseInv, NEW j \in Jobs, LeaseExpires(j) PROVE BaseInv'
<1>1. JobSound /\ WorkSound /\ SameJobs(job') /\ UNCHANGED <<queue, worker, todo, published>>
  BY JobUpdates DEF BaseInv, LeaseExpires
<1>2. JobSound' /\ WorkSound'
  BY <1>1, SameJobsKeep DEF JobSound
<1> QED
  BY <1>2, OnlyJobsKeeps DEF LeaseExpires, OnlyJobs, NoFault, AllFaults

-----------------------------------------------------------------------------
(* The consumers *)

FaultsGo == UNCHANGED faults \/ (\E kind \in AllFaults : Fault(kind))

LEMMA AroundKeeps ==
  ASSUME BaseInv, Around, FaultsGo, RowTypes', LogTypes', WorkSound' PROVE BaseInv'
  BY DEF BaseInv, Around, FaultsGo, JobSound, ClientSound, RestTypes, Fault, history

\* A consumer goes on with its job.
LEMMA WorkerKeeps ==
  ASSUME WorkSound, UNCHANGED job, NEW w \in Workers, NEW s \in WorkerState,
         worker' = [worker EXCEPT ![w] = s],
         s.pc # "idle" => /\ s.job \in Jobs /\ job[s.job].status # "unused"
                          /\ MayHandle(s.pc, job[s.job].type)
  PROVE  WorkSound'
  BY DEF WorkSound, WorkerSound, Mine

LEMMA GotoKeeps ==
  ASSUME WorkSound, UNCHANGED job, NEW w \in Workers, worker[w].pc # "idle",
         NEW pc \in {"merge", "upsert", "check", "clean", "mark", "remove", "erase",
                     "finish", "fail"},
         Goto(w, pc), MayHandle(pc, Mine(w).type)
  PROVE  WorkSound'
<1>1. worker[w] \in WorkerState
  BY DEF WorkSound
<1>2. [worker[w] EXCEPT !.pc = pc] \in WorkerState
  BY <1>1 DEF WorkerState
<1>3. worker' = [worker EXCEPT ![w] = [worker[w] EXCEPT !.pc = pc]]
  BY DEF Goto
<1>4. /\ [worker[w] EXCEPT !.pc = pc].pc = pc
      /\ [worker[w] EXCEPT !.pc = pc].job = worker[w].job
  BY <1>1 DEF WorkerState
<1>5. worker[w].job \in Jobs /\ Mine(w).status # "unused"
  BY DEF WorkSound, WorkerSound
<1> QED
  BY <1>2, <1>3, <1>4, <1>5, WorkerKeeps DEF Mine

LEMMA RestsKeeps ==
  ASSUME WorkSound, UNCHANGED job, NEW w \in Workers, Rests(w) PROVE WorkSound'
<1>1. Idle \in WorkerState /\ Idle.pc = "idle"
  BY BoundsAssumption DEF Idle, WorkerState
<1> QED
  BY <1>1, WorkerKeeps DEF Rests

LEMMA StoredKeeps ==
  ASSUME BaseInv, UNCHANGED stored PROVE RowTypes' /\ LogTypes'
  BY DEF BaseInv, stored, RowTypes, LogTypes

LEMMA ClaimBase ==
  ASSUME BaseInv, NEW w \in Workers, NEW j \in Jobs, Claim(w, j) PROVE BaseInv'
<1> DEFINE claimed == [job EXCEPT ![j].status = "processing", ![j].expired = FALSE]
<1>1. /\ JobSound /\ WorkSound /\ job \in [Jobs -> Job]
      /\ worker[w].pc = "idle" /\ queue[j] > 0 /\ job[j].type \in Kinds(w)
      /\ UNCHANGED <<todo, published>>
  BY DEF BaseInv, Claim, JobSound
<1>2. [queue EXCEPT ![j] = @ - 1] \in [Jobs -> 0..MaxCopies]
  <2>1. queue[j] - 1 \in 0..MaxCopies
    BY <1>1, BoundsAssumption DEF JobSound
  <2> QED
    BY <1>1, <2>1 DEF JobSound
<1>3. Claimable(j) => SameJobs(claimed)
  BY <1>1, JobUpdates DEF Claimable
<1>4. JobSound' /\ WorkSound'
  <2>1. CASE UNCHANGED <<job, worker>> /\ queue' = [queue EXCEPT ![j] = @ - 1]
    BY <1>1, <1>2, <2>1, UnchangedIsSame, SameJobsKeep DEF SameJobs, JobSound
  <2>2. CASE job' = claimed /\ Claimable(j) /\ UNCHANGED <<queue, worker>>
    BY <1>1, <1>3, <2>2, SameJobsKeep DEF JobSound
  <2>3. CASE /\ Claimable(j) /\ job' = claimed
             /\ queue' = [queue EXCEPT ![j] = @ - 1]
             /\ worker' = [worker EXCEPT ![w] = [Idle EXCEPT !.pc = FirstStep(job[j].type),
                                                            !.job = j]]
    <3> DEFINE s == [Idle EXCEPT !.pc = FirstStep(job[j].type), !.job = j]
    <3>1. JobSound'
      BY <1>1, <1>2, <1>3, <2>3, SameJobsKeep DEF JobSound
    <3>2. FirstStep(job[j].type) \in {"read", "load", "still", "remove"}
          /\ MayHandle(FirstStep(job[j].type), job[j].type)
      <4>1. job[j].type \in {"consolidate", "index", "delete_vector", "expire"}
        BY <1>1 DEF Job
      <4>2. CASE job[j].type = "consolidate"
        BY <4>2 DEF FirstStep, MayHandle
      <4>3. CASE job[j].type = "index"
        BY <4>3 DEF FirstStep, MayHandle
      <4>4. CASE job[j].type = "delete_vector"
        BY <4>4 DEF FirstStep, MayHandle
      <4>5. CASE job[j].type = "expire"
        BY <4>5 DEF FirstStep, MayHandle
      <4> QED
        BY <4>1, <4>2, <4>3, <4>4, <4>5
    <3>3. s \in WorkerState /\ s.job = j /\ s.pc = FirstStep(job[j].type)
      <4>1. Idle \in WorkerState /\ j \in 0..MaxJobs
        BY BoundsAssumption DEF Idle, WorkerState, Jobs
      <4> QED
        BY <3>2, <4>1 DEF WorkerState
    <3>4. \A k \in Jobs : job'[k].type = job[k].type
                           /\ (job[k].status # "unused" => job'[k].status # "unused")
      BY <1>3, <2>3 DEF SameJobs
    <3>5. job[j].status # "unused"
      BY <2>3 DEF Claimable
    <3>6. worker' \in [Workers -> WorkerState]
      BY <1>1, <2>3, <3>3 DEF WorkSound
    <3>7. ASSUME NEW x \in Workers PROVE WorkerSound(x)'
      <4>1. CASE x = w
        BY <1>1, <2>3, <3>2, <3>3, <3>4, <3>5, <4>1 DEF WorkSound, WorkerSound, Mine
      <4>2. CASE x # w
        BY <1>1, <2>3, <3>4, <4>2 DEF WorkSound, WorkerSound, Mine
      <4> QED
        BY <4>1, <4>2
    <3> QED
      BY <3>1, <3>6, <3>7 DEF WorkSound
  <2> QED
    BY <2>1, <2>2, <2>3 DEF Claim
<1>5. OnlyJobs /\ (UNCHANGED faults \/ (\E kind \in AllFaults : Fault(kind)))
  BY DEF Claim, OnlyJobs, NoFault, AllFaults
<1> QED
  BY <1>4, <1>5, OnlyJobsKeeps

LEMMA ReadBatchBase == ASSUME BaseInv, NEW w \in Workers, ReadBatch(w) PROVE BaseInv'
<1>1. WorkSound /\ worker[w].pc = "read" /\ UNCHANGED job /\ worker[w] \in WorkerState
  BY DEF BaseInv, ReadBatch, Around, WorkSound
<1>2. Mine(w).type = "consolidate" /\ worker[w].job \in Jobs /\ Mine(w).status # "unused"
  BY <1>1 DEF WorkSound, WorkerSound, MayHandle
<1>3. WorkSound'
  <2>1. CASE \E pc \in {"merge", "fail"} : Goto(w, pc)
    BY <1>1, <1>2, <2>1, GotoKeeps DEF MayHandle
  <2>2. CASE worker' = [worker EXCEPT ![w].pc = "merge", ![w].left = MaxCandidates]
    <3> DEFINE s == [worker[w] EXCEPT !.pc = "merge", !.left = MaxCandidates]
    <3>1. MaxCandidates \in 0..MaxCandidates
      BY BoundsAssumption
    <3>2. s \in WorkerState /\ s.pc = "merge" /\ s.job = worker[w].job
      BY <1>1, <3>1 DEF WorkerState
    <3>3. worker' = [worker EXCEPT ![w] = s]
      BY <2>2
    <3>4. MayHandle("merge", "consolidate")
      BY DEF MayHandle
    <3> QED
      BY <1>1, <1>2, <3>2, <3>3, <3>4, WorkerKeeps DEF Mine
  <2> QED
    BY <2>1, <2>2 DEF ReadBatch
<1> QED
  BY <1>3, StoredKeeps, AroundKeeps DEF ReadBatch, FaultsGo, AllFaults, NoFault

LEMMA IndexBase ==
  ASSUME BaseInv, NEW w \in Workers,
         LoadMemory(w) \/ UpsertVector(w) \/ CheckIndex(w) \/ CleanIndex(w) \/ MarkIndexed(w)
  PROVE  BaseInv'
<1>1. WorkSound /\ RowTypes /\ UNCHANGED job /\ worker[w] \in WorkerState
      /\ worker[w].pc \in {"load", "upsert", "check", "clean", "mark"}
  BY DEF BaseInv, LoadMemory, UpsertVector, CheckIndex, CleanIndex, MarkIndexed, Around,
         WorkSound
<1>2. Mine(w).type = "index" /\ worker[w].job \in Jobs /\ Mine(w).status # "unused"
  BY <1>1 DEF WorkSound, WorkerSound, MayHandle
<1>3. Mem(w) \in Ids
  BY <1>2 DEF BaseInv, JobSound, Mem, Mine
<1>4. WorkSound'
  <2>1. CASE \E pc \in {"check", "clean", "mark", "finish", "fail"} : Goto(w, pc)
    BY <1>1, <1>2, <2>1, GotoKeeps DEF MayHandle
  <2>2. CASE worker' = [worker EXCEPT ![w].pc = "upsert", ![w].version = row[Mem(w)].version]
    <3> DEFINE s == [worker[w] EXCEPT !.pc = "upsert", !.version = row[Mem(w)].version]
    <3>1. row[Mem(w)].version \in 0..MaxVersion
      BY <1>1, <1>3 DEF RowTypes, Row
    <3>2. s \in WorkerState /\ s.pc = "upsert" /\ s.job = worker[w].job
      BY <1>1, <3>1 DEF WorkerState
    <3>3. worker' = [worker EXCEPT ![w] = s]
      BY <2>2
    <3>4. MayHandle("upsert", "index")
      BY DEF MayHandle
    <3> QED
      BY <1>1, <1>2, <3>2, <3>3, <3>4, WorkerKeeps DEF Mine
  <2> QED
    BY <2>1, <2>2 DEF LoadMemory, UpsertVector, CheckIndex, CleanIndex, MarkIndexed
<1>5. RowTypes'
  <2>1. /\ UNCHANGED evidence
        /\ \/ UNCHANGED row
           \/ row' = [row EXCEPT ![Mem(w)].ready = TRUE]
        /\ \/ UNCHANGED vector
           \/ vector' = [vector EXCEPT ![Mem(w)] = worker[w].version]
           \/ vector' = [vector EXCEPT ![Mem(w)] = 0]
    BY DEF LoadMemory, UpsertVector, CheckIndex, CleanIndex, MarkIndexed, stored
  <2>2. worker[w].version \in 0..MaxVersion /\ 0 \in 0..MaxVersion
    BY <1>1, BoundsAssumption DEF WorkerState
  <2>3. row' \in [Ids -> Row]
    <3>1. row[Mem(w)] \in Row
      BY <1>1, <1>3 DEF RowTypes
    <3>2. [row[Mem(w)] EXCEPT !.ready = TRUE] \in Row
      BY <3>1, RowsAreSound
    <3> QED
      BY <1>1, <2>1, <3>2 DEF RowTypes
  <2>4. vector' \in [Ids -> 0..MaxVersion]
    BY <1>1, <2>1, <2>2 DEF RowTypes
  <2> QED
    BY <1>1, <2>1, <2>3, <2>4 DEF RowTypes
<1>6. LogTypes' /\ Around /\ FaultsGo
  BY DEF BaseInv, LogTypes, LoadMemory, UpsertVector, CheckIndex, CleanIndex, MarkIndexed,
         stored, FaultsGo, NoFault, AllFaults
<1> QED
  BY <1>4, <1>5, <1>6, AroundKeeps

\* A consolidation that creates an index job, or none.
LEMMA MergeJobs ==
  ASSUME BaseInv, SameWork, UNCHANGED <<queue, todo, published>>,
         NEW i \in Ids, UNCHANGED job \/ CreateJob("index", i)
  PROVE  JobSound' /\ WorkSound'
<1>1. i \in 0..MaxRows /\ {} \in SUBSET LogIds /\ JobSound /\ WorkSound
  BY BoundsAssumption DEF Ids, BaseInv
<1>2. CASE UNCHANGED job
  BY <1>1, <1>2 DEF JobSound, WorkSound, WorkerSound, Mine, SameWork
<1>3. CASE CreateJob("index", i)
  BY <1>1, <1>3, NewJobGoes, UnchangedIsSame DEF CreateJob, JobType
<1> QED
  BY <1>2, <1>3

\* What it makes of a row and its evidence.
LEMMA MergesIntoRows ==
  ASSUME RowTypes, NEW i \in Ids, NEW l \in LogIds, NEW v \in Values, MergesInto(i, l, v),
         UNCHANGED vector
  PROVE  RowTypes'
<1>1. evidence' \in [Ids -> SUBSET LogIds]
  BY DEF MergesInto, RowTypes
<1>2. row[i] \in Row
  BY DEF RowTypes
<1>3. row' \in [Ids -> Row]
  <2>1. CASE UNCHANGED row
    BY <2>1 DEF RowTypes
  <2>2. CASE row' = [row EXCEPT ![i].status = IF @ \in {"active", "candidate"}
                                              THEN "conflicted" ELSE @]
    <3>1. [row[i] EXCEPT !.status = IF @ \in {"active", "candidate"}
                                    THEN "conflicted" ELSE @] \in Row
      BY <1>2 DEF Row, Live
    <3> QED
      BY <2>2, <3>1 DEF RowTypes
  <2>3. CASE /\ CanReindex(i)
             /\ row' = [row EXCEPT ![i] = [Reindexed(@) EXCEPT !.status = "active"]]
    <3>1. Reindexed(row[i]) \in Row
      BY <1>2, <2>3, RowsAreSound DEF CanReindex
    <3>2. [Reindexed(row[i]) EXCEPT !.status = "active"] \in Row
      BY <3>1, RowsAreSound
    <3> QED
      BY <2>3, <3>2 DEF RowTypes
  <2> QED
    BY <2>1, <2>2, <2>3 DEF MergesInto
<1> QED
  BY <1>1, <1>3 DEF RowTypes

LEMMA MergesNewRows ==
  ASSUME RowTypes, NEW i \in Ids, NEW l \in LogIds, NEW v \in Values, MergesNew(i, l, v),
         UNCHANGED vector
  PROVE  RowTypes'
<1>1. CASE UNCHANGED <<row, evidence>>
  BY <1>1 DEF RowTypes
<1>2. CASE /\ row' = [row EXCEPT ![i] = [NoRow EXCEPT !.status = "candidate",
                                                      !.version = 1, !.value = v]]
           /\ evidence' = [evidence EXCEPT ![i] = {l}]
  BY <1>2, NewRowsAreSound DEF RowTypes
<1> QED
  BY <1>1, <1>2 DEF MergesNew

LEMMA MergeBase ==
  ASSUME BaseInv, NEW w \in Workers, NEW l \in 1..logs, NEW v \in Values, Merge(w, l, v)
  PROVE  BaseInv'
<1>1. /\ RowTypes /\ LogTypes /\ WorkSound
      /\ UNCHANGED <<vector, log, logs, tombstone, queue, todo, published, client,
                     history, calls, faults>>
  BY DEF BaseInv, Merge
<1>2. l \in LogIds
  BY <1>1, BoundsAssumption DEF LogTypes, LogIds
<1>3. SameWork
  <2>1. worker[w] \in WorkerState /\ worker[w].left > 0
    BY <1>1 DEF WorkSound, Merge
  <2>2. worker[w].left - 1 \in 0..MaxCandidates
    BY <2>1, BoundsAssumption DEF WorkerState
  <2>3. [worker[w] EXCEPT !.left = @ - 1] \in WorkerState
    BY <2>1, <2>2 DEF WorkerState
  <2>4. worker' = [worker EXCEPT ![w] = [worker[w] EXCEPT !.left = @ - 1]]
    BY DEF Merge
  <2>5. /\ [worker[w] EXCEPT !.left = @ - 1].pc = worker[w].pc
        /\ [worker[w] EXCEPT !.left = @ - 1].job = worker[w].job
    BY <2>1 DEF WorkerState
  <2> QED
    BY <1>1, <2>3, <2>4, <2>5 DEF SameWork, WorkSound
<1>4. \E i \in Ids : \/ UNCHANGED <<row, evidence, job>>
                     \/ MergesInto(i, l, v)
                     \/ MergesNew(i, l, v)
  BY DEF Merge
<1>5. PICK i \in Ids : \/ UNCHANGED <<row, evidence, job>>
                       \/ MergesInto(i, l, v)
                       \/ MergesNew(i, l, v)
  BY <1>4
<1>6. RowTypes'
  <2>1. CASE UNCHANGED <<row, evidence, job>>
    BY <1>1, <2>1 DEF RowTypes
  <2>2. CASE MergesInto(i, l, v)
    BY <1>1, <1>2, <2>2, MergesIntoRows
  <2>3. CASE MergesNew(i, l, v)
    BY <1>1, <1>2, <2>3, MergesNewRows
  <2> QED
    BY <1>5, <2>1, <2>2, <2>3
<1>7. UNCHANGED job \/ CreateJob("index", i)
  BY <1>5 DEF MergesInto, MergesNew
<1>8. JobSound' /\ WorkSound'
  BY <1>1, <1>3, <1>7, MergeJobs
<1>9. LogTypes' /\ ClientSound' /\ RestTypes'
  BY <1>1 DEF BaseInv, LogTypes, ClientSound, RestTypes, history
<1> QED
  BY <1>6, <1>8, <1>9 DEF BaseInv

LEMMA MergeFailsBase == ASSUME BaseInv, NEW w \in Workers, MergeFails(w) PROVE BaseInv'
<1>1. WorkSound'
  BY GotoKeeps DEF BaseInv, MergeFails, Around, MayHandle
<1> QED
  BY <1>1, StoredKeeps, AroundKeeps DEF MergeFails, FaultsGo, AllFaults

LEMMA CompleteSignalsBase ==
  ASSUME BaseInv, NEW w \in Workers, CompleteSignals(w) PROVE BaseInv'
<1>1. WorkSound'
  BY GotoKeeps DEF BaseInv, CompleteSignals, Around, MayHandle
<1>2. LogTypes'
  <2>1. \A l \in 1..logs : [log[l] EXCEPT !.signal = "completed"] \in Log
    BY DEF BaseInv, LogTypes, Log
  <2> QED
    BY <2>1 DEF BaseInv, LogTypes, CompleteSignals
<1>3. RowTypes' /\ Around /\ FaultsGo
  BY DEF BaseInv, RowTypes, CompleteSignals, FaultsGo, NoFault, AllFaults
<1> QED
  BY <1>1, <1>2, <1>3, AroundKeeps

LEMMA DeleteBase ==
  ASSUME BaseInv, NEW w \in Workers, StillExpired(w) \/ RemoveVector(w) \/ CompleteDelete(w)
  PROVE  BaseInv'
<1>1. /\ WorkSound /\ RowTypes /\ LogTypes /\ UNCHANGED job
      /\ worker[w].pc \in {"still", "remove", "erase"}
  BY DEF BaseInv, StillExpired, RemoveVector, CompleteDelete, Around
<1>2. /\ Mine(w).type \in {"delete_vector", "expire"}
      /\ worker[w].job \in Jobs /\ Mine(w).status # "unused"
  BY <1>1 DEF WorkSound, WorkerSound, MayHandle
<1>3. Mem(w) \in Ids
  BY <1>2 DEF BaseInv, JobSound, Mem, Mine
<1>4. WorkSound'
  <2>1. \E pc \in {"remove", "erase", "finish", "fail"} :
          Goto(w, pc) /\ (pc = "erase" => Mine(w).type = "delete_vector")
    <3>1. CASE StillExpired(w)
      BY <3>1 DEF StillExpired
    <3>2. CASE RemoveVector(w)
      BY <1>2, <3>2 DEF RemoveVector
    <3>3. CASE CompleteDelete(w)
      BY <3>3 DEF CompleteDelete
    <3> QED
      BY <3>1, <3>2, <3>3
  <2> QED
    BY <1>1, <1>2, <2>1, GotoKeeps DEF MayHandle
<1>5. RowTypes'
  <2>1. /\ \/ UNCHANGED row
           \/ row' = [row EXCEPT ![Mem(w)] = [NoRow EXCEPT !.status = "gone"]]
        /\ \/ UNCHANGED vector
           \/ vector' = [vector EXCEPT ![Mem(w)] = 0]
        /\ \/ UNCHANGED evidence
           \/ evidence' = [evidence EXCEPT ![Mem(w)] = {}]
    BY DEF StillExpired, RemoveVector, CompleteDelete, stored
  <2>2. row' \in [Ids -> Row]
    BY <1>1, <1>3, <2>1, NewRowsAreSound DEF RowTypes
  <2>3. vector' \in [Ids -> 0..MaxVersion] /\ evidence' \in [Ids -> SUBSET LogIds]
    BY <1>1, <1>3, <2>1, BoundsAssumption DEF RowTypes
  <2> QED
    BY <2>2, <2>3 DEF RowTypes
<1>6. LogTypes' /\ Around /\ FaultsGo
  BY DEF BaseInv, LogTypes, StillExpired, RemoveVector, CompleteDelete, stored, FaultsGo,
         NoFault, AllFaults
<1> QED
  BY <1>4, <1>5, <1>6, AroundKeeps

LEMMA EndsBase ==
  ASSUME BaseInv, NEW w \in Workers, Finish(w) \/ Fail(w) \/ Crash(w) PROVE BaseInv'
<1>1. /\ JobSound /\ WorkSound /\ job \in [Jobs -> Job] /\ Rests(w)
      /\ UNCHANGED <<todo, published>> /\ worker[w].pc # "idle"
  BY DEF BaseInv, JobSound, Finish, Fail, Crash
<1>2. worker[w].job \in Jobs /\ job[worker[w].job].status # "unused"
  BY <1>1 DEF WorkSound, WorkerSound, Mine
<1>3. SameJobs(job')
  <2>1. \/ UNCHANGED job
        \/ job' = [job EXCEPT ![worker[w].job].status = "completed"]
        \/ job' = [job EXCEPT ![worker[w].job].status = "failed",
                              ![worker[w].job].expired = FALSE]
    BY DEF Finish, Fail, Crash
  <2>2. UNCHANGED job => SameJobs(job')
    BY <1>1, UnchangedIsSame DEF SameJobs
  <2> QED
    BY <1>1, <1>2, <2>1, <2>2, JobUpdates
<1>4. queue' \in [Jobs -> 0..MaxCopies]
  <2>1. queue' \in {queue, Put(queue, worker[w].job)}
    BY DEF Finish, Fail, Crash
  <2> QED
    BY <1>1, <2>1, PutKeeps DEF JobSound
<1>5. JobSound'
  BY <1>1, <1>3, <1>4 DEF JobSound, SameJobs
<1>6. WorkSound'
  <2>1. Idle \in WorkerState /\ Idle.pc = "idle"
    BY BoundsAssumption DEF Idle, WorkerState
  <2>2. worker' \in [Workers -> WorkerState]
    BY <1>1, <2>1 DEF Rests, WorkSound
  <2>3. ASSUME NEW x \in Workers PROVE WorkerSound(x)'
    <3>1. CASE x = w
      BY <1>1, <2>1, <3>1 DEF Rests, WorkSound, WorkerSound
    <3>2. CASE x # w
      BY <1>1, <1>3, <3>2 DEF Rests, WorkSound, WorkerSound, Mine, SameJobs
    <3> QED
      BY <3>1, <3>2
  <2> QED
    BY <2>2, <2>3 DEF WorkSound
<1>7. OnlyJobs /\ (UNCHANGED faults \/ (\E kind \in AllFaults : Fault(kind)))
  BY DEF Finish, Fail, Crash, OnlyJobs, NoFault, AllFaults
<1> QED
  BY <1>5, <1>6, <1>7, OnlyJobsKeeps

-----------------------------------------------------------------------------
(* The types *)

LEMMA BaseStep == BaseInv /\ [Next]_vars => BaseInv'
<1> SUFFICES ASSUME BaseInv, [Next]_vars PROVE BaseInv'
  OBVIOUS
<1>1. CASE UNCHANGED vars
  BY <1>1 DEF vars, stored, history, BaseInv, RowTypes, LogTypes, JobSound, WorkSound,
              WorkerSound, Mine, ClientSound, RestTypes
<1>2. ASSUME NEW c \in Clients, Calls(c) PROVE BaseInv'
  <2>1. CASE \E conv \in Conversations : Turn(c, conv) \/ Forget(c, conv)
                                         \/ \E v \in Values : Remember(c, conv, v)
    BY <2>1, TurnBase, ForgetBase, RememberBase
  <2>2. CASE \E i \in Ids : Confirm(c, i) \/ UpdateReads(c, i)
    BY <2>2, ConfirmBase, UpdateReadsBase
  <2>3. CASE DeleteReads(c, "scope", 0) \/ \E i \in Ids : DeleteReads(c, "delete", i)
    BY <2>3, DeleteReadsBase
  <2>4. CASE Recall(c)
    BY <2>4, RecallBase
  <2> QED
    BY <1>2, <2>1, <2>2, <2>3, <2>4 DEF Calls
<1>3. ASSUME NEW c \in Clients, CallRuns(c) \/ CallDies(c) PROVE BaseInv'
  BY <1>3, MarkDeletingBase, UpdateWritesBase, RecallRunsBase DEF CallRuns
<1>4. CASE Schedules \/ RoundDies
  BY <1>4, ScheduleBatchBase, ExpireDueBase, ScanBase, MarkPublishedBase, PublishJobBase,
     RoundDiesBase DEF Schedules
<1>5. ASSUME NEW w \in Workers, Handles(w) \/ Crash(w) PROVE BaseInv'
  <2>1. CASE Consolidates(w)
    BY <2>1, ReadBatchBase, MergeFailsBase, CompleteSignalsBase, MergeBase DEF Consolidates
  <2>2. CASE Indexes(w)
    BY <2>2, IndexBase DEF Indexes
  <2>3. CASE Deletes(w)
    BY <2>3, DeleteBase DEF Deletes
  <2>4. CASE Finish(w) \/ Fail(w) \/ Crash(w)
    BY <2>4, EndsBase
  <2> QED
    BY <1>5, <2>1, <2>2, <2>3, <2>4 DEF Handles
<1>6. CASE \E j \in Jobs : LeaseExpires(j) \/ \E w \in Workers : Claim(w, j)
  BY <1>6, LeaseExpiresBase, ClaimBase
<1>7. CASE \E i \in Ids : Elapses(i)
  BY <1>7, ElapsesBase
<1> QED
  BY <1>1, <1>2, <1>3, <1>4, <1>5, <1>6, <1>7 DEF Next

LEMMA SpecBase == Spec => []BaseInv
  BY BaseInit, BaseStep, PTL DEF Spec

\* Every variable keeps its type, whatever fails and in whatever order the
\* consumers, the scheduler and the requests run.
THEOREM TypeCorrect == Spec => []TypeOK
<1>1. BaseInv => TypeOK
  BY DEF BaseInv, TypeOK, RowTypes, LogTypes, JobSound, WorkSound, ClientSound, RestTypes
<1> QED
  BY <1>1, SpecBase, PTL

-----------------------------------------------------------------------------
(* The inductive invariant of the safety properties *)

\* A row that a deletion or an expiry has taken: for good, or until it is revived.
Lost(i) == Forgotten(i) \/ i \in revived

OneRow == \A i, k \in Ids : Exists(i) /\ Exists(k) => i = k

\* Every barrier is a log that was saved, the one a deletion has read too.
BarrierKnown == /\ tombstone <= logs
                /\ \A c \in Clients : client[c].pc = "mark" => client[c].max <= logs

EvidenceKnown == \A i \in Ids : evidence[i] \subseteq 1..logs

\* An update holds a row that was there; the row of an id is made once.
CopySound == \A c \in Clients :
  client[c].pc = "write" => /\ client[c].copy.status \notin {"none", "gone"}
                            /\ row[client[c].id].status # "none"

\* A job that removes evidence is about a row whose deletion began.
JobLost(j) == job[j].mem \in Ids /\ Lost(job[j].mem)

DeletionsLost == \A j \in Jobs : job[j].type = "delete_vector" => JobLost(j)

\* An update about to write an active row back.
ActiveCopy(i) == \E c \in Clients : /\ client[c].pc = "write" /\ client[c].id = i
                                    /\ client[c].copy.status = "active"

\* The promotion of a row, or of the copy an update holds of it, was earned.
PromotionEarned(i) ==
  /\ i \notin explicit \cup revived
  /\ row[i].status = "active" \/ ActiveCopy(i)
  => Enough(evidence[i]) \/ Forgotten(i)

\* What was forgotten when a question was asked stays so, or is revived.
RecallSound(c) ==
  /\ client[c].pc \in {"lookup", "answer"} => \A i \in client[c].barred : Lost(i)
  /\ client[c].pc = "answer" => client[c].hits \cap client[c].barred \subseteq revived

MemoryInv ==
  /\ OneRow /\ BarrierKnown /\ EvidenceKnown /\ CopySound /\ DeletionsLost
  /\ RestsOnNewEvidence
  /\ \A i \in Ids : PromotionEarned(i)
  /\ \A c \in Clients : RecallSound(c)

LEMMA MemoryInit == Init => MemoryInv
<1> SUFFICES ASSUME Init PROVE MemoryInv
  OBVIOUS
<1>1. \A i \in Ids : row[i].status = "none" /\ evidence[i] = {}
  BY DEF Init, NoRow
<1>2. \A c \in Clients : client[c].pc = "idle"
  BY DEF Init, Resting
<1>3. \A j \in Jobs : job[j].type = "index"
  BY DEF Init, NoJob
<1>4. OneRow /\ EvidenceKnown /\ RestsOnNewEvidence /\ DeletionsLost
  BY <1>1, <1>3 DEF OneRow, Exists, EvidenceKnown, RestsOnNewEvidence, Live, DeletionsLost
<1>5. BarrierKnown /\ CopySound /\ \A c \in Clients : RecallSound(c)
  BY <1>2 DEF Init, BarrierKnown, CopySound, RecallSound
<1>6. \A i \in Ids : PromotionEarned(i)
  BY <1>1, <1>2 DEF PromotionEarned, ActiveCopy
<1> QED
  BY <1>4, <1>5, <1>6 DEF MemoryInv

-----------------------------------------------------------------------------
(* What steps leave as it is *)

\* The logs that were saved keep their conversations.
SameConvs == /\ logs' \in Nat /\ logs <= logs'
             /\ \A l \in 1..logs : log'[l].conv = log[l].conv

LEMMA ConvsAreFinite ==
  ASSUME NEW n \in Nat, NEW set \in SUBSET (1..n) PROVE IsFiniteSet(Convs(set))
<1>1. IsFiniteSet(set)
  <2>1. IsFiniteSet(1..n)
    BY FS_Interval
  <2> QED
    BY <2>1, FS_Subset
<1> DEFINE f == [l \in set |-> log[l].conv]
<1>2. f \in Surjection(set, Convs(set))
  BY DEF Surjection, Convs
<1> QED
  BY <1>1, <1>2, FS_Surjection

\* More evidence is not less.
LEMMA EnoughStays ==
  ASSUME BaseInv, SameConvs, NEW old \in SUBSET (1..logs), NEW new,
         new \subseteq 1..logs', old \subseteq new, Enough(old)
  PROVE  Enough(new)'
<1>1. logs \in Nat /\ logs' \in Nat /\ PromoteMin \in Nat
  BY BoundsAssumption DEF BaseInv, LogTypes, SameConvs
<1>2. Convs(old) \subseteq Convs(new)'
  BY DEF Convs, SameConvs
<1>3. IsFiniteSet(Convs(old))
  BY <1>1, ConvsAreFinite
<1>4. IsFiniteSet(Convs(new)')
  <2>1. IsFiniteSet(new)
    <3>1. IsFiniteSet(1..logs')
      BY <1>1, FS_Interval
    <3> QED
      BY <3>1, FS_Subset
  <2> DEFINE f == [l \in new |-> log'[l].conv]
  <2>2. f \in Surjection(new, Convs(new)')
    BY DEF Surjection, Convs
  <2> QED
    BY <2>1, <2>2, FS_Surjection
<1>5. Cardinality(Convs(old)) <= Cardinality(Convs(new)')
  BY <1>2, <1>4, FS_Subset
<1>6. Cardinality(Convs(old)) \in Nat /\ Cardinality(Convs(new)') \in Nat
  BY <1>3, <1>4, FS_CardinalityType
<1> QED
  BY <1>1, <1>5, <1>6 DEF Enough

\* The jobs that remove evidence are the ones there were, or about lost rows.
JobsFollow ==
  \A j \in Jobs : job'[j].type = "delete_vector" =>
    \/ job[j].type = "delete_vector" /\ job'[j].mem = job[j].mem
    \/ JobLost(j)'

\* Requests end or go on as they are.
CallsEnd == \A c \in Clients : client'[c] = client[c] \/ client'[c] = Resting

\* The parts that only need lost rows to stay lost.
LEMMA LostKeeps ==
  ASSUME BaseInv, BaseInv', MemoryInv, CallsEnd, JobsFollow,
         revived \subseteq revived', logs <= logs', tombstone' <= logs',
         \A i \in Ids : /\ Lost(i) => Lost(i)'
                        /\ row[i].status # "none" => row'[i].status # "none"
  PROVE  BarrierKnown' /\ CopySound' /\ DeletionsLost' /\ (\A c \in Clients : RecallSound(c)')
<1>1. Resting.pc = "idle"
  BY DEF Resting
<1>2. client \in [Clients -> ClientState] /\ client' \in [Clients -> ClientState]
  BY DEF BaseInv, ClientSound
<1>3. /\ logs \in Nat /\ logs' \in Nat /\ tombstone' \in Nat
      /\ \A c \in Clients : client[c].max \in Nat
  BY <1>2, BoundsAssumption DEF BaseInv, LogTypes, ClientState
<1>4. BarrierKnown'
  BY <1>1, <1>3 DEF MemoryInv, BarrierKnown, CallsEnd
<1>5. CopySound'
  BY <1>1 DEF MemoryInv, CopySound, CallsEnd, BaseInv, ClientSound
<1>6. DeletionsLost'
  <2>1. ASSUME NEW j \in Jobs, job'[j].type = "delete_vector" PROVE JobLost(j)'
    <3>1. CASE job[j].type = "delete_vector" /\ job'[j].mem = job[j].mem
      <4>1. job[j].mem \in Ids /\ Lost(job[j].mem)
        BY <3>1 DEF MemoryInv, DeletionsLost, JobLost
      <4>2. PICK i \in Ids : i = job[j].mem
        BY <4>1
      <4>3. Lost(i)'
        BY <4>1, <4>2
      <4> QED
        BY <3>1, <4>2, <4>3 DEF JobLost, Lost, Forgotten
    <3> QED
      BY <2>1, <3>1 DEF JobsFollow
  <2> QED
    BY <2>1 DEF DeletionsLost
<1>7. ASSUME NEW c \in Clients PROVE RecallSound(c)'
  <2>1. client[c].barred \subseteq Ids
    BY <1>2 DEF ClientState
  <2> QED
    BY <1>1, <2>1 DEF MemoryInv, RecallSound, CallsEnd
<1> QED
  BY <1>4, <1>5, <1>6, <1>7

\* A step that changes status and evidence of one row at most, which is the only one
\* there is if it is there afterwards or the barrier moves.
RowStep(i) ==
  /\ \A k \in Ids : k # i => /\ row'[k] = row[k] /\ evidence'[k] = evidence[k]
                             /\ Exists(i)' \/ tombstone' # tombstone => ~Exists(k)
  /\ SameConvs /\ CallsEnd /\ JobsFollow
  /\ explicit \subseteq explicit' /\ revived \subseteq revived'
  /\ tombstone' <= logs'
  /\ Lost(i) => Lost(i)'
  /\ row[i].status # "none" => row'[i].status # "none"
  /\ evidence'[i] \subseteq 1..logs'

LEMMA RowStepKeeps ==
  ASSUME BaseInv, BaseInv', MemoryInv, NEW i \in Ids, RowStep(i),
         row'[i].status \in Live /\ i \notin revived' => \E l \in evidence'[i] : l > tombstone',
         PromotionEarned(i)'
  PROVE  MemoryInv'
<1>1. \A k \in Ids : /\ Lost(k) => Lost(k)'
                     /\ row[k].status # "none" => row'[k].status # "none"
  BY DEF RowStep, Lost, Forgotten
<1>2. BarrierKnown' /\ CopySound' /\ DeletionsLost' /\ (\A c \in Clients : RecallSound(c)')
  BY <1>1, LostKeeps DEF RowStep, SameConvs
<1>3. OneRow'
  <2>1. \A k, m \in Ids : Exists(k) /\ Exists(m) => k = m
    BY DEF MemoryInv, OneRow
  <2>2. \A k \in Ids : k # i => row'[k] = row[k] /\ (Exists(i)' => ~Exists(k))
    BY DEF RowStep
  <2> QED
    BY <2>1, <2>2 DEF OneRow, Exists
<1>4. EvidenceKnown'
  <2>1. logs \in Nat /\ logs' \in Nat /\ logs <= logs'
    BY BoundsAssumption DEF RowStep, SameConvs, BaseInv, LogTypes
  <2>2. ASSUME NEW k \in Ids PROVE evidence'[k] \subseteq 1..logs'
    BY <2>1 DEF RowStep, MemoryInv, EvidenceKnown
  <2> QED
    BY <2>2 DEF EvidenceKnown
<1>5. RestsOnNewEvidence'
  <2>1. ASSUME NEW k \in Ids, k # i, row'[k].status \in Live, k \notin revived'
        PROVE  \E l \in evidence'[k] : l > tombstone'
    <3>1. row'[k] = row[k] /\ evidence'[k] = evidence[k] /\ k \notin revived
      BY <2>1 DEF RowStep
    <3>2. Exists(k)
      BY <2>1, <3>1 DEF Exists, Live
    <3>3. tombstone' = tombstone
      BY <2>1, <3>2 DEF RowStep
    <3> QED
      BY <2>1, <3>1, <3>3 DEF MemoryInv, RestsOnNewEvidence
  <2> QED
    BY <2>1 DEF RestsOnNewEvidence
<1>6. ASSUME NEW k \in Ids PROVE PromotionEarned(k)'
  <2>1. CASE k = i
    BY <2>1
  <2>2. CASE k # i
    <3>1. row'[k] = row[k] /\ evidence'[k] = evidence[k]
      BY <2>2 DEF RowStep
    <3>2. ActiveCopy(k)' => ActiveCopy(k)
      BY DEF ActiveCopy, RowStep, CallsEnd, Resting
    <3>3. Enough(evidence[k]) => Enough(evidence[k])'
      <4>1. evidence[k] \subseteq 1..logs /\ evidence'[k] \subseteq 1..logs'
        BY <1>4 DEF MemoryInv, EvidenceKnown
      <4> QED
        BY <3>1, <4>1, EnoughStays DEF RowStep
    <3> QED
      BY <3>1, <3>2, <3>3 DEF RowStep, MemoryInv, PromotionEarned, Forgotten
  <2> QED
    BY <2>1, <2>2
<1> QED
  BY <1>2, <1>3, <1>4, <1>5, <1>6 DEF MemoryInv

\* A step that leaves statuses and evidence alone.
QuietRows ==
  /\ \A i \in Ids : row'[i].status = row[i].status
  /\ SameConvs /\ JobsFollow
  /\ UNCHANGED <<evidence, tombstone, history>>

LEMMA QuietEarned ==
  ASSUME BaseInv, BaseInv', MemoryInv, QuietRows, NEW i \in Ids,
         ActiveCopy(i)' => row[i].status = "active" \/ ActiveCopy(i)
  PROVE  evidence'[i] \subseteq 1..logs' /\ PromotionEarned(i)'
<1>1. evidence[i] \subseteq 1..logs /\ evidence' = evidence
  BY DEF MemoryInv, EvidenceKnown, QuietRows
<1>2. evidence'[i] \subseteq 1..logs'
  <2>1. logs \in Nat /\ logs' \in Nat /\ logs <= logs'
    BY BoundsAssumption DEF QuietRows, SameConvs, BaseInv, LogTypes
  <2> QED
    BY <1>1, <2>1
<1>3. Enough(evidence[i]) => Enough(evidence[i])'
  BY <1>1, <1>2, EnoughStays DEF QuietRows
<1> QED
  BY <1>2, <1>3 DEF QuietRows, MemoryInv, PromotionEarned, Forgotten, history

LEMMA QuietKeeps ==
  ASSUME BaseInv, BaseInv', MemoryInv, QuietRows, CallsEnd
  PROVE  MemoryInv'
<1>1. \A i \in Ids : /\ Lost(i) => Lost(i)'
                     /\ row[i].status # "none" => row'[i].status # "none"
  BY DEF QuietRows, Lost, Forgotten, history
<1>2. tombstone' <= logs' /\ logs <= logs'
  <2>1. logs \in Nat /\ logs' \in Nat /\ tombstone \in Nat /\ tombstone <= logs /\ logs <= logs'
    BY BoundsAssumption DEF QuietRows, SameConvs, BaseInv, LogTypes, MemoryInv, BarrierKnown
  <2> QED
    BY <2>1 DEF QuietRows
<1>3. BarrierKnown' /\ CopySound' /\ DeletionsLost' /\ (\A c \in Clients : RecallSound(c)')
  BY <1>1, <1>2, LostKeeps DEF QuietRows, history
<1>4. OneRow' /\ RestsOnNewEvidence'
  BY DEF QuietRows, MemoryInv, OneRow, Exists, RestsOnNewEvidence, history
<1>5. \A i \in Ids : ActiveCopy(i)' => ActiveCopy(i)
  BY DEF ActiveCopy, CallsEnd, Resting
<1>6. EvidenceKnown' /\ \A i \in Ids : PromotionEarned(i)'
  BY <1>5, QuietEarned DEF EvidenceKnown
<1> QED
  BY <1>3, <1>4, <1>6 DEF MemoryInv

LEMMA UnchangedFollows == UNCHANGED job => JobsFollow
  BY DEF JobsFollow

LEMMA StatusFollows ==
  ASSUME BaseInv, NEW k, NEW s, NEW b,
         \/ job' = [job EXCEPT ![k].status = s, ![k].expired = b]
         \/ job' = [job EXCEPT ![k].status = s]
         \/ job' = [job EXCEPT ![k].expired = b]
  PROVE  JobsFollow
<1>1. job \in [Jobs -> Job]
  BY DEF BaseInv, JobSound
<1> QED
  BY <1>1 DEF JobsFollow, Job

\* The job whose slot is taken is about a row that is lost, or removes nothing.
LEMMA NewJobFollows ==
  ASSUME HasSlot, NEW jobs, SameJobs(jobs), NEW type, NEW id \in 0..MaxRows, NEW signals,
         job' = WithJob(jobs, type, id, signals),
         type = "delete_vector" => id \in Ids /\ Lost(id)'
  PROVE  JobsFollow
<1>1. Slot \in Jobs
  BY SlotIsSpent
<1>2. /\ \A j \in Jobs : j # Slot => job'[j].type = jobs[j].type /\ job'[j].mem = jobs[j].mem
      /\ job'[Slot].type = type /\ job'[Slot].mem = id
  BY <1>1 DEF WithJob, SameJobs, NoJob
<1>3. ASSUME NEW j \in Jobs, job'[j].type = "delete_vector"
      PROVE  \/ job[j].type = "delete_vector" /\ job'[j].mem = job[j].mem
             \/ JobLost(j)'
  <2>1. CASE j = Slot
    BY <1>2, <1>3, <2>1 DEF JobLost, Lost, Forgotten
  <2>2. CASE j # Slot
    BY <1>2, <1>3, <2>2 DEF SameJobs
  <2> QED
    BY <2>1, <2>2
<1> QED
  BY <1>3 DEF JobsFollow

LEMMA CreatesFollows ==
  ASSUME BaseInv, NEW type, NEW id \in Ids, CreateJob(type, id),
         type = "delete_vector" => Lost(id)'
  PROVE  JobsFollow
<1>1. id \in 0..MaxRows
  BY BoundsAssumption DEF Ids
<1>2. SameJobs(job)
  BY UnchangedIsSame DEF BaseInv
<1> QED
  BY <1>1, <1>2, NewJobFollows DEF CreateJob

LEMMA SameLogs == ASSUME BaseInv, UNCHANGED <<log, logs>> PROVE SameConvs
  BY BoundsAssumption DEF BaseInv, LogTypes, SameConvs

LEMMA SavedLogs ==
  ASSUME BaseInv, NEW conv, NEW signal, SavesLog(conv, signal) PROVE SameConvs /\ logs' = logs + 1
<1>1. logs \in Nat
  BY BoundsAssumption DEF BaseInv, LogTypes
<1>2. \A l \in 1..logs : l \in 1..logs + 1 /\ l # logs + 1
  BY <1>1
<1> QED
  BY <1>1, <1>2 DEF SavesLog, SameConvs

LEMMA SignalsCancelledLogs ==
  ASSUME BaseInv, UNCHANGED logs, NEW set, SignalsCancelled(set) PROVE SameConvs
<1>1. logs \in Nat /\ \A l \in 1..logs : log[l] \in Log
  BY BoundsAssumption DEF BaseInv, LogTypes
<1>2. \A l \in 1..logs : log'[l].conv = log[l].conv
  BY <1>1 DEF Log, SignalsCancelled
<1> QED
  BY <1>1, <1>2 DEF SameConvs

-----------------------------------------------------------------------------
(* Steps that change no status and no evidence *)

LEMMA QuietCalls ==
  ASSUME BaseInv, NEW c \in Clients,
         (\E conv \in Conversations : Turn(c, conv)) \/ RecallEnds(c) \/ CallDies(c)
  PROVE  QuietRows /\ CallsEnd
<1>1. client \in [Clients -> ClientState]
  BY DEF BaseInv, ClientSound
<1>2. CASE \E conv \in Conversations : Turn(c, conv)
  <2>1. PICK conv \in Conversations : Turn(c, conv)
    BY <1>2
  <2>2. SavesLog(conv, "pending") /\ UNCHANGED <<row, evidence, tombstone, job, client, history>>
    BY <2>1 DEF Turn
  <2> QED
    BY <2>2, SavedLogs, UnchangedFollows DEF QuietRows, CallsEnd
<1>3. CASE RecallEnds(c) \/ CallDies(c)
  BY <1>1, <1>3, SameLogs, UnchangedFollows
     DEF RecallEnds, CallDies, Goes, stored, QuietRows, CallsEnd
<1> QED
  BY <1>2, <1>3

LEMMA QuietRounds ==
  ASSUME BaseInv,
         \/ \E conv \in Conversations : ScheduleBatch(conv)
         \/ Scan \/ MarkPublished \/ (\E j \in Jobs : PublishJob(j)) \/ RoundDies
  PROVE  QuietRows /\ CallsEnd
<1>1. CASE \E conv \in Conversations : ScheduleBatch(conv)
  <2>1. PICK conv \in Conversations : ScheduleBatch(conv)
    BY <1>1
  <2>2. PICK k \in 1..BatchSize :
          LET batch == First(Waiting(conv), k)
          IN /\ job' = WithJob(job, "consolidate", 0, batch)
             /\ log' = [l \in 1..logs |-> IF l \in batch
                                          THEN [log[l] EXCEPT !.signal = "queued", !.task = Slot]
                                          ELSE log[l]]
    BY <2>1 DEF ScheduleBatch
  <2>3. SameConvs
    <3>1. logs \in Nat /\ \A l \in 1..logs : log[l] \in Log
      BY BoundsAssumption DEF BaseInv, LogTypes
    <3>2. \A l \in 1..logs : log'[l].conv = log[l].conv
      BY <2>2, <3>1 DEF Log
    <3>3. UNCHANGED logs
      BY <2>1 DEF ScheduleBatch
    <3> QED
      BY <3>1, <3>2, <3>3 DEF SameConvs
  <2>4. JobsFollow
    <3>1. 0 \in 0..MaxRows /\ SameJobs(job)
      BY BoundsAssumption, UnchangedIsSame DEF BaseInv
    <3> QED
      BY <2>1, <2>2, <3>1, NewJobFollows DEF ScheduleBatch
  <2> QED
    BY <2>1, <2>3, <2>4 DEF ScheduleBatch, QuietRows, CallsEnd
<1>2. CASE Scan \/ RoundDies
  BY <1>2, SameLogs, UnchangedFollows DEF Scan, RoundDies, stored, QuietRows, CallsEnd
<1>3. CASE MarkPublished \/ \E j \in Jobs : PublishJob(j)
  <2>1. UNCHANGED <<stored, client, history>>
    BY <1>3 DEF MarkPublished, PublishJob
  <2>2. \E j \in Jobs \cup {published} :
          \/ UNCHANGED job
          \/ job' = [job EXCEPT ![j].status = "published", ![j].expired = FALSE]
          \/ job' = [job EXCEPT ![j].status = "failed", ![j].expired = FALSE]
    BY <1>3 DEF MarkPublished, PublishJob
  <2>3. JobsFollow
    BY <2>2, UnchangedFollows, StatusFollows
  <2> QED
    BY <2>1, <2>3, SameLogs DEF stored, QuietRows, CallsEnd
<1> QED
  BY <1>1, <1>2, <1>3

LEMMA QuietTime ==
  ASSUME BaseInv, (\E j \in Jobs : LeaseExpires(j)) \/ (\E i \in Ids : Elapses(i))
  PROVE  QuietRows /\ CallsEnd
<1>1. CASE \E j \in Jobs : LeaseExpires(j)
  BY <1>1, SameLogs, StatusFollows DEF LeaseExpires, stored, QuietRows, CallsEnd
<1>2. CASE \E i \in Ids : Elapses(i)
  <2>1. row \in [Ids -> Row]
    BY DEF BaseInv, RowTypes
  <2>2. \A k \in Ids : row'[k].status = row[k].status
    BY <1>2, <2>1 DEF Elapses, Row
  <2> QED
    BY <1>2, <2>2, SameLogs, UnchangedFollows DEF Elapses, QuietRows, CallsEnd
<1> QED
  BY <1>1, <1>2

LEMMA QuietHandling ==
  ASSUME BaseInv, NEW w \in Workers,
         \/ ReadBatch(w) \/ MergeFails(w) \/ CompleteSignals(w) \/ Indexes(w)
         \/ StillExpired(w) \/ RemoveVector(w)
  PROVE  QuietRows /\ CallsEnd
<1>1. /\ UNCHANGED <<job, client, history, logs, evidence, tombstone>>
      /\ \/ UNCHANGED row
         \/ row' = [row EXCEPT ![Mem(w)].ready = TRUE]
      /\ \/ UNCHANGED log
         \/ log' = [l \in 1..logs |-> IF log[l].task = worker[w].job
                                      THEN [log[l] EXCEPT !.signal = "completed"] ELSE log[l]]
  BY DEF ReadBatch, MergeFails, CompleteSignals, Indexes, LoadMemory, UpsertVector, CheckIndex,
         CleanIndex, MarkIndexed, StillExpired, RemoveVector, Around, stored
<1>2. \A k \in Ids : row'[k].status = row[k].status
  <2>1. row \in [Ids -> Row]
    BY DEF BaseInv, RowTypes
  <2> QED
    BY <1>1, <2>1 DEF Row
<1>3. SameConvs
  <2>1. logs \in Nat /\ \A l \in 1..logs : log[l] \in Log
    BY BoundsAssumption DEF BaseInv, LogTypes
  <2>2. \A l \in 1..logs : log'[l].conv = log[l].conv
    BY <1>1, <2>1 DEF Log
  <2> QED
    BY <1>1, <2>1, <2>2 DEF SameConvs
<1> QED
  BY <1>1, <1>2, <1>3, UnchangedFollows DEF QuietRows, CallsEnd

LEMMA QuietJobs ==
  ASSUME BaseInv, NEW w \in Workers,
         Finish(w) \/ Fail(w) \/ Crash(w) \/ \E j \in Jobs : Claim(w, j)
  PROVE  QuietRows /\ CallsEnd
<1>1. UNCHANGED <<stored, client, history>>
  BY DEF Finish, Fail, Crash, Claim
<1>2. \E j \in Jobs \cup {worker[w].job} :
        \/ UNCHANGED job
        \/ job' = [job EXCEPT ![j].status = "completed"]
        \/ job' = [job EXCEPT ![j].status = "failed", ![j].expired = FALSE]
        \/ job' = [job EXCEPT ![j].status = "processing", ![j].expired = FALSE]
  BY DEF Finish, Fail, Crash, Claim
<1>3. JobsFollow
  BY <1>2, UnchangedFollows, StatusFollows
<1> QED
  BY <1>1, <1>3, SameLogs DEF stored, QuietRows, CallsEnd

-----------------------------------------------------------------------------
(* Requests that read *)

\* A request reads the row, the number of logs, or what there is to recall.
Reads(c, s) ==
  /\ s.pc = "mark" => s.max <= logs
  /\ s.pc = "write" => /\ s.copy.status \notin {"none", "gone"}
                       /\ row[s.id].status # "none"
                       /\ s.copy.status = "active" => row[s.id].status = "active"
  /\ s.pc \in {"lookup", "answer"} => \A i \in s.barred : Lost(i)
  /\ s.pc = "answer" => s.hits \cap s.barred \subseteq revived

LEMMA ReadsKeep ==
  ASSUME BaseInv, BaseInv', MemoryInv, NEW c \in Clients, NEW s, Goes(c, s), Reads(c, s),
         UNCHANGED <<stored, job, history>>
  PROVE  MemoryInv'
<1>1. /\ client \in [Clients -> ClientState]
      /\ \A x \in Clients : client'[x] = IF x = c THEN s ELSE client[x]
      /\ UNCHANGED <<row, evidence, log, logs, tombstone, job, explicit, revived>>
  BY DEF BaseInv, ClientSound, Goes, stored, history
<1>2. OneRow' /\ EvidenceKnown' /\ RestsOnNewEvidence' /\ DeletionsLost'
  BY <1>1 DEF MemoryInv, OneRow, Exists, EvidenceKnown, RestsOnNewEvidence, DeletionsLost,
              JobLost, Lost, Forgotten
<1>3. BarrierKnown' /\ CopySound'
  BY <1>1 DEF MemoryInv, Reads, BarrierKnown, CopySound
<1>4. \A x \in Clients : RecallSound(x)'
  BY <1>1 DEF MemoryInv, Reads, RecallSound, Lost, Forgotten
<1>5. ASSUME NEW i \in Ids PROVE PromotionEarned(i)'
  <2>1. QuietRows
    BY <1>1, SameLogs, UnchangedFollows DEF QuietRows, history
  <2>2. ActiveCopy(i)' => row[i].status = "active" \/ ActiveCopy(i)
    BY <1>1 DEF ActiveCopy, Reads
  <2> QED
    BY <2>1, <2>2, QuietEarned
<1> QED
  BY <1>2, <1>3, <1>4, <1>5 DEF MemoryInv

LEMMA UpdateReadsMemory ==
  ASSUME BaseInv, BaseInv', MemoryInv, NEW c \in Clients, NEW i \in Ids, UpdateReads(c, i)
  PROVE  MemoryInv'
<1> DEFINE s == [Resting EXCEPT !.pc = "write", !.op = "update", !.id = i, !.copy = row[i]]
<1>1. Exists(i) /\ Goes(c, s) /\ UNCHANGED <<stored, job, history>>
  BY DEF UpdateReads
<1>2. s.pc = "write" /\ s.id = i /\ s.copy = row[i]
  BY DEF Resting
<1>3. Reads(c, s)
  <2> HIDE DEF s
  <2> QED
    BY <1>1, <1>2 DEF Reads, Exists
<1> QED
  BY <1>1, <1>3, ReadsKeep

LEMMA DeleteReadsMemory ==
  ASSUME BaseInv, BaseInv', MemoryInv, NEW c \in Clients, NEW op, NEW i,
         DeleteReads(c, op, i)
  PROVE  MemoryInv'
<1>1. PICK max \in {logs, 0} :
        Goes(c, [Resting EXCEPT !.pc = "mark", !.op = op, !.id = i, !.max = max])
  BY DEF DeleteReads
<1> DEFINE s == [Resting EXCEPT !.pc = "mark", !.op = op, !.id = i, !.max = max]
<1>2. s.pc = "mark" /\ s.max = max
  BY DEF Resting
<1>3. Reads(c, s)
  <2>1. logs \in Nat
    BY BoundsAssumption DEF BaseInv, LogTypes
  <2> HIDE DEF s
  <2> QED
    BY <1>2, <2>1 DEF Reads
<1> QED
  BY <1>1, <1>3, ReadsKeep DEF DeleteReads

LEMMA RecallMemory ==
  ASSUME BaseInv, BaseInv', MemoryInv, NEW c \in Clients, Recall(c) PROVE MemoryInv'
<1>1. PICK hits \in SUBSET {i \in Ids : vector[i] > 0} :
        Goes(c, [Resting EXCEPT !.pc = "lookup", !.op = "recall", !.hits = hits,
                                !.barred = {i \in Ids : Forgotten(i)}])
  BY DEF Recall
<1> DEFINE s == [Resting EXCEPT !.pc = "lookup", !.op = "recall", !.hits = hits,
                                !.barred = {i \in Ids : Forgotten(i)}]
<1>2. s.pc = "lookup" /\ s.barred = {i \in Ids : Forgotten(i)}
  BY DEF Resting
<1>3. Reads(c, s)
  <2> HIDE DEF s
  <2> QED
    BY <1>2 DEF Reads, Lost
<1> QED
  BY <1>1, <1>3, ReadsKeep DEF Recall

\* What the database gives is filtered by the state of the row: what was barred is
\* found only when it was revived.
LEMMA RecallLooksUpMemory ==
  ASSUME BaseInv, BaseInv', MemoryInv, NEW c \in Clients, RecallLooksUp(c) PROVE MemoryInv'
<1> DEFINE s == [client[c] EXCEPT !.pc = "answer", !.hits = {i \in @ : Recallable(i)}]
<1>1. client[c] \in ClientState /\ client[c].pc = "lookup" /\ Goes(c, s)
  BY DEF BaseInv, ClientSound, RecallLooksUp, Goes
<1>2. /\ s.pc = "answer" /\ s.barred = client[c].barred
      /\ s.hits = {i \in client[c].hits : Recallable(i)}
  BY <1>1 DEF ClientState
<1>3. \A i \in client[c].barred : Lost(i)
  BY <1>1 DEF MemoryInv, RecallSound
<1>4. Reads(c, s)
  <2> HIDE DEF s
  <2> QED
    BY <1>2, <1>3 DEF Reads, Lost, Forgotten, Recallable
<1> QED
  BY <1>1, <1>4, ReadsKeep DEF RecallLooksUp

-----------------------------------------------------------------------------
(* Steps that change a row *)

LEMMA RestingEnds ==
  ASSUME BaseInv, NEW c \in Clients, Goes(c, Resting) PROVE CallsEnd
  BY DEF BaseInv, ClientSound, Goes, CallsEnd

LEMMA RememberMemory ==
  ASSUME BaseInv, BaseInv', MemoryInv, NEW c \in Clients, NEW conv \in Conversations,
         NEW v \in Values, Remember(c, conv, v)
  PROVE  MemoryInv'
<1>1. /\ SavesLog(conv, "none") /\ NoteRevived
      /\ UNCHANGED <<tombstone, client>>
  BY DEF Remember
<1>2. PICK i \in Ids :
        /\ \/ /\ \A k \in Ids : ~Exists(k)
              /\ row[i].status = "none"
              /\ row' = [row EXCEPT ![i] = [NoRow EXCEPT !.status = "active",
                                                         !.version = 1, !.value = v]]
           \/ /\ Exists(i)
              /\ row' = [row EXCEPT ![i] = [Reindexed(@) EXCEPT !.status = "active",
                                                               !.value = v,
                                                               !.due = FALSE]]
        /\ evidence' = [evidence EXCEPT ![i] = @ \cup {logs'}]
        /\ CreateJob("index", i)
        /\ explicit' = explicit \cup {i}
  BY DEF Remember
<1>3. SameConvs /\ logs' = logs + 1 /\ logs \in Nat /\ tombstone \in Nat /\ tombstone <= logs
  BY <1>1, SavedLogs, BoundsAssumption DEF BaseInv, LogTypes, MemoryInv, BarrierKnown
<1>4. row \in [Ids -> Row] /\ evidence \in [Ids -> SUBSET LogIds]
  BY DEF BaseInv, RowTypes
<1>5. row'[i].status = "active"
  <2>1. [NoRow EXCEPT !.status = "active", !.version = 1, !.value = v].status = "active"
    BY DEF NoRow
  <2>2. [Reindexed(row[i]) EXCEPT !.status = "active", !.value = v, !.due = FALSE].status = "active"
    BY <1>4 DEF Reindexed, Row
  <2> QED
    BY <1>2, <1>4, <2>1, <2>2
<1>6. \A k \in Ids : k # i => ~Exists(k) /\ row'[k] = row[k] /\ evidence'[k] = evidence[k]
  BY <1>2, <1>4 DEF MemoryInv, OneRow
<1>7. evidence'[i] = evidence[i] \cup {logs'} /\ evidence'[i] \subseteq 1..logs'
  <2>1. evidence[i] \subseteq 1..logs
    BY DEF MemoryInv, EvidenceKnown
  <2> QED
    BY <1>2, <1>3, <1>4, <2>1
<1>8. revived \subseteq revived' /\ (Lost(i) => Lost(i)')
  BY <1>1, <1>2, <1>5 DEF NoteRevived, Lost, Forgotten, Exists, Live
<1>9. RowStep(i)
  <2>1. JobsFollow
    BY <1>2, CreatesFollows
  <2>2. tombstone' <= logs' /\ CallsEnd
    BY <1>1, <1>3 DEF CallsEnd
  <2> QED
    BY <1>2, <1>3, <1>5, <1>6, <1>7, <1>8, <2>1, <2>2 DEF RowStep
<1>10. PromotionEarned(i)'
  BY <1>2 DEF PromotionEarned
<1>11. \E l \in evidence'[i] : l > tombstone'
  BY <1>1, <1>3, <1>7
<1> QED
  BY <1>9, <1>10, <1>11, RowStepKeeps

LEMMA ForgetMemory ==
  ASSUME BaseInv, BaseInv', MemoryInv, NEW c \in Clients, NEW conv \in Conversations,
         Forget(c, conv)
  PROVE  MemoryInv'
<1>1. SavesLog(conv, "none") /\ UNCHANGED <<evidence, client, history>>
  BY DEF Forget
<1>2. SameConvs /\ logs' = logs + 1 /\ logs \in Nat /\ tombstone \in Nat /\ tombstone <= logs
  BY <1>1, SavedLogs, BoundsAssumption DEF BaseInv, LogTypes, MemoryInv, BarrierKnown
<1>3. CASE UNCHANGED <<row, tombstone, job>>
  BY <1>1, <1>2, <1>3, UnchangedFollows, QuietKeeps DEF QuietRows, CallsEnd
<1>4. CASE \E i \in Ids : /\ Exists(i)
                          /\ row' = [row EXCEPT ![i].status = "deleting"]
                          /\ tombstone' = Larger(tombstone, logs')
                          /\ CreateJob("delete_vector", i)
  <2>1. PICK i \in Ids : /\ Exists(i)
                        /\ row' = [row EXCEPT ![i].status = "deleting"]
                        /\ tombstone' = Larger(tombstone, logs')
                        /\ CreateJob("delete_vector", i)
    BY <1>4
  <2>2. row \in [Ids -> Row] /\ evidence[i] \subseteq 1..logs
    BY DEF BaseInv, RowTypes, MemoryInv, EvidenceKnown
  <2>3. row'[i].status = "deleting"
    BY <2>1, <2>2 DEF Row
  <2>4. RowStep(i)
    <3>1. \A k \in Ids : k # i => ~Exists(k) /\ row'[k] = row[k] /\ evidence'[k] = evidence[k]
      BY <1>1, <2>1, <2>2 DEF MemoryInv, OneRow
    <3>2. Lost(i)' /\ JobsFollow
      BY <2>1, <2>3, CreatesFollows DEF Lost, Forgotten
    <3>3. tombstone' <= logs'
      BY <1>2, <2>1 DEF Larger
    <3>4. evidence'[i] \subseteq 1..logs'
      BY <1>1, <1>2, <2>2
    <3> QED
      BY <1>1, <1>2, <2>3, <3>1, <3>2, <3>3, <3>4 DEF RowStep, CallsEnd, history
  <2> QED
    BY <2>3, <2>4, RowStepKeeps DEF PromotionEarned, Forgotten, Live
<1> QED
  BY <1>3, <1>4 DEF Forget

LEMMA ConfirmMemory ==
  ASSUME BaseInv, BaseInv', MemoryInv, NEW c \in Clients, NEW i \in Ids, Confirm(c, i)
  PROVE  MemoryInv'
<1>1. /\ row[i].status = "candidate"
      /\ row' = [row EXCEPT ![i] = [Reindexed(@) EXCEPT !.status = "active", !.due = FALSE]]
      /\ CreateJob("index", i) /\ explicit' = explicit \cup {i}
      /\ UNCHANGED <<evidence, log, logs, tombstone, client, revived>>
  BY DEF Confirm
<1>2. row \in [Ids -> Row] /\ logs \in Nat /\ tombstone <= logs /\ evidence[i] \subseteq 1..logs
  BY BoundsAssumption DEF BaseInv, RowTypes, LogTypes, MemoryInv, BarrierKnown, EvidenceKnown
<1>3. RowStep(i)
  <2>1. \A k \in Ids : k # i => ~Exists(k) /\ row'[k] = row[k] /\ evidence'[k] = evidence[k]
    BY <1>1, <1>2 DEF MemoryInv, OneRow, Exists
  <2>2. JobsFollow /\ SameConvs
    BY <1>1, CreatesFollows, SameLogs
  <2>3. Lost(i) => Lost(i)'
    BY <1>1 DEF Lost, Forgotten
  <2>4. row'[i].status = "active"
    <3>1. [Reindexed(row[i]) EXCEPT !.status = "active", !.due = FALSE].status = "active"
      BY <1>2 DEF Reindexed, Row
    <3> QED
      BY <1>1, <1>2, <3>1
  <2> QED
    BY <1>1, <1>2, <2>1, <2>2, <2>3, <2>4 DEF RowStep, CallsEnd
<1>4. i \notin revived' => \E l \in evidence'[i] : l > tombstone'
  BY <1>1 DEF MemoryInv, RestsOnNewEvidence, Live
<1>5. PromotionEarned(i)'
  BY <1>1 DEF PromotionEarned
<1> QED
  BY <1>3, <1>4, <1>5, RowStepKeeps

\* An update may bring an expired or a deleted row back, and then it is noted.
LEMMA UpdateWritesMemory ==
  ASSUME BaseInv, BaseInv', MemoryInv, NEW c \in Clients, NEW v \in Values, UpdateWrites(c, v)
  PROVE  MemoryInv'
<1>0. PICK i \in Ids, copy \in Row : i = client[c].id /\ copy = client[c].copy
  BY DEF BaseInv, ClientSound, ClientState, UpdateWrites
<1>1. /\ client[c].pc = "write" /\ NoteRevived /\ Goes(c, Resting)
      /\ UNCHANGED <<evidence, log, logs, tombstone, explicit>>
  BY DEF UpdateWrites
<1>2. /\ row \in [Ids -> Row]
      /\ logs \in Nat /\ tombstone <= logs /\ evidence[i] \subseteq 1..logs
  BY <1>1, BoundsAssumption
     DEF BaseInv, RowTypes, LogTypes, MemoryInv, BarrierKnown,
         EvidenceKnown
<1>3. CallsEnd /\ SameConvs
  BY <1>1, RestingEnds, SameLogs
<1>4. CASE UNCHANGED <<row, job>>
  <2>1. revived' = revived
    BY <1>1, <1>4 DEF NoteRevived, Live
  <2> QED
    BY <1>1, <1>3, <1>4, <2>1, UnchangedFollows, QuietKeeps DEF QuietRows, history
<1>5. CASE /\ Exists(i)
           /\ \E due \in BOOLEAN :
                row' = [row EXCEPT ![i] = [copy EXCEPT !.version = row[i].version + 1,
                                                       !.ready = FALSE, !.value = v,
                                                       !.due = due]]
           /\ CreateJob("index", i)
  <2>1. row'[i].status = copy.status
    BY <1>2, <1>5 DEF Row
  <2>2. copy.status \in Live \cup {"expired", "deleting"}
    BY <1>0, <1>1 DEF MemoryInv, CopySound, Row
  <2>3. Lost(i) /\ row'[i].status \in Live => i \in revived'
    BY <1>1, <1>2, <1>5 DEF NoteRevived, Lost, Forgotten, Exists
  <2>4. Lost(i) => Lost(i)'
    BY <1>1, <2>1, <2>2, <2>3 DEF Lost, Forgotten, Live
  <2>5. revived \subseteq revived'
    BY <1>1 DEF NoteRevived
  <2>6. RowStep(i)
    <3>1. \A k \in Ids : k # i => ~Exists(k) /\ row'[k] = row[k] /\ evidence'[k] = evidence[k]
      BY <1>1, <1>2, <1>5 DEF MemoryInv, OneRow
    <3>2. JobsFollow
      BY <1>2, <1>5, CreatesFollows
    <3> QED
      BY <1>1, <1>2, <1>3, <2>1, <2>2, <2>4, <2>5, <3>1, <3>2 DEF RowStep, Live
  <2>7. row'[i].status \in Live /\ i \notin revived' => \E l \in evidence'[i] : l > tombstone'
    <3>1. ASSUME row'[i].status \in Live, i \notin revived'
          PROVE  row[i].status \in Live /\ i \notin revived
      BY <1>2, <1>5, <2>3, <2>5, <3>1 DEF Lost, Forgotten, Exists, Row
    <3> QED
      BY <1>1, <1>2, <3>1 DEF MemoryInv, RestsOnNewEvidence
  <2>8. PromotionEarned(i)'
    <3>1. ASSUME i \notin explicit' \cup revived', row'[i].status = "active" \/ ActiveCopy(i)'
          PROVE  Enough(evidence[i])' \/ Forgotten(i)'
      <4>1. ActiveCopy(i)
        <5>1. CASE row'[i].status = "active"
          BY <1>0, <1>1, <2>1, <5>1 DEF ActiveCopy
        <5>2. CASE ActiveCopy(i)'
          BY <1>3, <5>2 DEF ActiveCopy, CallsEnd, Resting
        <5> QED
          BY <3>1, <5>1, <5>2
      <4>2. Enough(evidence[i]) \/ Forgotten(i)
        BY <1>1, <1>2, <2>5, <3>1, <4>1 DEF MemoryInv, PromotionEarned
      <4>3. Enough(evidence[i]) => Enough(evidence[i])'
        BY <1>1, <1>2, <1>3, EnoughStays
      <4>4. Forgotten(i) => Forgotten(i)'
        BY <2>4, <3>1 DEF Lost
      <4> QED
        BY <4>2, <4>3, <4>4
    <3> QED
      BY <3>1 DEF PromotionEarned
  <2> QED
    BY <1>2, <2>6, <2>7, <2>8, RowStepKeeps
<1> QED
  BY <1>0, <1>4, <1>5 DEF UpdateWrites

\* The only row there is is barred.
LEMMA BarrierMemory ==
  ASSUME BaseInv, BaseInv', MemoryInv, NEW c \in Clients, NEW i \in Ids, Exists(i),
         Barrier(c, i), client[c].pc = "mark", SameConvs, CallsEnd,
         UNCHANGED <<evidence, logs, history>>
  PROVE  MemoryInv'
<1>1. /\ row \in [Ids -> Row] /\ logs \in Nat /\ tombstone <= logs /\ client[c].max <= logs
      /\ evidence[i] \subseteq 1..logs
  BY BoundsAssumption DEF BaseInv, RowTypes, LogTypes, MemoryInv, BarrierKnown, EvidenceKnown
<1>2. row'[i].status = "deleting" /\ tombstone' <= logs'
  BY <1>1 DEF Barrier, Row, Larger
<1>3. RowStep(i)
  <2>1. \A k \in Ids : k # i => ~Exists(k) /\ row'[k] = row[k] /\ evidence'[k] = evidence[k]
    BY <1>1 DEF Barrier, MemoryInv, OneRow
  <2>2. Lost(i)'
    BY <1>2 DEF Lost, Forgotten
  <2>3. JobsFollow
    <3>1. SameJobs(Cancelled(job, i)) /\ i \in 0..MaxRows
      BY CancelledIsSame, BoundsAssumption DEF BaseInv, Ids
    <3> QED
      BY <2>2, <3>1, NewJobFollows DEF Barrier
  <2> QED
    BY <1>1, <1>2, <2>1, <2>2, <2>3 DEF RowStep, history
<1> QED
  BY <1>2, <1>3, RowStepKeeps DEF PromotionEarned, Forgotten, Live

LEMMA MarkDeletingMemory ==
  ASSUME BaseInv, BaseInv', MemoryInv, NEW c \in Clients,
         MarkDeleting(c) \/ MarkDeletingByScope(c)
  PROVE  MemoryInv'
<1>1. /\ client[c].pc = "mark" /\ Goes(c, Resting) /\ UNCHANGED <<evidence, logs, history>>
      /\ UNCHANGED log \/ (\E set : SignalsCancelled(set))
  BY DEF MarkDeleting, MarkDeletingByScope
<1>2. SameConvs /\ CallsEnd
  BY <1>1, SameLogs, SignalsCancelledLogs, RestingEnds
<1>3. CASE UNCHANGED <<row, tombstone, job>>
  BY <1>1, <1>2, <1>3, UnchangedFollows, QuietKeeps DEF QuietRows
<1>4. CASE \E i \in Ids : Exists(i) /\ Barrier(c, i)
  BY <1>1, <1>2, <1>4, BarrierMemory
<1>5. \/ UNCHANGED <<row, tombstone, job>>
      \/ \E i \in Ids : Exists(i) /\ Barrier(c, i)
  <2>1. client[c].op = "delete" => client[c].id \in Ids
    BY <1>1 DEF BaseInv, ClientSound
  <2> QED
    BY <2>1 DEF MarkDeleting, MarkDeletingByScope
<1> QED
  BY <1>3, <1>4, <1>5

LEMMA ExpireDueMemory ==
  ASSUME BaseInv, BaseInv', MemoryInv, NEW i \in Ids, ExpireDue(i) PROVE MemoryInv'
<1>1. /\ Exists(i) /\ row' = [row EXCEPT ![i].status = "expired"] /\ CreateJob("expire", i)
      /\ UNCHANGED <<evidence, log, logs, tombstone, client, history>>
  BY DEF ExpireDue, Exists, Live
<1>2. row \in [Ids -> Row] /\ logs \in Nat /\ tombstone <= logs /\ evidence[i] \subseteq 1..logs
  BY BoundsAssumption DEF BaseInv, RowTypes, LogTypes, MemoryInv, BarrierKnown, EvidenceKnown
<1>3. row'[i].status = "expired"
  BY <1>1, <1>2 DEF Row
<1>4. RowStep(i)
  <2>1. \A k \in Ids : k # i => ~Exists(k) /\ row'[k] = row[k] /\ evidence'[k] = evidence[k]
    BY <1>1, <1>2 DEF MemoryInv, OneRow
  <2>2. Lost(i)' /\ JobsFollow /\ SameConvs
    BY <1>1, <1>3, CreatesFollows, SameLogs DEF Lost, Forgotten
  <2> QED
    BY <1>1, <1>2, <1>3, <2>1, <2>2 DEF RowStep, CallsEnd, history
<1> QED
  BY <1>3, <1>4, RowStepKeeps DEF PromotionEarned, Forgotten, Live

\* What a merge does to the status of a row that is not being deleted.
LEMMA MergesIntoStatus ==
  ASSUME BaseInv, NEW i \in Ids, NEW l, NEW v, MergesInto(i, l, v), UNCHANGED log
  PROVE  /\ row'[i].status = row[i].status \/ row[i].status \in {"active", "candidate"}
         /\ row'[i].status # row[i].status => row'[i].status \in {"active", "conflicted"}
         /\ row'[i].status = "active" => row[i].status = "active" \/ Enough(evidence[i])'
         /\ \A k \in Ids : k # i => row'[k] = row[k]
<1>1. row \in [Ids -> Row] /\ evidence \in [Ids -> SUBSET LogIds]
  BY DEF BaseInv, RowTypes
<1>2. CASE UNCHANGED row
  BY <1>2
<1>3. CASE row' = [row EXCEPT ![i].status = IF @ \in {"active", "candidate"}
                                            THEN "conflicted" ELSE @]
  BY <1>1, <1>3 DEF Row
<1>4. CASE /\ row[i].status = "candidate" /\ Enough(evidence[i] \cup {l})
           /\ row' = [row EXCEPT ![i] = [Reindexed(@) EXCEPT !.status = "active"]]
  <2>1. evidence'[i] = evidence[i] \cup {l}
    BY <1>1 DEF MergesInto
  <2>2. Enough(evidence[i])'
    BY <1>4, <2>1 DEF Enough, Convs
  <2>3. [Reindexed(row[i]) EXCEPT !.status = "active"].status = "active"
    BY <1>1 DEF Reindexed, Row
  <2> QED
    BY <1>1, <1>4, <2>2, <2>3
<1> QED
  BY <1>2, <1>3, <1>4 DEF MergesInto

\* The merge of one candidate about one row.
LEMMA MergesIntoMemory ==
  ASSUME BaseInv, BaseInv', MemoryInv, NEW i \in Ids, NEW l \in 1..logs, NEW v \in Values,
         Exists(i), row[i].status # "deleting", MergesInto(i, l, v),
         UNCHANGED <<log, logs, tombstone, client, history>>
  PROVE  MemoryInv'
<1>1. /\ row \in [Ids -> Row] /\ evidence \in [Ids -> SUBSET LogIds]
      /\ logs \in Nat /\ tombstone <= logs /\ evidence[i] \subseteq 1..logs
  BY BoundsAssumption
     DEF BaseInv, RowTypes, LogTypes, MemoryInv, BarrierKnown, EvidenceKnown
<1>2. /\ row'[i].status = row[i].status \/ row[i].status \in {"active", "candidate"}
      /\ row'[i].status # row[i].status => row'[i].status \in {"active", "conflicted"}
      /\ row'[i].status = "active" => row[i].status = "active" \/ Enough(evidence[i])'
      /\ \A k \in Ids : k # i => row'[k] = row[k]
  BY MergesIntoStatus
<1>3. evidence' = [evidence EXCEPT ![i] = evidence[i] \cup {l}]
  BY DEF MergesInto
<1>4. evidence[i] \subseteq evidence'[i] /\ evidence'[i] \subseteq 1..logs'
  BY <1>1, <1>3
<1>5. Forgotten(i) <=> Forgotten(i)'
  BY <1>2 DEF Forgotten
<1>6. SameConvs /\ CallsEnd
  BY SameLogs DEF CallsEnd
<1>7. RowStep(i)
  <2>1. \A k \in Ids : k # i => ~Exists(k) /\ row'[k] = row[k] /\ evidence'[k] = evidence[k]
    BY <1>1, <1>2, <1>3 DEF MemoryInv, OneRow
  <2>2. JobsFollow
    BY UnchangedFollows, CreatesFollows DEF MergesInto
  <2> QED
    BY <1>1, <1>2, <1>4, <1>5, <1>6, <2>1, <2>2 DEF RowStep, Lost, history
<1>8. row'[i].status \in Live /\ i \notin revived' => \E m \in evidence'[i] : m > tombstone'
  BY <1>2, <1>4 DEF MemoryInv, RestsOnNewEvidence, Live, history
<1>9. PromotionEarned(i)'
  <2>1. Enough(evidence[i]) => Enough(evidence[i])'
    BY <1>1, <1>4, <1>6, EnoughStays
  <2>2. ActiveCopy(i)' <=> ActiveCopy(i)
    BY DEF ActiveCopy
  <2> QED
    BY <1>2, <1>5, <2>1, <2>2 DEF MemoryInv, PromotionEarned, history
<1> QED
  BY <1>7, <1>8, <1>9, RowStepKeeps

LEMMA MergesNewMemory ==
  ASSUME BaseInv, BaseInv', MemoryInv, NEW i \in Ids, NEW l \in 1..logs, NEW v \in Values,
         \A k \in Ids : ~Exists(k), MergesNew(i, l, v),
         UNCHANGED <<log, logs, tombstone, client, history>>
  PROVE  MemoryInv'
<1>1. SameConvs /\ CallsEnd
  BY SameLogs DEF CallsEnd
<1>2. CASE UNCHANGED <<row, evidence, job>>
  BY <1>1, <1>2, UnchangedFollows, QuietKeeps DEF QuietRows
<1>3. CASE /\ Fresh(l) /\ row[i].status = "none"
           /\ row' = [row EXCEPT ![i] = [NoRow EXCEPT !.status = "candidate",
                                                      !.version = 1, !.value = v]]
           /\ evidence' = [evidence EXCEPT ![i] = {l}]
           /\ CreateJob("index", i)
  <2>1. /\ row \in [Ids -> Row] /\ evidence \in [Ids -> SUBSET LogIds]
        /\ tombstone <= logs
    BY DEF BaseInv, RowTypes, MemoryInv, BarrierKnown
  <2>2. row'[i].status = "candidate" /\ evidence'[i] = {l}
    <3>1. [NoRow EXCEPT !.status = "candidate", !.version = 1, !.value = v].status = "candidate"
      BY DEF NoRow
    <3> QED
      BY <1>3, <2>1, <3>1
  <2>3. RowStep(i)
    <3>1. \A k \in Ids : k # i => ~Exists(k) /\ row'[k] = row[k] /\ evidence'[k] = evidence[k]
      BY <1>3, <2>1
    <3>2. JobsFollow
      BY <1>3, CreatesFollows
    <3>3. Lost(i) => Lost(i)'
      BY <1>3 DEF Lost, Forgotten, history
    <3> QED
      BY <1>1, <2>1, <2>2, <3>1, <3>2, <3>3 DEF RowStep, history
  <2>4. \E m \in evidence'[i] : m > tombstone'
    BY <1>3, <2>2 DEF Fresh
  <2>5. PromotionEarned(i)'
    <3>1. ~ActiveCopy(i)'
      BY <1>3 DEF MemoryInv, CopySound, ActiveCopy
    <3> QED
      BY <2>2, <3>1 DEF PromotionEarned
  <2> QED
    BY <2>3, <2>4, <2>5, RowStepKeeps
<1> QED
  BY <1>2, <1>3 DEF MergesNew

LEMMA MergeMemory ==
  ASSUME BaseInv, BaseInv', MemoryInv, NEW w \in Workers, NEW l \in 1..logs, NEW v \in Values,
         Merge(w, l, v)
  PROVE  MemoryInv'
<1>1. UNCHANGED <<log, logs, tombstone, client, history>>
  BY DEF Merge
<1>2. CASE \E i \in Ids : Exists(i) /\ row[i].status = "deleting" /\ UNCHANGED <<row, evidence, job>>
  BY <1>1, <1>2, SameLogs, UnchangedFollows, QuietKeeps DEF QuietRows, CallsEnd
<1>3. CASE \E i \in Ids : Exists(i) /\ row[i].status # "deleting" /\ MergesInto(i, l, v)
  BY <1>1, <1>3, MergesIntoMemory
<1>4. CASE (\A k \in Ids : ~Exists(k)) /\ \E i \in Ids : MergesNew(i, l, v)
  BY <1>1, <1>4, MergesNewMemory
<1> QED
  BY <1>2, <1>3, <1>4 DEF Merge

\* The evidence that is removed is that of a lost row.
LEMMA CompleteDeleteMemory ==
  ASSUME BaseInv, BaseInv', MemoryInv, NEW w \in Workers, CompleteDelete(w) PROVE MemoryInv'
<1>1. worker[w].pc = "erase" /\ UNCHANGED <<vector, log, logs, tombstone, job, client, history>>
  BY DEF CompleteDelete, Around
<1>2. SameConvs /\ JobsFollow /\ CallsEnd
  BY <1>1, SameLogs, UnchangedFollows DEF CallsEnd
<1>3. CASE UNCHANGED <<row, evidence>>
  BY <1>1, <1>2, <1>3, QuietKeeps DEF QuietRows
<1>4. CASE /\ evidence' = [evidence EXCEPT ![Mem(w)] = {}]
           /\ row' = IF row[Mem(w)].status = "deleting"
                     THEN [row EXCEPT ![Mem(w)] = [NoRow EXCEPT !.status = "gone"]] ELSE row
  <2>1. worker[w].job \in Jobs /\ Mine(w).type = "delete_vector"
    BY <1>1 DEF BaseInv, WorkSound, WorkerSound, MayHandle
  <2>2. PICK i \in Ids : i = Mem(w) /\ Lost(i)
    BY <2>1 DEF MemoryInv, DeletionsLost, JobLost, Mem, Mine
  <2>3. /\ row \in [Ids -> Row] /\ evidence \in [Ids -> SUBSET LogIds] /\ tombstone <= logs
    BY DEF BaseInv, RowTypes, MemoryInv, BarrierKnown
  <2>4. /\ evidence'[i] = {}
        /\ row'[i].status = IF row[i].status = "deleting" THEN "gone" ELSE row[i].status
        /\ \A k \in Ids : k # i => row'[k] = row[k] /\ evidence'[k] = evidence[k]
    BY <1>4, <2>2, <2>3 DEF NoRow
  <2>5. Lost(i)'
    BY <1>1, <2>2, <2>4 DEF Lost, Forgotten, history
  <2>6. RowStep(i)
    <3>1. \A k \in Ids : k # i => (Exists(i)' \/ tombstone' # tombstone => ~Exists(k))
      BY <1>1, <2>4 DEF MemoryInv, OneRow, Exists
    <3> QED
      BY <1>1, <1>2, <2>3, <2>4, <2>5, <3>1 DEF RowStep, history
  <2>7. i \in revived' \/ Forgotten(i)'
    BY <2>5 DEF Lost
  <2> QED
    BY <2>6, <2>7, RowStepKeeps DEF PromotionEarned, Forgotten, Live
<1> QED
  BY <1>3, <1>4 DEF CompleteDelete

-----------------------------------------------------------------------------

LEMMA MemoryStep == BaseInv /\ BaseInv' /\ MemoryInv /\ [Next]_vars => MemoryInv'
<1> SUFFICES ASSUME BaseInv, BaseInv', MemoryInv, [Next]_vars PROVE MemoryInv'
  OBVIOUS
<1>1. CASE UNCHANGED vars
  BY <1>1, SameLogs, UnchangedFollows, QuietKeeps
     DEF vars, stored, history, QuietRows, CallsEnd
<1>2. ASSUME NEW c \in Clients, Calls(c) PROVE MemoryInv'
  <2>1. CASE \E conv \in Conversations : Turn(c, conv)
    BY <2>1, QuietCalls, QuietKeeps
  <2>2. CASE \E conv \in Conversations : Forget(c, conv) \/ \E v \in Values : Remember(c, conv, v)
    BY <2>2, ForgetMemory, RememberMemory
  <2>3. CASE \E i \in Ids : Confirm(c, i) \/ UpdateReads(c, i)
    BY <2>3, ConfirmMemory, UpdateReadsMemory
  <2>4. CASE DeleteReads(c, "scope", 0) \/ \E i \in Ids : DeleteReads(c, "delete", i)
    BY <2>4, DeleteReadsMemory
  <2>5. CASE Recall(c)
    BY <2>5, RecallMemory
  <2> QED
    BY <1>2, <2>1, <2>2, <2>3, <2>4, <2>5 DEF Calls
<1>3. ASSUME NEW c \in Clients, CallRuns(c) \/ CallDies(c) PROVE MemoryInv'
  <2>1. CASE RecallEnds(c) \/ CallDies(c)
    BY <2>1, QuietCalls, QuietKeeps
  <2> QED
    BY <1>3, <2>1, MarkDeletingMemory, UpdateWritesMemory, RecallLooksUpMemory DEF CallRuns
<1>4. CASE Schedules \/ RoundDies
  <2>1. CASE \E i \in Ids : ExpireDue(i)
    BY <2>1, ExpireDueMemory
  <2>2. CASE \/ \E conv \in Conversations : ScheduleBatch(conv)
             \/ Scan \/ MarkPublished \/ (\E j \in Jobs : PublishJob(j)) \/ RoundDies
    BY <2>2, QuietRounds, QuietKeeps
  <2> QED
    BY <1>4, <2>1, <2>2 DEF Schedules
<1>5. ASSUME NEW w \in Workers, Handles(w) \/ Crash(w) \/ \E j \in Jobs : Claim(w, j)
      PROVE  MemoryInv'
  <2>1. CASE \E l \in 1..logs, v \in Values : Merge(w, l, v)
    BY <2>1, MergeMemory
  <2>2. CASE CompleteDelete(w)
    BY <2>2, CompleteDeleteMemory
  <2>3. CASE \/ ReadBatch(w) \/ MergeFails(w) \/ CompleteSignals(w) \/ Indexes(w)
             \/ StillExpired(w) \/ RemoveVector(w)
    BY <2>3, QuietHandling, QuietKeeps
  <2>4. CASE Finish(w) \/ Fail(w) \/ Crash(w) \/ \E j \in Jobs : Claim(w, j)
    BY <2>4, QuietJobs, QuietKeeps
  <2> QED
    BY <1>5, <2>1, <2>2, <2>3, <2>4 DEF Handles, Consolidates, Deletes
<1>6. CASE (\E j \in Jobs : LeaseExpires(j)) \/ (\E i \in Ids : Elapses(i))
  BY <1>6, QuietTime, QuietKeeps
<1> QED
  BY <1>1, <1>2, <1>3, <1>4, <1>5, <1>6 DEF Next

LEMMA SpecMemory == Spec => []MemoryInv
  BY MemoryInit, MemoryStep, SpecBase, PTL DEF Spec

\* Neither a batch queued before a deletion nor one that runs beside it restores what
\* was forgotten: a memory that is there has a log younger than the barrier among its
\* evidence. Older logs may stand beside it.
THEOREM EvidenceIsNew == Spec => []RestsOnNewEvidence
<1>1. MemoryInv => RestsOnNewEvidence
  BY DEF MemoryInv
<1> QED
  BY <1>1, SpecMemory, PTL

\* A memory nobody stated or confirmed is active only after PromoteMin conversations,
\* however often its jobs run and whichever copy of the row an update writes back.
THEOREM PromotionIsEarned == Spec => []PromotedByConversations
<1>1. MemoryInv => PromotedByConversations
  BY DEF MemoryInv, PromotionEarned, Enough, Forgotten, PromotedByConversations
<1> QED
  BY <1>1, SpecMemory, PTL

\* A question asked after a memory expired or was forgotten does not get it.
THEOREM ForgottenStaysOut == Spec => []ForgottenNotRecalled
<1>1. MemoryInv => ForgottenNotRecalled
  BY DEF MemoryInv, RecallSound, ForgottenNotRecalled
<1> QED
  BY <1>1, SpecMemory, PTL

-----------------------------------------------------------------------------
(* What any step may do to a row and to a job *)

\* A row is made once and gone for good, a lost row stays lost or is revived, and a
\* row goes when its vector and its evidence are gone.
StatusMoves(i) ==
  /\ row[i].status # "none" => row'[i].status # "none"
  /\ row[i].status = "gone" => row'[i].status = "gone"
  /\ Lost(i) => Lost(i)'
  /\ row'[i].status = "gone" => \/ row[i].status = "gone" /\ evidence'[i] = evidence[i]
                                \/ Emptied(i) /\ evidence'[i] = {}

\* An index consumer marks the row.
Marks(i) == \E w \in Workers : worker[w].pc = "mark" /\ Mem(w) = i /\ IndexCurrent(w)

\* A new version of a row is not ready, and a row that may not be indexed may be
\* indexed again only in a new version.
VersionMoves(i) ==
  \/ row'[i].status = "gone"
  \/ /\ row'[i].version = row[i].version
     /\ row'[i].ready => row[i].ready \/ Marks(i)
     /\ Exists(i)' => Exists(i)
     /\ Indexable(i)' => Indexable(i)
  \/ /\ ~row'[i].ready
     /\ row[i].status = "none" \/ row'[i].version > row[i].version

\* A job keeps its kind and its row, unless its slot is used for another job.
JobMoves(j) ==
  \/ /\ job'[j].type = job[j].type /\ job'[j].mem = job[j].mem
     /\ job[j].status = "unused" => job'[j].status = "unused"
  \/ /\ Spent(j)
     /\ job'[j].type # "consolidate" =>
          \E i \in Ids : job'[j].mem = i /\ row'[i].status # "none"

RowsMove == /\ revived \subseteq revived'
            /\ \A i \in Ids : StatusMoves(i) /\ VersionMoves(i)

JobsMove == \A j \in Jobs : JobMoves(j)

LEMMA SameRowsMove ==
  ASSUME UNCHANGED <<row, evidence>>, revived \subseteq revived' PROVE RowsMove
<1>1. ASSUME NEW i \in Ids PROVE StatusMoves(i)
  BY DEF StatusMoves, Lost, Forgotten
<1>2. ASSUME NEW i \in Ids PROVE VersionMoves(i)
  BY DEF VersionMoves, Exists, Indexable
<1> QED
  BY <1>1, <1>2 DEF RowsMove

\* A step that changes one row.
LEMMA OneRowMoves ==
  ASSUME NEW i \in Ids, revived \subseteq revived',
         \A k \in Ids : k # i => row'[k] = row[k] /\ evidence'[k] = evidence[k],
         StatusMoves(i), VersionMoves(i)
  PROVE  RowsMove
<1>1. ASSUME NEW k \in Ids, k # i PROVE StatusMoves(k)
  BY <1>1 DEF StatusMoves, Lost, Forgotten
<1>2. ASSUME NEW k \in Ids, k # i PROVE VersionMoves(k)
  BY <1>2 DEF VersionMoves, Exists, Indexable
<1> QED
  BY <1>1, <1>2 DEF RowsMove

\* A status that does not make the row fit for the index.
LEMMA StatusSet ==
  ASSUME BaseInv, NEW i \in Ids, Exists(i), NEW s \in {"expired", "deleting", "conflicted"},
         row' = [row EXCEPT ![i].status = s], revived \subseteq revived',
         \A k \in Ids : k # i => evidence'[k] = evidence[k],
         s = "conflicted" => ~Forgotten(i)
  PROVE  RowsMove
<1>1. row[i] \in Row /\ row \in [Ids -> Row]
  BY DEF BaseInv, RowTypes
<1>2. /\ row'[i].status = s /\ row'[i].version = row[i].version /\ row'[i].ready = row[i].ready
      /\ \A k \in Ids : k # i => row'[k] = row[k]
  BY <1>1 DEF Row
<1>3. StatusMoves(i)
  BY <1>2 DEF StatusMoves, Lost, Forgotten, Exists
<1>4. VersionMoves(i)
  BY <1>2 DEF VersionMoves, Indexable, Exists
<1> QED
  BY <1>2, <1>3, <1>4, OneRowMoves

LEMMA SameJobsMove == ASSUME SameJobs(job') PROVE JobsMove
  BY DEF SameJobs, JobsMove, JobMoves

LEMMA NewJobMoves ==
  ASSUME HasSlot, NEW jobs, SameJobs(jobs), NEW type, NEW id \in 0..MaxRows, NEW signals,
         job' = WithJob(jobs, type, id, signals),
         type # "consolidate" => id \in Ids /\ row'[id].status # "none"
  PROVE  JobsMove
<1>1. Slot \in Jobs /\ Spent(Slot)
  BY SlotIsSpent
<1>2. /\ \A j \in Jobs : j # Slot => job'[j] = jobs[j]
      /\ job'[Slot].type = type /\ job'[Slot].mem = id
  BY <1>1 DEF WithJob, SameJobs, NoJob
<1>3. ASSUME NEW j \in Jobs PROVE JobMoves(j)
  <2>1. CASE j = Slot
    BY <1>1, <1>2, <2>1 DEF JobMoves
  <2>2. CASE j # Slot
    BY <1>2, <2>2 DEF JobMoves, SameJobs
  <2> QED
    BY <2>1, <2>2
<1> QED
  BY <1>3 DEF JobsMove

LEMMA CreatesMove ==
  ASSUME BaseInv, NEW type \in {"index", "delete_vector", "expire"}, NEW id \in Ids,
         CreateJob(type, id), row'[id].status # "none"
  PROVE  JobsMove
<1>1. id \in 0..MaxRows
  BY BoundsAssumption DEF Ids
<1>2. SameJobs(job)
  BY UnchangedIsSame DEF BaseInv
<1> QED
  BY <1>1, <1>2, NewJobMoves DEF CreateJob

LEMMA SameJobMoves == UNCHANGED job => JobsMove
  BY DEF JobsMove, JobMoves

LEMMA RememberMoves ==
  ASSUME BaseInv, NEW c \in Clients, NEW conv \in Conversations, NEW v \in Values,
         Remember(c, conv, v)
  PROVE  RowsMove /\ JobsMove
<1>1. PICK i \in Ids :
        /\ \/ /\ row[i].status = "none"
              /\ row' = [row EXCEPT ![i] = [NoRow EXCEPT !.status = "active",
                                                        !.version = 1, !.value = v]]
           \/ /\ Exists(i)
              /\ row' = [row EXCEPT ![i] = [Reindexed(@) EXCEPT !.status = "active",
                                                               !.value = v, !.due = FALSE]]
        /\ evidence' = [evidence EXCEPT ![i] = @ \cup {logs'}]
        /\ CreateJob("index", i)
  BY DEF Remember
<1>2. /\ row \in [Ids -> Row] /\ row[i] \in Row /\ row[i].version \in Nat
      /\ \A k \in Ids : k # i => evidence'[k] = evidence[k]
  BY <1>1, BoundsAssumption DEF BaseInv, RowTypes, Row
<1>3. NoteRevived /\ revived \subseteq revived'
  BY DEF Remember, NoteRevived
<1>4. CASE /\ row[i].status = "none"
           /\ row' = [row EXCEPT ![i] = [NoRow EXCEPT !.status = "active",
                                                     !.version = 1, !.value = v]]
  <2>1. row'[i].status = "active" /\ ~row'[i].ready /\ \A k \in Ids : k # i => row'[k] = row[k]
    BY <1>2, <1>4 DEF NoRow
  <2>2. StatusMoves(i) /\ VersionMoves(i)
    BY <1>3, <1>4, <2>1 DEF StatusMoves, VersionMoves, Lost, Forgotten
  <2> QED
    BY <1>1, <1>2, <1>3, <2>1, <2>2, OneRowMoves, CreatesMove
<1>5. CASE /\ Exists(i)
           /\ row' = [row EXCEPT ![i] = [Reindexed(@) EXCEPT !.status = "active",
                                                            !.value = v, !.due = FALSE]]
  <2>1. /\ row'[i].status = "active" /\ ~row'[i].ready /\ row'[i].version = row[i].version + 1
        /\ \A k \in Ids : k # i => row'[k] = row[k]
    BY <1>2, <1>5 DEF Reindexed, Row
  <2>2. Lost(i) => i \in revived'
    BY <1>3, <1>5, <2>1 DEF Lost, Forgotten, Exists, NoteRevived, Live
  <2>3. StatusMoves(i) /\ VersionMoves(i)
    BY <1>2, <1>5, <2>1, <2>2 DEF StatusMoves, VersionMoves, Lost, Exists
  <2> QED
    BY <1>1, <1>2, <1>3, <2>1, <2>3, OneRowMoves, CreatesMove
<1> QED
  BY <1>1, <1>4, <1>5

LEMMA ForgetMoves ==
  ASSUME BaseInv, NEW c \in Clients, NEW conv \in Conversations, Forget(c, conv)
  PROVE  RowsMove /\ JobsMove
<1>1. CASE UNCHANGED <<row, job>>
  BY <1>1, SameRowsMove, SameJobMoves DEF Forget, history
<1>2. CASE \E i \in Ids : /\ Exists(i) /\ row' = [row EXCEPT ![i].status = "deleting"]
                          /\ CreateJob("delete_vector", i)
  <2>1. PICK i \in Ids : /\ Exists(i) /\ row' = [row EXCEPT ![i].status = "deleting"]
                         /\ CreateJob("delete_vector", i)
    BY <1>2
  <2>2. RowsMove
    BY <2>1, StatusSet DEF Forget, history
  <2>3. row'[i].status # "none"
    BY <2>1, <2>2 DEF RowsMove, StatusMoves, Exists
  <2> QED
    BY <2>1, <2>2, <2>3, CreatesMove
<1> QED
  BY <1>1, <1>2 DEF Forget

LEMMA ConfirmMoves ==
  ASSUME BaseInv, NEW c \in Clients, NEW i \in Ids, Confirm(c, i)
  PROVE  RowsMove /\ JobsMove
<1>1. row \in [Ids -> Row] /\ row[i] \in Row /\ row[i].version \in Nat
  BY BoundsAssumption DEF BaseInv, RowTypes, Row
<1>2. /\ row[i].status = "candidate" /\ UNCHANGED <<revived, evidence>> /\ CreateJob("index", i)
      /\ row' = [row EXCEPT ![i] = [Reindexed(@) EXCEPT !.status = "active", !.due = FALSE]]
  BY DEF Confirm
<1>3. /\ row'[i].status = "active" /\ ~row'[i].ready /\ row'[i].version = row[i].version + 1
      /\ \A k \in Ids : k # i => row'[k] = row[k]
  BY <1>1, <1>2 DEF Reindexed, Row
<1>4. StatusMoves(i) /\ VersionMoves(i)
  BY <1>1, <1>2, <1>3 DEF StatusMoves, VersionMoves, Lost, Forgotten
<1> QED
  BY <1>2, <1>3, <1>4, OneRowMoves, CreatesMove

LEMMA UpdateWritesMoves ==
  ASSUME BaseInv, MemoryInv, NEW c \in Clients, NEW v \in Values, UpdateWrites(c, v)
  PROVE  RowsMove /\ JobsMove
<1>0. PICK i \in Ids, copy \in Row : i = client[c].id /\ copy = client[c].copy
  BY DEF BaseInv, ClientSound, ClientState, UpdateWrites
<1>1. client[c].pc = "write" /\ NoteRevived /\ revived \subseteq revived' /\ UNCHANGED evidence
  BY DEF UpdateWrites, NoteRevived
<1>2. row \in [Ids -> Row] /\ row[i] \in Row /\ row[i].version \in Nat
  BY BoundsAssumption DEF BaseInv, RowTypes, Row
<1>3. CASE UNCHANGED <<row, job>>
  BY <1>1, <1>3, SameRowsMove, SameJobMoves
<1>4. CASE /\ Exists(i)
           /\ \E due \in BOOLEAN :
                row' = [row EXCEPT ![i] = [copy EXCEPT !.version = row[i].version + 1,
                                                       !.ready = FALSE, !.value = v,
                                                       !.due = due]]
           /\ CreateJob("index", i)
  <2>1. /\ row'[i].status = copy.status /\ ~row'[i].ready
        /\ row'[i].version = row[i].version + 1
        /\ \A k \in Ids : k # i => row'[k] = row[k]
    BY <1>2, <1>4 DEF Row
  <2>2. copy.status \in Live \cup {"expired", "deleting"}
    BY <1>0, <1>1 DEF MemoryInv, CopySound, Row
  <2>3. Lost(i) => Lost(i)'
    BY <1>1, <1>4, <2>1, <2>2 DEF NoteRevived, Lost, Forgotten, Exists, Live
  <2>4. StatusMoves(i) /\ VersionMoves(i)
    BY <1>2, <1>4, <2>1, <2>2, <2>3 DEF StatusMoves, VersionMoves, Exists, Live
  <2>5. row'[i].status # "none"
    BY <2>1, <2>2 DEF Live
  <2> QED
    BY <1>1, <1>4, <2>1, <2>4, <2>5, OneRowMoves, CreatesMove
<1> QED
  BY <1>0, <1>3, <1>4 DEF UpdateWrites

LEMMA MarkDeletingMoves ==
  ASSUME BaseInv, NEW c \in Clients, MarkDeleting(c) \/ MarkDeletingByScope(c)
  PROVE  RowsMove /\ JobsMove
<1>1. UNCHANGED <<evidence, explicit, revived>>
  BY DEF MarkDeleting, MarkDeletingByScope, history
<1>2. CASE UNCHANGED <<row, job>>
  BY <1>1, <1>2, SameRowsMove, SameJobMoves
<1>3. ASSUME NEW i \in Ids, Exists(i), Barrier(c, i) PROVE RowsMove /\ JobsMove
  <2>1. RowsMove
    BY <1>1, <1>3, StatusSet DEF Barrier
  <2>2. row'[i].status # "none"
    BY <1>3, <2>1 DEF RowsMove, StatusMoves, Exists
  <2>3. SameJobs(Cancelled(job, i)) /\ i \in 0..MaxRows
    BY CancelledIsSame, BoundsAssumption DEF BaseInv, Ids
  <2> QED
    BY <1>3, <2>1, <2>2, <2>3, NewJobMoves DEF Barrier
<1>4. UNCHANGED <<row, job>> \/ \E i \in Ids : Exists(i) /\ Barrier(c, i)
  <2>1. client[c].pc = "mark" /\ client[c].op = "delete" => client[c].id \in Ids
    BY DEF BaseInv, ClientSound
  <2> QED
    BY <2>1 DEF MarkDeleting, MarkDeletingByScope
<1> QED
  BY <1>2, <1>3, <1>4

LEMMA ExpiryMoves ==
  ASSUME BaseInv, NEW i \in Ids, ExpireDue(i) \/ Elapses(i) PROVE RowsMove /\ JobsMove
<1>1. UNCHANGED <<evidence, explicit, revived>> /\ Exists(i)
  BY DEF history, ExpireDue, Elapses, Exists, Live
<1>2. CASE ExpireDue(i)
  <2>1. row' = [row EXCEPT ![i].status = "expired"] /\ CreateJob("expire", i)
    BY <1>2 DEF ExpireDue
  <2>2. RowsMove
    BY <1>1, <2>1, StatusSet
  <2>3. row'[i].status # "none"
    BY <1>1, <2>2 DEF RowsMove, StatusMoves, Exists
  <2> QED
    BY <2>1, <2>2, <2>3, CreatesMove
<1>3. CASE Elapses(i)
  <2>1. row' = [row EXCEPT ![i].due = TRUE] /\ UNCHANGED job
    BY <1>3 DEF Elapses
  <2>2. row \in [Ids -> Row] /\ row[i] \in Row
    BY DEF BaseInv, RowTypes
  <2>3. /\ row'[i].status = row[i].status /\ row'[i].version = row[i].version
        /\ row'[i].ready = row[i].ready
        /\ \A k \in Ids : k # i => row'[k] = row[k]
    BY <2>1, <2>2 DEF Row
  <2>4. StatusMoves(i) /\ VersionMoves(i)
    BY <1>1, <2>3 DEF StatusMoves, VersionMoves, Lost, Forgotten, Exists, Indexable
  <2> QED
    BY <1>1, <2>1, <2>3, <2>4, OneRowMoves, SameJobMoves
<1> QED
  BY <1>2, <1>3

LEMMA ScheduleMoves ==
  ASSUME BaseInv, NEW conv \in Conversations, ScheduleBatch(conv) PROVE RowsMove /\ JobsMove
<1>1. PICK k \in 1..BatchSize : job' = WithJob(job, "consolidate", 0, First(Waiting(conv), k))
  BY DEF ScheduleBatch
<1>2. HasSlot /\ UNCHANGED <<row, evidence, revived>>
  BY DEF ScheduleBatch, history
<1>3. 0 \in 0..MaxRows /\ SameJobs(job)
  BY BoundsAssumption, UnchangedIsSame DEF BaseInv
<1> QED
  BY <1>1, <1>2, <1>3, NewJobMoves, SameRowsMove

\* Steps that leave the rows alone and change at most the status of jobs.
LEMMA JobStatusMoves ==
  ASSUME BaseInv, UNCHANGED <<row, evidence, revived>>,
         \/ UNCHANGED job
         \/ \E j \in Jobs, s \in {"published", "processing", "completed", "failed"} :
              /\ job[j].status # "unused"
              /\ \/ job' = [job EXCEPT ![j].status = s, ![j].expired = FALSE]
                 \/ job' = [job EXCEPT ![j].status = s]
                 \/ job' = [job EXCEPT ![j].expired = TRUE]
  PROVE  RowsMove /\ JobsMove
<1>1. RowsMove
  BY SameRowsMove
<1>2. JobSound
  BY DEF BaseInv
<1> QED
  BY <1>1, <1>2, SameJobMoves, JobUpdates, SameJobsMove

LEMMA RoundMoves ==
  ASSUME BaseInv, MarkPublished \/ \E j \in Jobs : PublishJob(j) \/ LeaseExpires(j)
  PROVE  RowsMove /\ JobsMove
<1>1. UNCHANGED <<row, evidence, revived>>
  BY DEF MarkPublished, PublishJob, LeaseExpires, stored, history
<1>2. CASE MarkPublished
  <2>1. published \in Jobs
    BY <1>2, BoundsAssumption DEF MarkPublished, BaseInv, JobSound, Jobs
  <2> QED
    BY <1>1, <1>2, <2>1, JobStatusMoves DEF MarkPublished
<1>3. ASSUME NEW j \in Jobs, PublishJob(j) PROVE RowsMove /\ JobsMove
  <2>1. job[j].status # "unused"
    BY <1>3 DEF PublishJob, BaseInv, JobSound
  <2> QED
    BY <1>1, <1>3, <2>1, JobStatusMoves DEF PublishJob
<1>4. ASSUME NEW j \in Jobs, LeaseExpires(j) PROVE RowsMove /\ JobsMove
  BY <1>1, <1>4, JobStatusMoves DEF LeaseExpires
<1> QED
  BY <1>2, <1>3, <1>4

LEMMA BusyHasJob ==
  ASSUME BaseInv, NEW w \in Workers, worker[w].pc # "idle"
  PROVE  /\ worker[w].job \in Jobs /\ Mine(w).status # "unused"
         /\ MayHandle(worker[w].pc, Mine(w).type)
         /\ Mine(w).type # "consolidate" => Mem(w) \in Ids
  BY DEF BaseInv, WorkSound, WorkerSound, JobSound, Mine, Mem

LEMMA JobEndMoves ==
  ASSUME BaseInv, NEW w \in Workers,
         Finish(w) \/ Fail(w) \/ Crash(w) \/ (\E j \in Jobs : Claim(w, j))
  PROVE  RowsMove /\ JobsMove
<1>1. UNCHANGED <<row, evidence, revived>>
  BY DEF Finish, Fail, Crash, Claim, stored, history
<1>2. CASE Finish(w) \/ Fail(w)
  <2>1. worker[w].job \in Jobs /\ job[worker[w].job].status # "unused"
    BY <1>2, BusyHasJob DEF Finish, Fail, Mine
  <2> QED
    BY <1>1, <1>2, <2>1, JobStatusMoves DEF Finish, Fail
<1>3. CASE Crash(w)
  BY <1>1, <1>3, JobStatusMoves DEF Crash
<1>4. ASSUME NEW j \in Jobs, Claim(w, j) PROVE RowsMove /\ JobsMove
  <2>1. \/ UNCHANGED job
        \/ /\ job[j].status # "unused"
           /\ job' = [job EXCEPT ![j].status = "processing", ![j].expired = FALSE]
    BY <1>4 DEF Claim, Claimable
  <2> QED
    BY <1>1, <2>1, JobStatusMoves
<1> QED
  BY <1>2, <1>3, <1>4

LEMMA MergeMoves ==
  ASSUME BaseInv, NEW w \in Workers, NEW l, NEW v \in Values, Merge(w, l, v)
  PROVE  RowsMove /\ JobsMove
<1>1. UNCHANGED <<explicit, revived>> /\ row \in [Ids -> Row]
      /\ evidence \in [Ids -> SUBSET LogIds]
  BY DEF Merge, BaseInv, RowTypes, history
<1>2. CASE UNCHANGED <<row, evidence, job>>
  BY <1>1, <1>2, SameRowsMove, SameJobMoves
<1>3. ASSUME NEW i \in Ids, Exists(i), row[i].status # "deleting", MergesInto(i, l, v)
      PROVE  RowsMove /\ JobsMove
  <2>1. /\ row[i] \in Row /\ row[i].version \in Nat /\ row[i].status # "gone"
        /\ \A k \in Ids : k # i => evidence'[k] = evidence[k]
    BY <1>1, <1>3, BoundsAssumption DEF Row, MergesInto, Exists
  <2>2. CASE UNCHANGED row
    <3>1. StatusMoves(i) /\ VersionMoves(i)
      BY <1>1, <2>1, <2>2 DEF StatusMoves, VersionMoves, Lost, Forgotten, Exists, Indexable
    <3> QED
      BY <1>1, <1>3, <2>1, <2>2, <3>1, OneRowMoves, SameJobMoves, CreatesMove
         DEF MergesInto, Exists
  <2>3. CASE /\ row' = [row EXCEPT ![i].status = IF @ \in {"active", "candidate"}
                                                 THEN "conflicted" ELSE @]
             /\ UNCHANGED job
    <3>1. CASE row[i].status \in {"active", "candidate"}
      <4>1. row' = [row EXCEPT ![i].status = "conflicted"] /\ ~Forgotten(i)
        BY <1>1, <2>3, <3>1 DEF Forgotten
      <4> QED
        BY <1>1, <1>3, <2>1, <2>3, <4>1, StatusSet, SameJobMoves
    <3>2. CASE row[i].status \notin {"active", "candidate"}
      <4>1. row'[i] = row[i] /\ \A k \in Ids : k # i => row'[k] = row[k]
        BY <1>1, <2>1, <2>3, <3>2 DEF Row
      <4>2. StatusMoves(i) /\ VersionMoves(i)
        BY <1>1, <2>1, <4>1 DEF StatusMoves, VersionMoves, Lost, Forgotten, Exists, Indexable
      <4> QED
        BY <1>1, <2>1, <2>3, <4>1, <4>2, OneRowMoves, SameJobMoves
    <3> QED
      BY <3>1, <3>2
  <2>4. CASE /\ row[i].status = "candidate" /\ CreateJob("index", i)
             /\ row' = [row EXCEPT ![i] = [Reindexed(@) EXCEPT !.status = "active"]]
    <3>1. /\ row'[i].status = "active" /\ ~row'[i].ready
          /\ row'[i].version = row[i].version + 1
          /\ \A k \in Ids : k # i => row'[k] = row[k]
      BY <1>1, <2>1, <2>4 DEF Reindexed, Row
    <3>2. StatusMoves(i) /\ VersionMoves(i)
      BY <1>1, <2>1, <2>4, <3>1 DEF StatusMoves, VersionMoves, Lost, Forgotten
    <3> QED
      BY <1>1, <2>1, <2>4, <3>1, <3>2, OneRowMoves, CreatesMove
  <2> QED
    BY <1>3, <2>2, <2>3, <2>4 DEF MergesInto
<1>4. ASSUME NEW i \in Ids, MergesNew(i, l, v), ~UNCHANGED <<row, evidence, job>>
      PROVE  RowsMove /\ JobsMove
  <2>1. /\ row[i].status = "none" /\ CreateJob("index", i)
        /\ evidence' = [evidence EXCEPT ![i] = {l}]
        /\ row' = [row EXCEPT ![i] = [NoRow EXCEPT !.status = "candidate",
                                                   !.version = 1, !.value = v]]
    BY <1>4 DEF MergesNew
  <2>2. /\ row'[i].status = "candidate" /\ ~row'[i].ready
        /\ \A k \in Ids : k # i => row'[k] = row[k] /\ evidence'[k] = evidence[k]
    BY <1>1, <2>1 DEF NoRow
  <2>3. StatusMoves(i) /\ VersionMoves(i)
    BY <1>1, <2>1, <2>2 DEF StatusMoves, VersionMoves, Lost, Forgotten
  <2> QED
    BY <1>1, <2>1, <2>2, <2>3, OneRowMoves, CreatesMove
<1> QED
  BY <1>2, <1>3, <1>4 DEF Merge

\* Only a row that is being deleted is removed by the end of a deletion.
LEMMA CompleteDeleteMoves ==
  ASSUME BaseInv, NEW w \in Workers, CompleteDelete(w) PROVE RowsMove /\ JobsMove
<1>1. /\ UNCHANGED <<job, explicit, revived>> /\ worker[w].pc = "erase"
      /\ row \in [Ids -> Row] /\ evidence \in [Ids -> SUBSET LogIds]
  BY DEF CompleteDelete, Around, BaseInv, RowTypes, history
<1>2. PICK i : i = Mem(w)
  OBVIOUS
<1>3. i \in Ids
  BY <1>1, <1>2, BusyHasJob DEF MayHandle
<1>4. CASE UNCHANGED <<row, evidence>>
  BY <1>1, <1>4, SameRowsMove, SameJobMoves
<1>5. CASE /\ evidence' = [evidence EXCEPT ![i] = {}]
           /\ row' = IF row[i].status = "deleting"
                     THEN [row EXCEPT ![i] = [NoRow EXCEPT !.status = "gone"]] ELSE row
  <2>1. /\ evidence'[i] = {} /\ Emptied(i)
        /\ row'[i] = row[i] \/ (row[i].status = "deleting" /\ row'[i].status = "gone")
        /\ \A k \in Ids : k # i => row'[k] = row[k] /\ evidence'[k] = evidence[k]
    <3>1. Emptied(i)
      BY <1>1, <1>2 DEF Emptied
    <3>2. [NoRow EXCEPT !.status = "gone"].status = "gone"
      BY DEF NoRow
    <3>3. evidence'[i] = {} /\ \A k \in Ids : k # i => evidence'[k] = evidence[k]
      BY <1>1, <1>3, <1>5
    <3>4. /\ row'[i] = row[i] \/ (row[i].status = "deleting" /\ row'[i].status = "gone")
          /\ \A k \in Ids : k # i => row'[k] = row[k]
      <4>1. CASE row[i].status = "deleting"
        <5>1. PICK r : r = [NoRow EXCEPT !.status = "gone"]
          OBVIOUS
        <5>2. row' = [row EXCEPT ![i] = r] /\ r.status = "gone"
          BY <1>5, <3>2, <4>1, <5>1
        <5> QED
          BY <1>1, <1>3, <4>1, <5>2
      <4>2. CASE row[i].status # "deleting"
        BY <1>5, <4>2
      <4> QED
        BY <4>1, <4>2
    <3> QED
      BY <3>1, <3>3, <3>4
  <2>2. StatusMoves(i)
    BY <1>1, <2>1 DEF StatusMoves, Lost, Forgotten
  <2>3. VersionMoves(i)
    BY <2>1 DEF VersionMoves, Exists, Indexable
  <2> QED
    BY <1>1, <1>3, <2>1, <2>2, <2>3, OneRowMoves, SameJobMoves
<1> QED
  BY <1>2, <1>4, <1>5 DEF CompleteDelete

LEMMA MarkIndexedMoves ==
  ASSUME BaseInv, NEW w \in Workers, MarkIndexed(w) PROVE RowsMove /\ JobsMove
<1>1. /\ UNCHANGED <<job, evidence, explicit, revived>>
      /\ row \in [Ids -> Row] /\ worker[w].pc = "mark"
  BY DEF MarkIndexed, Around, BaseInv, RowTypes, history
<1>2. PICK i : i = Mem(w)
  OBVIOUS
<1>3. i \in Ids
  BY <1>1, <1>2, BusyHasJob DEF MayHandle
<1>4. CASE UNCHANGED row
  BY <1>1, <1>4, SameRowsMove, SameJobMoves
<1>5. CASE IndexCurrent(w) /\ row' = [row EXCEPT ![i].ready = TRUE]
  <2>1. row[i] \in Row
    BY <1>1, <1>3
  <2>2. /\ row'[i].status = row[i].status /\ row'[i].version = row[i].version
        /\ \A k \in Ids : k # i => row'[k] = row[k]
    BY <1>1, <1>3, <1>5, <2>1 DEF Row
  <2>3. Marks(i)
    BY <1>1, <1>2, <1>5 DEF Marks
  <2>4. StatusMoves(i)
    BY <1>1, <2>2 DEF StatusMoves, Lost, Forgotten
  <2>5. VersionMoves(i)
    BY <1>1, <2>2, <2>3 DEF VersionMoves, Exists, Indexable
  <2> QED
    BY <1>1, <1>3, <2>2, <2>4, <2>5, OneRowMoves, SameJobMoves
<1> QED
  BY <1>2, <1>4, <1>5 DEF MarkIndexed

\* Every step.
LEMMA Moves == ASSUME BaseInv, MemoryInv, [Next]_vars PROVE RowsMove /\ JobsMove
<1>1. CASE UNCHANGED vars
  BY <1>1, SameRowsMove, SameJobMoves DEF vars, stored, history
<1>2. ASSUME NEW c \in Clients, Calls(c) \/ CallRuns(c) \/ CallDies(c)
      PROVE  RowsMove /\ JobsMove
  <2>1. CASE \/ \E conv \in Conversations : Turn(c, conv)
             \/ \E i \in Ids : UpdateReads(c, i) \/ DeleteReads(c, "delete", i)
             \/ DeleteReads(c, "scope", 0) \/ Recall(c) \/ RecallLooksUp(c) \/ RecallEnds(c)
             \/ CallDies(c)
    <3>1. UNCHANGED <<row, evidence, revived, job>>
      BY <2>1 DEF Turn, UpdateReads, DeleteReads, Recall, RecallLooksUp, RecallEnds, CallDies,
                  stored, history
    <3> QED
      BY <3>1, SameRowsMove, SameJobMoves
  <2>2. CASE \E conv \in Conversations : Forget(c, conv) \/ \E v \in Values : Remember(c, conv, v)
    BY <2>2, ForgetMoves, RememberMoves
  <2>3. CASE (\E i \in Ids : Confirm(c, i)) \/ (\E v \in Values : UpdateWrites(c, v))
    BY <2>3, ConfirmMoves, UpdateWritesMoves
  <2>4. CASE MarkDeleting(c) \/ MarkDeletingByScope(c)
    BY <2>4, MarkDeletingMoves
  <2> QED
    BY <1>2, <2>1, <2>2, <2>3, <2>4 DEF Calls, CallRuns
<1>3. CASE Schedules \/ RoundDies
  <2>1. CASE Scan \/ RoundDies
    <3>1. UNCHANGED <<row, evidence, revived, job>>
      BY <2>1 DEF Scan, RoundDies, stored, history
    <3> QED
      BY <3>1, SameRowsMove, SameJobMoves
  <2> QED
    BY <1>3, <2>1, ScheduleMoves, ExpiryMoves, RoundMoves DEF Schedules
<1>4. ASSUME NEW w \in Workers, Handles(w) PROVE RowsMove /\ JobsMove
  <2>1. CASE \/ ReadBatch(w) \/ MergeFails(w) \/ CompleteSignals(w) \/ LoadMemory(w)
             \/ UpsertVector(w) \/ CheckIndex(w) \/ CleanIndex(w)
             \/ StillExpired(w) \/ RemoveVector(w)
    <3>1. UNCHANGED <<row, evidence, revived, job>>
      BY <2>1 DEF ReadBatch, MergeFails, CompleteSignals, LoadMemory, UpsertVector, CheckIndex,
                  CleanIndex, StillExpired, RemoveVector, Around, stored, history
    <3> QED
      BY <3>1, SameRowsMove, SameJobMoves
  <2>2. CASE \E l \in 1..logs, v \in Values : Merge(w, l, v)
    BY <2>2, MergeMoves
  <2>3. CASE CompleteDelete(w) \/ MarkIndexed(w)
    BY <2>3, CompleteDeleteMoves, MarkIndexedMoves
  <2>4. CASE Finish(w) \/ Fail(w)
    BY <2>4, JobEndMoves
  <2> QED
    BY <1>4, <2>1, <2>2, <2>3, <2>4 DEF Handles, Consolidates, Indexes, Deletes
<1>5. CASE \/ \E w \in Workers : Crash(w) \/ \E j \in Jobs : Claim(w, j)
           \/ \E j \in Jobs : LeaseExpires(j)
           \/ \E i \in Ids : Elapses(i)
  BY <1>5, JobEndMoves, RoundMoves, ExpiryMoves
<1> QED
  BY <1>1, <1>2, <1>3, <1>4, <1>5 DEF Next

-----------------------------------------------------------------------------
(* What any step may do to a consumer and to the vectors *)

IndexPcs == {"load", "upsert", "check", "clean", "mark"}

Steady(w) == /\ worker'[w].pc = worker[w].pc /\ worker'[w].job = worker[w].job
             /\ worker'[w].version = worker[w].version

\* A consumer comes to its end, or does nothing that concerns vectors.
Departs(w) ==
  /\ worker[w].pc \notin {"check", "clean"}
  /\ worker'[w].pc \notin IndexPcs \cup {"remove", "erase"}

\* A consumer begins with a job.
Begun(w) ==
  /\ worker[w].pc = "idle"
  /\ \E j \in Jobs : /\ job[j].type \in Kinds(w) /\ worker'[w].job = j
                     /\ worker'[w].pc = FirstStep(job[j].type)
                     /\ SameJobs(job')

Acts(w) ==
  \/ vector' = vector /\ (Departs(w) \/ Begun(w))
  \/ Crash(w)
  \/ LoadMemory(w) \/ UpsertVector(w) \/ CheckIndex(w) \/ CleanIndex(w)
  \/ StillExpired(w) \/ RemoveVector(w)

\* At most one consumer moves.
WorkersMove ==
  \/ vector' = vector /\ \A x \in Workers : Steady(x)
  \/ \E w \in Workers : /\ Acts(w)
                        /\ \A x \in Workers : x # w => Steady(x)

LEMMA UnchangedWorkers == UNCHANGED <<worker, vector>> => WorkersMove
  BY DEF WorkersMove, Steady

LEMMA OneWorkerMoves ==
  ASSUME NEW w \in Workers, NEW s, worker' = [worker EXCEPT ![w] = s], Acts(w)
  PROVE  WorkersMove
<1>1. \A x \in Workers : x # w => Steady(x)
  BY DEF Steady
<1> QED
  BY <1>1 DEF WorkersMove

LEMMA GotoMoves ==
  ASSUME BaseInv, NEW w \in Workers, NEW pc, Goto(w, pc)
  PROVE  /\ worker' = [worker EXCEPT ![w] = [worker[w] EXCEPT !.pc = pc]]
         /\ worker'[w].pc = pc /\ worker'[w].job = worker[w].job
         /\ worker'[w].version = worker[w].version
<1>1. worker \in [Workers -> WorkerState] /\ worker[w] \in WorkerState
  BY DEF BaseInv, WorkSound
<1>2. worker' = [worker EXCEPT ![w] = [worker[w] EXCEPT !.pc = pc]]
  BY DEF Goto
<1>3. worker'[w] = [worker[w] EXCEPT !.pc = pc]
  BY <1>1, <1>2
<1> QED
  BY <1>1, <1>2, <1>3 DEF WorkerState

LEMMA RestsMoves ==
  ASSUME BaseInv, NEW w \in Workers, Rests(w)
  PROVE  worker' = [worker EXCEPT ![w] = Idle] /\ worker'[w].pc = "idle"
<1>1. worker \in [Workers -> WorkerState]
  BY DEF BaseInv, WorkSound
<1> QED
  BY <1>1 DEF Rests, Idle

\* What a handler does outside the steps named in Acts.
LEMMA GotoDeparts ==
  ASSUME BaseInv, NEW w \in Workers, NEW pc \in {"merge", "finish", "fail"}, Goto(w, pc),
         worker[w].pc \notin {"check", "clean"}, vector' = vector
  PROVE  WorkersMove
<1>1. Departs(w)
  BY GotoMoves DEF Departs, IndexPcs
<1> QED
  BY <1>1, GotoMoves, OneWorkerMoves DEF Acts

LEMMA ConsolidatesMoves ==
  ASSUME BaseInv, NEW w \in Workers, Consolidates(w) PROVE WorkersMove
<1>1. vector' = vector /\ worker[w].pc \in {"read", "merge"}
  BY DEF Consolidates, ReadBatch, MergeFails, CompleteSignals, Merge, stored
<1>2. CASE \E pc \in {"merge", "finish", "fail"} : Goto(w, pc)
  BY <1>1, <1>2, GotoDeparts
<1>3. CASE worker' = [worker EXCEPT ![w].pc = "merge", ![w].left = MaxCandidates]
  <2>1. worker \in [Workers -> WorkerState] /\ worker[w] \in WorkerState
    BY DEF BaseInv, WorkSound
  <2>2. worker' = [worker EXCEPT ![w] = [worker[w] EXCEPT !.pc = "merge", !.left = MaxCandidates]]
    BY <1>3, <2>1 DEF WorkerState
  <2>3. worker'[w].pc = "merge"
    BY <2>1, <2>2 DEF WorkerState
  <2>4. Acts(w)
    BY <1>1, <2>3 DEF Acts, Departs, IndexPcs
  <2> QED
    BY <2>2, <2>4, OneWorkerMoves
<1>4. CASE worker' = [worker EXCEPT ![w].left = @ - 1]
  <2>1. worker \in [Workers -> WorkerState] /\ worker[w] \in WorkerState
    BY DEF BaseInv, WorkSound
  <2>2. \A x \in Workers : Steady(x)
    BY <1>4, <2>1 DEF WorkerState, Steady
  <2> QED
    BY <1>1, <2>2 DEF WorkersMove
<1> QED
  BY <1>2, <1>3, <1>4 DEF Consolidates, ReadBatch, MergeFails, CompleteSignals, Merge

LEMMA IndexesMoves ==
  ASSUME BaseInv, NEW w \in Workers, Indexes(w) PROVE WorkersMove
<1>1. CASE LoadMemory(w)
  <2>1. \/ \E pc \in {"finish", "fail"} : Goto(w, pc)
        \/ worker' = [worker EXCEPT ![w].pc = "upsert", ![w].version = row[Mem(w)].version]
    BY <1>1 DEF LoadMemory
  <2>2. \E s : worker' = [worker EXCEPT ![w] = s]
    <3>1. worker \in [Workers -> WorkerState] /\ worker[w] \in WorkerState
      BY DEF BaseInv, WorkSound
    <3>2. CASE worker' = [worker EXCEPT ![w].pc = "upsert", ![w].version = row[Mem(w)].version]
      <4>1. worker' = [worker EXCEPT ![w] = [worker[w] EXCEPT !.pc = "upsert",
                                                             !.version = row[Mem(w)].version]]
        BY <3>1, <3>2 DEF WorkerState
      <4> QED
        BY <4>1
    <3> QED
      BY <2>1, <3>2, GotoMoves
  <2> QED
    BY <1>1, <2>2, OneWorkerMoves DEF Acts
<1>2. CASE UpsertVector(w) \/ CheckIndex(w) \/ CleanIndex(w)
  <2>1. \E pc : Goto(w, pc)
    BY <1>2 DEF UpsertVector, CheckIndex, CleanIndex
  <2> QED
    BY <1>2, <2>1, GotoMoves, OneWorkerMoves DEF Acts
<1>3. CASE MarkIndexed(w)
  BY <1>3, GotoDeparts DEF MarkIndexed
<1> QED
  BY <1>1, <1>2, <1>3 DEF Indexes

LEMMA DeletesMoves ==
  ASSUME BaseInv, NEW w \in Workers, Deletes(w) PROVE WorkersMove
<1>1. CASE StillExpired(w) \/ RemoveVector(w)
  <2>1. \E pc : Goto(w, pc)
    BY <1>1 DEF StillExpired, RemoveVector
  <2> QED
    BY <1>1, <2>1, GotoMoves, OneWorkerMoves DEF Acts
<1>2. CASE CompleteDelete(w)
  BY <1>2, GotoDeparts DEF CompleteDelete
<1> QED
  BY <1>1, <1>2 DEF Deletes

LEMMA EndsMoves ==
  ASSUME BaseInv, NEW w \in Workers, Finish(w) \/ Fail(w) \/ Crash(w) PROVE WorkersMove
<1>1. Rests(w) /\ vector' = vector
  BY DEF Finish, Fail, Crash, stored
<1>2. Departs(w) \/ Crash(w)
  BY <1>1, RestsMoves DEF Departs, IndexPcs, Finish, Fail
<1> QED
  BY <1>1, <1>2, RestsMoves, OneWorkerMoves DEF Acts

LEMMA ClaimMoves ==
  ASSUME BaseInv, NEW w \in Workers, NEW j \in Jobs, Claim(w, j) PROVE WorkersMove
<1>1. vector' = vector /\ worker[w].pc = "idle" /\ job[j].type \in Kinds(w)
  BY DEF Claim, stored
<1>2. CASE UNCHANGED worker
  BY <1>1, <1>2, UnchangedWorkers
<1>3. CASE /\ Claimable(j)
           /\ job' = [job EXCEPT ![j].status = "processing", ![j].expired = FALSE]
           /\ worker' = [worker EXCEPT ![w] = [Idle EXCEPT !.pc = FirstStep(job[j].type),
                                                          !.job = j]]
  <2>1. PICK s : s = [Idle EXCEPT !.pc = FirstStep(job[j].type), !.job = j]
    OBVIOUS
  <2>2. s.pc = FirstStep(job[j].type) /\ s.job = j
    BY <2>1 DEF Idle
  <2>3. worker \in [Workers -> WorkerState] /\ JobSound
    BY DEF BaseInv, WorkSound
  <2>4. worker' = [worker EXCEPT ![w] = s] /\ worker'[w] = s
    BY <1>3, <2>1, <2>3
  <2>5. SameJobs(job')
    BY <1>3, <2>3, JobUpdates DEF Claimable
  <2>6. Begun(w)
    BY <1>1, <2>2, <2>4, <2>5 DEF Begun
  <2> QED
    BY <1>1, <2>4, <2>6, OneWorkerMoves DEF Acts
<1> QED
  BY <1>2, <1>3 DEF Claim

LEMMA AllWorkersMove == ASSUME BaseInv, [Next]_vars PROVE WorkersMove
<1>1. CASE UNCHANGED vars
  BY <1>1, UnchangedWorkers DEF vars, stored
<1>2. ASSUME NEW c \in Clients, Calls(c) \/ CallRuns(c) \/ CallDies(c) PROVE WorkersMove
  <2>1. UNCHANGED <<worker, vector>>
    BY <1>2 DEF Calls, CallRuns, CallDies, Turn, Forget, Remember, Confirm, UpdateReads,
                DeleteReads, Recall, MarkDeleting, MarkDeletingByScope, UpdateWrites,
                RecallLooksUp, RecallEnds, stored
  <2> QED
    BY <2>1, UnchangedWorkers
<1>3. CASE \/ Schedules \/ RoundDies \/ (\E j \in Jobs : LeaseExpires(j))
           \/ \E i \in Ids : Elapses(i)
  <2>1. UNCHANGED <<worker, vector>>
    BY <1>3 DEF Schedules, RoundDies, LeaseExpires, Elapses, ScheduleBatch, ExpireDue, Scan,
                MarkPublished, PublishJob, stored
  <2> QED
    BY <2>1, UnchangedWorkers
<1>4. ASSUME NEW w \in Workers, Handles(w) \/ Crash(w) \/ \E j \in Jobs : Claim(w, j)
      PROVE  WorkersMove
  BY <1>4, ConsolidatesMoves, IndexesMoves, DeletesMoves, EndsMoves, ClaimMoves DEF Handles
<1> QED
  BY <1>1, <1>2, <1>3, <1>4 DEF Next

\* The slot of a job that somebody works on is not used again.
LEMMA MemStays ==
  ASSUME BaseInv, JobsMove, NEW w \in Workers, worker[w].pc # "idle",
         worker'[w].job = worker[w].job
  PROVE  Mem(w)' = Mem(w) /\ Mine(w)'.type = Mine(w).type
<1>1. worker[w].job \in Jobs
  BY BusyHasJob
<1>2. ~Spent(worker[w].job)
  BY DEF Spent
<1> QED
  BY <1>1, <1>2 DEF JobsMove, JobMoves, Mem, Mine

-----------------------------------------------------------------------------
(* Where consumers are *)

\* A job is about a row that was made; a vector is made by an index consumer, and
\* removed once its row is lost.
Named(j) == job[j].status # "unused" /\ job[j].type # "consolidate"
              => row[job[j].mem].status # "none"

Placed(w) == /\ worker[w].pc \in IndexPcs => w \in Indexers
             /\ worker[w].pc \in {"remove", "erase"} => Lost(Mem(w))

PlacesInv == /\ \A j \in Jobs : Named(j)
             /\ \A w \in Workers : Placed(w)

LEMMA PlacesInit == Init => PlacesInv
  BY DEF Init, PlacesInv, Named, Placed, NoJob, Idle, IndexPcs

LEMMA LostStays ==
  ASSUME BaseInv, RowsMove, JobsMove, NEW w \in Workers, worker[w].pc # "idle",
         worker'[w].job = worker[w].job, Mem(w) \in Ids, Lost(Mem(w))
  PROVE  Lost(Mem(w))'
<1>1. PICK i \in Ids : i = Mem(w)
  OBVIOUS
<1>2. Mem(w)' = i
  BY <1>1, MemStays
<1>3. Lost(i)'
  BY <1>1 DEF RowsMove, StatusMoves
<1> QED
  BY <1>2, <1>3 DEF Lost, Forgotten

\* A consumer that goes on in the same part of its handler.
LEMMA PlacedStays ==
  ASSUME BaseInv, PlacesInv, RowsMove, JobsMove, NEW w \in Workers,
         worker'[w].job = worker[w].job,
         worker'[w].pc \in IndexPcs => worker[w].pc \in IndexPcs,
         worker'[w].pc \in {"remove", "erase"} =>
           worker[w].pc \in {"remove", "erase"} \/ (worker[w].pc = "still" /\ Lost(Mem(w)))
  PROVE  Placed(w)'
<1>1. worker'[w].pc \in IndexPcs => w \in Indexers
  BY DEF PlacesInv, Placed
<1>2. ASSUME worker'[w].pc \in {"remove", "erase"} PROVE Lost(Mem(w))'
  <2>1. worker[w].pc \in {"remove", "erase", "still"} /\ Lost(Mem(w))
    BY <1>2 DEF PlacesInv, Placed
  <2>2. Mem(w) \in Ids
    BY <2>1, BusyHasJob DEF MayHandle
  <2> QED
    BY <2>1, <2>2, LostStays
<1> QED
  BY <1>1, <1>2 DEF Placed

LEMMA BegunPlaced ==
  ASSUME BaseInv, BaseInv', MemoryInv', NEW w \in Workers, Begun(w) PROVE Placed(w)'
<1>1. PICK j \in Jobs : /\ job[j].type \in Kinds(w) /\ worker'[w].job = j
                        /\ worker'[w].pc = FirstStep(job[j].type) /\ SameJobs(job')
  BY DEF Begun
<1>2. job[j].type \in JobType /\ job'[j].type = job[j].type
  BY <1>1 DEF BaseInv, JobSound, Job, SameJobs, JobType
<1>3. CASE job[j].type = "index"
  <2>1. w \in Indexers /\ worker'[w].pc = "load"
    BY <1>1, <1>3 DEF Kinds, FirstStep
  <2> QED
    BY <2>1 DEF Placed
<1>4. CASE job[j].type = "delete_vector"
  <2>1. worker'[w].pc = "remove"
    BY <1>1, <1>4 DEF FirstStep
  <2>2. JobLost(j)'
    BY <1>2, <1>4 DEF MemoryInv, DeletionsLost
  <2>3. Lost(Mem(w))'
    BY <1>1, <2>2 DEF JobLost, Lost, Forgotten, Mem, Mine
  <2> QED
    BY <2>1, <2>3 DEF Placed, IndexPcs
<1>5. CASE job[j].type \in {"consolidate", "expire"}
  <2>1. worker'[w].pc \in {"read", "still"}
    BY <1>1, <1>5 DEF FirstStep
  <2> QED
    BY <2>1 DEF Placed, IndexPcs
<1> QED
  BY <1>2, <1>3, <1>4, <1>5 DEF JobType

\* The steps of the handlers, pc by pc.
LEMMA HandlerSteps ==
  ASSUME BaseInv, NEW w \in Workers
  PROVE  /\ LoadMemory(w) => /\ worker[w].pc = "load"
                             /\ worker'[w].pc \in {"upsert", "finish", "fail"}
                             /\ worker'[w].job = worker[w].job
         /\ UpsertVector(w) => /\ worker[w].pc = "upsert"
                               /\ worker'[w].pc \in {"check", "fail"}
                               /\ worker'[w].job = worker[w].job
                               /\ worker'[w].version = worker[w].version
         /\ CheckIndex(w) => /\ worker[w].pc = "check"
                             /\ worker'[w].pc \in {"mark", "clean"}
                             /\ worker'[w].job = worker[w].job
                             /\ worker'[w].version = worker[w].version
         /\ CleanIndex(w) => worker[w].pc = "clean" /\ worker'[w].pc = "finish"
         /\ StillExpired(w) => /\ worker[w].pc = "still"
                               /\ worker'[w].pc \in {"remove", "finish"}
                               /\ worker'[w].job = worker[w].job
                               /\ worker'[w].pc = "remove" => Lost(Mem(w))
         /\ RemoveVector(w) => /\ worker[w].pc = "remove"
                               /\ worker'[w].pc \in {"finish", "erase", "fail"}
                               /\ worker'[w].job = worker[w].job
         /\ Crash(w) => worker[w].pc # "idle" /\ worker'[w].pc = "idle"
<1>1. ASSUME LoadMemory(w)
      PROVE  /\ worker[w].pc = "load" /\ worker'[w].pc \in {"upsert", "finish", "fail"}
             /\ worker'[w].job = worker[w].job
  <2>1. worker \in [Workers -> WorkerState]
    BY DEF BaseInv, WorkSound
  <2>2. CASE worker' = [worker EXCEPT ![w].pc = "upsert", ![w].version = row[Mem(w)].version]
    BY <1>1, <2>1, <2>2 DEF LoadMemory, WorkerState
  <2> QED
    BY <1>1, <2>2, GotoMoves DEF LoadMemory
<1>2. ASSUME StillExpired(w)
      PROVE  /\ worker[w].pc = "still" /\ worker'[w].pc \in {"remove", "finish"}
             /\ worker'[w].job = worker[w].job
             /\ worker'[w].pc = "remove" => Lost(Mem(w))
  BY <1>2, GotoMoves DEF StillExpired, Lost, Forgotten
<1>3. UpsertVector(w) => /\ worker[w].pc = "upsert"
                         /\ worker'[w].pc \in {"check", "fail"}
                         /\ worker'[w].job = worker[w].job
                         /\ worker'[w].version = worker[w].version
  BY GotoMoves DEF UpsertVector
<1>4. CheckIndex(w) => /\ worker[w].pc = "check"
                       /\ worker'[w].pc \in {"mark", "clean"}
                       /\ worker'[w].job = worker[w].job
                       /\ worker'[w].version = worker[w].version
  BY GotoMoves DEF CheckIndex
<1>5. CleanIndex(w) => worker[w].pc = "clean" /\ worker'[w].pc = "finish"
  BY GotoMoves DEF CleanIndex
<1>6. RemoveVector(w) => /\ worker[w].pc = "remove"
                         /\ worker'[w].pc \in {"finish", "erase", "fail"}
                         /\ worker'[w].job = worker[w].job
  BY GotoMoves DEF RemoveVector
<1>7. Crash(w) => worker[w].pc # "idle" /\ worker'[w].pc = "idle"
  BY RestsMoves DEF Crash
<1> QED
  BY <1>1, <1>2, <1>3, <1>4, <1>5, <1>6, <1>7

LEMMA PlacesStep ==
  ASSUME BaseInv, BaseInv', MemoryInv, MemoryInv', PlacesInv, [Next]_vars PROVE PlacesInv'
<1>1. RowsMove /\ JobsMove /\ WorkersMove
  BY Moves, AllWorkersMove
<1>2. ASSUME NEW j \in Jobs PROVE Named(j)'
  <2>1. CASE /\ job'[j].type = job[j].type /\ job'[j].mem = job[j].mem
             /\ job[j].status = "unused" => job'[j].status = "unused"
    <3>1. ASSUME job[j].status # "unused", job[j].type # "consolidate"
          PROVE  row'[job[j].mem].status # "none"
      <4>1. PICK i \in Ids : i = job[j].mem
        BY <3>1 DEF BaseInv, JobSound
      <4> QED
        BY <1>1, <3>1, <4>1 DEF PlacesInv, Named, RowsMove, StatusMoves
    <3> QED
      BY <2>1, <3>1 DEF Named
  <2>2. CASE job'[j].type # "consolidate" =>
               \E i \in Ids : job'[j].mem = i /\ row'[i].status # "none"
    BY <2>2 DEF Named
  <2> QED
    BY <1>1, <2>1, <2>2 DEF JobsMove, JobMoves
<1>3. ASSUME NEW w \in Workers, Steady(w) PROVE Placed(w)'
  BY <1>1, <1>3, PlacedStays DEF Steady
<1>4. ASSUME NEW w \in Workers, Acts(w) PROVE Placed(w)'
  <2>1. CASE Departs(w) \/ Crash(w) \/ CleanIndex(w)
    <3>1. worker'[w].pc \notin IndexPcs \cup {"remove", "erase"}
      BY <2>1, HandlerSteps DEF Departs, IndexPcs
    <3> QED
      BY <3>1 DEF Placed
  <2>2. CASE Begun(w)
    BY <2>2, BegunPlaced
  <2>3. CASE LoadMemory(w) \/ UpsertVector(w) \/ CheckIndex(w)
    BY <1>1, <2>3, HandlerSteps, PlacedStays DEF IndexPcs
  <2>4. CASE StillExpired(w) \/ RemoveVector(w)
    BY <1>1, <2>4, HandlerSteps, PlacedStays DEF IndexPcs
  <2> QED
    BY <1>4, <2>1, <2>2, <2>3, <2>4 DEF Acts
<1>5. \A w \in Workers : Placed(w)'
  BY <1>1, <1>3, <1>4 DEF WorkersMove
<1> QED
  BY <1>2, <1>5 DEF PlacesInv

LEMMA SpecPlaces == Spec => []PlacesInv
  BY PlacesInit, PlacesStep, SpecBase, SpecMemory, PTL DEF Spec

-----------------------------------------------------------------------------
(* What a removed memory leaves *)

EvidenceErased == \A i \in Ids : row[i].status = "gone" => evidence[i] = {}

LEMMA ErasedInit == Init => EvidenceErased
  BY DEF Init, EvidenceErased, NoRow

NoneOrphaned == \A i \in Ids : ~Orphaned(i)

LEMMA OrphanInit == Init => NoneOrphaned
  BY DEF Init, NoneOrphaned, Orphaned, Emptied, NoRow, Idle

\* The consumer that made the vector of a lost row is still about to take it back.
LEMMA ClearedStays ==
  ASSUME BaseInv, BaseInv', PlacesInv, RowsMove, JobsMove, WorkersMove,
         NEW i \in Ids, Forgotten(i), Cleared(i), ~Abandoned(i)
  PROVE  Cleared(i)'
<1>1. vector \in [Ids -> 0..MaxVersion]
  BY DEF BaseInv, RowTypes
<1>2. ASSUME NEW x \in Indexers, worker[x].pc \in {"check", "clean"}, Mem(x) = i,
             worker'[x].pc \in {"check", "clean"}, worker'[x].job = worker[x].job
      PROVE  Cleared(i)'
  <2>1. Mem(x)' = i
    BY <1>2, MemStays DEF Workers
  <2> QED
    BY <1>2, <2>1 DEF Cleared
<1>3. ASSUME vector'[i] = vector[i],
             \A x \in Indexers : worker[x].pc \in {"check", "clean"} => Steady(x)
      PROVE  Cleared(i)'
  <2>1. CASE vector[i] = 0
    BY <1>3, <2>1 DEF Cleared
  <2>2. CASE \E x \in Indexers : worker[x].pc \in {"check", "clean"} /\ Mem(x) = i
    BY <1>2, <1>3, <2>2 DEF Steady
  <2> QED
    BY <2>1, <2>2 DEF Cleared
<1>4. CASE vector' = vector /\ \A x \in Workers : Steady(x)
  BY <1>3, <1>4 DEF Workers
<1>5. ASSUME NEW w \in Workers, Acts(w), \A x \in Workers : x # w => Steady(x)
      PROVE  Cleared(i)'
  <2>0. \A x \in Indexers : worker[x].pc \in {"check", "clean"} => Steady(x) \/ x = w
    BY <1>5 DEF Workers
  <2>1. CASE vector' = vector /\ (Departs(w) \/ Begun(w))
    BY <1>3, <2>0, <2>1 DEF Departs, Begun
  <2>2. CASE Crash(w)
    <3>1. vector' = vector
      BY <2>2 DEF Crash, stored
    <3>2. ~(w \in Indexers /\ Mem(w) = i)
      BY <2>2 DEF Abandoned
    <3> QED
      BY <1>2, <2>0, <3>1, <3>2 DEF Cleared, Steady
  <2>3. CASE LoadMemory(w) \/ StillExpired(w)
    <3>1. vector' = vector /\ worker[w].pc \in {"load", "still"}
      BY <2>3 DEF LoadMemory, StillExpired, stored
    <3> QED
      BY <1>3, <2>0, <3>1
  <2>4. CASE UpsertVector(w)
    <3>1. worker[w].pc = "upsert" /\ worker'[w].job = worker[w].job
      BY <2>4, HandlerSteps
    <3>2. CASE vector' = vector \/ Mem(w) # i
      <4>1. vector'[i] = vector[i]
        BY <1>1, <2>4, <3>2 DEF UpsertVector
      <4> QED
        BY <1>3, <2>0, <3>1, <4>1
    <3>3. CASE vector' # vector /\ Mem(w) = i
      <4>1. worker'[w].pc = "check"
        BY <2>4, <3>3, GotoMoves DEF UpsertVector
      <4>2. Mem(w)' = i
        BY <3>1, <3>3, MemStays
      <4>3. w \in Indexers
        BY <3>1 DEF PlacesInv, Placed, IndexPcs
      <4> QED
        BY <4>1, <4>2, <4>3 DEF Cleared
    <3> QED
      BY <3>2, <3>3
  <2>5. CASE CheckIndex(w)
    <3>1. vector' = vector /\ worker[w].pc = "check" /\ worker'[w].job = worker[w].job
      BY <2>5, HandlerSteps DEF CheckIndex, stored
    <3>2. CASE Mem(w) = i
      <4>1. ~IndexCurrent(w)
        BY <3>2 DEF IndexCurrent, Indexable, Forgotten
      <4>2. worker'[w].pc = "clean"
        BY <2>5, <4>1, GotoMoves DEF CheckIndex
      <4>3. w \in Indexers
        BY <3>1 DEF PlacesInv, Placed, IndexPcs
      <4> QED
        BY <1>2, <3>1, <3>2, <4>2, <4>3
    <3>3. CASE Mem(w) # i
      BY <1>2, <2>0, <3>1, <3>3 DEF Cleared, Steady
    <3> QED
      BY <3>2, <3>3
  <2>6. CASE CleanIndex(w) \/ RemoveVector(w)
    <3>1. CASE Mem(w) = i /\ vector' = [vector EXCEPT ![Mem(w)] = 0]
      BY <1>1, <3>1 DEF Cleared
    <3>2. CASE Mem(w) # i /\ vector' = [vector EXCEPT ![Mem(w)] = 0]
      <4>1. vector'[i] = vector[i]
        BY <1>1, <3>2
      <4> QED
        BY <1>2, <2>0, <3>2, <4>1 DEF Cleared, Steady
    <3>3. CASE CleanIndex(w) /\ vector' = vector
      <4>1. w \in Indexers
        BY <3>3 DEF CleanIndex, PlacesInv, Placed, IndexPcs
      <4>2. Mem(w) # i \/ vector'[i] = 0
        BY <3>3, <4>1 DEF Abandoned
      <4> QED
        BY <1>2, <2>0, <3>3, <4>2 DEF Cleared, Steady
    <3>4. CASE RemoveVector(w) /\ vector' = vector
      <4>1. worker[w].pc = "remove"
        BY <3>4 DEF RemoveVector
      <4> QED
        BY <1>3, <2>0, <3>4, <4>1
    <3> QED
      BY <2>6, <3>1, <3>2, <3>3, <3>4 DEF CleanIndex, RemoveVector
  <2> QED
    BY <1>5, <2>1, <2>2, <2>3, <2>4, <2>5, <2>6 DEF Acts
<1> QED
  BY <1>4, <1>5 DEF WorkersMove

LEMMA OrphanStep ==
  ASSUME BaseInv, BaseInv', MemoryInv, PlacesInv, [Next]_vars,
         NEW i \in Ids, ~Orphaned(i), ~Abandoned(i)
  PROVE  ~Orphaned(i)'
<1>1. RowsMove /\ JobsMove /\ WorkersMove
  BY Moves, AllWorkersMove
<1>4. ASSUME Emptied(i)', i \notin revived' PROVE Cleared(i)'
  <2>1. i \notin revived
    BY <1>1, <1>4 DEF RowsMove
  <2>2. CASE Emptied(i)
    <3>1. Forgotten(i)
      <4>1. CASE row[i].status = "gone"
        BY <4>1 DEF Forgotten
      <4>2. CASE \E w \in Workers : worker[w].pc = "erase" /\ Mem(w) = i
        BY <2>1, <4>2 DEF PlacesInv, Placed, Lost
      <4> QED
        BY <2>2, <4>1, <4>2 DEF Emptied
    <3> QED
      BY <1>1, <2>1, <2>2, <3>1, ClearedStays DEF Orphaned
  <2>3. CASE ~Emptied(i)
    <3>1. PICK w \in Workers : worker'[w].pc = "erase" /\ Mem(w)' = i
      BY <1>1, <1>4, <2>3 DEF Emptied, RowsMove, StatusMoves
    <3>2. ~Steady(w)
      <4>1. ASSUME Steady(w) PROVE Mem(w) = i /\ worker[w].pc = "erase"
        BY <1>1, <3>1, <4>1, MemStays DEF Steady
      <4> QED
        BY <2>3, <4>1 DEF Emptied
    <3>3. Acts(w)
      BY <1>1, <3>2 DEF WorkersMove
    <3>4. RemoveVector(w)
      <4>1. ~Begun(w)
        <5>1. ASSUME Begun(w) PROVE worker'[w].pc # "erase"
          <6>1. PICK j \in Jobs : worker'[w].pc = FirstStep(job[j].type)
            BY <5>1 DEF Begun
          <6>2. job[j].type \in {"consolidate", "index", "delete_vector", "expire"}
            BY DEF BaseInv, JobSound, Job
          <6> QED
            BY <6>1, <6>2 DEF FirstStep
        <5> QED
          BY <3>1, <5>1
      <4> QED
        BY <3>1, <3>3, <4>1, HandlerSteps DEF Acts, Departs
    <3>5. Mem(w) = i
      BY <1>1, <3>1, <3>4, HandlerSteps, MemStays
    <3>6. vector' = [vector EXCEPT ![i] = 0]
      BY <3>1, <3>4, <3>5, GotoMoves DEF RemoveVector
    <3> QED
      BY <3>6 DEF Cleared, BaseInv, RowTypes
  <2> QED
    BY <2>2, <2>3
<1> QED
  BY <1>4 DEF Orphaned

\* Whatever fails and however executions outlive their leases: no evidence outlives the
\* row of its memory, also when a consolidation of older signals still runs.
THEOREM EvidenceGoesWithRow == Spec => []EvidenceErased
<1>1. BaseInv /\ MemoryInv /\ EvidenceErased /\ [Next]_vars => EvidenceErased'
  <2> SUFFICES ASSUME BaseInv, MemoryInv, EvidenceErased, [Next]_vars, NEW i \in Ids,
                      row'[i].status = "gone"
               PROVE  evidence'[i] = {}
    BY DEF EvidenceErased
  <2> QED
    BY Moves DEF EvidenceErased, RowsMove, StatusMoves
<1> QED
  BY <1>1, ErasedInit, SpecBase, SpecMemory, PTL DEF Spec

\* The vector of a removed memory stays behind only where the index consumer that stored
\* it dies before it has looked at the row again, or is refused when it takes it back.
THEOREM OrphansAreAbandoned == Spec => OnlyFailuresOrphan
<1>1. BaseInv /\ BaseInv' /\ MemoryInv /\ PlacesInv /\ [Next]_vars
        => [\A i \in Ids : Orphaned(i)' => Orphaned(i) \/ Abandoned(i)]_vars
  BY OrphanStep
<1> QED
  BY <1>1, SpecBase, SpecMemory, SpecPlaces, PTL DEF Spec, OnlyFailuresOrphan

\* Where the vector store refuses nothing and no consumer dies, nothing is left of a
\* memory whose row is gone, whatever else fails; by OrphansAreAbandoned these two are
\* all there is to except, and with either the code does leave a vector.
THEOREM NothingIsLeft ==
  ASSUME "vector" \notin FaultKinds, "crash" \notin FaultKinds
  PROVE  Spec => []ForgottenLeavesNothing
<1>1. BaseInv /\ BaseInv' /\ MemoryInv /\ PlacesInv /\ NoneOrphaned /\ [Next]_vars
        => NoneOrphaned'
  <2> SUFFICES ASSUME BaseInv, BaseInv', MemoryInv, PlacesInv, NoneOrphaned, [Next]_vars,
                      NEW i \in Ids
               PROVE  ~Orphaned(i)'
    BY DEF NoneOrphaned
  <2>1. ASSUME NEW w \in Indexers, Mem(w) = i, CleanIndex(w) PROVE vector'[i] = 0
    <3>1. vector' = [vector EXCEPT ![i] = 0]
      BY <2>1 DEF CleanIndex, Fault
    <3> QED
      BY <3>1 DEF BaseInv, RowTypes
  <2>2. ~Abandoned(i)
    BY <2>1 DEF Abandoned, Crash, Fault
  <2> QED
    BY <2>2, OrphanStep DEF NoneOrphaned
<1>2. EvidenceErased /\ NoneOrphaned => ForgottenLeavesNothing
  BY DEF EvidenceErased, NoneOrphaned, Orphaned, Emptied, ForgottenLeavesNothing
<1> QED
  BY <1>1, <1>2, OrphanInit, EvidenceGoesWithRow, SpecBase, SpecMemory, SpecPlaces, PTL
     DEF Spec

-----------------------------------------------------------------------------
(* Rows marked ready *)

\* An index consumer holds a version of its row, and the row is ready in no other.
HoldsVersion(w) ==
  worker[w].pc \in IndexPcs \ {"load"} =>
    /\ Exists(Mem(w)) => worker[w].version <= row[Mem(w)].version
    /\ row[Mem(w)].ready /\ Indexable(Mem(w)) => row[Mem(w)].version = worker[w].version

\* It marks only a row whose vector it has made, and takes back no other's.
HoldsVector(w) ==
  /\ worker[w].pc \in {"check", "mark"} /\ IndexCurrent(w)
       => Mem(w) \in revived \/ vector[Mem(w)] = worker[w].version
  /\ worker[w].pc = "clean" => ~IndexCurrent(w)

ReadyInv == /\ \A w \in Workers : HoldsVersion(w) /\ HoldsVector(w)
            /\ ReadyMeansVector

OneIndexer == \A a, b \in Indexers : a = b

LEMMA ReadyInit == Init => ReadyInv
  BY DEF Init, ReadyInv, HoldsVersion, HoldsVector, ReadyMeansVector, IndexPcs, NoRow, Idle

\* What an index consumer holds, whatever becomes of the row meanwhile.
LEMMA VersionStays ==
  ASSUME BaseInv, BaseInv', PlacesInv, RowsMove, JobsMove, OneIndexer, NEW w \in Workers,
         worker[w].pc \in IndexPcs \ {"load"}, HoldsVersion(w),
         worker'[w].job = worker[w].job, worker'[w].version = worker[w].version
  PROVE  HoldsVersion(w)' /\ (IndexCurrent(w)' => IndexCurrent(w))
<1>1. PICK i \in Ids : i = Mem(w) /\ i = Mem(w)'
  <2>1. Mem(w) \in Ids /\ worker[w].pc # "idle"
    BY BusyHasJob DEF IndexPcs, MayHandle
  <2> QED
    BY <2>1, MemStays
<1>2. row[i].status # "none" /\ worker[w].job \in Jobs
  <2>1. worker[w].job \in Jobs /\ Mine(w).status # "unused" /\ Mine(w).type = "index"
    BY BusyHasJob DEF IndexPcs, MayHandle
  <2> QED
    BY <1>1, <2>1 DEF PlacesInv, Named, Mem, Mine
<1>3. /\ worker[w].version \in Nat /\ row[i].version \in Nat /\ row'[i].version \in Nat
  BY BoundsAssumption DEF BaseInv, WorkSound, WorkerState, RowTypes, Row
<1>4. /\ Exists(i) => worker[w].version <= row[i].version
      /\ row[i].ready /\ Indexable(i) => row[i].version = worker[w].version
  BY <1>1 DEF HoldsVersion
<1>5. Marks(i) => row[i].version = worker[w].version
  <2>1. ASSUME NEW x \in Workers, worker[x].pc = "mark", Mem(x) = i, IndexCurrent(x)
        PROVE  row[i].version = worker[w].version
    <3>1. x \in Indexers /\ w \in Indexers
      BY <2>1 DEF PlacesInv, Placed, IndexPcs
    <3>2. x = w
      BY <3>1 DEF OneIndexer
    <3> QED
      BY <2>1, <3>2 DEF IndexCurrent
  <2> QED
    BY <2>1 DEF Marks
<1>6. /\ Exists(i)' => worker[w].version <= row'[i].version
      /\ row'[i].ready /\ Indexable(i)' => row'[i].version = worker[w].version
      /\ Indexable(i)' /\ row'[i].version = worker[w].version
           => Indexable(i) /\ row[i].version = worker[w].version
  <2>1. CASE row'[i].status = "gone"
    BY <2>1 DEF Exists, Indexable
  <2>2. CASE /\ row'[i].version = row[i].version
             /\ row'[i].ready => row[i].ready \/ Marks(i)
             /\ Exists(i)' => Exists(i)
             /\ Indexable(i)' => Indexable(i)
    BY <1>4, <1>5, <2>2
  <2>3. CASE ~row'[i].ready /\ row'[i].version > row[i].version /\ Exists(i)
    BY <1>3, <1>4, <2>3
  <2>4. CASE ~Exists(i)
    <3>1. row[i].status = "gone"
      BY <1>2, <2>4 DEF Exists
    <3>2. row'[i].status = "gone"
      BY <3>1 DEF RowsMove, StatusMoves
    <3> QED
      BY <3>2 DEF Exists, Indexable
  <2> QED
    BY <1>2, <2>1, <2>2, <2>3, <2>4 DEF RowsMove, VersionMoves
<1>7. HoldsVersion(w)'
  BY <1>1, <1>6 DEF HoldsVersion, Exists, Indexable
<1>8. IndexCurrent(w)' => IndexCurrent(w)
  BY <1>1, <1>6 DEF IndexCurrent, Indexable
<1> QED
  BY <1>7, <1>8

\* The vector of a row that may be indexed changes only by the consumer that indexes it.
LEMMA VectorStays ==
  ASSUME BaseInv, PlacesInv, RowsMove, NEW i \in Ids, Indexable(i), i \notin revived,
         NEW w \in Workers, Acts(w),
         ~(UpsertVector(w) /\ Mem(w) = i), ~(CleanIndex(w) /\ Mem(w) = i)
  PROVE  vector'[i] = vector[i]
<1>1. vector \in [Ids -> 0..MaxVersion]
  BY DEF BaseInv, RowTypes
<1>2. CASE RemoveVector(w)
  <2>1. Mem(w) # i
    BY <1>2 DEF RemoveVector, PlacesInv, Placed, Lost, Forgotten, Indexable
  <2> QED
    BY <1>1, <1>2, <2>1 DEF RemoveVector
<1>3. CASE UpsertVector(w) \/ CleanIndex(w)
  BY <1>1, <1>3 DEF UpsertVector, CleanIndex
<1>4. CASE \/ vector' = vector
           \/ Crash(w) \/ LoadMemory(w) \/ CheckIndex(w) \/ StillExpired(w)
  BY <1>4 DEF Crash, LoadMemory, CheckIndex, StillExpired, stored
<1> QED
  BY <1>2, <1>3, <1>4 DEF Acts

\* Whoever makes or takes back the vector of a row is its only indexer.
LEMMA SameIndexer ==
  ASSUME PlacesInv, OneIndexer, NEW w \in Workers, NEW x \in Workers,
         worker[w].pc \in IndexPcs, worker[x].pc \in IndexPcs
  PROVE  w = x
  BY DEF PlacesInv, Placed, OneIndexer

LEMMA ReadyKeeps ==
  ASSUME BaseInv, BaseInv', PlacesInv, ReadyInv, RowsMove, WorkersMove, OneIndexer,
         "upsert" \notin FaultKinds
  PROVE  ReadyMeansVector'
<1> SUFFICES ASSUME NEW i \in Ids, row'[i].ready, Indexable(i)', i \notin revived'
             PROVE  vector'[i] = row'[i].version
  BY DEF ReadyMeansVector
<1>1. /\ Indexable(i) /\ row'[i].version = row[i].version /\ (row[i].ready \/ Marks(i))
      /\ i \notin revived
  <2>1. row'[i].status # "gone" /\ i \notin revived
    BY DEF Indexable, RowsMove
  <2> QED
    BY <2>1 DEF RowsMove, VersionMoves
<1>2. vector[i] = row[i].version
  <2>1. CASE row[i].ready
    BY <1>1, <2>1 DEF ReadyInv, ReadyMeansVector
  <2>2. CASE Marks(i)
    <3>1. PICK x \in Workers : worker[x].pc = "mark" /\ Mem(x) = i /\ IndexCurrent(x)
      BY <2>2 DEF Marks
    <3> QED
      BY <1>1, <3>1 DEF ReadyInv, HoldsVector, IndexCurrent
  <2> QED
    BY <1>1, <2>1, <2>2
<1>3. CASE vector' = vector
  BY <1>1, <1>2, <1>3
<1>4. ASSUME NEW w \in Workers, Acts(w) PROVE vector'[i] = row[i].version
  <2>1. ASSUME Mem(w) = i, worker[w].pc \in {"upsert", "clean"}
        PROVE  row[i].version = worker[w].version
    <3>1. row[i].ready
      <4>1. ASSUME NEW x \in Workers, worker[x].pc = "mark" PROVE FALSE
        BY <2>1, <4>1, SameIndexer DEF IndexPcs
      <4> QED
        BY <1>1, <4>1 DEF Marks
    <3> QED
      BY <1>1, <2>1, <3>1 DEF ReadyInv, HoldsVersion, IndexPcs
  <2>2. CASE UpsertVector(w) /\ Mem(w) = i
    <3>1. row[i].version = worker[w].version
      BY <2>1, <2>2, HandlerSteps
    <3>2. vector' = vector \/ vector' = [vector EXCEPT ![i] = worker[w].version]
      BY <2>2 DEF UpsertVector
    <3> QED
      BY <1>2, <3>1, <3>2 DEF BaseInv, RowTypes
  <2>3. ~(CleanIndex(w) /\ Mem(w) = i)
    <3>1. ASSUME CleanIndex(w), Mem(w) = i PROVE FALSE
      <4>1. worker[w].pc = "clean" /\ row[i].version = worker[w].version
        BY <2>1, <3>1, HandlerSteps
      <4>2. IndexCurrent(w)
        BY <1>1, <3>1, <4>1 DEF IndexCurrent
      <4> QED
        BY <4>1, <4>2 DEF ReadyInv, HoldsVector
    <3> QED
      BY <3>1
  <2> QED
    BY <1>1, <1>2, <1>4, <2>2, <2>3, VectorStays
<1> QED
  BY <1>1, <1>3, <1>4 DEF WorkersMove

\* The consumers' part, for one that is still with its version.
LEMMA HoldingStays ==
  ASSUME BaseInv, BaseInv', PlacesInv, ReadyInv, RowsMove, JobsMove, WorkersMove, OneIndexer,
         NEW w \in Workers, Steady(w)
  PROVE  HoldsVersion(w)' /\ HoldsVector(w)'
<1>1. CASE worker[w].pc \notin IndexPcs \ {"load"}
  BY <1>1 DEF Steady, HoldsVersion, HoldsVector, IndexPcs
<1>2. CASE worker[w].pc \in IndexPcs \ {"load"}
  <2>1. HoldsVersion(w)' /\ (IndexCurrent(w)' => IndexCurrent(w))
    BY <1>2, VersionStays DEF Steady, ReadyInv
  <2>2. PICK i \in Ids : i = Mem(w) /\ i = Mem(w)'
    <3>1. Mem(w) \in Ids /\ worker[w].pc # "idle"
      BY <1>2, BusyHasJob DEF IndexPcs, MayHandle
    <3> QED
      BY <3>1, MemStays DEF Steady
  <2>3. ASSUME worker[w].pc \in {"check", "mark"}, IndexCurrent(w), i \notin revived
        PROVE  vector'[i] = worker[w].version
    <3>1. vector[i] = worker[w].version /\ Indexable(i)
      BY <2>2, <2>3 DEF ReadyInv, HoldsVector, IndexCurrent
    <3>2. ASSUME NEW x \in Workers, Acts(x) PROVE vector'[i] = vector[i]
      <4>1. ~UpsertVector(x) /\ ~CleanIndex(x)
        BY <1>2, <2>3, SameIndexer, HandlerSteps DEF IndexPcs
      <4> QED
        BY <2>3, <3>1, <3>2, <4>1, VectorStays
    <3> QED
      BY <3>1, <3>2 DEF WorkersMove
  <2>4. HoldsVector(w)'
    <3>1. ASSUME worker'[w].pc \in {"check", "mark"}, IndexCurrent(w)', i \notin revived'
          PROVE  vector'[i] = worker'[w].version
      BY <2>1, <2>3, <3>1 DEF Steady, RowsMove
    <3>2. worker'[w].pc = "clean" => ~IndexCurrent(w)'
      BY <2>1 DEF Steady, ReadyInv, HoldsVector
    <3> QED
      BY <2>2, <3>1, <3>2 DEF HoldsVector
  <2> QED
    BY <2>1, <2>4
<1> QED
  BY <1>1, <1>2

\* ... and for the one that moves.
LEMMA HoldingMoves ==
  ASSUME BaseInv, BaseInv', PlacesInv, ReadyInv, RowsMove, JobsMove, OneIndexer,
         NEW w \in Workers, Acts(w),
         "upsert" \notin FaultKinds, "ignored" \notin FaultKinds
  PROVE  HoldsVersion(w)' /\ HoldsVector(w)'
<1>1. CASE worker'[w].pc \notin IndexPcs \ {"load"}
  BY <1>1 DEF HoldsVersion, HoldsVector, IndexPcs
<1>2. CASE worker'[w].pc \in IndexPcs \ {"load"}
  <2>1. ~Begun(w)
    <3>1. ASSUME Begun(w) PROVE FALSE
      <4>1. PICK j \in Jobs : worker'[w].pc = FirstStep(job[j].type)
        BY <3>1 DEF Begun
      <4>2. job[j].type \in {"consolidate", "index", "delete_vector", "expire"}
        BY DEF BaseInv, JobSound, Job
      <4> QED
        BY <1>2, <4>1, <4>2 DEF FirstStep, IndexPcs
    <3> QED
      BY <3>1
  <2>2. LoadMemory(w) \/ UpsertVector(w) \/ CheckIndex(w)
    BY <1>2, <2>1, HandlerSteps DEF Acts, Departs, IndexPcs
  <2>3. PICK i \in Ids : i = Mem(w) /\ i = Mem(w)'
    <3>1. Mem(w) \in Ids /\ worker[w].pc # "idle" /\ worker'[w].job = worker[w].job
      BY <2>2, HandlerSteps, BusyHasJob DEF MayHandle
    <3> QED
      BY <3>1, MemStays
  <2>4. CASE LoadMemory(w)
    <3>1. /\ worker' = [worker EXCEPT ![w].pc = "upsert", ![w].version = row[Mem(w)].version]
          /\ row' = row
      BY <1>2, <2>4, GotoMoves DEF LoadMemory, IndexPcs, stored
    <3>2. worker'[w].pc = "upsert" /\ worker'[w].version = row'[i].version
      BY <2>3, <3>1 DEF BaseInv, WorkSound, WorkerState
    <3>3. row'[i].version \in Nat
      BY BoundsAssumption DEF BaseInv, RowTypes, Row
    <3> QED
      BY <2>3, <3>2, <3>3 DEF HoldsVersion, HoldsVector
  <2>5. CASE UpsertVector(w) \/ CheckIndex(w)
    <3>1. /\ worker[w].pc \in IndexPcs \ {"load"}
          /\ worker'[w].job = worker[w].job /\ worker'[w].version = worker[w].version
      BY <2>5, HandlerSteps DEF IndexPcs
    <3>2. HoldsVersion(w)' /\ (IndexCurrent(w)' => IndexCurrent(w))
      BY <3>1, VersionStays DEF ReadyInv
    <3>3. CASE UpsertVector(w)
      <4>1. worker'[w].pc = "check"
        BY <1>2, <3>3, HandlerSteps DEF IndexPcs
      <4>2. vector' = [vector EXCEPT ![i] = worker[w].version]
        BY <2>3, <3>3, <4>1, GotoMoves DEF UpsertVector, Fault
      <4>3. vector'[i] = worker'[w].version
        BY <3>1, <4>2 DEF BaseInv, RowTypes
      <4> QED
        BY <2>3, <3>2, <4>1, <4>3 DEF HoldsVector
    <3>4. CASE CheckIndex(w)
      <4>1. /\ vector' = vector /\ revived \subseteq revived'
            /\ worker[w].pc = "check"
            /\ worker'[w].pc = IF IndexCurrent(w) THEN "mark" ELSE "clean"
        BY <3>4, GotoMoves DEF CheckIndex, Fault, stored, RowsMove
      <4>2. IndexCurrent(w)' => i \in revived' \/ vector'[i] = worker'[w].version
        BY <2>3, <3>1, <3>2, <4>1 DEF ReadyInv, HoldsVector
      <4>3. worker'[w].pc = "clean" => ~IndexCurrent(w)'
        BY <3>2, <4>1
      <4> QED
        BY <2>3, <3>2, <4>2, <4>3 DEF HoldsVector
    <3> QED
      BY <2>5, <3>3, <3>4
  <2> QED
    BY <2>2, <2>4, <2>5
<1> QED
  BY <1>1, <1>2

LEMMA ReadyStep ==
  ASSUME BaseInv, BaseInv', MemoryInv, PlacesInv, ReadyInv, [Next]_vars, OneIndexer,
         "upsert" \notin FaultKinds, "ignored" \notin FaultKinds
  PROVE  ReadyInv'
<1>1. RowsMove /\ JobsMove /\ WorkersMove
  BY Moves, AllWorkersMove
<1>2. ReadyMeansVector'
  BY <1>1, ReadyKeeps
<1>3. ASSUME NEW w \in Workers PROVE HoldsVersion(w)' /\ HoldsVector(w)'
  <2>1. Steady(w) \/ Acts(w)
    BY <1>1 DEF WorkersMove
  <2> QED
    BY <1>1, <2>1, HoldingStays, HoldingMoves
<1> QED
  BY <1>2, <1>3 DEF ReadyInv

\* A row marked ready that may be recalled has the vector of its current version, however
\* often its jobs run and whatever changes it meanwhile. It needs a single index consumer,
\* a vector store that does not refuse vectors (its error is lost), and a SELECT of
\* IsMemoryIndexCurrent that does not fail (which is taken for a no, and a current
\* vector is taken back).
THEOREM ReadyHasVector ==
  ASSUME OneIndexer, "upsert" \notin FaultKinds, "ignored" \notin FaultKinds
  PROVE  Spec => []ReadyMeansVector
<1>1. BaseInv /\ BaseInv' /\ MemoryInv /\ PlacesInv /\ ReadyInv /\ [Next]_vars => ReadyInv'
  BY ReadyStep
<1>2. ReadyInv => ReadyMeansVector
  BY DEF ReadyInv
<1> QED
  BY <1>1, <1>2, ReadyInit, SpecBase, SpecMemory, SpecPlaces, PTL DEF Spec
=============================================================================
