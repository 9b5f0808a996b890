--------------------- MODULE ConversationCompaction_proofs ---------------------
(***************************************************************************)
(* Theorems about ConversationCompaction, for any number of requests,       *)
(* consumers, turns and tasks, and whatever fails.                          *)
(***************************************************************************)
EXTENDS ConversationCompaction, FoldTheorems

-----------------------------------------------------------------------------
(* The greatest log of a set *)

LEMMA MaxIsMost ==
  ASSUME NEW set \in SUBSET LogIds, set # {}
  PROVE  Max(set) \in set /\ \A y \in set : Max(set) >= y
<1>1. MaxLogs \in Nat
  BY LimitsAssumption
<1> DEFINE gaps == {MaxLogs - x : x \in set}
<1>2. gaps \subseteq Nat /\ gaps # {}
  <2>1. \A x \in set : MaxLogs - x \in Nat
    BY <1>1 DEF LogIds
  <2> QED
    BY <2>1
<1>3. PICK g \in gaps : \A h \in gaps : g <= h
  BY <1>2, Least
<1>4. PICK x \in set : g = MaxLogs - x
  BY <1>3
<1>5. \A y \in set : x >= y
  <2>1. ASSUME NEW y \in set PROVE x >= y
    <3>1. MaxLogs - x <= MaxLogs - y
      BY <1>3, <1>4
    <3> QED
      BY <1>1, <3>1 DEF LogIds
  <2> QED
    BY <2>1
<1> QED
  BY <1>5 DEF Max

\* Max picks an element of every set of logs that has one.
LEMMA MaxIsThere ==
  ASSUME NEW set \in SUBSET LogIds, set # {} PROVE Max(set) \in set
  BY MaxIsMost

LEMMA RemovedAreThere ==
  ASSUME NEW range \in SUBSET LogIds, range # {}
  PROVE  Compacted(range) \subseteq range /\ Compacted(range) # {}
  BY DEF Compacted

-----------------------------------------------------------------------------
(* The inductive invariant *)

\* Everything but the count of tokens, which is a sum over a set.
ConversationRow ==
  [token : Requests \cup {"none"}, lease : {"none", "live", "expired"},
   through : 0..MaxLogs, summary : SUBSET LogIds, tokens : {conv.tokens}, version : Nat,
   status : {"idle", "queued", "processing", "failed"}, task : 0..MaxTasks,
   summaryLease : {"none", "live", "expired"}, expired : BOOLEAN]

ConvSound == /\ conv \in ConversationRow
             /\ conv.lease # "none" => conv.token \in Requests

RequestSound == /\ request \in [Requests -> RequestState]
                /\ nextLog \in LogIds

\* A request that was not outrun holds the row.
Holds(r) == request[r].pc # "idle" /\ ~request[r].outrun =>
              conv.token = r /\ conv.lease = "live"

\* Only tasks that were handed out are about, and none has a version of the future.
TaskSound ==
  /\ nextTask \in 0..MaxTasks
  /\ job \in [1..MaxTasks -> [snapshot : 0..MaxLogs, version : Nat]]
  /\ starter \in [Starters -> StarterState]
  /\ queue \in [Msg -> Nat]
  /\ \A s \in Starters : starter[s].pc \in {"publish", "undo"} => starter[s].task \in 1..nextTask
  /\ \A m \in Msg : queue[m] > 0 => m.task \in 1..nextTask
  /\ \A t \in 1..nextTask : job[t].version <= conv.version

\* What a consumer has read is what the row has, unless the row is a version further.
Reading(w) ==
  worker[w].pc \in {"list", "complete"} /\ conv.version = job[Task(w)].version
    => worker[w].after = conv.through /\ worker[w].old = conv.summary

WorkerSound(w) ==
  /\ worker[w].held => worker[w].pc # "idle"
  /\ worker[w].pc # "idle" => worker[w].msg \in Msg /\ Task(w) \in 1..nextTask
  /\ worker[w].pc = "complete" => worker[w].cut # {} /\ \A i \in worker[w].cut : worker[w].after < i
  /\ Reading(w)

WorkSound == /\ worker \in [Workers -> WorkerState]
             /\ \A w \in Workers : WorkerSound(w)

IInv == /\ ConvSound /\ RequestSound /\ TaskSound /\ WorkSound
        /\ \A r \in Requests : Holds(r)

LEMMA Initial == Init => IInv
<1> SUFFICES ASSUME Init PROVE IInv
  OBVIOUS
<1> USE LimitsAssumption
<1>1. PICK n \in Sizes :
        /\ conv = [token |-> "none", lease |-> "none", through |-> 0, summary |-> {},
                   tokens |-> n, version |-> 0, status |-> "idle", task |-> 0,
                   summaryLease |-> "none", expired |-> FALSE]
        /\ starter = [s \in Starters |-> [NoStart EXCEPT !.pc = IF s = 1 THEN "try" ELSE "idle"]]
  BY DEF Init
<1>2. ConvSound
  BY <1>1 DEF ConvSound, ConversationRow
<1>3. request = [r \in Requests |-> Resting] /\ nextLog = 1 /\ nextTask = 0
      /\ job = [t \in 1..MaxTasks |-> [snapshot |-> 0, version |-> 0]]
      /\ queue = [m \in Msg |-> 0] /\ worker = [w \in Workers |-> Idle]
  BY DEF Init
<1>4. Resting \in RequestState /\ Resting.pc = "idle"
  BY DEF Resting, RequestState
<1>5. RequestSound /\ \A r \in Requests : Holds(r)
  BY <1>3, <1>4 DEF RequestSound, LogIds, Holds
<1>6. TaskSound
  <2>1. starter \in [Starters -> StarterState]
        /\ \A s \in Starters : starter[s].pc \in {"try", "idle"}
    BY <1>1 DEF StarterState, NoStart
  <2>2. [snapshot |-> 0, version |-> 0] \in [snapshot : 0..MaxLogs, version : Nat]
    OBVIOUS
  <2> QED
    BY <1>3, <2>1, <2>2 DEF TaskSound
<1>7. WorkSound
  <2>1. Idle \in WorkerState /\ Idle.pc = "idle" /\ ~Idle.held
    BY DEF Idle, WorkerState, NoMsg
  <2> QED
    BY <1>3, <2>1 DEF WorkSound, WorkerSound, Reading
<1> QED
  BY <1>2, <1>5, <1>6, <1>7 DEF IInv

-----------------------------------------------------------------------------
(* What steps leave as it is *)

SameCursor == /\ conv'.through = conv.through /\ conv'.summary = conv.summary
              /\ conv'.version = conv.version

SameLease == conv'.token = conv.token /\ conv'.lease = conv.lease

LEMMA WorkersStay ==
  ASSUME IInv, SameCursor, UNCHANGED <<worker, nextTask, job>> PROVE WorkSound'
  BY DEF IInv, WorkSound, WorkerSound, Reading, Task, SameCursor

\* The goroutines that start tasks end, begin, or go on with the task they have.
StartersGo ==
  /\ starter' \in [Starters -> StarterState]
  /\ \A s \in Starters : starter'[s].pc \in {"publish", "undo"} =>
       starter[s].pc \in {"publish", "undo"} /\ starter'[s].task = starter[s].task

LEMMA TasksStay ==
  ASSUME IInv, StartersGo, conv'.version = conv.version, UNCHANGED <<nextTask, job, queue>>
  PROVE  TaskSound'
  BY DEF IInv, TaskSound, StartersGo

LEMMA StartersSame == ASSUME IInv, UNCHANGED starter PROVE StartersGo
  BY DEF IInv, TaskSound, StartersGo

\* A goroutine that has a log to start from, or that ends.
LEMMA StarterEnds ==
  ASSUME IInv, NEW s,
         \/ \E pc \in {"try", "idle"} : starter' = [starter EXCEPT ![s].pc = pc]
         \/ starter' = [starter EXCEPT ![s] = NoStart]
  PROVE  StartersGo
<1>1. starter \in [Starters -> StarterState]
  BY DEF IInv, TaskSound
<1>2. NoStart \in StarterState /\ NoStart.pc = "idle"
  BY LimitsAssumption DEF NoStart, StarterState
<1>3. CASE starter' = [starter EXCEPT ![s] = NoStart]
  BY <1>1, <1>2, <1>3 DEF StartersGo
<1>4. CASE \E pc \in {"try", "idle"} : starter' = [starter EXCEPT ![s].pc = pc]
  <2>1. PICK pc \in {"try", "idle"} : starter' = [starter EXCEPT ![s].pc = pc]
    BY <1>4
  <2>2. \A x \in Starters : [starter[x] EXCEPT !.pc = pc] \in StarterState
                              /\ [starter[x] EXCEPT !.pc = pc].pc = pc
    BY <1>1 DEF StarterState
  <2>3. \A x \in Starters : starter'[x] = IF x = s THEN [starter[x] EXCEPT !.pc = pc]
                                                   ELSE starter[x]
    BY <1>1, <2>1
  <2>4. starter' \in [Starters -> StarterState]
    BY <1>1, <2>1, <2>2
  <2> QED
    BY <2>2, <2>3, <2>4 DEF StartersGo
<1> QED
  BY <1>3, <1>4

-----------------------------------------------------------------------------
(* Requests *)

\* A request that takes the lease: whoever held it was outrun.
LEMMA AcquireInv == ASSUME IInv, NEW r \in Requests, Acquire(r) PROVE IInv'
<1>1. /\ conv' = [conv EXCEPT !.token = r, !.lease = "live"] /\ conv.lease # "live"
      /\ request' = [request EXCEPT ![r].pc = "read"]
      /\ UNCHANGED <<nextLog, starter, job, queue, worker, nextTask>>
  BY DEF Acquire
<1>2. conv \in ConversationRow /\ request \in [Requests -> RequestState]
  BY DEF IInv, ConvSound, RequestSound
<1>3. ConvSound' /\ SameCursor
  BY <1>1, <1>2 DEF ConvSound, ConversationRow, SameCursor
<1>4. RequestSound' /\ \A x \in Requests : Holds(x)'
  <2>1. [request[r] EXCEPT !.pc = "read"] \in RequestState
    BY <1>2 DEF RequestState
  <2>2. \A x \in Requests : x # r => request[x].pc = "idle" \/ request[x].outrun
    BY <1>1 DEF IInv, Holds
  <2>3. conv'.token = r /\ conv'.lease = "live"
    BY <1>1, <1>2 DEF ConversationRow
  <2> QED
    BY <1>1, <1>2, <2>1, <2>2, <2>3 DEF RequestSound, IInv, Holds
<1>5. WorkSound' /\ TaskSound'
  BY <1>1, <1>3, WorkersStay, TasksStay, StartersSame DEF SameCursor
<1> QED
  BY <1>3, <1>4, <1>5 DEF IInv

\* A request that goes on, whatever it has read.
LEMMA RequestGoes ==
  ASSUME IInv, NEW r \in Requests, request[r].pc # "idle", NEW q \in RequestState,
         request' = [request EXCEPT ![r] = q], q.outrun = request[r].outrun,
         nextLog' \in LogIds, UNCHANGED <<conv, starter, job, queue, worker, nextTask>>
  PROVE  IInv'
<1>1. RequestSound' /\ (\A x \in Requests : Holds(x)')
  BY DEF IInv, RequestSound, Holds
<1>2. ConvSound' /\ SameCursor
  BY DEF IInv, ConvSound, ConversationRow, SameCursor
<1>3. WorkSound' /\ TaskSound'
  BY <1>2, WorkersStay, TasksStay, StartersSame DEF SameCursor
<1> QED
  BY <1>1, <1>2, <1>3 DEF IInv

LEMMA RequestRunsInv ==
  ASSUME IInv, NEW r \in Requests, ReadSummary(r) \/ ReadLogs(r) \/ Insert(r) \/ RequestFails(r)
  PROVE  IInv'
<1>1. /\ request[r] \in RequestState /\ conv \in ConversationRow /\ nextLog \in LogIds
      /\ request[r].pc # "idle" /\ Saved \subseteq LogIds
      /\ UNCHANGED <<conv, starter, job, queue, worker, nextTask>>
  BY DEF IInv, RequestSound, ConvSound, Saved, ReadSummary, ReadLogs, Insert, RequestFails
<1>2. CASE ReadSummary(r)
  <2> DEFINE q == [request[r] EXCEPT !.pc = "list", !.saw = conv.summary, !.after = conv.through]
  <2>1. q \in RequestState /\ q.outrun = request[r].outrun
    BY <1>1 DEF RequestState, ConversationRow
  <2>2. request' = [request EXCEPT ![r] = q] /\ nextLog' = nextLog
    BY <1>2 DEF ReadSummary
  <2> HIDE DEF q
  <2> QED
    BY <1>1, <2>1, <2>2, RequestGoes
<1>3. CASE ReadLogs(r)
  <2> DEFINE saw == request[r].saw \cup {i \in Saved : i > request[r].after}
             q == [request[r] EXCEPT !.pc = "work", !.after = 0, !.saw = saw]
  <2>1. saw \in SUBSET LogIds /\ 0 \in 0..MaxLogs
    BY <1>1, LimitsAssumption DEF RequestState
  <2>2. q \in RequestState /\ q.outrun = request[r].outrun
    <3> HIDE DEF saw
    <3> QED
      BY <1>1, <2>1 DEF RequestState
  <2>3. request' = [request EXCEPT ![r] = q] /\ nextLog' = nextLog
    BY <1>3 DEF ReadLogs
  <2> HIDE DEF q
  <2> QED
    BY <1>1, <2>2, <2>3, RequestGoes
<1>4. CASE Insert(r)
  <2>1. PICK n \in Sizes : request' = [request EXCEPT ![r].pc = "commit", ![r].id = nextLog',
                                                      ![r].tokens = n]
    BY <1>4 DEF Insert
  <2> DEFINE q == [request[r] EXCEPT !.pc = "commit", !.id = nextLog', !.tokens = n]
  <2>2. nextLog' \in LogIds /\ nextLog' \in 0..MaxLogs
    BY <1>1, <1>4, LimitsAssumption DEF Insert, LogIds
  <2>3. q \in RequestState /\ q.outrun = request[r].outrun
    BY <1>1, <2>2 DEF RequestState
  <2>4. request' = [request EXCEPT ![r] = q]
    BY <2>1
  <2> HIDE DEF q
  <2> QED
    BY <1>1, <2>2, <2>3, <2>4, RequestGoes
<1>5. CASE RequestFails(r)
  <2> DEFINE q == [Resting EXCEPT !.pc = "release", !.outrun = request[r].outrun]
  <2>1. q \in RequestState /\ q.outrun = request[r].outrun
    <3>1. request[r].outrun \in BOOLEAN
      BY <1>1 DEF RequestState
    <3>2. Resting \in RequestState
      BY LimitsAssumption DEF RequestState, Resting
    <3> QED
      BY <3>1, <3>2 DEF RequestState
  <2>2. request' = [request EXCEPT ![r] = q] /\ nextLog' = nextLog
    BY <1>5 DEF RequestFails
  <2> HIDE DEF q
  <2> QED
    BY <1>1, <2>1, <2>2, RequestGoes
<1> QED
  BY <1>2, <1>3, <1>4, <1>5

\* A request ends: it gives back the lease it has, and only that one.
LEMMA RequestEnds ==
  ASSUME IInv, NEW r \in Requests, request' = [request EXCEPT ![r] = Resting],
         SameCursor, ConvSound', StartersGo,
         SameLease \/ conv.token = r,
         UNCHANGED <<nextLog, job, queue, worker, nextTask>>
  PROVE  IInv'
<1>1. RequestSound' /\ \A x \in Requests : Holds(x)'
  <2>1. Resting \in RequestState /\ Resting.pc = "idle"
    BY LimitsAssumption DEF Resting, RequestState
  <2> QED
    BY <2>1 DEF IInv, RequestSound, Holds, SameLease
<1>2. WorkSound' /\ TaskSound'
  BY WorkersStay, TasksStay DEF SameCursor
<1> QED
  BY <1>1, <1>2 DEF IInv

LEMMA RequestEndsInv ==
  ASSUME IInv, NEW r \in Requests, Commit(r) \/ Release(r) \/ RequestDies(r) PROVE IInv'
<1>1. /\ request' = [request EXCEPT ![r] = Resting] /\ conv \in ConversationRow
      /\ UNCHANGED <<nextLog, job, queue, worker, nextTask>>
  BY DEF IInv, ConvSound, Commit, Release, RequestDies
<1>2. StartersGo
  <2>1. CASE UNCHANGED starter
    BY <2>1, StartersSame
  <2>2. CASE starter' = [starter EXCEPT ![request[r].id].pc = "try"]
    BY <2>2, StarterEnds
  <2> QED
    BY <2>1, <2>2 DEF Commit, Release, RequestDies
<1>3. CASE UNCHANGED conv
  BY <1>1, <1>2, <1>3, RequestEnds DEF IInv, ConvSound, ConversationRow, SameCursor, SameLease
<1>4. CASE /\ conv.token = r
           /\ conv' = [conv EXCEPT !.token = "none", !.lease = "none"]
  <2>1. ConvSound' /\ SameCursor
    BY <1>1, <1>4 DEF ConvSound, ConversationRow, SameCursor
  <2> QED
    BY <1>1, <1>2, <1>4, <2>1, RequestEnds
<1>5. CASE /\ conv.token = r
           /\ conv' = [conv EXCEPT !.tokens = @ + request[r].tokens, !.expired = FALSE,
                                   !.token = "none", !.lease = "none"]
  <2>1. ConvSound' /\ SameCursor
    BY <1>1, <1>5 DEF ConvSound, ConversationRow, SameCursor
  <2> QED
    BY <1>1, <1>2, <1>5, <2>1, RequestEnds
<1> QED
  BY <1>3, <1>4, <1>5 DEF Commit, Release, RequestDies, HoldsLease, Releases

LEMMA PlainInv ==
  ASSUME IInv, NEW p \in Plain, PlainInsert(p) \/ PlainCommit(p) PROVE IInv'
<1>1. UNCHANGED <<conv, request, job, queue, worker, nextTask>>
  BY DEF PlainInsert, PlainCommit
<1>2. nextLog' \in LogIds
  BY LimitsAssumption DEF IInv, RequestSound, PlainInsert, PlainCommit, LogIds
<1>3. StartersGo
  BY StartersSame, StarterEnds DEF PlainInsert, PlainCommit
<1>4. ConvSound' /\ SameCursor
  BY <1>1 DEF IInv, ConvSound, ConversationRow, SameCursor
<1>5. RequestSound' /\ \A r \in Requests : Holds(r)'
  BY <1>1, <1>2 DEF IInv, RequestSound, Holds
<1>6. WorkSound' /\ TaskSound'
  BY <1>1, <1>3, <1>4, WorkersStay, TasksStay DEF SameCursor
<1> QED
  BY <1>4, <1>5, <1>6 DEF IInv

-----------------------------------------------------------------------------
(* Time *)

LEMMA TimeInv ==
  ASSUME IInv, LeaseExpires \/ SummaryLeaseExpires \/ ConversationExpires PROVE IInv'
<1>1. /\ conv \in ConversationRow /\ request \in [Requests -> RequestState]
      /\ UNCHANGED <<nextLog, starter, job, queue, worker, nextTask>>
  BY DEF IInv, ConvSound, RequestSound, LeaseExpires, SummaryLeaseExpires, ConversationExpires
<1>2. ConvSound' /\ SameCursor
  <2>1. CASE LeaseExpires
    <3>1. conv' = [conv EXCEPT !.lease = "expired"] /\ conv.lease = "live"
      BY <2>1 DEF LeaseExpires
    <3> QED
      BY <1>1, <3>1 DEF IInv, ConvSound, ConversationRow, SameCursor
  <2>2. CASE SummaryLeaseExpires
    <3>1. conv' = [conv EXCEPT !.summaryLease = "expired"]
      BY <2>2 DEF SummaryLeaseExpires
    <3> QED
      BY <1>1, <3>1 DEF IInv, ConvSound, ConversationRow, SameCursor
  <2>3. CASE ConversationExpires
    <3>1. conv' = [conv EXCEPT !.expired = TRUE]
      BY <2>3 DEF ConversationExpires
    <3> QED
      BY <1>1, <3>1 DEF IInv, ConvSound, ConversationRow, SameCursor
  <2> QED
    BY <2>1, <2>2, <2>3
<1>3. RequestSound' /\ \A r \in Requests : Holds(r)'
  <2>1. CASE LeaseExpires
    <3>1. conv.token \in Requests /\ conv.lease = "live"
      BY <2>1 DEF LeaseExpires, IInv, ConvSound
    <3>2. PICK t \in Requests : t = conv.token
      BY <3>1
    <3>3. CASE request[t].pc = "idle" /\ UNCHANGED request
      BY <1>1, <3>2, <3>3 DEF IInv, RequestSound, Holds
    <3>4. CASE request' = [request EXCEPT ![t].outrun = TRUE]
      <4>1. /\ [request[t] EXCEPT !.outrun = TRUE] \in RequestState
            /\ [request[t] EXCEPT !.outrun = TRUE].outrun = TRUE
        BY <1>1 DEF RequestState
      <4>2. \A r \in Requests : request'[r] = IF r = t THEN [request[t] EXCEPT !.outrun = TRUE]
                                                      ELSE request[r]
        BY <1>1, <3>4
      <4> QED
        BY <1>1, <3>2, <3>4, <4>1, <4>2 DEF IInv, RequestSound, Holds
    <3> QED
      BY <2>1, <3>2, <3>3, <3>4 DEF LeaseExpires
  <2>2. CASE SummaryLeaseExpires \/ ConversationExpires
    <3>1. UNCHANGED request /\ SameLease
      BY <1>1, <2>2 DEF SummaryLeaseExpires, ConversationExpires, SameLease, ConversationRow
    <3> QED
      BY <1>1, <3>1 DEF IInv, RequestSound, Holds, SameLease
  <2> QED
    BY <2>1, <2>2
<1>4. WorkSound' /\ TaskSound'
  BY <1>1, <1>2, WorkersStay, TasksStay, StartersSame DEF SameCursor
<1> QED
  BY <1>2, <1>3, <1>4 DEF IInv

-----------------------------------------------------------------------------
(* Starting a compaction *)

LEMMA RequestsStay == ASSUME IInv, SameLease, UNCHANGED <<request, nextLog>>
                      PROVE  RequestSound' /\ (\A r \in Requests : Holds(r)')
  BY DEF IInv, RequestSound, Holds, SameLease

LEMMA FailedKeeps ==
  ASSUME ConvSound, NEW task, conv' = Failed(task) PROVE ConvSound' /\ SameCursor /\ SameLease
<1>1. conv \in ConversationRow
  BY DEF ConvSound
<1>2. CASE conv' = conv
  BY <1>1, <1>2 DEF ConvSound, ConversationRow, SameCursor, SameLease
<1>3. CASE conv' = [conv EXCEPT !.status = "failed", !.summaryLease = "none"]
  BY <1>1, <1>3 DEF ConvSound, ConversationRow, SameCursor, SameLease
<1> QED
  BY <1>2, <1>3 DEF Failed

\* A new task starts from the version of the row.
LEMMA TryQueueInv == ASSUME IInv, NEW s \in Starters, TryQueue(s) PROVE IInv'
<1>1. UNCHANGED <<logs, nextLog, request, plain, queue, worker>>
  BY DEF TryQueue
<1>2. CASE /\ starter' = [starter EXCEPT ![s] = NoStart]
           /\ UNCHANGED <<conv, job, nextTask>>
  <2>1. ConvSound' /\ SameCursor /\ SameLease
    BY <1>2 DEF IInv, ConvSound, ConversationRow, SameCursor, SameLease
  <2>2. StartersGo
    BY <1>2, StarterEnds
  <2> QED
    BY <1>1, <1>2, <2>1, <2>2, RequestsStay, WorkersStay, TasksStay DEF IInv, SameCursor
<1>3. CASE /\ Queueable /\ nextTask < MaxTasks /\ nextTask' = nextTask + 1
           /\ conv' = [conv EXCEPT !.status = "queued", !.task = nextTask',
                                   !.summaryLease = "live"]
           /\ job' = [job EXCEPT ![nextTask'] = [snapshot |-> Max(Saved),
                                                 version |-> conv.version]]
           /\ starter' = [starter EXCEPT ![s] = [pc |-> "publish", task |-> nextTask']]
  <2>1. /\ conv \in ConversationRow /\ nextTask \in Nat /\ MaxTasks \in Nat
        /\ nextTask' \in 1..MaxTasks /\ nextTask' \notin 1..nextTask
        /\ job \in [1..MaxTasks -> [snapshot : 0..MaxLogs, version : Nat]]
        /\ starter \in [Starters -> StarterState] /\ queue \in [Msg -> Nat]
    BY <1>3, LimitsAssumption DEF IInv, ConvSound, TaskSound
  <2>2. ConvSound' /\ SameCursor /\ SameLease
    <3>1. PICK t \in 0..MaxTasks : t = nextTask'
      BY <2>1
    <3>2. conv' = [conv EXCEPT !.status = "queued", !.task = t, !.summaryLease = "live"]
      BY <1>3, <3>1
    <3> QED
      BY <2>1, <3>2 DEF IInv, ConvSound, ConversationRow, SameCursor, SameLease
  <2>3. Max(Saved) \in 0..MaxLogs
    <3>1. Saved \in SUBSET LogIds /\ Saved # {}
      BY <1>3 DEF Queueable, Saved
    <3>2. Max(Saved) \in LogIds
      BY <3>1, MaxIsThere
    <3> QED
      BY <3>2, LimitsAssumption DEF LogIds
  <2>4. conv.version \in Nat
    BY <2>1 DEF ConversationRow
  <2>5. /\ job' \in [1..MaxTasks -> [snapshot : 0..MaxLogs, version : Nat]]
        /\ \A t \in 1..nextTask : job'[t] = job[t]
        /\ job'[nextTask'].version = conv.version
    BY <1>3, <2>1, <2>3, <2>4
  <2>6. /\ starter' \in [Starters -> StarterState]
        /\ \A x \in Starters : starter'[x].pc \in {"publish", "undo"} => starter'[x].task \in 1..nextTask'
    <3>1. [pc |-> "publish", task |-> nextTask'] \in StarterState
      BY <2>1 DEF StarterState
    <3>2. nextTask' \in 1..nextTask' /\ 1..nextTask \subseteq 1..nextTask'
      BY <1>3, <2>1
    <3>3. \A x \in Starters : x # s => starter'[x] = starter[x]
      BY <1>3
    <3>4. starter'[s].task = nextTask'
      BY <1>3, <2>1
    <3> QED
      BY <1>3, <2>1, <3>1, <3>2, <3>3, <3>4 DEF IInv, TaskSound
  <2>7. TaskSound'
    <3>1. \A t \in 1..nextTask' : job'[t].version <= conv'.version
      BY <1>3, <2>1, <2>2, <2>4, <2>5 DEF IInv, TaskSound, SameCursor
    <3>2. \A m \in Msg : queue'[m] > 0 => m.task \in 1..nextTask'
      BY <1>1, <1>3, <2>1 DEF IInv, TaskSound
    <3>3. nextTask' \in 0..MaxTasks
      BY <2>1
    <3> QED
      BY <1>1, <2>1, <2>5, <2>6, <3>1, <3>2, <3>3 DEF TaskSound
  <2>8. WorkSound'
    <3>1. ASSUME NEW w \in Workers PROVE WorkerSound(w)'
      <4>1. worker[w].pc # "idle" => job'[Task(w)] = job[Task(w)] /\ Task(w) \in 1..nextTask'
        BY <1>3, <2>1, <2>5 DEF IInv, WorkSound, WorkerSound
      <4> QED
        BY <1>1, <2>2, <4>1 DEF IInv, WorkSound, WorkerSound, Reading, Task, SameCursor
    <3> QED
      BY <1>1, <3>1 DEF IInv, WorkSound
  <2> QED
    BY <1>1, <2>2, <2>7, <2>8, RequestsStay DEF IInv
<1> QED
  BY <1>2, <1>3 DEF TryQueue

\* A message of a task that was handed out.
LEMMA PutKeeps ==
  ASSUME TaskSound, NEW m \in Msg, m.task \in 1..nextTask, queue' \in {queue, Put(m)}
  PROVE  queue' \in [Msg -> Nat] /\ \A x \in Msg : queue'[x] > 0 => x.task \in 1..nextTask
<1>1. CASE queue' = queue
  BY <1>1 DEF TaskSound
<1>2. CASE queue' = Put(m)
  <2>1. queue \in [Msg -> Nat] /\ queue' = [queue EXCEPT ![m] = @ + 1]
    BY <1>2 DEF TaskSound, Put
  <2>2. queue' \in [Msg -> Nat] /\ \A x \in Msg : x # m => queue'[x] = queue[x]
    BY <2>1
  <2> QED
    BY <2>2 DEF TaskSound
<1> QED
  BY <1>1, <1>2

LEMMA PublishTaskInv == ASSUME IInv, NEW s \in Starters, PublishTask(s) PROVE IInv'
<1>1. /\ starter \in [Starters -> StarterState] /\ starter[s].pc = "publish"
      /\ starter[s].task \in 1..nextTask
      /\ UNCHANGED <<conv, logs, nextLog, request, plain, job, worker, nextTask>>
  BY DEF IInv, TaskSound, PublishTask
<1>2. ConvSound' /\ SameCursor /\ SameLease
  BY <1>1 DEF IInv, ConvSound, ConversationRow, SameCursor, SameLease
<1>3. StartersGo
  <2>1. CASE starter' = [starter EXCEPT ![s] = NoStart]
    BY <2>1, StarterEnds
  <2>2. CASE starter' = [starter EXCEPT ![s].pc = "undo"]
    <3>1. /\ [starter[s] EXCEPT !.pc = "undo"] \in StarterState
          /\ [starter[s] EXCEPT !.pc = "undo"].task = starter[s].task
      BY <1>1 DEF StarterState
    <3> QED
      BY <1>1, <2>2, <3>1 DEF StartersGo
  <2> QED
    BY <2>1, <2>2 DEF PublishTask
<1>4. /\ queue' \in [Msg -> Nat]
      /\ \A m \in Msg : queue'[m] > 0 => m.task \in 1..nextTask
  <2> DEFINE m == [task |-> starter[s].task, attempt |-> 0]
  <2>1. m \in Msg /\ m.task \in 1..nextTask
    BY <1>1, LimitsAssumption DEF IInv, TaskSound, Msg
  <2>2. queue' \in {queue, Put(m)}
    BY DEF PublishTask
  <2> HIDE DEF m
  <2> QED
    BY <2>1, <2>2, PutKeeps DEF IInv
<1>5. TaskSound'
  BY <1>1, <1>3, <1>4 DEF IInv, TaskSound, StartersGo
<1> QED
  BY <1>1, <1>2, <1>5, RequestsStay, WorkersStay DEF IInv

LEMMA StartEndsInv ==
  ASSUME IInv, NEW s \in Starters, UndoStart(s) \/ StartLost(s) PROVE IInv'
<1>1. /\ starter' = [starter EXCEPT ![s] = NoStart]
      /\ UNCHANGED <<nextLog, request, job, queue, worker, nextTask>>
  BY DEF UndoStart, StartLost
<1>2. ConvSound' /\ SameCursor /\ SameLease
  <2>1. CASE UNCHANGED conv
    BY <2>1 DEF IInv, ConvSound, ConversationRow, SameCursor, SameLease
  <2>2. CASE conv' = Failed(starter[s].task)
    BY <2>2, FailedKeeps DEF IInv
  <2> QED
    BY <2>1, <2>2 DEF UndoStart, StartLost
<1> QED
  BY <1>1, <1>2, StarterEnds, RequestsStay, WorkersStay, TasksStay DEF IInv, SameCursor

-----------------------------------------------------------------------------
(* The consumer *)

StateSound(s) ==
  /\ s.held => s.pc # "idle"
  /\ s.pc # "idle" => s.msg \in Msg /\ s.msg.task \in 1..nextTask
  /\ s.pc = "complete" => s.cut # {} /\ \A i \in s.cut : s.after < i
  /\ s.pc \in {"list", "complete"} /\ conv.version = job[s.msg.task].version
       => s.after = conv.through /\ s.old = conv.summary

LEMMA WorkerGoes ==
  ASSUME IInv, SameCursor, NEW w \in Workers, NEW s \in WorkerState, StateSound(s),
         worker' = [worker EXCEPT ![w] = s], UNCHANGED <<nextTask, job>>
  PROVE  WorkSound'
<1>1. worker' \in [Workers -> WorkerState]
  BY DEF IInv, WorkSound
<1>2. ASSUME NEW x \in Workers PROVE WorkerSound(x)'
  <2>1. worker \in [Workers -> WorkerState]
    BY DEF IInv, WorkSound
  <2>2. CASE x = w
    <3>1. worker'[x] = s
      BY <2>1, <2>2
    <3> QED
      BY <3>1 DEF StateSound, WorkerSound, Reading, Task, SameCursor
  <2>3. CASE x # w
    <3>1. worker'[x] = worker[x]
      BY <2>1, <2>3
    <3> QED
      BY <3>1 DEF IInv, WorkSound, WorkerSound, Reading, Task, SameCursor
  <2> QED
    BY <2>2, <2>3
<1> QED
  BY <1>1, <1>2 DEF WorkSound

LEMMA GotoSound ==
  ASSUME IInv, NEW w \in Workers, worker[w].pc # "idle",
         NEW pc \in {"look", "wait", "read", "giveup", "retry", "resend", "ack", "done"}
  PROVE  LET s == [Idle EXCEPT !.pc = pc, !.msg = worker[w].msg, !.held = worker[w].held]
         IN s \in WorkerState /\ StateSound(s)
<1>1. worker[w] \in WorkerState /\ worker[w].msg \in Msg /\ Task(w) \in 1..nextTask
  BY DEF IInv, WorkSound, WorkerSound
<1>2. Idle \in WorkerState
  BY LimitsAssumption DEF Idle, WorkerState, NoMsg
<1> DEFINE s == [Idle EXCEPT !.pc = pc, !.msg = worker[w].msg, !.held = worker[w].held]
<1>3. s \in WorkerState /\ s.pc = pc /\ s.msg = worker[w].msg
  BY <1>1, <1>2 DEF WorkerState
<1>4. StateSound(s)
  <2> HIDE DEF s
  <2> QED
    BY <1>1, <1>3 DEF StateSound, Task
<1> QED
  BY <1>3, <1>4

LEMMA GotoGoes ==
  ASSUME IInv, SameCursor, NEW w \in Workers, worker[w].pc # "idle",
         NEW pc \in {"look", "wait", "read", "giveup", "retry", "resend", "ack", "done"},
         Goto(w, pc), UNCHANGED <<nextTask, job>>
  PROVE  WorkSound'
  BY GotoSound, WorkerGoes DEF Goto

LEMMA IdleGoes ==
  ASSUME IInv, SameCursor, NEW w \in Workers, worker' = [worker EXCEPT ![w] = Idle],
         UNCHANGED <<nextTask, job>>
  PROVE  WorkSound'
<1>1. Idle \in WorkerState /\ StateSound(Idle)
  BY LimitsAssumption DEF Idle, WorkerState, NoMsg, StateSound
<1> QED
  BY <1>1, WorkerGoes

\* A consumer's step that leaves the queue and the starts alone.
LEMMA HandlerKeeps ==
  ASSUME IInv, ConvSound', SameCursor, SameLease, WorkSound',
         UNCHANGED <<nextLog, request, starter, job, queue, nextTask>>
  PROVE  IInv'
  BY RequestsStay, TasksStay, StartersSame DEF IInv, SameCursor

LEMMA SameConv == ASSUME IInv, UNCHANGED conv PROVE ConvSound' /\ SameCursor /\ SameLease
  BY DEF IInv, ConvSound, ConversationRow, SameCursor, SameLease

LEMMA ClaimInv == ASSUME IInv, NEW w \in Workers, Claim(w) PROVE IInv'
<1>1. worker[w].pc # "idle" /\ UNCHANGED <<nextLog, request, starter, job, queue, nextTask>>
  BY DEF Claim
<1>2. ConvSound' /\ SameCursor /\ SameLease
  <2>1. CASE UNCHANGED conv
    BY <2>1, SameConv
  <2>2. CASE conv' = [conv EXCEPT !.status = "processing", !.summaryLease = "live"]
    BY <2>2 DEF IInv, ConvSound, ConversationRow, SameCursor, SameLease
  <2> QED
    BY <2>1, <2>2 DEF Claim
<1>3. \E pc \in {"look", "read", "retry"} : Goto(w, pc)
  BY DEF Claim
<1>4. WorkSound'
  BY <1>1, <1>2, <1>3, GotoGoes
<1> QED
  BY <1>1, <1>2, <1>4, HandlerKeeps

LEMMA LookInv == ASSUME IInv, NEW w \in Workers, Look(w) \/ SummaryFails(w) PROVE IInv'
<1>1. /\ worker[w].pc # "idle" /\ UNCHANGED <<conv, nextLog, request, starter, job, queue, nextTask>>
      /\ \E pc \in {"wait", "done", "retry"} : Goto(w, pc)
  BY DEF Look, SummaryFails
<1>2. ConvSound' /\ SameCursor /\ SameLease
  BY <1>1, SameConv
<1>3. WorkSound'
  BY <1>1, <1>2, GotoGoes
<1> QED
  BY <1>1, <1>2, <1>3, HandlerKeeps

LEMMA GiveUpInv == ASSUME IInv, NEW w \in Workers, GiveUp(w) \/ Retry(w) PROVE IInv'
<1>1. /\ worker[w].pc # "idle" /\ UNCHANGED <<nextLog, request, starter, job, queue, nextTask>>
      /\ \E pc \in {"done", "retry", "resend"} : Goto(w, pc)
  BY DEF GiveUp, Retry
<1>2. ConvSound' /\ SameCursor /\ SameLease
  <2>1. CASE UNCHANGED conv
    BY <2>1, SameConv
  <2>2. CASE conv' = Failed(Task(w))
    BY <2>2, FailedKeeps DEF IInv
  <2> QED
    BY <2>1, <2>2 DEF GiveUp, Retry
<1>3. WorkSound'
  BY <1>1, <1>2, GotoGoes
<1> QED
  BY <1>1, <1>2, <1>3, HandlerKeeps

\* The row is read: cursor and summary belong to the version it has.
LEMMA ReadRowInv == ASSUME IInv, NEW w \in Workers, ReadRow(w) PROVE IInv'
<1>1. /\ worker[w].pc # "idle" /\ UNCHANGED <<conv, nextLog, request, starter, job, queue, nextTask>>
  BY DEF ReadRow
<1>2. ConvSound' /\ SameCursor /\ SameLease
  BY <1>1, SameConv
<1>3. WorkSound'
  <2>1. CASE \E pc \in {"giveup", "retry"} : Goto(w, pc)
    BY <1>1, <1>2, <2>1, GotoGoes
  <2>2. CASE worker' = [worker EXCEPT ![w].pc = "list", ![w].after = conv.through,
                                      ![w].old = conv.summary]
    <3> DEFINE s == [worker[w] EXCEPT !.pc = "list", !.after = conv.through, !.old = conv.summary]
    <3>1. worker[w] \in WorkerState /\ worker[w].msg \in Msg /\ Task(w) \in 1..nextTask
      BY <1>1 DEF IInv, WorkSound, WorkerSound
    <3>2. conv.through \in 0..MaxLogs /\ conv.summary \in SUBSET LogIds
      BY DEF IInv, ConvSound, ConversationRow
    <3>3. /\ s \in WorkerState /\ s.pc = "list" /\ s.msg = worker[w].msg
          /\ s.after = conv.through /\ s.old = conv.summary
      BY <3>1, <3>2 DEF WorkerState
    <3>4. worker' = [worker EXCEPT ![w] = s]
      BY <2>2
    <3> HIDE DEF s
    <3>5. StateSound(s)
      BY <3>1, <3>3 DEF StateSound, Task
    <3> QED
      BY <1>1, <1>2, <3>3, <3>4, <3>5, WorkerGoes
  <2> QED
    BY <2>1, <2>2 DEF ReadRow
<1> QED
  BY <1>1, <1>2, <1>3, HandlerKeeps

\* What is to be summarised lies behind the cursor that was read.
LEMMA ListRangeInv == ASSUME IInv, NEW w \in Workers, ListRange(w) PROVE IInv'
<1>1. /\ worker[w].pc = "list" /\ UNCHANGED <<conv, nextLog, request, starter, job, queue, nextTask>>
  BY DEF ListRange
<1>2. ConvSound' /\ SameCursor /\ SameLease
  BY <1>1, SameConv
<1>3. WorkSound'
  <2>1. CASE \E pc \in {"giveup", "retry"} : Goto(w, pc)
    BY <1>1, <1>2, <2>1, GotoGoes
  <2>2. CASE \E range \in SUBSET LogIds :
               /\ range # {} /\ \A i \in range : worker[w].after < i
               /\ worker' = [worker EXCEPT ![w].pc = "complete", ![w].cut = Compacted(range)]
    <3>1. PICK range \in SUBSET LogIds :
               /\ range # {} /\ \A i \in range : worker[w].after < i
               /\ worker' = [worker EXCEPT ![w].pc = "complete", ![w].cut = Compacted(range)]
      BY <2>2
    <3>2. PICK cut \in SUBSET LogIds :
               /\ cut # {} /\ \A i \in cut : worker[w].after < i
               /\ worker' = [worker EXCEPT ![w].pc = "complete", ![w].cut = cut]
      BY <3>1, RemovedAreThere
    <3> DEFINE s == [worker[w] EXCEPT !.pc = "complete", !.cut = cut]
    <3>3. worker[w] \in WorkerState /\ worker[w].msg \in Msg /\ Task(w) \in 1..nextTask
      BY <1>1 DEF IInv, WorkSound, WorkerSound
    <3>4. /\ s \in WorkerState /\ s.pc = "complete" /\ s.msg = worker[w].msg
          /\ s.after = worker[w].after /\ s.old = worker[w].old /\ s.cut = cut
      BY <3>3 DEF WorkerState
    <3>5. worker' = [worker EXCEPT ![w] = s]
      BY <3>2
    <3> HIDE DEF s
    <3>6. StateSound(s)
      BY <1>1, <3>2, <3>3, <3>4 DEF StateSound, Task, IInv, WorkSound, WorkerSound, Reading
    <3> QED
      BY <1>1, <1>2, <3>4, <3>5, <3>6, WorkerGoes
  <2>3. {i \in Saved : worker[w].after < i /\ i <= job[Task(w)].snapshot} \in SUBSET LogIds
    BY DEF Saved
  <2> QED
    BY <2>1, <2>2, <2>3 DEF ListRange
<1> QED
  BY <1>1, <1>2, <1>3, HandlerKeeps

\* The row gets its new summary: the cursor moves on, since what was read is the
\* version the row has.
Completes(w) ==
  /\ worker[w].pc = "complete" /\ Completable(w)
  /\ conv' = [conv EXCEPT !.summary = worker[w].old \cup worker[w].cut,
                          !.through = NewCursor(w), !.tokens = Minus(@, Removed(w)),
                          !.version = @ + 1, !.status = "idle", !.task = 0,
                          !.summaryLease = "none"]

LEMMA CompletesForward ==
  ASSUME IInv, NEW w \in Workers, Completes(w)
  PROVE  /\ ConvSound' /\ SameLease
         /\ conv'.through > conv.through /\ conv.summary \subseteq conv'.summary
         /\ conv'.version = conv.version + 1 /\ conv.version \in Nat
<1>1. conv \in ConversationRow /\ conv.version \in Nat /\ worker[w] \in WorkerState
  BY DEF IInv, ConvSound, WorkSound, ConversationRow
<1>2. /\ worker[w].cut # {} /\ (\A i \in worker[w].cut : worker[w].after < i)
      /\ worker[w].after = conv.through /\ worker[w].old = conv.summary
  BY DEF IInv, WorkSound, WorkerSound, Reading, Completes, Completable
<1>3. PICK cut \in SUBSET LogIds, old \in SUBSET LogIds :
        cut = worker[w].cut /\ old = worker[w].old
  BY <1>1 DEF WorkerState
<1>4. Max(cut) \in cut
  BY <1>2, <1>3, MaxIsThere
<1>5. PICK m \in cut : m = NewCursor(w)
  BY <1>3, <1>4 DEF NewCursor
<1>6. m > conv.through /\ m \in 0..MaxLogs /\ conv.through \in Nat
  <2>1. conv.through \in 0..MaxLogs /\ m \in LogIds /\ conv.through < m
    BY <1>1, <1>2, <1>3, <1>5 DEF ConversationRow
  <2> QED
    BY <2>1, LimitsAssumption DEF LogIds
<1>7. conv' = [conv EXCEPT !.summary = old \cup cut, !.through = m,
                           !.tokens = Minus(@, Removed(w)),
                           !.version = @ + 1, !.status = "idle", !.task = 0,
                           !.summaryLease = "none"]
  BY <1>3, <1>5 DEF Completes
<1>8. 0 \in 0..MaxTasks /\ old \cup cut \in SUBSET LogIds /\ conv.version + 1 \in Nat
  BY <1>1, LimitsAssumption
<1>9. /\ conv'.through = m /\ conv'.summary = old \cup cut
      /\ conv'.version = conv.version + 1 /\ SameLease
  BY <1>1, <1>7 DEF ConversationRow, SameLease
<1>10. ConvSound'
  BY <1>1, <1>6, <1>7, <1>8 DEF IInv, ConvSound, ConversationRow
<1> QED
  BY <1>1, <1>2, <1>3, <1>6, <1>9, <1>10

LEMMA VersionOfTheTime ==
  ASSUME IInv, NEW t \in 1..nextTask
  PROVE  job[t].version \in Nat /\ job[t].version <= conv.version
<1>1. t \in 1..MaxTasks
  BY LimitsAssumption DEF IInv, TaskSound
<1>2. job[t] \in [snapshot : 0..MaxLogs, version : Nat]
  BY <1>1 DEF IInv, TaskSound
<1> QED
  BY <1>2 DEF IInv, TaskSound

LEMMA CompleteInv == ASSUME IInv, NEW w \in Workers, Complete(w) PROVE IInv'
<1>1. /\ worker[w].pc = "complete"
      /\ UNCHANGED <<nextLog, request, starter, job, queue, nextTask>>
  BY DEF Complete
<1>2. CASE Goto(w, "retry") /\ UNCHANGED conv
  <2>1. ConvSound' /\ SameCursor /\ SameLease
    BY <1>2, SameConv
  <2>2. WorkSound'
    BY <1>1, <1>2, <2>1, GotoGoes
  <2> QED
    BY <1>1, <2>1, <2>2, HandlerKeeps
<1>3. CASE Completes(w) /\ Goto(w, "done")
  <2>1. /\ ConvSound' /\ SameLease
        /\ conv'.version = conv.version + 1 /\ conv.version \in Nat
    BY <1>3, CompletesForward
  <2>2. TaskSound'
    <3>1. \A t \in 1..nextTask : job[t].version \in Nat /\ job[t].version <= conv'.version
      BY <2>1, VersionOfTheTime
    <3> QED
      BY <1>1, <3>1 DEF IInv, TaskSound
  <2>3. WorkSound'
    <3> DEFINE s == [Idle EXCEPT !.pc = "done", !.msg = worker[w].msg, !.held = worker[w].held]
    <3>1. s \in WorkerState /\ StateSound(s)
      BY <1>1, GotoSound
    <3>2. s.pc = "done"
      BY DEF Idle
    <3>3. worker' = [worker EXCEPT ![w] = s] /\ worker \in [Workers -> WorkerState]
      BY <1>3 DEF Goto, IInv, WorkSound
    <3> HIDE DEF s
    <3>4. ASSUME NEW x \in Workers PROVE WorkerSound(x)'
      <4>1. CASE x = w
        <5>1. worker'[x] = s
          BY <3>3, <4>1
        <5> QED
          BY <1>1, <3>1, <3>2, <5>1 DEF StateSound, WorkerSound, Reading, Task
      <4>2. CASE x # w
        <5>1. worker'[x] = worker[x]
          BY <3>3, <4>2
        <5>2. worker[x].pc # "idle" => job[Task(x)].version # conv'.version
          <6>1. ASSUME worker[x].pc # "idle" PROVE job[Task(x)].version # conv'.version
            <7>1. Task(x) \in 1..nextTask
              BY <6>1 DEF IInv, WorkSound, WorkerSound
            <7>2. job[Task(x)].version \in Nat /\ job[Task(x)].version <= conv.version
              BY <7>1, VersionOfTheTime
            <7> QED
              BY <2>1, <7>2
          <6> QED
            BY <6>1
        <5> QED
          BY <1>1, <5>1, <5>2 DEF IInv, WorkSound, WorkerSound, Reading, Task
      <4> QED
        BY <4>1, <4>2
    <3> QED
      BY <3>1, <3>3, <3>4 DEF WorkSound
  <2> QED
    BY <1>1, <2>1, <2>2, <2>3, RequestsStay DEF IInv
<1> QED
  BY <1>2, <1>3 DEF Complete, Completes

\* Messages come and go, of tasks that were handed out.
LEMMA MessagesKeep ==
  ASSUME IInv, UNCHANGED <<conv, nextLog, request, job, nextTask>>, StartersGo, WorkSound',
         queue' \in [Msg -> Nat], \A m \in Msg : queue'[m] > 0 => m.task \in 1..nextTask
  PROVE  IInv'
<1>1. ConvSound' /\ SameLease
  BY SameConv
<1>2. TaskSound'
  BY DEF IInv, TaskSound, StartersGo
<1> QED
  BY <1>1, <1>2, RequestsStay DEF IInv

LEMMA ReceiveInv == ASSUME IInv, NEW w \in Workers, NEW m \in Msg, Receive(w, m) PROVE IInv'
<1>1. /\ queue[m] > 0 /\ queue' = [queue EXCEPT ![m] = @ - 1]
      /\ worker' = [worker EXCEPT ![w] = [Idle EXCEPT !.pc = "claim", !.msg = m, !.held = TRUE]]
      /\ UNCHANGED <<conv, logs, nextLog, request, plain, starter, job, nextTask, lost, faults>>
  BY DEF Receive
<1>2. queue \in [Msg -> Nat] /\ m.task \in 1..nextTask
  BY <1>1 DEF IInv, TaskSound
<1>3. queue' \in [Msg -> Nat] /\ \A x \in Msg : queue'[x] > 0 => x.task \in 1..nextTask
  <2>1. queue[m] - 1 \in Nat
    BY <1>1, <1>2
  <2> QED
    BY <1>1, <1>2, <2>1 DEF IInv, TaskSound
<1>4. WorkSound'
  <2> DEFINE s == [Idle EXCEPT !.pc = "claim", !.msg = m, !.held = TRUE]
  <2>1. Idle \in WorkerState
    BY LimitsAssumption DEF Idle, WorkerState, NoMsg
  <2>2. s \in WorkerState /\ s.pc = "claim" /\ s.msg = m
    BY <2>1 DEF WorkerState
  <2>3. SameCursor
    BY <1>1 DEF SameCursor
  <2>4. worker' = [worker EXCEPT ![w] = s]
    BY <1>1
  <2> HIDE DEF s
  <2>5. StateSound(s)
    BY <1>2, <2>2 DEF StateSound
  <2> QED
    BY <1>1, <2>2, <2>3, <2>4, <2>5, WorkerGoes
<1> QED
  BY <1>1, <1>3, <1>4, StartersSame, MessagesKeep

\* The message of a consumer, and the one it sends in its place.
LEMMA ReturnsKeep ==
  ASSUME IInv, NEW w \in Workers, worker[w].pc # "idle", NEW a \in 0..MaxRetries,
         queue' \in {queue, Put(worker[w].msg), Put([worker[w].msg EXCEPT !.attempt = a])}
  PROVE  queue' \in [Msg -> Nat] /\ \A m \in Msg : queue'[m] > 0 => m.task \in 1..nextTask
<1>1. worker[w].msg \in Msg /\ worker[w].msg.task \in 1..nextTask
  BY DEF IInv, WorkSound, WorkerSound, Task
<1>2. /\ [worker[w].msg EXCEPT !.attempt = a] \in Msg
      /\ [worker[w].msg EXCEPT !.attempt = a].task \in 1..nextTask
  BY <1>1 DEF Msg
<1>3. TaskSound
  BY DEF IInv
<1>4. CASE queue' \in {queue, Put(worker[w].msg)}
  BY <1>1, <1>3, <1>4, PutKeeps
<1>5. CASE queue' = Put([worker[w].msg EXCEPT !.attempt = a])
  <2> DEFINE m == [worker[w].msg EXCEPT !.attempt = a]
  <2>1. m \in Msg /\ m.task \in 1..nextTask /\ queue' \in {queue, Put(m)}
    BY <1>2, <1>5
  <2> HIDE DEF m
  <2> QED
    BY <1>3, <2>1, PutKeeps
<1> QED
  BY <1>4, <1>5

LEMMA GivesBack ==
  ASSUME IInv, NEW w \in Workers, queue' = Redelivered(w)
  PROVE  queue' \in [Msg -> Nat] /\ \A m \in Msg : queue'[m] > 0 => m.task \in 1..nextTask
<1>1. CASE worker[w].held
  <2>1. worker[w].pc # "idle" /\ 0 \in 0..MaxRetries
    BY <1>1, LimitsAssumption DEF IInv, WorkSound, WorkerSound
  <2> QED
    BY <1>1, <2>1, ReturnsKeep DEF Redelivered
<1>2. CASE ~worker[w].held
  BY <1>2 DEF Redelivered, IInv, TaskSound
<1> QED
  BY <1>1, <1>2

LEMMA ResendInv == ASSUME IInv, NEW w \in Workers, Resend(w) PROVE IInv'
<1>1. /\ worker[w].pc # "idle" /\ worker[w].msg \in Msg /\ Task(w) \in 1..nextTask
      /\ UNCHANGED <<conv, nextLog, request, starter, job, nextTask>>
  BY DEF IInv, WorkSound, WorkerSound, Resend
<1>2. SameCursor
  BY <1>1, SameConv
<1>3. WorkSound'
  <2>1. CASE Goto(w, "ack")
    BY <1>1, <1>2, <2>1, GotoGoes
  <2>2. CASE worker' = [worker EXCEPT ![w] = Idle]
    BY <1>1, <1>2, <2>2, IdleGoes
  <2> QED
    BY <2>1, <2>2 DEF Resend
<1>4. PICK a \in 0..MaxRetries :
        queue' \in {queue, Put(worker[w].msg), Put([worker[w].msg EXCEPT !.attempt = a])}
  <2>1. CASE queue' \in {queue, Put(worker[w].msg)}
    BY <2>1, LimitsAssumption
  <2>2. CASE /\ worker[w].msg.attempt < MaxRetries
             /\ queue' = Put([worker[w].msg EXCEPT !.attempt = @ + 1])
    <3>1. worker[w].msg.attempt + 1 \in 0..MaxRetries
      BY <1>1, <2>2, LimitsAssumption DEF Msg
    <3> QED
      BY <2>2, <3>1
  <2> QED
    BY <2>1, <2>2 DEF Resend, Redelivered
<1>5. queue' \in [Msg -> Nat] /\ \A m \in Msg : queue'[m] > 0 => m.task \in 1..nextTask
  BY <1>1, <1>4, ReturnsKeep
<1> QED
  BY <1>1, <1>3, <1>5, StartersSame, MessagesKeep

LEMMA AckInv == ASSUME IInv, NEW w \in Workers, Ack(w) PROVE IInv'
<1>1. /\ worker' = [worker EXCEPT ![w] = Idle] /\ AfterAck(w) \in {"try", "idle"}
      /\ starter' = [starter EXCEPT ![w].pc = AfterAck(w)]
      /\ UNCHANGED <<conv, nextLog, request, job, queue, nextTask>>
  BY DEF Ack, AfterAck
<1>2. SameCursor
  BY <1>1, SameConv
<1>3. WorkSound'
  BY <1>1, <1>2, IdleGoes
<1>4. StartersGo
  BY <1>1, StarterEnds
<1>5. queue' \in [Msg -> Nat] /\ \A m \in Msg : queue'[m] > 0 => m.task \in 1..nextTask
  BY <1>1 DEF IInv, TaskSound
<1> QED
  BY <1>1, <1>3, <1>4, <1>5, MessagesKeep

\* A consumer that dies gives its message back.
LEMMA CrashInv == ASSUME IInv, NEW w \in Workers, Crash(w) PROVE IInv'
<1>1. /\ worker' = [worker EXCEPT ![w] = Idle] /\ starter' = [starter EXCEPT ![w] = NoStart]
      /\ queue' = Redelivered(w) /\ UNCHANGED <<conv, nextLog, request, job, nextTask>>
  BY DEF Crash
<1>2. SameCursor
  BY <1>1, SameConv
<1>3. WorkSound'
  BY <1>1, <1>2, IdleGoes
<1>4. StartersGo
  BY <1>1, StarterEnds
<1>5. queue' \in [Msg -> Nat] /\ \A m \in Msg : queue'[m] > 0 => m.task \in 1..nextTask
  BY <1>1, GivesBack
<1> QED
  BY <1>1, <1>3, <1>4, <1>5, MessagesKeep

\* A consumer that loses its channel goes on without its message.
LEMMA LoseChannelInv == ASSUME IInv, NEW w \in Workers, LoseChannel(w) PROVE IInv'
<1>1. /\ worker' = [worker EXCEPT ![w].held = FALSE] /\ queue' = Redelivered(w)
      /\ UNCHANGED <<conv, nextLog, request, starter, job, nextTask>>
  BY DEF LoseChannel
<1>2. SameCursor
  BY <1>1, SameConv
<1>3. WorkSound'
  <2> DEFINE s == [worker[w] EXCEPT !.held = FALSE]
  <2>1. worker[w] \in WorkerState
    BY DEF IInv, WorkSound
  <2>2. /\ s \in WorkerState /\ s.pc = worker[w].pc /\ s.msg = worker[w].msg /\ ~s.held
        /\ s.after = worker[w].after /\ s.old = worker[w].old /\ s.cut = worker[w].cut
    BY <2>1 DEF WorkerState
  <2>3. worker' = [worker EXCEPT ![w] = s]
    BY <1>1
  <2> HIDE DEF s
  <2>4. StateSound(s)
    <3>1. WorkerSound(w)
      BY DEF IInv, WorkSound
    <3> QED
      BY <2>2, <3>1 DEF StateSound, Task, WorkerSound, Reading
  <2> QED
    BY <1>1, <1>2, <2>2, <2>3, <2>4, WorkerGoes
<1>4. queue' \in [Msg -> Nat] /\ \A m \in Msg : queue'[m] > 0 => m.task \in 1..nextTask
  BY <1>1, GivesBack
<1> QED
  BY <1>1, <1>3, <1>4, StartersSame, MessagesKeep

-----------------------------------------------------------------------------
(* Every step *)

LEMMA StepInv == ASSUME IInv, Next PROVE IInv'
<1>1. CASE \E r \in Requests : Acquire(r) \/ RequestRuns(r) \/ RequestDies(r)
  BY <1>1, AcquireInv, RequestRunsInv, RequestEndsInv DEF RequestRuns
<1>2. CASE \E p \in Plain : PlainInsert(p) \/ PlainCommit(p)
  BY <1>2, PlainInv
<1>3. CASE \E s \in Starters : Starts(s) \/ StartLost(s)
  BY <1>3, TryQueueInv, PublishTaskInv, StartEndsInv DEF Starts
<1>4. CASE \E w \in Workers : \E m \in Msg : Receive(w, m)
  BY <1>4, ReceiveInv
<1>5. CASE \E w \in Workers : Handles(w)
  BY <1>5, ClaimInv, LookInv, ReadRowInv, ListRangeInv, CompleteInv, GiveUpInv, ResendInv,
     AckInv DEF Handles
<1>6. CASE \E w \in Workers : Crash(w) \/ LoseChannel(w)
  BY <1>6, CrashInv, LoseChannelInv
<1>7. CASE LeaseExpires \/ SummaryLeaseExpires \/ ConversationExpires
  BY <1>7, TimeInv
<1> QED
  BY <1>1, <1>2, <1>3, <1>4, <1>5, <1>6, <1>7 DEF Next

LEMMA StutterInv == ASSUME IInv, UNCHANGED vars PROVE IInv'
<1>1. UNCHANGED <<conv, nextLog, request, starter, job, queue, worker, nextTask>>
  BY DEF vars
<1>2. SameCursor /\ WorkSound'
  BY <1>1, SameConv, WorkersStay
<1>3. queue' \in [Msg -> Nat] /\ \A m \in Msg : queue'[m] > 0 => m.task \in 1..nextTask
  BY <1>1 DEF IInv, TaskSound
<1> QED
  BY <1>1, <1>2, <1>3, StartersSame, MessagesKeep

LEMMA AlwaysSound == Spec => []IInv
<1>1. IInv /\ [Next]_vars => IInv'
  BY StepInv, StutterInv
<1> QED
  BY <1>1, Initial, PTL DEF Spec

-----------------------------------------------------------------------------
(* What it shows *)

\* The processing lease of agent_service.go and AppendLogRefreshAndSignal protects a
\* request for as long as it has not expired: neither another request's acquisition
\* nor the deferred release of one that was outrun takes the row from it.
THEOREM LeaseIsKept == Spec => []LeaseProtects
<1>1. IInv => LeaseProtects
  BY DEF IInv, Holds, LeaseProtects
<1> QED
  BY <1>1, AlwaysSound, PTL

\* Only CompleteCompaction writes the summary.
LEMMA OthersKeepTheCursor ==
  ASSUME IInv, Next, ~(\E w \in Workers : Completes(w)) PROVE SameCursor
<1>1. conv \in ConversationRow /\ ConvSound
  BY DEF IInv, ConvSound
<1>2. CASE UNCHANGED conv
  BY <1>2 DEF SameCursor
<1>3. CASE \E r \in Requests : Acquire(r) \/ Commit(r) \/ Release(r)
  BY <1>1, <1>3 DEF Acquire, Commit, Release, SameCursor, ConversationRow
<1>4. CASE \E s \in Starters : TryQueue(s)
  BY <1>1, <1>4 DEF TryQueue, SameCursor, ConversationRow
<1>5. CASE \E task : conv' = Failed(task)
  BY <1>1, <1>5, FailedKeeps
<1>6. CASE \E w \in Workers : Claim(w)
  BY <1>1, <1>6 DEF Claim, SameCursor, ConversationRow
<1>7. CASE LeaseExpires \/ SummaryLeaseExpires \/ ConversationExpires
  BY <1>1, <1>7 DEF LeaseExpires, SummaryLeaseExpires, ConversationExpires, SameCursor,
     ConversationRow
<1>8. CASE \E w \in Workers : Complete(w)
  BY <1>2, <1>8 DEF Complete, Completes
<1>9. CASE \E r \in Requests : RequestRuns(r) \/ RequestDies(r)
  BY <1>2, <1>3, <1>9 DEF RequestRuns, ReadSummary, ReadLogs, Insert, RequestFails, RequestDies
<1>10. CASE \E s \in Starters : PublishTask(s) \/ UndoStart(s) \/ StartLost(s)
  BY <1>2, <1>5, <1>10 DEF PublishTask, UndoStart, StartLost
<1>11. CASE \E w \in Workers : \/ Look(w) \/ ReadRow(w) \/ ListRange(w) \/ SummaryFails(w)
                                \/ Resend(w) \/ Ack(w) \/ Crash(w) \/ LoseChannel(w)
  BY <1>2, <1>11 DEF Look, ReadRow, ListRange, SummaryFails, Resend, Ack, Crash,
     LoseChannel
<1>12. CASE \E w \in Workers : GiveUp(w) \/ Retry(w)
  BY <1>2, <1>5, <1>12 DEF GiveUp, Retry
<1>13. CASE \E p \in Plain : PlainInsert(p) \/ PlainCommit(p)
  BY <1>2, <1>13 DEF PlainInsert, PlainCommit
<1>14. CASE \E w \in Workers : Handles(w)
  <2>1. PICK w \in Workers : Handles(w)
    BY <1>14
  <2>2. \/ Claim(w) \/ Complete(w) \/ GiveUp(w) \/ Retry(w)
        \/ Look(w) \/ ReadRow(w) \/ ListRange(w) \/ SummaryFails(w) \/ Resend(w) \/ Ack(w)
    BY <2>1 DEF Handles
  <2> QED
    BY <1>6, <1>8, <1>11, <1>12, <2>2
<1>15. CASE \E s \in Starters : Starts(s) \/ StartLost(s)
  BY <1>4, <1>10, <1>15 DEF Starts
<1>16. CASE \E w \in Workers : \E m \in Msg : Receive(w, m)
  BY <1>2, <1>16 DEF Receive
<1> QED
  BY <1>3, <1>7, <1>9, <1>11, <1>13, <1>14, <1>15, <1>16 DEF Next

\* CompleteCompaction compares the task and the version under the row's lock, so a
\* superseded or repeated execution of ConversationCompactConsumer never moves the
\* cursor back or puts an older summary in the place of a newer one.
THEOREM CursorNeverBack == Spec => CursorForward
<1> DEFINE Forward == conv'.summary # conv.summary \/ conv'.through # conv.through =>
                        /\ conv'.through > conv.through
                        /\ conv.summary \subseteq conv'.summary
                        /\ conv'.version = conv.version + 1
<1>1. ASSUME IInv, Next PROVE Forward
  BY <1>1, CompletesForward, OthersKeepTheCursor DEF SameCursor
<1>2. ASSUME UNCHANGED vars PROVE Forward
  BY <1>2 DEF vars
<1>3. IInv /\ [Next]_vars => [Forward]_vars
  BY <1>1, <1>2
<1> QED
  BY <1>3, AlwaysSound, PTL DEF Spec, CursorForward
-----------------------------------------------------------------------------
(* The tokens of sets of logs *)

LogsSound ==
  /\ logs \in [LogIds -> ChatLog] /\ plain \in [Plain -> PlainState]
  /\ conv.tokens \in Nat /\ lost \in BOOLEAN /\ faults \in Nat

LEMMA LogIdsNat == LogIds \subseteq Nat
<1>1. MaxLogs \in Nat
  BY LimitsAssumption
<1> QED
  BY <1>1 DEF LogIds

LEMMA LogIdsFinite == ASSUME NEW ids \in SUBSET LogIds PROVE IsFiniteSet(ids)
<1>1. IsFiniteSet(LogIds)
  BY LimitsAssumption, FS_Interval DEF LogIds
<1> QED
  BY <1>1, FS_Subset

LEMMA TokensNat ==
  ASSUME LogsSound, NEW ids \in SUBSET LogIds
  PROVE  /\ \A i \in LogIds : logs[i].tokens \in Nat
         /\ TokensOf(ids) \in Nat
<1>1. \A i \in LogIds : logs[i].tokens \in Nat
  <2>1. ASSUME NEW i \in LogIds PROVE logs[i].tokens \in Nat
    <3>1. logs[i] \in ChatLog
      BY DEF LogsSound
    <3>2. logs[i].tokens \in Sizes \cup {0}
      BY <3>1 DEF ChatLog
    <3>3. Sizes \cup {0} \subseteq Nat
      BY LimitsAssumption
    <3> QED
      BY <3>2, <3>3
  <2> QED
    BY <2>1
<1> DEFINE f == [i \in LogIds |-> logs[i].tokens]
<1>2. \A i \in ids : f[i] \in Nat
  BY <1>1
<1>3. SumFunctionOnSet(f, ids) \in Nat
  <2> HIDE DEF f
  <2> QED
    BY <1>2, LogIdsFinite, SumNat
<1> QED
  BY <1>1, <1>3 DEF TokensOf

LEMMA TokensOfBoth ==
  ASSUME LogsSound, NEW A \in SUBSET LogIds, NEW B \in SUBSET LogIds, A \cap B = {}
  PROVE  TokensOf(A \cup B) = TokensOf(A) + TokensOf(B)
<1> DEFINE f == [i \in LogIds |-> logs[i].tokens]
<1>1. \A i \in LogIds : f[i] \in Nat
  BY TokensNat
<1>2. SumFunctionOnSet(f, A \cup B) = SumFunctionOnSet(f, A) + SumFunctionOnSet(f, B)
  <2> HIDE DEF f
  <2> QED
    BY <1>1, LogIdsFinite, SumOfBoth
<1> QED
  BY <1>2 DEF TokensOf

LEMMA TokensOfPart ==
  ASSUME LogsSound, NEW B \in SUBSET LogIds, NEW A \in SUBSET B
  PROVE  TokensOf(A) <= TokensOf(B)
<1> DEFINE f == [i \in LogIds |-> logs[i].tokens]
<1>1. \A i \in B : f[i] \in Nat
  BY TokensNat
<1>2. SumFunctionOnSet(f, A) <= SumFunctionOnSet(f, B)
  <2> HIDE DEF f
  <2> QED
    BY <1>1, LogIdsFinite, SumOfPart
<1> QED
  BY <1>2 DEF TokensOf

\* selectCompactLogs takes the oldest logs: with a log it takes the ones before it.
LEMMA OldestAreCut ==
  ASSUME LogsSound, NEW range \in SUBSET LogIds, NEW i \in range, NEW j \in Compacted(range), i <= j
  PROVE  i \in Compacted(range)
<1> DEFINE Since(k) == {l \in range : l >= k}
           kept == {k \in range : k = Max(range) \/ TokensOf(Since(k)) <= Keep}
<1>1. Compacted(range) = IF kept = range THEN range ELSE range \ kept
  BY DEF Compacted
<1>2. CASE kept = range
  BY <1>1, <1>2
<1>3. CASE kept # range
  <2>1. j \in range /\ j \notin kept
    BY <1>1, <1>3
  <2>2. j # Max(range) /\ ~(TokensOf(Since(j)) <= Keep)
    BY <2>1
  <2>3. Max(range) \in range /\ Max(range) >= j
    BY <2>1, MaxIsMost
  <2>4. i \in Nat /\ j \in Nat /\ Max(range) \in Nat
    BY <2>1, <2>3, LogIdsNat
  <2>5. i # Max(range)
    BY <2>2, <2>3, <2>4
  <2>6. ~(TokensOf(Since(i)) <= Keep)
    <3>1. Since(j) \in SUBSET Since(i) /\ Since(i) \in SUBSET LogIds /\ Since(j) \in SUBSET LogIds
      <4>1. \A k \in range : k \in Nat
        BY LogIdsNat
      <4>2. \A l \in range : l >= j => l >= i
        BY <2>4, <4>1
      <4> QED
        BY <4>2
    <3>2. TokensOf(Since(j)) <= TokensOf(Since(i))
      BY <3>1, TokensOfPart
    <3>3. TokensOf(Since(i)) \in Nat /\ TokensOf(Since(j)) \in Nat /\ Keep \in Nat
      BY <3>1, TokensNat, LimitsAssumption
    <3> HIDE DEF Since
    <3> QED
      BY <2>2, <3>2, <3>3
  <2>7. i \notin kept
    <3> HIDE DEF Since
    <3> QED
      BY <2>5, <2>6
  <2> QED
    BY <1>1, <1>3, <2>7
<1> QED
  BY <1>2, <1>3

-----------------------------------------------------------------------------
(* The inductive invariant of the history *)

\* An id belongs to one turn that waits to be committed, or to a saved one.
IdsSound ==
  /\ \A i \in LogIds : i > nextLog => logs[i] = NoLog
  /\ \A r \in Requests : request[r].pc = "commit" =>
       /\ request[r].id \in 1..nextLog /\ request[r].tokens \in Sizes
       /\ logs[request[r].id].by # "plain"
       /\ \A p \in Plain : plain[p].id # request[r].id
  /\ \A p \in Plain : plain[p].id # 0 => plain[p].id \in 1..nextLog /\ plain[p].tokens \in Sizes

Behind == {i \in Saved : i > conv.through}

\* The cursor stands at a saved log or before all of them.
CursorSound == /\ conv.through = 0 \/ conv.through \in Saved
               /\ conv.summary = Saved \ Behind
               /\ conv.tokens = TokensOf(Behind)

SawBefore == \A i, j \in Saved : i < j => i \in logs[j].saw

\* What the request that has the row has seen of the history.
Sees(q) ==
  /\ q.pc = "list" => \A i \in Saved : i <= q.after => i \in q.saw
  /\ q.pc \in {"work", "commit"} => Saved \subseteq q.saw
  /\ q.pc = "commit" => \A i \in Saved : i < q.id

\* A consumer has cut all logs from the cursor it has read to the newest of them.
Cuts(s) ==
  s.pc = "complete" => /\ s.cut \subseteq Saved
                       /\ \A i \in Saved, j \in s.cut : s.after < i /\ i <= j => i \in s.cut

History == /\ CursorSound /\ SawBefore
           /\ \A r \in Requests : conv.token = r => Sees(request[r])
           /\ \A w \in Workers : Cuts(worker[w])

HistoryInv == LogsSound /\ IdsSound /\ (Mixed \/ History)

LEMMA InitialHistory == Init => HistoryInv
<1> SUFFICES ASSUME Init PROVE HistoryInv
  OBVIOUS
<1> USE LimitsAssumption
<1>1. PICK n \in Sizes :
        /\ conv = [token |-> "none", lease |-> "none", through |-> 0, summary |-> {},
                   tokens |-> n, version |-> 0, status |-> "idle", task |-> 0,
                   summaryLease |-> "none", expired |-> FALSE]
        /\ logs = [i \in LogIds |-> IF i = 1 THEN [NoLog EXCEPT !.tokens = n, !.by = "agent"]
                                             ELSE NoLog]
  BY DEF Init
<1>2. /\ request = [r \in Requests |-> Resting] /\ plain = [p \in Plain |-> Waiting]
      /\ nextLog = 1 /\ worker = [w \in Workers |-> Idle] /\ lost = FALSE /\ faults = 0
  BY DEF Init
<1> DEFINE first == [NoLog EXCEPT !.tokens = n, !.by = "agent"]
<1>3. /\ first \in ChatLog /\ NoLog \in ChatLog
      /\ NoLog.tokens = 0 /\ NoLog.by = "none" /\ first.tokens = n /\ first.by = "agent"
  BY DEF NoLog, ChatLog
<1>10. n \in Nat /\ n > 0
  BY LimitsAssumption
<1>11. 1 \in LogIds
  BY DEF LogIds
<1>4. \A i \in LogIds : logs[i] = IF i = 1 THEN first ELSE NoLog
  BY <1>1
<1> HIDE DEF first
<1>5. LogsSound
  <2>1. logs \in [LogIds -> ChatLog]
    <3>1. logs = [i \in LogIds |-> IF i = 1 THEN first ELSE NoLog]
      BY <1>1 DEF first
    <3> QED
      BY <1>3, <3>1
  <2>2. Waiting \in PlainState
    BY DEF Waiting, PlainState
  <2> QED
    BY <1>1, <1>2, <1>10, <2>1, <2>2 DEF LogsSound
<1>6. IdsSound
  <2>1. Resting.pc = "idle" /\ Waiting.id = 0
    BY DEF Resting, Waiting
  <2>2. \A i \in LogIds : i > nextLog => i # 1
    BY <1>2 DEF LogIds
  <2> QED
    BY <1>2, <1>4, <2>1, <2>2 DEF IdsSound
<1>7. Saved = {1} /\ Behind = {1}
  BY <1>1, <1>3, <1>10, <1>11, <1>4 DEF Saved, Behind
<1>8. CursorSound
  <2>1. TokensOf({1}) = n
    <3> DEFINE f == [i \in LogIds |-> logs[i].tokens]
    <3>1. f[1] = n /\ \A i \in {1} : f[i] \in Nat
      BY <1>3, <1>4, <1>10, <1>11
    <3>2. IsFiniteSet({1}) /\ {1} \ {1} = {}
      BY FS_Singleton
    <3> HIDE DEF f
    <3>3. SumFunctionOnSet(f, {1}) = f[1] + SumFunctionOnSet(f, {1} \ {1})
      BY <3>1, <3>2, SumWithout
    <3>4. SumFunctionOnSet(f, {}) = 0
      BY <3>2, SumEquations
    <3>5. SumFunctionOnSet(f, {1}) = n
      BY <1>10, <3>1, <3>2, <3>3, <3>4
    <3> QED
      BY <3>5 DEF TokensOf, f
  <2> QED
    BY <1>1, <1>7, <2>1 DEF CursorSound
<1>9. SawBefore /\ (\A r \in Requests : Sees(request[r])) /\ (\A w \in Workers : Cuts(worker[w]))
  BY <1>2, <1>7 DEF SawBefore, Sees, Cuts, Resting, Idle
<1> QED
  BY <1>5, <1>6, <1>8, <1>9 DEF HistoryInv, History

-----------------------------------------------------------------------------
(* The types *)

LEMMA TypesSame ==
  ASSUME LogsSound, Next, ~(\E r \in Requests : Commit(r)), ~(\E p \in Plain : PlainCommit(p))
  PROVE  UNCHANGED logs
<1>1. CASE \E r \in Requests : Acquire(r) \/ RequestRuns(r) \/ RequestDies(r)
  BY <1>1 DEF Acquire, RequestRuns, ReadSummary, ReadLogs, Insert, RequestFails, Release,
     RequestDies
<1>2. CASE \E p \in Plain : PlainInsert(p) \/ PlainCommit(p)
  BY <1>2 DEF PlainInsert
<1>3. CASE \E s \in Starters : Starts(s) \/ StartLost(s)
  BY <1>3 DEF Starts, TryQueue, PublishTask, UndoStart, StartLost
<1>4. CASE \E w \in Workers : \E m \in Msg : Receive(w, m)
  BY <1>4 DEF Receive
<1>5. CASE \E w \in Workers : Handles(w)
  BY <1>5 DEF Handles, Claim, Look, ReadRow, ListRange, SummaryFails, Complete, GiveUp, Retry,
     Resend, Ack
<1>6. CASE \E w \in Workers : Crash(w) \/ LoseChannel(w)
  BY <1>6 DEF Crash, LoseChannel
<1>7. CASE LeaseExpires \/ SummaryLeaseExpires \/ ConversationExpires
  BY <1>7 DEF LeaseExpires, SummaryLeaseExpires, ConversationExpires
<1> QED
  BY <1>1, <1>2, <1>3, <1>4, <1>5, <1>6, <1>7 DEF Next

\* The log that a commit saves.
LEMMA CommitSaves ==
  ASSUME IInv, LogsSound, IdsSound, NEW r \in Requests, Commit(r), logs' # logs
  PROVE  /\ conv.token = r /\ request[r].pc = "commit"
         /\ request[r].id \in LogIds /\ request[r].tokens \in Nat \ {0}
         /\ logs' = [logs EXCEPT ![request[r].id] =
                       [tokens |-> request[r].tokens, by |-> "agent", saw |-> request[r].saw]]
         /\ logs' \in [LogIds -> ChatLog]
         /\ conv' = [conv EXCEPT !.tokens = @ + request[r].tokens, !.expired = FALSE,
                                 !.token = "none", !.lease = "none"]
<1>1. request[r] \in RequestState /\ nextLog \in LogIds /\ MaxLogs \in Nat /\ Sizes \subseteq Nat \ {0}
  BY LimitsAssumption DEF IInv, RequestSound
<1>2. /\ request[r].pc = "commit" /\ conv.token = r
      /\ logs' = [logs EXCEPT ![request[r].id] =
                       [tokens |-> request[r].tokens, by |-> "agent", saw |-> request[r].saw]]
      /\ conv' = [conv EXCEPT !.tokens = @ + request[r].tokens, !.expired = FALSE,
                                 !.token = "none", !.lease = "none"]
  BY DEF Commit, HoldsLease
<1>3. request[r].id \in 1..nextLog /\ request[r].tokens \in Sizes
  BY <1>2 DEF IdsSound
<1>4. request[r].id \in LogIds
  BY <1>1, <1>3 DEF LogIds
<1>5. [tokens |-> request[r].tokens, by |-> "agent", saw |-> request[r].saw] \in ChatLog
  BY <1>1, <1>3 DEF ChatLog, RequestState
<1> QED
  BY <1>1, <1>2, <1>3, <1>4, <1>5 DEF LogsSound

LEMMA PlainSaves ==
  ASSUME LogsSound, IdsSound, NEW p \in Plain, PlainCommit(p)
  PROVE  /\ plain[p].id \in LogIds
         /\ logs' = [logs EXCEPT ![plain[p].id] =
                       [tokens |-> plain[p].tokens, by |-> "plain", saw |-> {}]]
         /\ logs' \in [LogIds -> ChatLog]
<1>1. plain[p] \in PlainState /\ plain[p].id # 0
  BY DEF LogsSound, PlainCommit
<1>2. plain[p].id \in 0..MaxLogs /\ plain[p].tokens \in Sizes \cup {0}
  BY <1>1 DEF PlainState
<1>3. plain[p].id \in LogIds
  BY <1>1, <1>2, LimitsAssumption DEF LogIds
<1>4. [tokens |-> plain[p].tokens, by |-> "plain", saw |-> {}] \in ChatLog
  BY <1>2 DEF ChatLog
<1> QED
  BY <1>3, <1>4 DEF LogsSound, PlainCommit

LEMMA PlainTyped == ASSUME IInv, LogsSound, Next PROVE plain' \in [Plain -> PlainState]
<1>1. plain \in [Plain -> PlainState] /\ Waiting \in PlainState
  BY LimitsAssumption DEF LogsSound, PlainState, Waiting
<1>2. CASE \E p \in Plain : PlainInsert(p)
  <2>1. PICK p \in Plain, n \in Sizes :
          nextLog' \in 0..MaxLogs /\ plain' = [plain EXCEPT ![p] = [id |-> nextLog', tokens |-> n]]
    <3>1. \A p \in Plain : PlainInsert(p) => nextLog' \in 0..MaxLogs
      BY LimitsAssumption DEF PlainInsert, IInv, RequestSound, LogIds
    <3> QED
      BY <1>2, <3>1 DEF PlainInsert
  <2>2. [id |-> nextLog', tokens |-> n] \in PlainState
    BY <2>1 DEF PlainState
  <2> QED
    BY <1>1, <2>1, <2>2
<1>3. CASE \E p \in Plain : PlainCommit(p)
  BY <1>1, <1>3 DEF PlainCommit
<1>4. CASE UNCHANGED plain
  BY <1>1, <1>4
<1>5. CASE \E r \in Requests : Acquire(r) \/ RequestRuns(r) \/ RequestDies(r)
  BY <1>4, <1>5 DEF Acquire, RequestRuns, ReadSummary, ReadLogs, Insert, Commit, RequestFails,
     Release, RequestDies
<1>6. CASE \E s \in Starters : Starts(s) \/ StartLost(s)
  BY <1>4, <1>6 DEF Starts, TryQueue, PublishTask, UndoStart, StartLost
<1>7. CASE \E w \in Workers : \E m \in Msg : Receive(w, m)
  BY <1>4, <1>7 DEF Receive
<1>8. CASE \E w \in Workers : Handles(w)
  BY <1>4, <1>8 DEF Handles, Claim, Look, ReadRow, ListRange, SummaryFails, Complete, GiveUp,
     Retry, Resend, Ack
<1>9. CASE \E w \in Workers : Crash(w) \/ LoseChannel(w)
  BY <1>4, <1>9 DEF Crash, LoseChannel
<1>10. CASE LeaseExpires \/ SummaryLeaseExpires \/ ConversationExpires
  BY <1>4, <1>10 DEF LeaseExpires, SummaryLeaseExpires, ConversationExpires
<1> QED
  BY <1>2, <1>3, <1>5, <1>6, <1>7, <1>8, <1>9, <1>10 DEF Next

LEMMA CountersTyped ==
  ASSUME LogsSound, Next PROVE lost' \in BOOLEAN /\ faults' \in Nat
<1>1. lost \in BOOLEAN /\ faults \in Nat
  BY DEF LogsSound
<1>2. (\E kind : Fault(kind)) \/ UNCHANGED faults => faults' \in Nat
  BY <1>1 DEF Fault
<1>3. CASE \E r \in Requests : Acquire(r) \/ RequestRuns(r) \/ RequestDies(r)
  BY <1>1, <1>2, <1>3 DEF Acquire, RequestRuns, ReadSummary, ReadLogs, Insert, Commit,
     RequestFails, Release, RequestDies
<1>4. CASE \E p \in Plain : PlainInsert(p) \/ PlainCommit(p)
  BY <1>1, <1>4 DEF PlainInsert, PlainCommit
<1>5. CASE \E s \in Starters : Starts(s) \/ StartLost(s)
  BY <1>1, <1>2, <1>5 DEF Starts, TryQueue, PublishTask, UndoStart, StartLost, NoFault
<1>6. CASE \E w \in Workers : \E m \in Msg : Receive(w, m)
  BY <1>1, <1>6 DEF Receive
<1>7. CASE \E w \in Workers : Handles(w)
  <2>1. faults' \in Nat
    BY <1>1, <1>2, <1>7 DEF Handles, Claim, Look, ReadRow, ListRange, SummaryFails, Complete,
       GiveUp, Retry, Resend, Ack, NoFault
  <2>2. lost' \in BOOLEAN
    BY <1>1, <1>7 DEF Handles, Claim, Look, ReadRow, ListRange, SummaryFails, Complete,
       GiveUp, Retry, Resend, Ack
  <2> QED
    BY <2>1, <2>2
<1>8. CASE \E w \in Workers : Crash(w) \/ LoseChannel(w)
  BY <1>1, <1>2, <1>8 DEF Crash, LoseChannel
<1>9. CASE LeaseExpires \/ SummaryLeaseExpires \/ ConversationExpires
  BY <1>1, <1>2, <1>9 DEF LeaseExpires, SummaryLeaseExpires, ConversationExpires, NoFault
<1> QED
  BY <1>3, <1>4, <1>5, <1>6, <1>7, <1>8, <1>9 DEF Next

\* Only the steps that save a turn or a summary change the count of tokens.
LEMMA OthersKeepTheTokens ==
  ASSUME IInv, Next, ~(\E r \in Requests : Commit(r)), ~(\E w \in Workers : Completes(w))
  PROVE  conv'.tokens = conv.tokens
<1>1. conv \in ConversationRow
  BY DEF IInv, ConvSound
<1>2. CASE UNCHANGED conv
  BY <1>2
<1>3. CASE \E r \in Requests : Acquire(r) \/ Release(r)
  BY <1>1, <1>3 DEF Acquire, Release, ConversationRow
<1>4. CASE \E s \in Starters : TryQueue(s)
  BY <1>1, <1>4 DEF TryQueue, ConversationRow
<1>5. CASE \E task : conv' = Failed(task)
  BY <1>1, <1>5 DEF Failed, ConversationRow
<1>6. CASE \E w \in Workers : Claim(w)
  BY <1>1, <1>6 DEF Claim, ConversationRow
<1>7. CASE LeaseExpires \/ SummaryLeaseExpires \/ ConversationExpires
  BY <1>1, <1>7 DEF LeaseExpires, SummaryLeaseExpires, ConversationExpires, ConversationRow
<1>8. CASE \E w \in Workers : Complete(w)
  BY <1>2, <1>8 DEF Complete, Completes
<1>9. CASE \E r \in Requests : Acquire(r) \/ RequestRuns(r) \/ RequestDies(r)
  BY <1>2, <1>3, <1>9 DEF RequestRuns, ReadSummary, ReadLogs, Insert, RequestFails, RequestDies
<1>10. CASE \E s \in Starters : PublishTask(s) \/ UndoStart(s) \/ StartLost(s)
  BY <1>2, <1>5, <1>10 DEF PublishTask, UndoStart, StartLost
<1>11. CASE \E w \in Workers : \/ Look(w) \/ ReadRow(w) \/ ListRange(w) \/ SummaryFails(w)
                                \/ Resend(w) \/ Ack(w) \/ Crash(w) \/ LoseChannel(w)
  BY <1>2, <1>11 DEF Look, ReadRow, ListRange, SummaryFails, Resend, Ack, Crash,
     LoseChannel
<1>12. CASE \E w \in Workers : GiveUp(w) \/ Retry(w)
  BY <1>2, <1>5, <1>12 DEF GiveUp, Retry
<1>13. CASE \E p \in Plain : PlainInsert(p) \/ PlainCommit(p)
  BY <1>2, <1>13 DEF PlainInsert, PlainCommit
<1>14. CASE \E w \in Workers : Handles(w)
  <2>1. PICK w \in Workers : Handles(w)
    BY <1>14
  <2>2. \/ Claim(w) \/ Complete(w) \/ GiveUp(w) \/ Retry(w)
        \/ Look(w) \/ ReadRow(w) \/ ListRange(w) \/ SummaryFails(w) \/ Resend(w) \/ Ack(w)
    BY <2>1 DEF Handles
  <2> QED
    BY <1>6, <1>8, <1>11, <1>12, <2>2
<1>15. CASE \E s \in Starters : Starts(s) \/ StartLost(s)
  BY <1>4, <1>10, <1>15 DEF Starts
<1>16. CASE \E w \in Workers : \E m \in Msg : Receive(w, m)
  BY <1>2, <1>16 DEF Receive
<1> QED
  BY <1>7, <1>9, <1>11, <1>13, <1>14, <1>15, <1>16 DEF Next

LEMMA MinusNat ==
  ASSUME NEW a \in Nat, NEW b \in Nat
  PROVE  Minus(a, b) \in Nat /\ (a >= b => Minus(a, b) = a - b)
  BY DEF Minus

LEMMA TypesStep == ASSUME IInv, LogsSound, IdsSound, Next PROVE LogsSound'
<1>1. logs' \in [LogIds -> ChatLog]
  BY CommitSaves, PlainSaves, TypesSame DEF LogsSound
<1>2. conv'.tokens \in Nat
  <2>1. conv \in ConversationRow /\ conv.tokens \in Nat
    BY DEF IInv, ConvSound, LogsSound
  <2>2. CASE \E r \in Requests : Commit(r)
    <3>1. PICK r \in Requests : Commit(r)
      BY <2>2
    <3>2. CASE UNCHANGED conv
      BY <2>1, <3>2
    <3>3. CASE conv' = [conv EXCEPT !.tokens = @ + request[r].tokens, !.expired = FALSE,
                                    !.token = "none", !.lease = "none"]
      <4>1. request[r] \in RequestState
        BY DEF IInv, RequestSound
      <4>2. request[r].tokens \in Sizes \cup {0}
        BY <4>1 DEF RequestState
      <4>3. Sizes \cup {0} \subseteq Nat
        BY LimitsAssumption
      <4>4. conv'.tokens = conv.tokens + request[r].tokens
        BY <2>1, <3>3 DEF ConversationRow
      <4> QED
        BY <2>1, <4>2, <4>3, <4>4
    <3> QED
      BY <3>1, <3>2, <3>3 DEF Commit
  <2>3. CASE \E w \in Workers : Completes(w)
    <3>1. PICK w \in Workers : Completes(w)
      BY <2>3
    <3>2. worker[w] \in WorkerState
      BY DEF IInv, WorkSound
    <3>3. Removed(w) \in Nat
      BY <3>2, TokensNat DEF Removed, WorkerState
    <3>4. conv'.tokens = Minus(conv.tokens, Removed(w))
      BY <2>1, <3>1 DEF Completes, ConversationRow
    <3> QED
      BY <2>1, <3>3, <3>4, MinusNat
  <2> QED
    BY <2>1, <2>2, <2>3, OthersKeepTheTokens
<1> QED
  BY <1>1, <1>2, PlainTyped, CountersTyped DEF LogsSound

-----------------------------------------------------------------------------
(* The ids *)

\* Steps that save nothing and take no id.
LEMMA IdsKept ==
  ASSUME IdsSound, UNCHANGED <<logs, nextLog, plain>>,
         \A r \in Requests : request'[r].pc = "commit" =>
           /\ request[r].pc = "commit"
           /\ request'[r].id = request[r].id /\ request'[r].tokens = request[r].tokens
  PROVE  IdsSound'
  BY DEF IdsSound

LEMMA RequestIds ==
  ASSUME IInv, IdsSound, NEW r \in Requests,
         \/ Acquire(r) \/ ReadSummary(r) \/ ReadLogs(r) \/ RequestFails(r) \/ Release(r)
         \/ RequestDies(r)
  PROVE  IdsSound'
<1>1. UNCHANGED <<logs, nextLog, plain>>
  BY DEF Acquire, ReadSummary, ReadLogs, RequestFails, Release, RequestDies
<1>2. request[r] \in RequestState /\ request \in [Requests -> RequestState]
  BY DEF IInv, RequestSound
<1>3. PICK q : request' = [request EXCEPT ![r] = q] /\ q.pc # "commit"
  <2>1. CASE Acquire(r)
    <3> DEFINE q == [request[r] EXCEPT !.pc = "read"]
    <3>1. q.pc = "read" /\ request' = [request EXCEPT ![r] = q]
      BY <1>2, <2>1 DEF Acquire, RequestState
    <3> QED
      BY <3>1
  <2>2. CASE ReadSummary(r)
    <3> DEFINE q == [request[r] EXCEPT !.pc = "list", !.saw = conv.summary,
                                       !.after = conv.through]
    <3>1. q.pc = "list" /\ request' = [request EXCEPT ![r] = q]
      BY <1>2, <2>2 DEF ReadSummary, RequestState
    <3> QED
      BY <3>1
  <2>3. CASE ReadLogs(r)
    <3> DEFINE q == [request[r] EXCEPT !.pc = "work", !.after = 0,
                       !.saw = @ \cup {i \in Saved : i > request[r].after}]
    <3>1. q.pc = "work" /\ request' = [request EXCEPT ![r] = q]
      BY <1>2, <2>3 DEF ReadLogs, RequestState
    <3> QED
      BY <3>1
  <2>4. CASE RequestFails(r)
    <3> DEFINE q == [Resting EXCEPT !.pc = "release", !.outrun = request[r].outrun]
    <3>1. q.pc = "release" /\ request' = [request EXCEPT ![r] = q]
      BY <2>4 DEF RequestFails, Resting
    <3> QED
      BY <3>1
  <2>5. CASE Release(r) \/ RequestDies(r)
    <3>1. Resting.pc = "idle" /\ request' = [request EXCEPT ![r] = Resting]
      BY <2>5 DEF Release, RequestDies, Resting
    <3> QED
      BY <3>1
  <2> QED
    BY <2>1, <2>2, <2>3, <2>4, <2>5
<1> QED
  BY <1>1, <1>2, <1>3, IdsKept

LEMMA InsertIds == ASSUME IInv, IdsSound, NEW r \in Requests, Insert(r) PROVE IdsSound'
<1>1. request \in [Requests -> RequestState] /\ nextLog \in LogIds /\ MaxLogs \in Nat
  BY LimitsAssumption DEF IInv, RequestSound
<1>2. PICK n \in Sizes : request' = [request EXCEPT ![r].pc = "commit", ![r].id = nextLog',
                                                    ![r].tokens = n]
  BY DEF Insert
<1>3. nextLog' = nextLog + 1 /\ nextLog' <= MaxLogs /\ nextLog \in Nat /\ UNCHANGED <<logs, plain>>
  BY <1>1 DEF Insert, LogIds
<1> DEFINE q == [request[r] EXCEPT !.pc = "commit", !.id = nextLog', !.tokens = n]
<1>4. q.id = nextLog' /\ q.tokens = n /\ request' = [request EXCEPT ![r] = q]
  BY <1>1, <1>2 DEF RequestState
<1> HIDE DEF q
<1>5. \A i \in LogIds : i > nextLog' => logs'[i] = NoLog
  <2>1. \A i \in LogIds : i > nextLog' => i > nextLog
    BY <1>3, LogIdsNat
  <2> QED
    BY <1>3, <2>1 DEF IdsSound
<1>6. nextLog' \in 1..nextLog' /\ \A i \in 1..nextLog : i \in 1..nextLog' /\ i # nextLog'
  BY <1>3
<1>7. logs[nextLog'].by # "plain"
  <2>1. nextLog' \in LogIds /\ nextLog' > nextLog
    BY <1>1, <1>3 DEF LogIds
  <2> QED
    BY <2>1 DEF IdsSound, NoLog
<1>8. \A p \in Plain : plain[p].id # nextLog'
  BY <1>3, <1>6 DEF IdsSound
<1>9. ASSUME NEW x \in Requests, request'[x].pc = "commit"
      PROVE  /\ request'[x].id \in 1..nextLog' /\ request'[x].tokens \in Sizes
             /\ logs'[request'[x].id].by # "plain"
             /\ \A p \in Plain : plain'[p].id # request'[x].id
  <2>1. CASE x = r
    <3>1. request'[x] = q
      BY <1>1, <1>4, <2>1
    <3> QED
      BY <1>3, <1>4, <1>6, <1>7, <1>8, <3>1
  <2>2. CASE x # r
    <3>1. request'[x] = request[x]
      BY <1>1, <1>4, <2>2
    <3> QED
      BY <1>3, <1>6, <1>9, <3>1 DEF IdsSound
  <2> QED
    BY <2>1, <2>2
<1>10. \A p \in Plain : plain'[p].id # 0 => plain'[p].id \in 1..nextLog' /\ plain'[p].tokens \in Sizes
  BY <1>3, <1>6 DEF IdsSound
<1> QED
  BY <1>5, <1>9, <1>10 DEF IdsSound

LEMMA CommitIds ==
  ASSUME IInv, LogsSound, IdsSound, NEW r \in Requests, Commit(r) PROVE IdsSound'
<1>1. request \in [Requests -> RequestState] /\ UNCHANGED <<nextLog, plain>>
      /\ request' = [request EXCEPT ![r] = Resting]
  BY DEF IInv, RequestSound, Commit
<1>2. Resting.pc = "idle"
  BY DEF Resting
<1>3. \A x \in Requests : request'[x].pc = "commit" => request'[x] = request[x]
  BY <1>1, <1>2
<1>4. CASE logs' = logs
  BY <1>1, <1>3, <1>4, IdsKept
<1>5. CASE logs' # logs
  <2> DEFINE new == [tokens |-> request[r].tokens, by |-> "agent", saw |-> request[r].saw]
  <2>1. /\ request[r].pc = "commit" /\ request[r].id \in LogIds
        /\ logs' = [logs EXCEPT ![request[r].id] = new] /\ logs \in [LogIds -> ChatLog]
    BY <1>5, CommitSaves DEF LogsSound
  <2>2. new.by = "agent"
    OBVIOUS
  <2> HIDE DEF new
  <2>3. request[r].id \in 1..nextLog /\ nextLog \in Nat
    BY <2>1, LogIdsNat DEF IdsSound, IInv, RequestSound
  <2>4. \A i \in LogIds : i > nextLog => logs'[i] = NoLog
    <3>1. \A i \in LogIds : i > nextLog => i # request[r].id
      BY <2>3
    <3> QED
      BY <2>1, <3>1 DEF IdsSound
  <2>5. \A i \in LogIds : logs'[i].by = logs[i].by \/ logs'[i].by = "agent"
    BY <2>1, <2>2
  <2>6. \A x \in Requests : request'[x].pc = "commit" => logs'[request'[x].id].by # "plain"
    <3>1. ASSUME NEW x \in Requests, request'[x].pc = "commit"
          PROVE  logs'[request'[x].id].by # "plain"
      <4>1. request[x].pc = "commit" /\ request'[x].id = request[x].id
        BY <1>3, <3>1
      <4>2. request[x].id \in 1..nextLog /\ logs[request[x].id].by # "plain"
        BY <4>1 DEF IdsSound
      <4>3. request[x].id \in LogIds
        BY <4>2, <2>3, LimitsAssumption DEF LogIds, IInv, RequestSound
      <4> QED
        BY <2>5, <4>1, <4>2, <4>3
    <3> QED
      BY <3>1
  <2> QED
    BY <1>1, <1>3, <2>4, <2>6 DEF IdsSound
<1> QED
  BY <1>4, <1>5

LEMMA PlainIds ==
  ASSUME IInv, LogsSound, IdsSound, NEW p \in Plain, PlainInsert(p) \/ PlainCommit(p)
  PROVE  IdsSound'
<1>1. /\ nextLog \in LogIds /\ nextLog \in Nat /\ MaxLogs \in Nat
      /\ plain \in [Plain -> PlainState] /\ UNCHANGED request
      /\ request \in [Requests -> RequestState]
  BY LimitsAssumption, LogIdsNat DEF IInv, RequestSound, LogsSound, PlainInsert, PlainCommit
<1>2. CASE PlainInsert(p)
  <2>1. PICK n \in Sizes : plain' = [plain EXCEPT ![p] = [id |-> nextLog', tokens |-> n]]
    BY <1>2 DEF PlainInsert
  <2>2. nextLog' = nextLog + 1 /\ UNCHANGED logs
    BY <1>2 DEF PlainInsert
  <2>3. \A x \in Plain : plain'[x] = IF x = p THEN [id |-> nextLog', tokens |-> n] ELSE plain[x]
    BY <1>1, <2>1
  <2>4. nextLog' \in 1..nextLog' /\ \A i \in 1..nextLog : i \in 1..nextLog' /\ i # nextLog'
    BY <1>1, <2>2
  <2>5. \A i \in LogIds : i > nextLog' => logs'[i] = NoLog
    BY <1>1, <2>2, LogIdsNat DEF IdsSound
  <2>6. ASSUME NEW x \in Requests, request'[x].pc = "commit"
        PROVE  /\ request'[x].id \in 1..nextLog' /\ request'[x].tokens \in Sizes
               /\ logs'[request'[x].id].by # "plain"
               /\ \A y \in Plain : plain'[y].id # request'[x].id
    <3>1. /\ request[x].id \in 1..nextLog /\ request[x].tokens \in Sizes
          /\ logs[request[x].id].by # "plain"
          /\ \A y \in Plain : plain[y].id # request[x].id
      BY <1>1, <2>6 DEF IdsSound
    <3> QED
      BY <1>1, <2>2, <2>3, <2>4, <3>1
  <2>7. ASSUME NEW y \in Plain, plain'[y].id # 0
        PROVE  plain'[y].id \in 1..nextLog' /\ plain'[y].tokens \in Sizes
    <3>1. CASE y = p
      BY <2>3, <2>4, <3>1
    <3>2. CASE y # p
      BY <2>3, <2>4, <2>7, <3>2 DEF IdsSound
    <3> QED
      BY <3>1, <3>2
  <2> QED
    BY <2>5, <2>6, <2>7 DEF IdsSound
<1>3. CASE PlainCommit(p)
  <2> DEFINE new == [tokens |-> plain[p].tokens, by |-> "plain", saw |-> {}]
  <2>1. /\ plain' = [plain EXCEPT ![p] = Waiting] /\ plain[p].id # 0
        /\ logs' = [logs EXCEPT ![plain[p].id] = new] /\ nextLog' = nextLog
        /\ logs \in [LogIds -> ChatLog]
    BY <1>3 DEF PlainCommit, LogsSound
  <2>2. plain[p].id \in 1..nextLog
    BY <2>1 DEF IdsSound
  <2> HIDE DEF new
  <2>3. \A i \in LogIds : i > nextLog' => logs'[i] = NoLog
    <3>1. \A i \in LogIds : i > nextLog => i # plain[p].id
      BY <1>1, <2>2
    <3> QED
      BY <2>1, <3>1 DEF IdsSound
  <2>4. \A x \in Plain : plain'[x].id # 0 => plain'[x] = plain[x]
    BY <1>1, <2>1 DEF Waiting
  <2>5. ASSUME NEW x \in Requests, request'[x].pc = "commit"
        PROVE  /\ request'[x].id \in 1..nextLog' /\ request'[x].tokens \in Sizes
               /\ logs'[request'[x].id].by # "plain"
               /\ \A y \in Plain : plain'[y].id # request'[x].id
    <3>1. /\ request[x].id \in 1..nextLog /\ request[x].tokens \in Sizes
          /\ logs[request[x].id].by # "plain"
          /\ \A y \in Plain : plain[y].id # request[x].id
      BY <1>1, <2>5 DEF IdsSound
    <3>2. logs'[request[x].id] = logs[request[x].id]
      BY <2>1, <3>1
    <3>3. request[x].id # 0
      BY <1>1, <3>1
    <3> QED
      BY <1>1, <2>1, <2>4, <3>1, <3>2, <3>3
  <2> QED
    BY <2>1, <2>3, <2>4, <2>5 DEF IdsSound
<1> QED
  BY <1>2, <1>3

LEMMA IdsStep == ASSUME IInv, LogsSound, IdsSound, Next PROVE IdsSound'
<1>1. CASE UNCHANGED <<logs, nextLog, plain, request>>
  BY <1>1, IdsKept
<1>2. CASE \E r \in Requests : Acquire(r) \/ RequestRuns(r) \/ RequestDies(r)
  BY <1>2, RequestIds, InsertIds, CommitIds DEF RequestRuns
<1>3. CASE \E p \in Plain : PlainInsert(p) \/ PlainCommit(p)
  BY <1>3, PlainIds
<1>4. CASE \E s \in Starters : Starts(s) \/ StartLost(s)
  BY <1>1, <1>4 DEF Starts, TryQueue, PublishTask, UndoStart, StartLost
<1>5. CASE \E w \in Workers : \E m \in Msg : Receive(w, m)
  BY <1>1, <1>5 DEF Receive
<1>6. CASE \E w \in Workers : Handles(w)
  BY <1>1, <1>6 DEF Handles, Claim, Look, ReadRow, ListRange, SummaryFails, Complete, GiveUp,
     Retry, Resend, Ack
<1>7. CASE \E w \in Workers : Crash(w) \/ LoseChannel(w)
  BY <1>1, <1>7 DEF Crash, LoseChannel
<1>8. CASE SummaryLeaseExpires \/ ConversationExpires
  BY <1>1, <1>8 DEF SummaryLeaseExpires, ConversationExpires
<1>9. CASE LeaseExpires
  <2>1. request \in [Requests -> RequestState]
    BY DEF IInv, RequestSound
  <2>2. CASE request' = [request EXCEPT ![conv.token].outrun = TRUE]
    <3>1. \A x \in Requests : /\ request'[x].pc = request[x].pc /\ request'[x].id = request[x].id
                              /\ request'[x].tokens = request[x].tokens
      BY <2>1, <2>2 DEF RequestState
    <3> QED
      BY <1>9, <3>1, IdsKept DEF LeaseExpires
  <2> QED
    BY <1>1, <1>9, <2>2 DEF LeaseExpires
<1> QED
  BY <1>2, <1>3, <1>4, <1>5, <1>6, <1>7, <1>8, <1>9 DEF Next

-----------------------------------------------------------------------------
(* The history *)

\* A turn of a plain chat stays where it is.
LEMMA MixedStays == ASSUME IInv, LogsSound, IdsSound, Next, Mixed PROVE Mixed'
<1>1. PICK i \in LogIds : logs[i].by = "plain"
  BY DEF Mixed
<1>2. CASE \E p \in Plain : PlainCommit(p)
  <2>1. PICK p \in Plain : PlainCommit(p)
    BY <1>2
  <2> DEFINE new == [tokens |-> plain[p].tokens, by |-> "plain", saw |-> {}]
  <2>2. new.by = "plain"
    OBVIOUS
  <2>3. logs' = [logs EXCEPT ![plain[p].id] = new] /\ logs \in [LogIds -> ChatLog]
    BY <2>1, PlainSaves DEF LogsSound
  <2> HIDE DEF new
  <2> QED
    BY <1>1, <2>2, <2>3 DEF Mixed
<1>3. CASE \E r \in Requests : Commit(r) /\ logs' # logs
  <2>1. PICK r \in Requests : Commit(r) /\ logs' # logs
    BY <1>3
  <2> DEFINE new == [tokens |-> request[r].tokens, by |-> "agent", saw |-> request[r].saw]
  <2>2. /\ request[r].pc = "commit" /\ logs' = [logs EXCEPT ![request[r].id] = new]
        /\ logs \in [LogIds -> ChatLog]
    BY <2>1, CommitSaves DEF LogsSound
  <2>3. i # request[r].id
    BY <1>1, <2>2 DEF IdsSound
  <2> HIDE DEF new
  <2> QED
    BY <1>1, <2>2, <2>3 DEF Mixed
<1> QED
  BY <1>1, <1>2, <1>3, TypesSame DEF Mixed

\* A step that saves no turn and no summary.
LEMMA HistoryStays ==
  ASSUME History, UNCHANGED logs, SameCursor, conv'.tokens = conv.tokens,
         \A r \in Requests : conv'.token = r => Sees(request'[r]),
         \A w \in Workers : Cuts(worker'[w])
  PROVE  History'
<1>1. Saved' = Saved /\ Behind' = Behind
  BY DEF Saved, Behind, SameCursor
<1>2. TokensOf(Behind)' = TokensOf(Behind)
  BY <1>1 DEF TokensOf
<1>3. CursorSound'
  BY <1>1, <1>2 DEF History, CursorSound, SameCursor
<1>4. SawBefore'
  BY <1>1 DEF History, SawBefore
<1>5. \A r \in Requests : conv'.token = r => Sees(request[r])'
  BY <1>1 DEF Sees
<1>6. \A w \in Workers : Cuts(worker[w])'
  BY <1>1 DEF Cuts
<1> QED
  BY <1>3, <1>4, <1>5, <1>6 DEF History

\* A request that moves and does not save.
LEMMA RequestSees ==
  ASSUME IInv, History, NEW r \in Requests,
         \/ Acquire(r) \/ ReadSummary(r) \/ ReadLogs(r) \/ Insert(r) \/ RequestFails(r)
         \/ Release(r) \/ RequestDies(r),
         IdsSound
  PROVE  \A x \in Requests : conv'.token = x => Sees(request'[x])
<1>1. /\ request \in [Requests -> RequestState] /\ request[r] \in RequestState
      /\ conv \in ConversationRow /\ conv.through \in 0..MaxLogs
      /\ MaxLogs \in Nat /\ "none" \notin Requests /\ nextLog \in Nat
  BY LimitsAssumption, NamesAssumption, LogIdsNat DEF IInv, RequestSound, ConvSound, ConversationRow
<1>2. \A x \in Requests : conv'.token = x => x = r \/ conv.token = x
  BY <1>1 DEF Acquire, ReadSummary, ReadLogs, Insert, RequestFails, Release, RequestDies,
     ConversationRow
<1>3. PICK q : /\ request' = [request EXCEPT ![r] = q]
               /\ conv'.token = r => Sees(q)
  <2>1. CASE Acquire(r)
    <3> DEFINE q == [request[r] EXCEPT !.pc = "read"]
    <3>1. q.pc = "read" /\ request' = [request EXCEPT ![r] = q]
      BY <1>1, <2>1 DEF Acquire, RequestState
    <3> QED
      BY <3>1 DEF Sees
  <2>2. CASE ReadSummary(r)
    <3> DEFINE q == [request[r] EXCEPT !.pc = "list", !.saw = conv.summary,
                                       !.after = conv.through]
    <3>1. /\ q.pc = "list" /\ q.saw = conv.summary /\ q.after = conv.through
          /\ request' = [request EXCEPT ![r] = q]
      BY <1>1, <2>2 DEF ReadSummary, RequestState
    <3> HIDE DEF q
    <3>2. \A i \in Saved : i <= conv.through => i \in conv.summary
      <4>1. \A i \in Saved : i \in Nat
        BY LogIdsNat DEF Saved
      <4>2. \A i \in Saved : i <= conv.through => i \notin Behind
        BY <1>1, <4>1 DEF Behind
      <4> QED
        BY <4>2 DEF History, CursorSound
    <3> QED
      BY <3>1, <3>2 DEF Sees
  <2>3. CASE ReadLogs(r)
    <3> DEFINE saw == request[r].saw \cup {i \in Saved : i > request[r].after}
               q == [request[r] EXCEPT !.pc = "work", !.after = 0, !.saw = saw]
    <3>1. /\ q.pc = "work" /\ q.saw = saw /\ request' = [request EXCEPT ![r] = q]
      BY <1>1, <2>3 DEF ReadLogs, RequestState
    <3>2. ASSUME conv'.token = r PROVE Saved \subseteq saw
      <4>1. conv.token = r /\ request[r].pc = "list"
        BY <2>3, <3>2 DEF ReadLogs
      <4>2. \A i \in Saved : i <= request[r].after => i \in request[r].saw
        BY <4>1 DEF History, Sees
      <4>3. \A i \in Saved : i <= request[r].after \/ i > request[r].after
        <5>1. request[r].after \in 0..MaxLogs
          BY <1>1 DEF RequestState
        <5>2. \A i \in Saved : i \in Nat
          BY LogIdsNat DEF Saved
        <5> QED
          BY <5>1, <5>2, <1>1
      <4> QED
        BY <4>2, <4>3
    <3> HIDE DEF q, saw
    <3> QED
      BY <3>1, <3>2 DEF Sees
  <2>4. CASE Insert(r)
    <3>1. PICK n \in Sizes : request' = [request EXCEPT ![r].pc = "commit", ![r].id = nextLog',
                                                        ![r].tokens = n]
      BY <2>4 DEF Insert
    <3> DEFINE q == [request[r] EXCEPT !.pc = "commit", !.id = nextLog', !.tokens = n]
    <3>2. /\ q.pc = "commit" /\ q.id = nextLog' /\ q.saw = request[r].saw
          /\ request' = [request EXCEPT ![r] = q]
      BY <1>1, <3>1 DEF RequestState
    <3> HIDE DEF q
    <3>3. conv'.token = r => Saved \subseteq q.saw
      BY <2>4, <3>2 DEF Insert, History, Sees
    <3>4. \A i \in Saved : i < nextLog'
      <4>1. ASSUME NEW i \in Saved PROVE i < nextLog'
        <5>1. i \in LogIds /\ logs[i].tokens > 0
          BY DEF Saved
        <5>2. NoLog.tokens = 0
          BY DEF NoLog
        <5>3. ~(i > nextLog)
          BY <5>1, <5>2 DEF IdsSound
        <5>4. i \in Nat /\ nextLog' = nextLog + 1
          BY <5>1, <2>4, LogIdsNat DEF Insert
        <5> QED
          BY <1>1, <5>3, <5>4
      <4> QED
        BY <4>1
    <3> QED
      BY <3>2, <3>3, <3>4 DEF Sees
  <2>5. CASE RequestFails(r)
    <3> DEFINE q == [Resting EXCEPT !.pc = "release", !.outrun = request[r].outrun]
    <3>1. q.pc = "release" /\ request' = [request EXCEPT ![r] = q]
      BY <2>5 DEF RequestFails, Resting
    <3> QED
      BY <3>1 DEF Sees
  <2>6. CASE Release(r) \/ RequestDies(r)
    <3>1. Resting.pc = "idle" /\ request' = [request EXCEPT ![r] = Resting]
      BY <2>6 DEF Release, RequestDies, Resting
    <3> QED
      BY <3>1 DEF Sees
  <2> QED
    BY <2>1, <2>2, <2>3, <2>4, <2>5, <2>6
<1>4. ASSUME NEW x \in Requests, conv'.token = x PROVE Sees(request'[x])
  <2>1. CASE x = r
    BY <1>1, <1>3, <1>4, <2>1
  <2>2. CASE x # r
    <3>1. request'[x] = request[x] /\ conv.token = x
      BY <1>1, <1>2, <1>3, <1>4, <2>2
    <3> QED
      BY <3>1 DEF History
  <2> QED
    BY <2>1, <2>2
<1> QED
  BY <1>4

\* What a consumer does between the steps that read the logs and write the summary.
LEMMA ListRangeCuts ==
  ASSUME IInv, LogsSound, History, NEW w \in Workers, ListRange(w)
  PROVE  \A x \in Workers : Cuts(worker'[x])
<1>1. worker \in [Workers -> WorkerState] /\ \A x \in Workers : Cuts(worker[x])
  BY DEF IInv, WorkSound, History
<1>2. CASE \E pc \in {"giveup", "retry"} : Goto(w, pc)
  <2>1. PICK pc \in {"giveup", "retry"} : Goto(w, pc)
    BY <1>2
  <2> DEFINE s == [Idle EXCEPT !.pc = pc, !.msg = worker[w].msg, !.held = worker[w].held]
  <2>2. s.pc # "complete" /\ worker' = [worker EXCEPT ![w] = s]
    BY <2>1 DEF Goto, Idle
  <2> HIDE DEF s
  <2> QED
    BY <1>1, <2>2 DEF Cuts
<1>3. CASE LET range == {i \in Saved : worker[w].after < i /\ i <= job[Task(w)].snapshot}
           IN  /\ range # {}
               /\ worker' = [worker EXCEPT ![w].pc = "complete", ![w].cut = Compacted(range)]
  <2> DEFINE range == {i \in Saved : worker[w].after < i /\ i <= job[Task(w)].snapshot}
  <2>1. PICK cut : cut = Compacted(range)
    OBVIOUS
  <2> DEFINE s == [worker[w] EXCEPT !.pc = "complete", !.cut = cut]
  <2>2. /\ worker' = [worker EXCEPT ![w] = s] /\ range # {}
        /\ s.after = worker[w].after /\ s.cut = cut
    BY <1>1, <1>3, <2>1 DEF WorkerState
  <2>3. range \in SUBSET LogIds /\ range \subseteq Saved
    BY DEF Saved
  <2>4. cut \subseteq range
    BY <2>1, <2>2, <2>3, RemovedAreThere
  <2>5. ASSUME NEW i \in Saved, NEW j \in cut, worker[w].after < i, i <= j PROVE i \in cut
    <3>1. i \in Nat /\ j \in Nat /\ j <= job[Task(w)].snapshot
      BY <2>3, <2>4, LogIdsNat DEF Saved
    <3>2. job[Task(w)].snapshot \in Nat
      <4>1. Task(w) \in 1..nextTask
        BY DEF IInv, WorkSound, WorkerSound, ListRange
      <4>2. Task(w) \in 1..MaxTasks
        BY <4>1, LimitsAssumption DEF IInv, TaskSound
      <4>3. job[Task(w)] \in [snapshot : 0..MaxLogs, version : Nat]
        BY <4>2 DEF IInv, TaskSound
      <4> QED
        BY <4>3
    <3>3. i \in range
      BY <2>5, <3>1, <3>2
    <3> HIDE DEF range
    <3> QED
      BY <2>1, <2>3, <2>5, <3>3, OldestAreCut
  <2>6. Cuts(s)
    <3> HIDE DEF s, range
    <3> QED
      BY <2>2, <2>3, <2>4, <2>5 DEF Cuts
  <2> HIDE DEF s
  <2> QED
    BY <1>1, <2>2, <2>6
<1> QED
  BY <1>2, <1>3 DEF ListRange

LEMMA OthersCut ==
  ASSUME IInv, History, Next, ~(\E w \in Workers : ListRange(w))
  PROVE  \A x \in Workers : Cuts(worker'[x])
<1>1. worker \in [Workers -> WorkerState] /\ \A x \in Workers : Cuts(worker[x])
  BY DEF IInv, WorkSound, History
<1>2. CASE UNCHANGED worker
  BY <1>1, <1>2
<1>3. ASSUME NEW w \in Workers, NEW s, worker' = [worker EXCEPT ![w] = s], s.pc # "complete"
      PROVE  \A x \in Workers : Cuts(worker'[x])
  BY <1>1, <1>3 DEF Cuts
<1>4. ASSUME NEW w \in Workers,
             NEW pc \in {"look", "wait", "read", "giveup", "retry", "resend", "ack", "done"},
             Goto(w, pc)
      PROVE  \A x \in Workers : Cuts(worker'[x])
  <2> DEFINE s == [Idle EXCEPT !.pc = pc, !.msg = worker[w].msg, !.held = worker[w].held]
  <2>1. s.pc # "complete" /\ worker' = [worker EXCEPT ![w] = s]
    BY <1>4 DEF Goto, Idle
  <2> HIDE DEF s
  <2> QED
    BY <1>3, <2>1
<1>5. CASE \E r \in Requests : Acquire(r) \/ RequestRuns(r) \/ RequestDies(r)
  BY <1>2, <1>5 DEF Acquire, RequestRuns, ReadSummary, ReadLogs, Insert, Commit, RequestFails,
     Release, RequestDies
<1>6. CASE \E p \in Plain : PlainInsert(p) \/ PlainCommit(p)
  BY <1>2, <1>6 DEF PlainInsert, PlainCommit
<1>7. CASE \E s \in Starters : Starts(s) \/ StartLost(s)
  BY <1>2, <1>7 DEF Starts, TryQueue, PublishTask, UndoStart, StartLost
<1>8. ASSUME NEW w \in Workers, NEW m \in Msg, Receive(w, m)
      PROVE  \A x \in Workers : Cuts(worker'[x])
  <2> DEFINE s == [Idle EXCEPT !.pc = "claim", !.msg = m, !.held = TRUE]
  <2>1. s.pc # "complete" /\ worker' = [worker EXCEPT ![w] = s]
    BY <1>8 DEF Receive, Idle
  <2> HIDE DEF s
  <2> QED
    BY <1>3, <2>1
<1>9. ASSUME NEW w \in Workers, Handles(w) PROVE \A x \in Workers : Cuts(worker'[x])
  <2>1. CASE \/ Claim(w) \/ Look(w) \/ SummaryFails(w) \/ Complete(w) \/ GiveUp(w) \/ Retry(w)
    BY <1>4, <2>1 DEF Claim, Look, SummaryFails, Complete, GiveUp, Retry
  <2>2. CASE ReadRow(w)
    <3>1. CASE \E pc \in {"giveup", "retry"} : Goto(w, pc)
      BY <1>4, <3>1
    <3>2. CASE worker' = [worker EXCEPT ![w].pc = "list", ![w].after = conv.through,
                                        ![w].old = conv.summary]
      <4> DEFINE s == [worker[w] EXCEPT !.pc = "list", !.after = conv.through,
                                        !.old = conv.summary]
      <4>1. s.pc = "list" /\ worker' = [worker EXCEPT ![w] = s]
        BY <1>1, <3>2 DEF WorkerState
      <4> HIDE DEF s
      <4> QED
        BY <1>3, <4>1
    <3> QED
      BY <2>2, <3>1, <3>2 DEF ReadRow
  <2>3. CASE Resend(w) \/ Ack(w)
    <3>1. CASE Goto(w, "ack")
      BY <1>4, <3>1
    <3>2. CASE worker' = [worker EXCEPT ![w] = Idle]
      <4>1. Idle.pc # "complete"
        BY DEF Idle
      <4> QED
        BY <1>3, <3>2, <4>1
    <3> QED
      BY <2>3, <3>1, <3>2 DEF Resend, Ack
  <2>4. ~ListRange(w)
    OBVIOUS
  <2> QED
    BY <1>9, <2>1, <2>2, <2>3, <2>4 DEF Handles
<1>10. ASSUME NEW w \in Workers, Crash(w) \/ LoseChannel(w)
       PROVE  \A x \in Workers : Cuts(worker'[x])
  <2>1. CASE Crash(w)
    <3>1. Idle.pc # "complete" /\ worker' = [worker EXCEPT ![w] = Idle]
      BY <2>1 DEF Crash, Idle
    <3> QED
      BY <1>3, <3>1
  <2>2. CASE LoseChannel(w)
    <3>1. \A x \in Workers : /\ worker'[x].pc = worker[x].pc /\ worker'[x].cut = worker[x].cut
                             /\ worker'[x].after = worker[x].after
      BY <1>1, <2>2 DEF LoseChannel, WorkerState
    <3> QED
      BY <1>1, <3>1 DEF Cuts
  <2> QED
    BY <1>10, <2>1, <2>2
<1>11. CASE LeaseExpires \/ SummaryLeaseExpires \/ ConversationExpires
  BY <1>2, <1>11 DEF LeaseExpires, SummaryLeaseExpires, ConversationExpires
<1> QED
  BY <1>5, <1>6, <1>7, <1>8, <1>9, <1>10, <1>11 DEF Next

\* The steps that move a request or the row, and save nothing.
LEMMA OthersSee ==
  ASSUME IInv, IdsSound, History, Next, ~(\E r \in Requests : Commit(r))
  PROVE  \A x \in Requests : conv'.token = x => Sees(request'[x])
<1>1. conv \in ConversationRow /\ request \in [Requests -> RequestState]
  BY DEF IInv, ConvSound, RequestSound
<1>2. CASE UNCHANGED request /\ conv'.token = conv.token
  BY <1>2 DEF History
<1>3. CASE UNCHANGED <<request, conv>>
  BY <1>2, <1>3
<1>4. CASE \E r \in Requests : Acquire(r) \/ RequestRuns(r) \/ RequestDies(r)
  BY <1>4, RequestSees DEF RequestRuns
<1>5. CASE \E p \in Plain : PlainInsert(p) \/ PlainCommit(p)
  BY <1>3, <1>5 DEF PlainInsert, PlainCommit
<1>6. CASE \E task : conv' = Failed(task) /\ UNCHANGED request
  BY <1>1, <1>2, <1>6 DEF Failed, ConversationRow
<1>7. CASE \E s \in Starters : Starts(s) \/ StartLost(s)
  <2>1. CASE \E s \in Starters : TryQueue(s)
    BY <1>1, <1>2, <2>1 DEF TryQueue, ConversationRow
  <2>2. CASE \E s \in Starters : PublishTask(s) \/ UndoStart(s) \/ StartLost(s)
    BY <1>3, <1>6, <2>2 DEF PublishTask, UndoStart, StartLost
  <2> QED
    BY <1>7, <2>1, <2>2 DEF Starts
<1>8. CASE \E w \in Workers : \E m \in Msg : Receive(w, m)
  BY <1>3, <1>8 DEF Receive
<1>9. CASE \E w \in Workers : Handles(w)
  <2>1. PICK w \in Workers : Handles(w)
    BY <1>9
  <2>2. CASE Claim(w) \/ Complete(w)
    BY <1>1, <1>2, <2>2 DEF Claim, Complete, ConversationRow
  <2>3. CASE GiveUp(w) \/ Retry(w)
    BY <1>3, <1>6, <2>3 DEF GiveUp, Retry
  <2>4. CASE Look(w) \/ ReadRow(w) \/ ListRange(w) \/ SummaryFails(w) \/ Resend(w) \/ Ack(w)
    BY <1>3, <2>4 DEF Look, ReadRow, ListRange, SummaryFails, Resend, Ack
  <2> QED
    BY <2>1, <2>2, <2>3, <2>4 DEF Handles
<1>10. CASE \E w \in Workers : Crash(w) \/ LoseChannel(w)
  BY <1>3, <1>10 DEF Crash, LoseChannel
<1>11. CASE SummaryLeaseExpires \/ ConversationExpires
  BY <1>1, <1>2, <1>11 DEF SummaryLeaseExpires, ConversationExpires, ConversationRow
<1>12. CASE LeaseExpires
  <2>1. conv'.token = conv.token
    BY <1>1, <1>12 DEF LeaseExpires, ConversationRow
  <2>2. CASE request' = [request EXCEPT ![conv.token].outrun = TRUE]
    <3>1. \A x \in Requests : /\ request'[x].pc = request[x].pc /\ request'[x].id = request[x].id
                              /\ request'[x].saw = request[x].saw
                              /\ request'[x].after = request[x].after
      BY <1>1, <2>2 DEF RequestState
    <3> QED
      BY <2>1, <3>1 DEF History, Sees
  <2> QED
    BY <1>2, <1>12, <2>1, <2>2 DEF LeaseExpires
<1> QED
  BY <1>4, <1>5, <1>7, <1>8, <1>9, <1>10, <1>11, <1>12 DEF Next

\* A turn is saved behind all others, in view of all of them.
LEMMA CommitHistory ==
  ASSUME IInv, LogsSound, IdsSound, History, NEW r \in Requests, Commit(r), logs' # logs,
         \A x \in Workers : Cuts(worker'[x]), LogsSound'
  PROVE  History'
<1> DEFINE new == [tokens |-> request[r].tokens, by |-> "agent", saw |-> request[r].saw]
<1>1. PICK id \in LogIds, n \in Nat \ {0} : id = request[r].id /\ n = request[r].tokens
  BY CommitSaves
<1>2. /\ conv.token = r /\ request[r].pc = "commit"
      /\ logs' = [logs EXCEPT ![id] = new]
      /\ conv' = [conv EXCEPT !.tokens = @ + n, !.expired = FALSE,
                              !.token = "none", !.lease = "none"]
  BY <1>1, CommitSaves
<1>3. /\ logs \in [LogIds -> ChatLog] /\ conv \in ConversationRow /\ conv.through \in 0..MaxLogs
      /\ MaxLogs \in Nat /\ conv.tokens \in Nat
  BY LimitsAssumption DEF LogsSound, IInv, ConvSound, ConversationRow
<1>4. new.tokens = n /\ new.saw = request[r].saw
  BY <1>1
<1> HIDE DEF new
<1>5. \A i \in LogIds : logs'[i] = IF i = id THEN new ELSE logs[i]
  BY <1>2, <1>3
<1>6. \A i \in Saved : i < id
  BY <1>1, <1>2 DEF History, Sees
<1>7. Saved \subseteq new.saw
  BY <1>2, <1>4 DEF History, Sees
<1>8. Saved' = Saved \cup {id} /\ id \notin Saved
  <2>1. n > 0 /\ id \in Nat
    BY LogIdsNat
  <2>2. id \notin Saved
    BY <1>6, <2>1
  <2> QED
    BY <1>4, <1>5, <2>1, <2>2 DEF Saved
<1>9. SameCursor /\ conv'.tokens = conv.tokens + n /\ conv'.token = "none"
  BY <1>2, <1>3 DEF SameCursor, ConversationRow
<1>10. Behind' = Behind \cup {id} /\ id \notin Behind
  <2>1. id > conv.through
    <3>1. id \in Nat /\ id > 0
      BY LimitsAssumption DEF LogIds
    <3> QED
      BY <1>3, <1>6, <3>1 DEF History, CursorSound
  <2> QED
    BY <1>8, <1>9, <2>1 DEF Behind, SameCursor
<1>11. TokensOf(Behind)' = TokensOf(Behind) + n
  <2> DEFINE f == [i \in LogIds |-> logs[i].tokens]
             h == [i \in LogIds |-> logs'[i].tokens]
             A == Behind
             B == Behind'
  <2>1. A \in SUBSET LogIds /\ B \in SUBSET LogIds
    BY DEF Behind, Saved
  <2>2. (\A i \in A : f[i] = h[i]) /\ (\A i \in B : h[i] \in Nat) /\ h[id] = n
    <3>1. \A i \in LogIds : f[i] \in Nat
      BY TokensNat
    <3>2. \A i \in LogIds : h[i] = IF i = id THEN n ELSE f[i]
      BY <1>4, <1>5
    <3> HIDE DEF f, h
    <3> QED
      BY <1>10, <2>1, <3>1, <3>2
  <2>3. B \ {id} = A /\ id \in B
    BY <1>10
  <2>4. IsFiniteSet(A) /\ IsFiniteSet(B)
    BY <2>1, LogIdsFinite
  <2>5. TokensOf(Behind) = SumFunctionOnSet(f, A) /\ TokensOf(Behind)' = SumFunctionOnSet(h, B)
    BY DEF TokensOf
  <2>6. SumFunctionOnSet(f, A) \in Nat
    BY <2>1, TokensNat DEF TokensOf
  <2> HIDE DEF f, h, A, B
  <2>7. SumFunctionOnSet(f, A) = SumFunctionOnSet(h, A)
    BY <2>2, <2>4, SumSame
  <2>8. SumFunctionOnSet(h, B) = h[id] + SumFunctionOnSet(h, B \ {id})
    BY <2>2, <2>3, <2>4, SumWithout
  <2>9. SumFunctionOnSet(h, B) = SumFunctionOnSet(f, A) + n
    BY <2>2, <2>3, <2>6, <2>7, <2>8
  <2> QED
    BY <2>5, <2>9
<1>12. CursorSound'
  <2>1. (conv'.through = 0 \/ conv'.through \in Saved') /\ conv'.summary = Saved' \ Behind'
    BY <1>8, <1>9, <1>10 DEF History, CursorSound, SameCursor
  <2> QED
    BY <1>9, <1>11, <2>1 DEF History, CursorSound
<1>13. SawBefore'
  <2>1. ASSUME NEW i \in Saved', NEW j \in Saved', i < j PROVE i \in logs'[j].saw
    <3>1. i \in LogIds /\ j \in LogIds /\ id \in Nat /\ i \in Nat /\ j \in Nat
      BY LogIdsNat, <1>8 DEF Saved
    <3>2. CASE j = id
      <4>1. i \in Saved
        BY <1>8, <2>1, <3>1, <3>2
      <4> QED
        BY <1>5, <1>7, <3>2, <4>1
    <3>3. CASE j # id
      <4>1. j \in Saved /\ j < id
        BY <1>6, <1>8, <3>3
      <4>2. i \in Saved
        BY <1>8, <2>1, <3>1, <4>1
      <4>3. i \in logs[j].saw
        BY <2>1, <4>1, <4>2 DEF History, SawBefore
      <4> QED
        BY <1>5, <3>1, <3>3, <4>3
    <3> QED
      BY <3>2, <3>3
  <2> QED
    BY <2>1 DEF SawBefore
<1>14. \A x \in Requests : conv'.token = x => Sees(request[x])'
  BY <1>9, NamesAssumption
<1>15. ASSUME NEW w \in Workers PROVE Cuts(worker[w])'
  <2>1. worker'[w] = worker[w]
    BY DEF Commit
  <2>2. worker[w].cut \subseteq LogIds
    BY DEF IInv, WorkSound, WorkerState
  <2>3. ASSUME worker[w].pc = "complete", NEW i \in Saved', NEW j \in worker[w].cut,
               worker[w].after < i, i <= j
        PROVE  i \in worker[w].cut
    <3>1. worker[w].cut \subseteq Saved
      BY <2>3 DEF History, Cuts
    <3>2. j < id /\ j \in Nat /\ id \in Nat /\ i \in LogIds /\ i \in Nat
      BY <1>6, <1>8, <2>2, <3>1, LogIdsNat DEF Saved
    <3>3. i \in Saved
      BY <1>8, <2>3, <3>2
    <3> QED
      BY <2>3, <3>3 DEF History, Cuts
  <2>4. worker[w].pc = "complete" => worker[w].cut \subseteq Saved'
    BY <1>8 DEF History, Cuts
  <2> QED
    BY <2>1, <2>3, <2>4 DEF Cuts
<1> QED
  BY <1>12, <1>13, <1>14, <1>15 DEF History

\* The summary gets exactly the logs from the cursor it was read with to the new one.
LEMMA CompleteHistory ==
  ASSUME IInv, LogsSound, History, NEW w \in Workers, Completes(w), UNCHANGED logs,
         \A x \in Requests : conv'.token = x => Sees(request'[x]),
         \A x \in Workers : Cuts(worker'[x])
  PROVE  History'
<1>1. worker[w] \in WorkerState /\ conv \in ConversationRow /\ conv.tokens \in Nat
  BY DEF IInv, WorkSound, ConvSound, LogsSound
<1>2. PICK cut \in SUBSET LogIds : cut = worker[w].cut
  BY <1>1 DEF WorkerState
<1>3. /\ cut # {} /\ (\A i \in cut : conv.through < i)
      /\ worker[w].after = conv.through /\ worker[w].old = conv.summary
  BY <1>2 DEF IInv, WorkSound, WorkerSound, Reading, Completes, Completable
<1>4. cut \subseteq Saved /\ \A i \in Saved, j \in cut : conv.through < i /\ i <= j => i \in cut
  BY <1>2, <1>3 DEF History, Cuts, Completes
<1>5. PICK m \in cut : m = Max(cut) /\ \A i \in cut : m >= i
  BY <1>3, MaxIsMost
<1>6. PICK removed \in Nat : removed = TokensOf(cut) /\ removed = Removed(w)
  BY <1>2, TokensNat DEF Removed
<1>7. conv' = [conv EXCEPT !.summary = conv.summary \cup cut, !.through = m,
                           !.tokens = Minus(@, removed),
                           !.version = @ + 1, !.status = "idle", !.task = 0,
                           !.summaryLease = "none"]
  BY <1>2, <1>3, <1>5, <1>6 DEF Completes, NewCursor
<1>8. /\ conv'.summary = conv.summary \cup cut /\ conv'.through = m
      /\ conv'.tokens = Minus(conv.tokens, removed)
  BY <1>1, <1>7 DEF ConversationRow
<1>9. Saved' = Saved
  BY DEF Saved
<1>10. \A i \in Saved : i \in Nat /\ m \in Nat /\ conv.through \in Nat
  BY <1>1, <1>5, LogIdsNat, LimitsAssumption DEF Saved, ConversationRow
<1>11. cut \subseteq Behind
  BY <1>3, <1>4 DEF Behind
<1>12. Behind' = Behind \ cut
  <2>1. \A i \in Saved : i > m <=> i > conv.through /\ i \notin cut
    <3>1. ASSUME NEW i \in Saved, i > m PROVE i > conv.through /\ i \notin cut
      BY <1>3, <1>5, <1>10, <3>1
    <3>2. ASSUME NEW i \in Saved, i > conv.through, i \notin cut PROVE i > m
      BY <1>4, <1>5, <1>10, <3>2
    <3> QED
      BY <3>1, <3>2
  <2> QED
    BY <1>8, <1>9, <2>1 DEF Behind
<1>13. CursorSound'
  <2>1. conv'.through \in Saved'
    BY <1>4, <1>5, <1>8, <1>9
  <2>2. conv'.summary = Saved' \ Behind'
    BY <1>4, <1>8, <1>9, <1>12 DEF History, CursorSound
  <2>3. conv'.tokens = TokensOf(Behind)'
    <3> DEFINE rest == Behind \ cut
    <3>1. rest \in SUBSET LogIds /\ cut \cup rest = Behind /\ cut \cap rest = {}
      BY <1>11 DEF Behind, Saved
    <3>2. TokensOf(Behind) = removed + TokensOf(rest) /\ TokensOf(rest) \in Nat
      <4> HIDE DEF rest
      <4>1. TokensOf(cut \cup rest) = TokensOf(cut) + TokensOf(rest)
        BY <3>1, TokensOfBoth
      <4> QED
        BY <1>6, <3>1, <4>1, TokensNat
    <3>3. TokensOf(Behind)' = TokensOf(rest)
      BY <1>12 DEF TokensOf
    <3>4. conv.tokens = TokensOf(Behind)
      BY DEF History, CursorSound
    <3>5. conv.tokens >= removed /\ conv.tokens - removed = TokensOf(rest)
      <4> HIDE DEF rest
      <4> QED
        BY <3>2, <3>4
    <3> HIDE DEF rest
    <3> QED
      BY <1>1, <1>8, <3>3, <3>5, MinusNat
  <2> QED
    BY <2>1, <2>2, <2>3 DEF CursorSound
<1>14. SawBefore'
  BY <1>9 DEF History, SawBefore
<1>15. /\ \A x \in Requests : conv'.token = x => Sees(request[x])'
       /\ \A x \in Workers : Cuts(worker[x])'
  BY <1>9 DEF Sees, Cuts
<1> QED
  BY <1>13, <1>14, <1>15 DEF History

LEMMA HistoryStep ==
  ASSUME IInv, LogsSound, IdsSound, History, LogsSound', Next PROVE Mixed' \/ History'
<1>1. \A x \in Workers : Cuts(worker'[x])
  BY ListRangeCuts, OthersCut
<1>2. CASE \E p \in Plain : PlainCommit(p)
  <2>1. PICK p \in Plain : PlainCommit(p)
    BY <1>2
  <2> DEFINE new == [tokens |-> plain[p].tokens, by |-> "plain", saw |-> {}]
  <2>2. new.by = "plain"
    OBVIOUS
  <2>3. /\ plain[p].id \in LogIds
        /\ logs' = [logs EXCEPT ![plain[p].id] = new] /\ logs \in [LogIds -> ChatLog]
    BY <2>1, PlainSaves DEF LogsSound
  <2> HIDE DEF new
  <2> QED
    BY <2>2, <2>3 DEF Mixed
<1>3. CASE \E r \in Requests : Commit(r) /\ logs' # logs
  BY <1>1, <1>3, CommitHistory
<1>4. CASE \E r \in Requests : Commit(r) /\ logs' = logs
  <2>1. PICK r \in Requests : Commit(r) /\ logs' = logs
    BY <1>4
  <2>2. CASE UNCHANGED conv
    <3>1. request' = [request EXCEPT ![r] = Resting] /\ request \in [Requests -> RequestState]
      BY <2>1 DEF Commit, IInv, RequestSound
    <3>2. \A x \in Requests : conv'.token = x => Sees(request'[x])
      <4>1. Resting.pc = "idle"
        BY DEF Resting
      <4> QED
        BY <2>2, <3>1, <4>1 DEF History, Sees
    <3>3. SameCursor
      BY <2>2 DEF SameCursor
    <3> QED
      BY <1>1, <2>1, <2>2, <3>2, <3>3, HistoryStays
  <2>3. CASE ~UNCHANGED conv
    <3>1. /\ HoldsLease(r) /\ request[r].pc = "commit"
          /\ logs' = [logs EXCEPT ![request[r].id] =
                      [tokens |-> request[r].tokens, by |-> "agent", saw |-> request[r].saw]]
      BY <2>1, <2>3 DEF Commit
    <3>2. request[r].id \notin Saved
      <4>1. \A i \in Saved : i < request[r].id
        BY <3>1 DEF HoldsLease, History, Sees
      <4>2. \A i \in Saved : i \in Nat
        BY LogIdsNat DEF Saved
      <4> QED
        BY <4>1, <4>2
    <3>3. request[r].id \in LogIds /\ request[r].tokens > 0 /\ logs \in [LogIds -> ChatLog]
      <4>1. request[r].id \in 1..nextLog /\ request[r].tokens \in Sizes
        BY <3>1 DEF IdsSound
      <4>2. nextLog \in LogIds /\ MaxLogs \in Nat /\ Sizes \subseteq Nat \ {0}
        BY LimitsAssumption DEF IInv, RequestSound
      <4>3. request[r].id \in LogIds
        BY <4>1, <4>2 DEF LogIds
      <4>4. request[r].tokens \in Nat /\ request[r].tokens # 0
        BY <4>1, <4>2
      <4> QED
        BY <4>3, <4>4 DEF LogsSound
    <3>4. logs'[request[r].id].tokens = request[r].tokens
      BY <3>1, <3>3
    <3> QED
      BY <2>1, <3>2, <3>3, <3>4 DEF Saved
  <2> QED
    BY <2>2, <2>3
<1>5. ASSUME ~(\E p \in Plain : PlainCommit(p)), ~(\E r \in Requests : Commit(r))
      PROVE  History'
  <2>1. UNCHANGED logs /\ \A x \in Requests : conv'.token = x => Sees(request'[x])
    BY <1>5, TypesSame, OthersSee
  <2>2. CASE \E w \in Workers : Completes(w)
    BY <1>1, <2>1, <2>2, CompleteHistory
  <2>3. CASE ~(\E w \in Workers : Completes(w))
    BY <1>1, <1>5, <2>1, <2>3, OthersKeepTheCursor, OthersKeepTheTokens, HistoryStays
  <2> QED
    BY <2>2, <2>3
<1> QED
  BY <1>2, <1>3, <1>4, <1>5

LEMMA HistoryStutter == ASSUME HistoryInv, UNCHANGED vars PROVE HistoryInv'
<1>1. UNCHANGED <<conv, logs, nextLog, request, plain, worker, lost, faults>>
  BY DEF vars
<1>2. LogsSound'
  BY <1>1 DEF HistoryInv, LogsSound
<1>3. IdsSound'
  BY <1>1 DEF HistoryInv, IdsSound
<1>4. Mixed => Mixed'
  BY <1>1 DEF Mixed
<1>5. ASSUME History PROVE History'
  <2>1. /\ SameCursor /\ conv'.tokens = conv.tokens
        /\ \A r \in Requests : conv'.token = r => Sees(request'[r])
        /\ \A w \in Workers : Cuts(worker'[w])
    BY <1>1, <1>5 DEF SameCursor, History
  <2> QED
    BY <1>1, <1>5, <2>1, HistoryStays
<1> QED
  BY <1>2, <1>3, <1>4, <1>5 DEF HistoryInv

LEMMA HistoryAlways == Spec => [](IInv /\ HistoryInv)
<1>1. ASSUME IInv, HistoryInv, Next PROVE HistoryInv'
  <2>1. LogsSound' /\ IdsSound'
    BY <1>1, TypesStep, IdsStep DEF HistoryInv
  <2>2. Mixed' \/ History'
    BY <1>1, <2>1, MixedStays, HistoryStep DEF HistoryInv
  <2> QED
    BY <2>1, <2>2 DEF HistoryInv
<1>2. IInv /\ HistoryInv /\ [Next]_vars => HistoryInv'
  BY <1>1, HistoryStutter
<1> QED
  BY <1>2, AlwaysSound, InitialHistory, PTL DEF Spec

-----------------------------------------------------------------------------
(* What the history shows *)

\* Every variable of the conversation row, its logs, requests, tasks and consumers
\* keeps its type; unsummarized_tokens never becomes negative.
THEOREM TypesKept == Spec => []TypeOK
<1>1. IInv /\ HistoryInv => TypeOK
  <2> SUFFICES ASSUME IInv, HistoryInv PROVE TypeOK
    OBVIOUS
  <2>1. conv \in Conversation
    BY DEF IInv, ConvSound, HistoryInv, LogsSound, ConversationRow, Conversation
  <2> QED
    BY <2>1 DEF IInv, RequestSound, TaskSound, WorkSound, HistoryInv, LogsSound, TypeOK
<1> QED
  BY <1>1, HistoryAlways, PTL

\* While only AppendLogRefreshAndSignal writes turns, the summary that
\* CompleteCompaction stores stands for exactly the turns up to its cursor, whatever
\* consumers, retries and expired leases run beside each other.
THEOREM SummaryIsExact == Spec => []SummaryExact
<1>1. IInv /\ HistoryInv => SummaryExact
  <2> SUFFICES ASSUME IInv, History PROVE conv.summary = {i \in Saved : i <= conv.through}
    BY DEF HistoryInv, SummaryExact
  <2>1. conv.through \in Nat
    BY LimitsAssumption DEF IInv, ConvSound, ConversationRow
  <2>2. \A i \in Saved : i \in Nat
    BY LogIdsNat DEF Saved
  <2>3. \A i \in Saved : i \notin Behind <=> i <= conv.through
    BY <2>1, <2>2 DEF Behind
  <2> QED
    BY <2>3 DEF History, CursorSound
<1> QED
  BY <1>1, HistoryAlways, PTL

\* unsummarized_tokens is the size of the turns behind the cursor: a turn appended
\* while a compaction runs stays counted, and GREATEST(0, ...) cuts nothing off.
THEOREM TokensAreExact == Spec => []TokensExact
<1>1. HistoryInv => TokensExact
  BY DEF HistoryInv, History, CursorSound, Behind, TokensExact
<1> QED
  BY <1>1, HistoryAlways, PTL

\* The lease and the id order of chat_logs together: a saved turn was answered in
\* view of every turn saved before it, also after a lease has expired under a
\* request, and while the cursor moves between the two reads of a context.
THEOREM TurnsSeeAll == Spec => []TurnSawAll
<1>1. HistoryInv => TurnSawAll
  BY DEF HistoryInv, History, SawBefore, TurnSawAll
<1> QED
  BY <1>1, HistoryAlways, PTL
=============================================================================
