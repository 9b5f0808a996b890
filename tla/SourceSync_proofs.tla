--------------------------- MODULE SourceSync_proofs ---------------------------
(***************************************************************************)
(* Theorems about SourceSync, for every number of consumers, callers,       *)
(* retries, tasks, calls and failures.                                      *)
(***************************************************************************)
EXTENDS SourceSync, FiniteSetTheorems, TLAPS

-----------------------------------------------------------------------------
(* Types and retry counts *)

\* What a consumer knows of attempts: its message was waiting, so it has some left;
\* its own count has some left too, unless it is on its way to the dead letter
\* queue, and then it has none.
WorkerSound(s) ==
  /\ s \in WorkerState
  /\ s.pc # "idle" => s.msg \in Msg
  /\ s.held => s.msg \in Msg
  /\ s.msg.attempt <= MaxRetries
  /\ s.pc \in {"claim", "list", "listed", "missed", "stored", "complete", "retry", "publish"}
       => s.attempt <= MaxRetries
  /\ s.pc = "dead" => s.attempt > MaxRetries

\* What a scheduler read of an active row, and what is published, has attempts left.
CallerSound(s) ==
  /\ s \in CallerState
  /\ s.attempt <= MaxRetries
  /\ s.pc = "publish" => s.task \in 1..MaxTasks

SourceInv == /\ src \in SourceState
             /\ Active => src.attempt <= MaxRetries

QueueInv ==
  /\ queue \in [Msg -> Nat]
  /\ dlq \in [Msg -> Nat]
  /\ \A m \in Msg : queue[m] > 0 => m.attempt <= MaxRetries
  /\ \A m \in Msg : dlq[m] > 0 => m.attempt > MaxRetries

WorkerInv == /\ worker \in [Workers -> WorkerState]
             /\ \A w \in Workers : WorkerSound(worker[w])

CallerInv == /\ caller \in [Callers -> CallerState]
             /\ \A c \in Callers : CallerSound(caller[c])

RestInv ==
  /\ due \in {"unset", "later", "now"}
  /\ page \in [missing : Nat, marked : 0..MaxTasks, deleted : BOOLEAN]
  /\ seen \in SUBSET (1..MaxTasks)
  /\ nextTask \in 0..MaxTasks
  /\ calls \in Nat
  /\ faults \in Nat
  /\ disturbed \in BOOLEAN

SyncInv == SourceInv /\ QueueInv /\ WorkerInv /\ CallerInv /\ RestInv

\* A consumer at another place, with another count.
LEMMA IdleAt ==
  ASSUME NEW pc \in WorkerPCs, NEW attempt \in 0..MaxRetries + 1
  PROVE  /\ [Idle EXCEPT !.pc = pc, !.attempt = attempt] \in WorkerState
         /\ [Idle EXCEPT !.pc = pc, !.attempt = attempt].pc = pc
         /\ [Idle EXCEPT !.pc = pc, !.attempt = attempt].attempt = attempt
<1>1. Idle \in WorkerState
  BY LimitsAssumption DEF Idle, WorkerState, WorkerPCs, Row, NoRow
<1> QED
  BY <1>1 DEF WorkerState

LEMMA IdleSound == WorkerSound(Idle)
<1>1. /\ Idle.pc = "idle" /\ Idle.msg = NoMsg /\ Idle.held = FALSE
      /\ Idle \in WorkerState
  BY LimitsAssumption DEF Idle, WorkerState, WorkerPCs, Row, NoRow
<1>2. NoMsg.attempt <= MaxRetries
  BY LimitsAssumption DEF NoMsg
<1> QED
  BY <1>1, <1>2 DEF WorkerSound

LEMMA RestingSound == CallerSound(Resting)
BY LimitsAssumption DEF Resting, CallerSound, CallerState

LEMMA SyncInit == Init => SyncInv
<1> SUFFICES ASSUME Init PROVE SyncInv
  OBVIOUS
<1>1. SourceInv
  BY LimitsAssumption DEF Init, SourceInv, SourceState, Active
<1>2. QueueInv
  BY DEF Init, QueueInv
<1>3. WorkerInv
  BY IdleSound DEF Init, WorkerInv, WorkerSound
<1>4. CallerInv
  BY RestingSound DEF Init, CallerInv, CallerSound
<1>5. RestInv
  <2>1. disturbed \in BOOLEAN
    BY Zenon DEF Init
  <2> QED
    BY <2>1, LimitsAssumption DEF Init, RestInv
<1> QED
  BY <1>1, <1>2, <1>3, <1>4, <1>5 DEF SyncInv

LEMMA SetWorker ==
  ASSUME WorkerInv, NEW w \in Workers, NEW s, WorkerSound(s),
         worker' = [worker EXCEPT ![w] = s]
  PROVE  WorkerInv'
BY DEF WorkerInv, WorkerSound

LEMMA SetCaller ==
  ASSUME CallerInv, NEW c \in Callers, NEW s, CallerSound(s),
         caller' = [caller EXCEPT ![c] = s]
  PROVE  CallerInv'
BY DEF CallerInv, CallerSound

LEMMA UpdatedSource ==
  ASSUME NEW s \in SourceState, NEW status \in {"idle", "queued", "syncing", "failed"},
         NEW attempt \in 0..MaxRetries + 1, NEW lease \in {"none", "live", "expired"}
  PROVE  /\ [s EXCEPT !.status = status, !.attempt = attempt, !.lease = lease]
              \in SourceState
         /\ [s EXCEPT !.status = status, !.attempt = attempt, !.lease = lease].status
              = status
         /\ [s EXCEPT !.status = status, !.attempt = attempt, !.lease = lease].attempt
              = attempt
BY DEF SourceState

LEMMA PutBag ==
  ASSUME NEW q \in [Msg -> Nat], NEW m \in Msg
  PROVE  /\ Put(q, m) \in [Msg -> Nat]
         /\ \A x \in Msg : Put(q, m)[x] > 0 => q[x] > 0 \/ x = m
BY DEF Put

\* A message that comes back to the queue has attempts left.
LEMMA RedeliveredSound ==
  ASSUME QueueInv, WorkerInv, NEW w \in Workers, queue' = Redelivered(w),
         UNCHANGED dlq
  PROVE  QueueInv'
<1>1. WorkerSound(worker[w])
  BY DEF WorkerInv
<1>2. CASE worker[w].held
  <2>1. worker[w].msg \in Msg /\ worker[w].msg.attempt <= MaxRetries
    BY <1>1, <1>2 DEF WorkerSound
  <2>2. queue' = Put(queue, worker[w].msg)
    BY <1>2 DEF Redelivered
  <2> QED
    BY <2>1, <2>2, PutBag DEF QueueInv
<1>3. CASE ~worker[w].held
  BY <1>3 DEF Redelivered, QueueInv
<1> QED
  BY <1>2, <1>3

LEMMA FaultType ==
  ASSUME RestInv, NEW kind, Fault(kind) \/ NoFault
  PROVE  faults' \in Nat /\ disturbed' \in BOOLEAN
<1>1. faults' \in Nat
  BY DEF Fault, NoFault, RestInv
<1>2. disturbed' \in BOOLEAN
  BY Zenon DEF Fault, NoFault, RestInv
<1> QED
  BY <1>1, <1>2

\* Moving a consumer to a program counter that asks nothing new of it.
LEMMA GotoSound ==
  ASSUME WorkerInv, NEW w \in Workers, worker[w].pc # "idle", NEW pc \in WorkerPCs,
         pc \notin {"idle", "dead"},
         pc = "ack" \/ worker[w].attempt <= MaxRetries,
         Goto(w, pc)
  PROVE  WorkerInv'
<1> DEFINE s == [worker[w] EXCEPT !.pc = pc]
<1>1. WorkerSound(worker[w])
  BY DEF WorkerInv
<1>2. WorkerSound(s)
  <2>1. /\ s \in WorkerState /\ s.pc = pc /\ s.msg = worker[w].msg
        /\ s.held = worker[w].held /\ s.attempt = worker[w].attempt
    BY <1>1 DEF WorkerSound, WorkerState
  <2> QED
    BY <1>1, <2>1 DEF WorkerSound
<1>3. worker' = [worker EXCEPT ![w] = s]
  BY DEF Goto
<1> HIDE DEF s
<1> QED
  BY <1>2, <1>3, SetWorker

LEMMA LeaveSound ==
  ASSUME WorkerInv, NEW w \in Workers, worker[w].pc # "idle", NEW pc \in WorkerPCs,
         pc \notin {"idle", "dead"}, worker[w].attempt <= MaxRetries,
         NEW row \in Row,
         worker' = [worker EXCEPT ![w].pc = pc, ![w].local = row]
  PROVE  WorkerInv'
<1> DEFINE s == [worker[w] EXCEPT !.pc = pc, !.local = row]
<1>1. WorkerSound(worker[w])
  BY DEF WorkerInv
<1>2. WorkerSound(s)
  <2>1. /\ s \in WorkerState /\ s.pc = pc /\ s.msg = worker[w].msg
        /\ s.held = worker[w].held /\ s.attempt = worker[w].attempt
    BY <1>1 DEF WorkerSound, WorkerState
  <2> HIDE DEF s
  <2> QED
    BY <1>1, <2>1 DEF WorkerSound
<1>3. worker' = [worker EXCEPT ![w] = s]
  OBVIOUS
<1> HIDE DEF s
<1> QED
  BY <1>2, <1>3, SetWorker

-----------------------------------------------------------------------------
(* The steps *)

LEMMA FailureSteps ==
  ASSUME SyncInv, NEW w \in Workers, Crash(w) \/ LoseChannel(w)
  PROVE  SyncInv'
<1> USE DEF SyncInv
<1>1. WorkerSound(worker[w])
  BY DEF WorkerInv
<1>2. QueueInv'
  BY RedeliveredSound DEF Crash, LoseChannel
<1>3. WorkerInv'
  <2>1. CASE Crash(w)
    BY <2>1, IdleSound, SetWorker DEF Crash
  <2>2. CASE LoseChannel(w)
    <3> DEFINE s == [worker[w] EXCEPT !.held = FALSE]
    <3>1. /\ s \in WorkerState /\ s.held = FALSE /\ s.pc = worker[w].pc
          /\ s.msg = worker[w].msg /\ s.attempt = worker[w].attempt
      BY <1>1 DEF WorkerSound, WorkerState
    <3>2. WorkerSound(s)
      BY <1>1, <3>1 DEF WorkerSound
    <3>3. worker' = [worker EXCEPT ![w] = s]
      BY <2>2 DEF LoseChannel
    <3> HIDE DEF s
    <3> QED
      BY <3>2, <3>3, SetWorker
  <2> QED
    BY <2>1, <2>2
<1>4. SourceInv'
  BY DEF Crash, LoseChannel, SourceInv, Active
<1>5. CallerInv'
  BY DEF Crash, LoseChannel, CallerInv
<1>6. RestInv'
  BY FaultType DEF Crash, LoseChannel, RestInv
<1> QED
  BY <1>2, <1>3, <1>4, <1>5, <1>6

LEMMA TimeSteps ==
  ASSUME SyncInv, LeaseExpires \/ BecomesDue
  PROVE  SyncInv'
<1> USE DEF SyncInv
<1>1. SourceInv'
  BY DEF LeaseExpires, BecomesDue, SourceInv, SourceState, Active
<1>2. QueueInv'
  BY DEF LeaseExpires, BecomesDue, QueueInv
<1>3. WorkerInv'
  BY DEF LeaseExpires, BecomesDue, WorkerInv
<1>4. CallerInv'
  BY DEF LeaseExpires, BecomesDue, CallerInv
<1>5. RestInv'
  BY FaultType DEF LeaseExpires, BecomesDue, RestInv
<1> QED
  BY <1>1, <1>2, <1>3, <1>4, <1>5

\* A new task starts queued, with attempts left.
LEMMA QueuedSound ==
  ASSUME NEW task \in 0..MaxTasks, NEW attempt \in 0..MaxRetries
  PROVE  /\ Queued(task, attempt) \in SourceState
         /\ Queued(task, attempt).attempt <= MaxRetries
BY LimitsAssumption DEF Queued, SourceState

LEMMA NewTaskSound ==
  ASSUME CallerInv, RestInv, NEW c \in Callers,
         NEW kind \in {"trigger", "due", "recover"},
         NEW attempt \in 0..MaxRetries, NewTask(c, kind, attempt)
  PROVE  CallerInv' /\ nextTask' \in 1..MaxTasks
<1>1. nextTask' \in 1..MaxTasks
  BY LimitsAssumption DEF NewTask, RestInv
<1> DEFINE s == [pc |-> "publish", kind |-> kind, task |-> nextTask', attempt |-> attempt]
<1>2. CallerSound(s)
  BY <1>1, LimitsAssumption DEF CallerSound, CallerState
<1>3. caller' = [caller EXCEPT ![c] = s]
  BY DEF NewTask
<1> HIDE DEF s
<1> QED
  BY <1>1, <1>2, <1>3, SetCaller

LEMMA StartSteps ==
  ASSUME SyncInv, NEW c \in Callers, Trigger(c) \/ ScheduleDue(c)
  PROVE  SyncInv'
<1> USE DEF SyncInv
<1>1. PICK kind \in {"trigger", "due"} : Start(c, kind)
  BY DEF Trigger, ScheduleDue
<1>2. CallerInv' /\ nextTask' \in 1..MaxTasks
  BY <1>1, NewTaskSound, LimitsAssumption DEF Start
<1>3. SourceInv'
  BY <1>1, <1>2, QueuedSound, LimitsAssumption DEF Start, SourceInv
<1>4. QueueInv' /\ WorkerInv'
  BY <1>1 DEF Start, QueueInv, WorkerInv
<1>5. RestInv'
  <2>1. calls' \in Nat /\ UNCHANGED <<faults, disturbed>>
    BY <1>1 DEF Start, RestInv, NoFault
  <2> QED
    BY <1>1, <1>2, <2>1 DEF Start, RestInv
<1> QED
  BY <1>2, <1>3, <1>4, <1>5

LEMMA RecoverSteps ==
  ASSUME SyncInv, NEW c \in Callers, FindExpired(c) \/ Recover(c) \/ CallerDies(c)
  PROVE  SyncInv'
<1> USE DEF SyncInv
<1>1. CallerSound(caller[c])
  BY DEF CallerInv
<1>2. CASE FindExpired(c)
  <2> DEFINE s == [pc |-> "recover", kind |-> "recover", task |-> src.task,
                   attempt |-> src.attempt]
  <2>1. CallerSound(s)
    BY <1>2 DEF FindExpired, CallerSound, CallerState, SourceInv, SourceState, Active
  <2>2. caller' = [caller EXCEPT ![c] = s]
    BY <1>2 DEF FindExpired
  <2> HIDE DEF s
  <2>3. CallerInv'
    BY <2>1, <2>2, SetCaller
  <2> QED
    BY <1>2, <2>3 DEF FindExpired, SourceInv, Active, QueueInv, WorkerInv, RestInv
<1>3. CASE Recover(c) /\ Recoverable(caller[c].task)
  <2>1. NewTask(c, "recover", caller[c].attempt) /\ src' = Queued(nextTask', src.attempt)
    BY <1>3, <1>1 DEF Recover
  <2>2. caller[c].attempt \in 0..MaxRetries /\ src.attempt \in 0..MaxRetries
    BY <1>1, <1>3, LimitsAssumption DEF CallerSound, CallerState, Recoverable, SourceInv, SourceState,
       Active
  <2>3. CallerInv' /\ nextTask' \in 1..MaxTasks
    BY <2>1, <2>2, NewTaskSound
  <2>4. SourceInv'
    BY <2>1, <2>2, <2>3, QueuedSound DEF SourceInv
  <2> QED
    BY <1>3, <2>3, <2>4 DEF Recover, NoFault, QueueInv, WorkerInv, RestInv
<1>4. CASE \/ Recover(c) /\ ~Recoverable(caller[c].task)
           \/ CallerDies(c)
  <2>1. CallerInv'
    BY <1>4, RestingSound, SetCaller DEF Recover, CallerDies
  <2>2. RestInv'
    BY <1>4, FaultType DEF Recover, CallerDies, RestInv
  <2> QED
    BY <1>4, <2>1, <2>2 DEF Recover, CallerDies, SourceInv, Active, QueueInv, WorkerInv
<1> QED
  BY <1>2, <1>3, <1>4

LEMMA PublishTaskStep ==
  ASSUME SyncInv, NEW c \in Callers, PublishTask(c)
  PROVE  SyncInv'
<1> USE DEF SyncInv
<1>1. CallerSound(caller[c])
  BY DEF CallerInv
<1> DEFINE m == [task |-> caller[c].task, attempt |-> caller[c].attempt]
           s == [caller[c] EXCEPT !.pc = "undo"]
<1>2. QueueInv'
  <2>1. m \in Msg /\ m.attempt <= MaxRetries
    BY <1>1 DEF PublishTask, CallerSound, CallerState, Msg
  <2>2. queue' = Put(queue, m) \/ queue' = queue
    BY DEF PublishTask
  <2> HIDE DEF m
  <2> QED
    BY <2>1, <2>2, PutBag DEF PublishTask, QueueInv
<1>3. CallerInv'
  <2>1. CallerSound(s)
    <3>1. s \in CallerState /\ s.attempt = caller[c].attempt /\ s.pc = "undo"
      BY <1>1 DEF CallerSound, CallerState
    <3> QED
      BY <1>1, <3>1 DEF CallerSound
  <2>2. caller' = [caller EXCEPT ![c] = Resting] \/ caller' = [caller EXCEPT ![c] = s]
    BY DEF PublishTask
  <2> HIDE DEF s
  <2> QED
    BY <2>1, <2>2, RestingSound, SetCaller
<1>4. RestInv'
  BY FaultType DEF PublishTask, RestInv
<1> QED
  BY <1>2, <1>3, <1>4 DEF PublishTask, SourceInv, Active, WorkerInv

LEMMA UndoPublishStep ==
  ASSUME SyncInv, NEW c \in Callers, UndoPublish(c)
  PROVE  SyncInv'
<1> USE DEF SyncInv
<1>1. caller[c].kind \in {"trigger", "due", "recover"}
  BY DEF CallerInv, CallerState
<1>2. SourceInv'
  <2>1. CASE src' = src
    BY <2>1 DEF SourceInv, Active
  <2>2. CASE src' = Undone(caller[c].kind, caller[c].task) /\ src' # src
    <3>1. \/ src' = [src EXCEPT !.status = "failed", !.attempt = 0, !.lease = "none"]
          \/ src' = [status |-> "idle", task |-> 0, attempt |-> 0, lease |-> "none"]
          \/ src' = [src EXCEPT !.lease = "expired"]
      BY <1>1, <2>2 DEF Undone
    <3>2. CASE src' = [src EXCEPT !.status = "failed", !.attempt = 0, !.lease = "none"]
      <4>1. src' \in SourceState /\ src'.status = "failed"
        <5>1. src \in SourceState /\ 0 \in 0..MaxRetries + 1
          BY LimitsAssumption DEF SourceInv
        <5>2. src' \in SourceState
          BY <3>2, <5>1 DEF SourceState
        <5>3. src'.status = "failed"
          BY <3>2, <5>1 DEF SourceState
        <5> QED
          BY <5>2, <5>3
      <4> QED
        BY <4>1 DEF SourceInv, Active
    <3>3. CASE src' = [status |-> "idle", task |-> 0, attempt |-> 0, lease |-> "none"]
      <4>1. src' \in SourceState /\ src'.status = "idle"
        BY <3>3, LimitsAssumption DEF SourceState
      <4> QED
        BY <4>1 DEF SourceInv, Active
    <3>4. CASE src' = [src EXCEPT !.lease = "expired"]
      <4>1. /\ src' \in SourceState
            /\ src'.status = src.status /\ src'.attempt = src.attempt
        BY <3>4 DEF SourceInv, SourceState
      <4> QED
        BY <4>1 DEF SourceInv, Active
    <3> QED
      BY <3>1, <3>2, <3>3, <3>4
  <2> QED
    BY <2>1, <2>2 DEF UndoPublish
<1>3. CallerInv'
  BY RestingSound, SetCaller DEF UndoPublish
<1>4. RestInv'
  BY FaultType DEF UndoPublish, RestInv
<1> QED
  BY <1>2, <1>3, <1>4 DEF UndoPublish, QueueInv, WorkerInv

\* Routed never hands a consumer more attempts than the row and the message allow.
LEMMA RoutedSound ==
  ASSUME SourceInv, NEW m \in Msg, m.attempt <= MaxRetries
  PROVE  /\ Routed(m) \in WorkerState
         /\ Routed(m).pc \in {"ack", "dead", "claim"}
         /\ Routed(m).pc = "claim" => Routed(m).attempt <= MaxRetries
         /\ Routed(m).pc = "dead" => Routed(m).attempt > MaxRetries
<1> DEFINE At(pc, attempt) == [Idle EXCEPT !.pc = pc, !.attempt = attempt]
<1>1. ASSUME NEW pc \in WorkerPCs, NEW attempt \in 0..MaxRetries + 1
      PROVE  /\ At(pc, attempt) \in WorkerState
             /\ At(pc, attempt).pc = pc /\ At(pc, attempt).attempt = attempt
  BY IdleAt
<1>2. \/ Routed(m) = At("ack", m.attempt)
      \/ Routed(m) = At("dead", src.attempt) /\ src.attempt > MaxRetries
      \/ Routed(m) = At("claim", Larger(m.attempt, src.attempt)) /\ src.status = "queued"
  BY DEF Routed, Final
<1>3. /\ m.attempt \in 0..MaxRetries + 1
      /\ src.attempt \in 0..MaxRetries + 1
      /\ src.status = "queued" =>
           /\ Larger(m.attempt, src.attempt) \in 0..MaxRetries + 1
           /\ Larger(m.attempt, src.attempt) <= MaxRetries
  BY DEF Msg, SourceInv, SourceState, Active, Larger
<1>4. {"ack", "dead", "claim"} \subseteq WorkerPCs
  BY DEF WorkerPCs
<1> HIDE DEF At
<1>5. CASE Routed(m) = At("ack", m.attempt)
  BY <1>1, <1>3, <1>4, <1>5
<1>6. CASE Routed(m) = At("dead", src.attempt) /\ src.attempt > MaxRetries
  BY <1>1, <1>3, <1>4, <1>6
<1>7. CASE Routed(m) = At("claim", Larger(m.attempt, src.attempt)) /\ src.status = "queued"
  BY <1>1, <1>3, <1>4, <1>7
<1> QED
  BY <1>2, <1>5, <1>6, <1>7

LEMMA ReceiveStep ==
  ASSUME SyncInv, NEW w \in Workers, NEW m \in Msg, Receive(w, m)
  PROVE  SyncInv'
<1> USE DEF SyncInv
<1> DEFINE Holding(s) == [s EXCEPT !.msg = m, !.held = TRUE]
           lost == [Idle EXCEPT !.pc = "retry", !.attempt = m.attempt]
<1>1. m.attempt <= MaxRetries /\ m.attempt \in 0..MaxRetries + 1
  BY DEF Receive, QueueInv, Msg
<1>2. ASSUME NEW s \in WorkerState,
             s.pc \in {"ack", "dead", "claim", "retry"},
             s.pc \in {"claim", "retry"} => s.attempt <= MaxRetries,
             s.pc = "dead" => s.attempt > MaxRetries
      PROVE  WorkerSound(Holding(s))
  <2>1. /\ Holding(s) \in WorkerState /\ Holding(s).msg = m
        /\ Holding(s).pc = s.pc /\ Holding(s).attempt = s.attempt
    BY DEF WorkerState
  <2> HIDE DEF Holding
  <2> QED
    BY <1>1, <1>2, <2>1 DEF WorkerSound
<1>3. /\ lost \in WorkerState /\ lost.pc = "retry" /\ lost.attempt = m.attempt
  BY <1>1, IdleAt DEF WorkerPCs
<1>4. WorkerSound(Holding(Routed(m))) /\ WorkerSound(Holding(lost))
  <2> HIDE DEF Holding, lost
  <2>1. WorkerSound(Holding(Routed(m)))
    BY <1>1, <1>2, RoutedSound
  <2>2. WorkerSound(Holding(lost))
    BY <1>1, <1>2, <1>3
  <2> QED
    BY <2>1, <2>2
<1>5. \/ worker' = [worker EXCEPT ![w] = Holding(Routed(m))]
      \/ worker' = [worker EXCEPT ![w] = Holding(lost)]
  BY DEF Receive
<1>6. WorkerInv'
  <2> HIDE DEF Holding, lost
  <2> QED
    BY <1>4, <1>5, SetWorker
<1>7. QueueInv'
  BY DEF Receive, QueueInv
<1>8. RestInv'
  BY FaultType DEF Receive, RestInv
<1> QED
  BY <1>6, <1>7, <1>8 DEF Receive, SourceInv, Active, CallerInv

LEMMA ClaimStep ==
  ASSUME SyncInv, NEW w \in Workers, Claim(w)
  PROVE  SyncInv'
<1> USE DEF SyncInv
<1>1. WorkerSound(worker[w]) /\ worker[w].pc = "claim"
  BY DEF WorkerInv, Claim
<1>2. worker[w].attempt <= MaxRetries /\ worker[w].attempt \in 0..MaxRetries + 1
  BY <1>1 DEF WorkerSound, WorkerState
<1>3. WorkerInv'
  BY <1>1, <1>2, GotoSound DEF Claim, WorkerPCs
<1>4. SourceInv'
  <2>1. CASE src' = src
    BY <2>1 DEF SourceInv, Active
  <2>2. CASE src' = [src EXCEPT !.status = "syncing", !.attempt = worker[w].attempt,
                                !.lease = "live"]
    <3> DEFINE a == worker[w].attempt
    <3>1. src \in SourceState /\ a \in 0..MaxRetries + 1
      BY <1>2 DEF SourceInv
    <3>2. src' = [src EXCEPT !.status = "syncing", !.attempt = a, !.lease = "live"]
      BY <2>2
    <3> HIDE DEF a
    <3>3. /\ src' \in SourceState
          /\ src'.attempt = a
      <4>1. src' \in SourceState
        BY <3>1, <3>2, UpdatedSource
      <4>2. src'.attempt = a
        BY <3>1, <3>2 DEF SourceState
      <4> QED
        BY <4>1, <4>2
    <3>4. a <= MaxRetries
      BY <1>2 DEF a
    <3> QED
      BY <3>3, <3>4 DEF SourceInv
  <2> QED
    BY <2>1, <2>2 DEF Claim
<1>5. RestInv'
  BY FaultType DEF Claim, RestInv
<1> QED
  BY <1>3, <1>4, <1>5 DEF Claim, QueueInv, CallerInv

\* What MarkExternalDocumentMissing writes.
LEMMA AbsentRow ==
  ASSUME RestInv, NEW w \in Workers, worker[w].msg \in Msg, Absent(w)
  PROVE  RestInv'
<1>1. worker[w].msg.task \in 1..MaxTasks
  BY DEF Msg
<1>2. Counted(worker[w].msg.task) \in Nat
  <2>1. page.missing \in Nat
    BY DEF RestInv
  <2> QED
    BY <2>1 DEF Counted
<1>3. page' \in [missing : Nat, marked : 0..MaxTasks, deleted : BOOLEAN]
  <2>1. CASE page' = page
    BY <2>1 DEF RestInv
  <2>2. CASE page' # page
    <3> DEFINE n == Counted(worker[w].msg.task)
               deleted == page.deleted \/ n >= DeleteAfter
    <3>1. page' = [missing |-> n, marked |-> worker[w].msg.task, deleted |-> deleted]
      BY <2>2 DEF Absent
    <3>2. deleted \in BOOLEAN
      OBVIOUS
    <3> HIDE DEF deleted
    <3> QED
      BY <1>1, <1>2, <3>1, <3>2
  <2> QED
    BY <2>1, <2>2
<1>4. seen' \in SUBSET (1..MaxTasks)
  BY <1>1 DEF Absent, RestInv
<1> QED
  BY <1>3, <1>4 DEF Absent, RestInv

LEMMA SyncSteps ==
  ASSUME SyncInv, NEW w \in Workers,
         List(w) \/ Present(w) \/ FetchFails(w) \/ Absent(w) \/ SyncFails(w)
  PROVE  SyncInv'
<1> USE DEF SyncInv
<1>1. WorkerSound(worker[w]) /\ Running(w)
  BY DEF WorkerInv, Running, List, Present, FetchFails, Absent, SyncFails
<1>2. /\ worker[w].attempt <= MaxRetries /\ worker[w].msg \in Msg
      /\ worker[w].local \in Row /\ worker[w].pc # "idle"
  BY <1>1 DEF WorkerSound, WorkerState, Running
<1>3. page \in [missing : Nat, marked : 0..MaxTasks, deleted : BOOLEAN]
  BY DEF RestInv
<1>4. NoRow \in Row
  BY LimitsAssumption DEF Row, NoRow
<1>5. WorkerInv'
  <2>1. CASE \E pc \in {"missed", "complete"} : Goto(w, pc)
    BY <1>2, <2>1, GotoSound DEF WorkerPCs
  <2>2. CASE \E pc \in {"listed", "stored", "retry"}, row \in Row :
               worker' = [worker EXCEPT ![w].pc = pc, ![w].local = row]
    BY <1>2, <2>2, LeaveSound DEF WorkerPCs
  <2>3. CASE List(w)
    <3> DEFINE row == [missing |-> page.missing, marked |-> page.marked]
    <3>1. row \in Row
      BY <1>3 DEF Row
    <3>2. \/ worker' = [worker EXCEPT ![w].pc = "listed", ![w].local = row]
          \/ Goto(w, "missed") \/ Goto(w, "complete")
      BY <2>3 DEF List
    <3> HIDE DEF row
    <3> QED
      BY <2>1, <2>2, <3>1, <3>2
  <2> QED
    BY <1>4, <2>1, <2>2, <2>3 DEF Present, FetchFails, Absent, SyncFails, Leave
<1>6. RestInv'
  <2>1. CASE List(w) \/ SyncFails(w)
    BY <2>1 DEF List, SyncFails, RestInv
  <2>2. CASE Present(w)
    BY <2>2, LimitsAssumption DEF Present, RestInv
  <2>3. CASE FetchFails(w)
    <3>1. page' \in [missing : Nat, marked : 0..MaxTasks, deleted : BOOLEAN]
      BY <1>2, <1>3, <2>3 DEF FetchFails, Row
    <3> QED
      BY <2>3, <3>1 DEF FetchFails, RestInv
  <2>4. CASE Absent(w)
    BY <1>2, <2>4, AbsentRow
  <2> QED
    BY <2>1, <2>2, <2>3, <2>4
<1>7. SourceInv' /\ QueueInv' /\ CallerInv'
  BY DEF List, SyncFails, FetchFails, Present, Absent, SourceInv, Active, QueueInv, CallerInv
<1> QED
  BY <1>5, <1>6, <1>7

LEMMA CompleteStep ==
  ASSUME SyncInv, NEW w \in Workers, Complete(w)
  PROVE  SyncInv'
<1> USE DEF SyncInv
<1>1. WorkerSound(worker[w]) /\ worker[w].pc \in {"stored", "complete"}
  BY DEF WorkerInv, Complete
<1>2. WorkerInv'
  BY <1>1, GotoSound DEF Complete, WorkerPCs, WorkerSound
<1>3. SourceInv'
  <2>1. CASE src' = src
    BY <2>1 DEF SourceInv, Active
  <2>2. CASE src' = [src EXCEPT !.status = "idle", !.lease = "none"]
    <3>1. src' \in SourceState /\ src'.status = "idle"
      BY <2>2 DEF SourceInv, SourceState
    <3> QED
      BY <3>1 DEF SourceInv, Active
  <2> QED
    BY <2>1, <2>2 DEF Complete
<1>4. RestInv'
  <2>1. due' \in {"unset", "later", "now"} /\ faults' \in Nat
       /\ disturbed' \in BOOLEAN
    BY FaultType DEF Complete, RestInv
  <2>2. seen' \in SUBSET (1..MaxTasks)
    BY DEF Complete, RestInv
  <2> QED
    BY <2>1, <2>2 DEF Complete, RestInv
<1> QED
  BY <1>2, <1>3, <1>4 DEF Complete, QueueInv, CallerInv

LEMMA RetryStep ==
  ASSUME SyncInv, NEW w \in Workers, Retry(w)
  PROVE  SyncInv'
<1> USE DEF SyncInv
<1> DEFINE next == worker[w].attempt + 1
           s == [worker[w] EXCEPT !.attempt = next,
                                  !.pc = IF Final(next) THEN "dead" ELSE "publish"]
<1>1. WorkerSound(worker[w]) /\ worker[w].pc = "retry"
  BY DEF WorkerInv, Retry
<1>2. next \in 0..MaxRetries + 1 /\ worker[w].msg \in Msg
  BY <1>1, LimitsAssumption DEF WorkerSound, WorkerState
<1>3. \/ /\ src' = [src EXCEPT !.status = IF Final(next) THEN "failed" ELSE "queued",
                               !.attempt = next,
                               !.lease = IF Final(next) THEN "none" ELSE "live"]
         /\ worker' = [worker EXCEPT ![w] = s]
         /\ UNCHANGED queue
      \/ Goto(w, "ack") /\ UNCHANGED <<src, queue>>
      \/ /\ queue' = Redelivered(w)
         /\ worker' = [worker EXCEPT ![w] = Idle]
         /\ UNCHANGED src
  BY DEF Retry
<1>4. WorkerSound(s)
  <2>1. CASE Final(next)
    <3>1. /\ s \in WorkerState /\ s.pc = "dead" /\ s.attempt = next
          /\ s.msg = worker[w].msg
      BY <1>1, <1>2, <2>1 DEF WorkerSound, WorkerState, WorkerPCs
    <3> HIDE DEF s
    <3> QED
      BY <1>1, <1>2, <2>1, <3>1 DEF WorkerSound, Final
  <2>2. CASE ~Final(next)
    <3>1. /\ s \in WorkerState /\ s.pc = "publish" /\ s.attempt = next
          /\ s.msg = worker[w].msg
      BY <1>1, <1>2, <2>2 DEF WorkerSound, WorkerState, WorkerPCs
    <3> HIDE DEF s
    <3> QED
      BY <1>1, <1>2, <2>2, <3>1, LimitsAssumption DEF WorkerSound, Final
  <2> QED
    BY <2>1, <2>2
<1>5. WorkerInv'
  <2> HIDE DEF s, next
  <2>1. CASE worker' = [worker EXCEPT ![w] = s]
    BY <1>4, <2>1, SetWorker
  <2>2. CASE Goto(w, "ack")
    BY <1>1, <2>2, GotoSound DEF WorkerPCs
  <2>3. CASE worker' = [worker EXCEPT ![w] = Idle]
    BY <2>3, IdleSound, SetWorker
  <2> QED
    BY <1>3, <2>1, <2>2, <2>3
<1>6. SourceInv'
  <2>1. CASE src' = src
    BY <2>1 DEF SourceInv, Active
  <2>2. CASE src' # src
    <3>1. src \in SourceState
      BY DEF SourceInv
    <3>2. CASE Final(next)
      <4>1. src' = [src EXCEPT !.status = "failed", !.attempt = next, !.lease = "none"]
        BY <1>3, <2>2, <3>2
      <4> HIDE DEF s, next
      <4>2. src' \in SourceState
        BY <1>2, <3>1, <4>1 DEF SourceState
      <4>3. src'.status = "failed"
        BY <3>1, <4>1 DEF SourceState
      <4> QED
        BY <4>2, <4>3 DEF SourceInv, Active
    <3>3. CASE ~Final(next)
      <4>1. src' = [src EXCEPT !.status = "queued", !.attempt = next, !.lease = "live"]
        BY <1>3, <2>2, <3>3
      <4>2. next <= MaxRetries
        BY <1>2, <3>3, LimitsAssumption DEF Final
      <4> HIDE DEF s, next
      <4>3. src' \in SourceState
        BY <1>2, <3>1, <4>1, UpdatedSource
      <4>4. src'.attempt = next
        BY <1>2, <3>1, <4>1, UpdatedSource
      <4>5. src'.attempt <= MaxRetries
        BY <4>2, <4>4
      <4> QED
        BY <4>3, <4>5 DEF SourceInv
    <3> QED
      BY <3>2, <3>3
  <2> QED
    BY <2>1, <2>2
<1>7. QueueInv'
  <2>1. UNCHANGED dlq
    BY DEF Retry
  <2>2. CASE queue' = queue
    BY <2>1, <2>2 DEF QueueInv
  <2>3. CASE queue' = Redelivered(w)
    BY <2>1, <2>3, RedeliveredSound
  <2> HIDE DEF s, next
  <2> QED
    BY <1>3, <2>2, <2>3
<1>8. RestInv'
  BY FaultType DEF Retry, RestInv
<1> QED
  BY <1>5, <1>6, <1>7, <1>8 DEF Retry, CallerInv

LEMMA PublishStep ==
  ASSUME SyncInv, NEW w \in Workers, Publish(w)
  PROVE  SyncInv'
<1> USE DEF SyncInv
<1> DEFINE m == [task |-> worker[w].msg.task, attempt |-> worker[w].attempt]
<1>1. WorkerSound(worker[w]) /\ worker[w].pc \in {"publish", "dead"}
  BY DEF WorkerInv, Publish
<1>2. /\ m \in Msg /\ m.attempt = worker[w].attempt
  BY <1>1 DEF WorkerSound, WorkerState, Msg
<1>3. \/ /\ queue' = IF worker[w].pc = "publish" THEN Put(queue, m) ELSE queue
         /\ dlq' = IF worker[w].pc = "dead" THEN Put(dlq, m) ELSE dlq
         /\ Goto(w, "ack")
      \/ /\ queue' = Redelivered(w)
         /\ worker' = [worker EXCEPT ![w] = Idle]
         /\ UNCHANGED dlq
  BY DEF Publish
<1> HIDE DEF m
<1>4. QueueInv'
  <2>1. CASE Goto(w, "ack") /\ worker[w].pc = "publish"
             /\ queue' = Put(queue, m) /\ dlq' = dlq
    BY <1>1, <1>2, <2>1, PutBag DEF QueueInv, WorkerSound
  <2>2. CASE Goto(w, "ack") /\ worker[w].pc = "dead"
             /\ queue' = queue /\ dlq' = Put(dlq, m)
    BY <1>1, <1>2, <2>2, PutBag DEF QueueInv, WorkerSound
  <2>3. CASE queue' = Redelivered(w) /\ UNCHANGED dlq
    BY <2>3, RedeliveredSound
  <2> QED
    BY <1>1, <1>3, <2>1, <2>2, <2>3
<1>5. WorkerInv'
  BY <1>1, <1>3, GotoSound, IdleSound, SetWorker DEF WorkerPCs
<1>6. RestInv'
  BY FaultType DEF Publish, RestInv
<1> QED
  BY <1>4, <1>5, <1>6 DEF Publish, SourceInv, Active, CallerInv

LEMMA AckStep ==
  ASSUME SyncInv, NEW w \in Workers, Ack(w)
  PROVE  SyncInv'
<1>1. WorkerInv'
  BY IdleSound, SetWorker DEF SyncInv, Ack
<1> QED
  BY <1>1 DEF SyncInv, Ack, SourceInv, Active, QueueInv, CallerInv, RestInv

LEMMA SyncNext == SyncInv /\ [Next]_vars => SyncInv'
<1> SUFFICES ASSUME SyncInv, [Next]_vars PROVE SyncInv'
  OBVIOUS
<1>1. ASSUME NEW w \in Workers, Handles(w)
      PROVE  SyncInv'
  BY <1>1, ClaimStep, SyncSteps, CompleteStep, RetryStep, PublishStep, AckStep DEF Handles
<1>2. ASSUME NEW w \in Workers,
             (\E m \in Msg : Receive(w, m)) \/ Crash(w) \/ LoseChannel(w)
      PROVE  SyncInv'
  BY <1>2, ReceiveStep, FailureSteps
<1>3. ASSUME NEW c \in Callers,
             \/ Trigger(c) \/ ScheduleDue(c) \/ FindExpired(c)
             \/ CallerRuns(c) \/ CallerDies(c)
      PROVE  SyncInv'
  BY <1>3, StartSteps, RecoverSteps, PublishTaskStep, UndoPublishStep DEF CallerRuns
<1>4. CASE LeaseExpires \/ BecomesDue
  BY <1>4, TimeSteps
<1>5. CASE UNCHANGED vars
  BY <1>5 DEF vars, SyncInv, SourceInv, Active, QueueInv, WorkerInv, CallerInv, RestInv
<1>6. Users \subseteq Callers /\ Schedulers \subseteq Callers
  BY DEF Callers
<1> QED
  BY <1>1, <1>2, <1>3, <1>4, <1>5, <1>6 DEF Next

LEMMA SyncAlways == Spec => []SyncInv
<1>1. Init => SyncInv
  BY SyncInit
<1>2. SyncInv /\ [Next]_vars => SyncInv'
  BY SyncNext
<1> QED
  BY <1>1, <1>2, PTL DEF Spec

\* Every state of the sync task has the types of TypeOK.
THEOREM TypeCorrect == Spec => []TypeOK
<1>1. SyncInv => TypeOK
  BY DEF SyncInv, SourceInv, QueueInv, WorkerInv, CallerInv, RestInv, TypeOK
<1> QED
  BY <1>1, SyncAlways, PTL

\* An active row and every waiting message have attempts left, across retries and
\* takeovers, and the dead letter queue holds only tasks that have none.
THEOREM RetriesAreBounded == Spec => []RetriesLeft
<1>1. SyncInv => RetriesLeft
  BY DEF SyncInv, SourceInv, QueueInv, RetriesLeft
<1> QED
  BY <1>1, SyncAlways, PTL

-----------------------------------------------------------------------------
(* Action properties *)

\* The steps of consumers, and those of callers that have a task already, leave a
\* failed row failed.
LEMMA FailedKept ==
  ASSUME SyncInv, src.status = "failed",
         \/ \E w \in Workers : \/ \E m \in Msg : Receive(w, m)
                               \/ Handles(w) \/ Crash(w) \/ LoseChannel(w)
         \/ \E c \in Callers : \/ CallerRuns(c) \/ CallerDies(c)
                               \/ ScheduleDue(c) \/ FindExpired(c)
         \/ LeaseExpires \/ BecomesDue \/ UNCHANGED vars
  PROVE  src'.status = "failed"
<1>1. src \in SourceState
  BY DEF SyncInv, SourceInv
<1>2. ASSUME NEW w \in Workers, Handles(w)
      PROVE  src'.status = "failed"
  <2>1. CASE UNCHANGED src
    BY <2>1
  <2>2. CASE Claim(w) \/ Complete(w)
    BY <2>2 DEF Claim, Claimable, Complete
  <2>3. CASE Retry(w)
    <3>1. UNCHANGED src
      BY <2>3 DEF Retry
    <3> QED
      BY <3>1
  <2> QED
    BY <1>2, <2>1, <2>2, <2>3 DEF Handles, List, SyncFails, FetchFails, Present,
       Absent, Publish, Ack
<1>3. ASSUME NEW w \in Workers,
             (\E m \in Msg : Receive(w, m)) \/ Crash(w) \/ LoseChannel(w)
      PROVE  src'.status = "failed"
  BY <1>3 DEF Receive, Crash, LoseChannel
<1>4. ASSUME NEW c \in Callers,
             CallerRuns(c) \/ CallerDies(c) \/ ScheduleDue(c) \/ FindExpired(c)
      PROVE  src'.status = "failed"
  <2>1. CASE UNCHANGED src
    BY <2>1
  <2>2. CASE Recover(c)
    BY <2>1, <2>2 DEF Recover, Recoverable
  <2>3. CASE UndoPublish(c)
    <3>1. caller[c].kind \in {"trigger", "due", "recover"}
      BY DEF SyncInv, CallerInv, CallerState
    <3>2. Undone(caller[c].kind, caller[c].task) = src
      BY <3>1 DEF Undone
    <3> QED
      BY <2>3, <3>2 DEF UndoPublish
  <2>4. CASE ScheduleDue(c)
    BY <2>4 DEF ScheduleDue, Schedulable
  <2> QED
    BY <1>4, <2>1, <2>2, <2>3, <2>4 DEF CallerRuns, PublishTask, CallerDies, FindExpired
<1>5. CASE LeaseExpires \/ BecomesDue
  BY <1>1, <1>5 DEF LeaseExpires, BecomesDue, SourceState
<1>6. CASE UNCHANGED vars
  BY <1>6 DEF vars
<1> QED
  BY <1>2, <1>3, <1>4, <1>5, <1>6

\* Only a user's call leads out of failed: no late message, no scheduler and no
\* recovery does.
THEOREM FailedIsLeftByHand == Spec => FailedStays
<1>1. ASSUME SyncInv, Next, src.status = "failed", src'.status # "failed"
      PROVE  \E c \in Users : caller[c].pc = "idle" /\ caller'[c].pc = "publish"
  <2>1. PICK c \in Users : Trigger(c)
    BY <1>1, FailedKept DEF Next, Callers
  <2>2. c \in Callers
    BY DEF Callers
  <2>3. caller \in [Callers -> CallerState]
    BY <1>1 DEF SyncInv, CallerInv
  <2>4. caller'[c].pc = "publish"
    BY <2>1, <2>2, <2>3 DEF Trigger, Start, NewTask
  <2> QED
    BY <2>1, <2>4 DEF Trigger, Start
<1>2. ASSUME SyncInv, [Next]_vars
      PROVE  [src.status = "failed" /\ src'.status # "failed" =>
                \E c \in Users : caller[c].pc = "idle" /\ caller'[c].pc = "publish"]_vars
  BY <1>1, <1>2
<1> QED
  BY <1>2, SyncAlways, PTL DEF Spec, FailedStays

\* A consumer that has a message and moves: it is its own step, and every statement
\* that writes the row then names the task.
LEMMA LateDropped ==
  ASSUME SyncInv, Next, NEW w \in Workers, worker[w].pc # "idle",
         src.task # worker[w].msg.task, worker'[w] # worker[w]
  PROVE  src' = src
<1>1. worker \in [Workers -> WorkerState]
  BY DEF SyncInv, WorkerInv
<1>2. ASSUME NEW v \in Workers, v # w,
             \/ \E m \in Msg : Receive(v, m)
             \/ Handles(v) \/ Crash(v) \/ LoseChannel(v)
      PROVE  FALSE
  <2>1. \/ \E s : worker' = [worker EXCEPT ![v] = s]
        \/ \E s, t : worker' = [worker EXCEPT ![v].attempt = s, ![v].pc = t]
        \/ \E s : worker' = [worker EXCEPT ![v].pc = s]
        \/ \E s, t : worker' = [worker EXCEPT ![v].pc = s, ![v].local = t]
        \/ \E s : worker' = [worker EXCEPT ![v].held = s]
    <3>1. CASE Handles(v)
      <4>1. CASE Claim(v) \/ Complete(v)
        BY <4>1 DEF Claim, Complete, Goto
      <4>5. CASE List(v) \/ SyncFails(v) \/ Present(v) \/ FetchFails(v)
        BY <4>5 DEF List, SyncFails, Present, FetchFails, Goto, Leave
      <4>2. CASE Absent(v)
        BY <4>2 DEF Absent, Goto
      <4>3. CASE Retry(v)
        BY <4>3 DEF Retry, Goto
      <4>4. CASE Publish(v) \/ Ack(v)
        BY <4>4 DEF Publish, Ack, Goto
      <4> QED
        BY <3>1, <4>1, <4>2, <4>3, <4>4, <4>5 DEF Handles
    <3>2. CASE \E m \in Msg : Receive(v, m)
      BY <3>2 DEF Receive
    <3>3. CASE Crash(v) \/ LoseChannel(v)
      BY <3>3 DEF Crash, LoseChannel
    <3> QED
      BY <1>2, <3>1, <3>2, <3>3
  <2>2. worker'[w] = worker[w]
    BY <1>1, <1>2, <2>1
  <2> QED
    BY <2>2
<1>3. CASE \/ \E m \in Msg : Receive(w, m)
           \/ Handles(w) \/ Crash(w) \/ LoseChannel(w)
  <2>1. CASE Handles(w)
    BY <2>1 DEF Handles, Claim, Claimable, Current, List, SyncFails, FetchFails, Present,
                Absent, Complete, Retry, Publish, Ack
  <2>2. CASE \/ \E m \in Msg : Receive(w, m)
             \/ Crash(w) \/ LoseChannel(w)
    BY <2>2 DEF Receive, Crash, LoseChannel
  <2> QED
    BY <1>3, <2>1, <2>2
<1>4. ASSUME NEW c \in Callers,
             \/ Trigger(c) \/ ScheduleDue(c) \/ FindExpired(c)
             \/ CallerRuns(c) \/ CallerDies(c)
      PROVE  FALSE
  BY <1>4 DEF Trigger, ScheduleDue, Start, FindExpired, CallerRuns, Recover, PublishTask,
              UndoPublish, CallerDies
<1>5. CASE LeaseExpires \/ BecomesDue
  BY <1>5 DEF LeaseExpires, BecomesDue
<1>6. Users \subseteq Callers /\ Schedulers \subseteq Callers
  BY DEF Callers
<1> QED
  BY <1>2, <1>3, <1>4, <1>5, <1>6 DEF Next

\* A consumer whose task was taken over does not write the source row any more: its
\* claim, its completion, its requeue and its final failure all compare the task.
THEOREM LateResultsAreDropped == Spec => LateResultDropped
<1>1. ASSUME SyncInv, [Next]_vars
      PROVE  [\A w \in Workers :
                worker[w].pc # "idle" /\ src.task # worker[w].msg.task
                  /\ worker'[w] # worker[w] => src' = src]_vars
  BY <1>1, LateDropped
<1> QED
  BY <1>1, SyncAlways, PTL DEF Spec, LateResultDropped

-----------------------------------------------------------------------------
(* One sync at a time *)

LEMMA NoDisturbance ==
  ASSUME ~disturbed' PROVE ~Fault("late") /\ ~Fault("lookup")
BY DEF Fault, Disturbing

\* The consumer holds the row: it runs Sync, or is about to report its failure.
Holds(w) == Running(w) \/ worker[w].pc = "retry"

\* The caller has started or taken over a task that is not in the queue yet.
Pending(c) == caller[c].pc \in {"publish", "undo"}

\* A message or a consumer knows the task id; 0 stands for none.
InUse(t) == \/ t = 0
            \/ \E m \in Msg : queue[m] > 0 /\ m.task = t
            \/ \E w \in Workers : worker[w].msg.task = t

\* Task ids are handed out once, and a pending one is known to its caller alone.
TaskInv ==
  /\ \A t : InUse(t) => t \in 0..nextTask
  /\ \A c \in Callers : Pending(c) => caller[c].task \in 1..nextTask /\ ~InUse(caller[c].task)
  /\ \A c, d \in Callers : Pending(c) /\ Pending(d) /\ caller[c].task = caller[d].task => c = d

\* A consumer that holds the row runs the row's task, under a lease that has not
\* run out, and no other holds it.
HoldInv ==
  /\ \A w \in Workers : Holds(w) => Current(w) /\ src.status = "syncing" /\ src.lease # "expired"
  /\ \A v, w \in Workers : Holds(v) /\ Holds(w) => v = w

LEMMA TaskInit == Init => TaskInv
<1> SUFFICES ASSUME Init PROVE TaskInv
  OBVIOUS
<1>1. \A c \in Callers : ~Pending(c)
  BY DEF Init, Resting, Pending
<1>2. \A w \in Workers : worker[w].msg.task = 0
  BY DEF Init, Idle, NoMsg
<1>3. \A t : InUse(t) => t = 0
  BY <1>2 DEF Init, InUse
<1> QED
  BY <1>1, <1>3 DEF TaskInv, Init

LEMMA HoldInit == Init => HoldInv
BY DEF Init, Idle, Holds, Running, HoldInv

\* A step of consumers takes its messages from the queue and from consumers.
LEMMA WorkerTasks ==
  ASSUME TaskInv, UNCHANGED <<caller, nextTask>>,
         \A m \in Msg : queue'[m] > 0 => InUse(m.task),
         \A w \in Workers : InUse(worker'[w].msg.task)
  PROVE  TaskInv'
<1>1. \A t : InUse(t)' => InUse(t)
  BY DEF InUse
<1>2. \A c \in Callers : Pending(c)' <=> Pending(c)
  BY DEF Pending
<1> QED
  BY <1>1, <1>2 DEF TaskInv

LEMMA RedeliveredTasks ==
  ASSUME QueueInv, WorkerInv, NEW w \in Workers, NEW m \in Msg, Redelivered(w)[m] > 0
  PROVE  InUse(m.task)
<1>1. CASE worker[w].held
  <2>1. worker[w].msg \in Msg
    BY <1>1 DEF WorkerInv, WorkerSound
  <2>2. queue[m] > 0 \/ m = worker[w].msg
    BY <1>1, <2>1, PutBag DEF Redelivered, QueueInv
  <2> QED
    BY <2>2 DEF InUse
<1>2. CASE ~worker[w].held
  BY <1>2 DEF Redelivered, InUse
<1> QED
  BY <1>1, <1>2

LEMMA HandlerTasks ==
  ASSUME SyncInv, TaskInv, NEW w \in Workers, Handles(w) \/ Crash(w) \/ LoseChannel(w)
  PROVE  TaskInv'
<1> USE DEF SyncInv
<1>1. UNCHANGED <<caller, nextTask>>
  BY DEF Handles, Claim, List, Present, FetchFails, Absent, SyncFails, Complete, Retry,
         Publish, Ack, Crash, LoseChannel
<1>2. worker \in [Workers -> WorkerState]
  BY DEF WorkerInv
<1>3. \A v \in Workers : worker'[v].msg \in {worker[v].msg, NoMsg}
  <2>1. CASE \E pc : Goto(w, pc) \/ Leave(w, pc)
    BY <1>2, <2>1 DEF Goto, Leave, WorkerState
  <2>2. CASE worker' = [worker EXCEPT ![w] = Idle]
    BY <1>2, <2>2 DEF Idle
  <2>3. CASE LoseChannel(w)
    BY <1>2, <2>3 DEF LoseChannel, WorkerState
  <2>4. CASE List(w)
    BY <1>2, <2>1, <2>4 DEF List, WorkerState
  <2>5. CASE Retry(w)
    BY <1>2, <2>1, <2>2, <2>5 DEF Retry, WorkerState
  <2> QED
    BY <2>1, <2>2, <2>3, <2>4, <2>5 DEF Handles, Claim, Present, FetchFails, Absent,
       SyncFails, Complete, Publish, Ack, Crash
<1>4. \A v \in Workers : InUse(worker'[v].msg.task)
  BY <1>3 DEF InUse, NoMsg
<1>5. ASSUME NEW m \in Msg, queue'[m] > 0 PROVE InUse(m.task)
  <2>1. CASE queue' = queue
    BY <1>5, <2>1 DEF InUse
  <2>2. CASE queue' = Redelivered(w)
    BY <1>5, <2>2, RedeliveredTasks
  <2>3. CASE Publish(w) /\ worker[w].pc = "publish" /\ queue' # Redelivered(w)
    <3> DEFINE x == [task |-> worker[w].msg.task, attempt |-> worker[w].attempt]
    <3>1. x \in Msg /\ x.task = worker[w].msg.task
      BY <2>3 DEF WorkerInv, WorkerSound, WorkerState, Msg
    <3>2. queue' = Put(queue, x)
      BY <2>3 DEF Publish
    <3> HIDE DEF x
    <3>3. queue[m] > 0 \/ m = x
      BY <1>5, <3>1, <3>2, PutBag DEF QueueInv
    <3> QED
      BY <3>1, <3>3 DEF InUse
  <2> QED
    BY <2>1, <2>2, <2>3 DEF Handles, Claim, List, Present, FetchFails, Absent, SyncFails,
       Complete, Retry, Publish, Ack, Crash, LoseChannel
<1> QED
  BY <1>1, <1>4, <1>5, WorkerTasks

LEMMA ReceiveTasks ==
  ASSUME SyncInv, TaskInv, NEW w \in Workers, NEW m \in Msg, Receive(w, m)
  PROVE  TaskInv'
<1> USE DEF SyncInv
<1>1. queue \in [Msg -> Nat] /\ worker \in [Workers -> WorkerState]
  BY DEF QueueInv, WorkerInv
<1>2. \A x \in Msg : queue'[x] > 0 => queue[x] > 0
  BY <1>1 DEF Receive
<1>3. PICK s : worker' = [worker EXCEPT ![w] = [s EXCEPT !.msg = m, !.held = TRUE]]
               /\ s \in WorkerState
  <2>1. Routed(m) \in WorkerState
    BY RoutedSound DEF Receive, QueueInv
  <2>2. [Idle EXCEPT !.pc = "retry", !.attempt = m.attempt] \in WorkerState
    BY IdleAt DEF WorkerPCs, Msg
  <2> QED
    BY <2>1, <2>2 DEF Receive
<1>4. worker'[w].msg = m
  BY <1>1, <1>3 DEF WorkerState
<1>5. \A v \in Workers : v # w => worker'[v] = worker[v]
  BY <1>1, <1>3
<1>6. InUse(m.task)
  BY DEF Receive, InUse
<1>7. \A v \in Workers : InUse(worker'[v].msg.task)
  BY <1>4, <1>5, <1>6 DEF InUse
<1>8. \A x \in Msg : queue'[x] > 0 => InUse(x.task)
  BY <1>2 DEF InUse
<1> QED
  BY <1>7, <1>8, WorkerTasks DEF Receive

\* A fresh id is in nobody's hands.
LEMMA NewTaskTasks ==
  ASSUME SyncInv, TaskInv, NEW c \in Callers, NEW kind, NEW attempt,
         NewTask(c, kind, attempt), UNCHANGED <<queue, worker>>
  PROVE  TaskInv'
<1>1. caller \in [Callers -> CallerState] /\ nextTask \in Nat /\ nextTask' = nextTask + 1
  BY LimitsAssumption DEF SyncInv, CallerInv, RestInv, NewTask
<1>2. \A t : InUse(t)' <=> InUse(t)
  BY DEF InUse
<1>3. /\ caller'[c].task = nextTask + 1 /\ caller'[c].pc = "publish"
      /\ \A d \in Callers : d # c => caller'[d] = caller[d]
  BY <1>1 DEF NewTask
<1>4. \A d \in Callers : d # c => (Pending(d)' <=> Pending(d))
  BY <1>3 DEF Pending
<1>5. ~InUse(nextTask + 1) /\ nextTask + 1 \in 1..nextTask + 1
  BY <1>1 DEF TaskInv
<1>6. \A t : t \in 1..nextTask => t \in 1..nextTask + 1 /\ t # nextTask + 1
  BY <1>1
<1>7. \A t : InUse(t)' => t \in 0..nextTask'
  BY <1>1, <1>2 DEF TaskInv
<1>8. \A t : \A d \in Callers : Pending(d)' /\ t = caller'[d].task =>
        t \in 1..nextTask' /\ ~InUse(t)'
  BY <1>1, <1>2, <1>3, <1>4, <1>5, <1>6 DEF TaskInv
<1>9. \A d, e \in Callers :
        Pending(d)' /\ Pending(e)' /\ caller'[d].task = caller'[e].task => d = e
  BY <1>3, <1>4, <1>6 DEF TaskInv
<1> QED
  BY <1>7, <1>8, <1>9 DEF TaskInv

\* A call that ends, or keeps its task, takes nothing from the others.
LEMMA CallerTasks ==
  ASSUME SyncInv, TaskInv, NEW c \in Callers, UNCHANGED <<queue, worker, nextTask>>,
         NEW s, s.pc \in {"publish", "undo"} => Pending(c) /\ s.task = caller[c].task,
         caller' = [caller EXCEPT ![c] = s]
  PROVE  TaskInv'
<1>1. caller \in [Callers -> CallerState]
  BY DEF SyncInv, CallerInv
<1>2. \A t : InUse(t)' <=> InUse(t)
  BY DEF InUse
<1>3. \A d \in Callers : Pending(d)' => Pending(d) /\ caller'[d].task = caller[d].task
  BY <1>1 DEF Pending
<1> QED
  BY <1>2, <1>3 DEF TaskInv

LEMMA PublishTasks ==
  ASSUME SyncInv, TaskInv, NEW c \in Callers, PublishTask(c)
  PROVE  TaskInv'
<1> USE DEF SyncInv
<1>1. caller \in [Callers -> CallerState] /\ caller[c].pc = "publish"
  BY DEF CallerInv, PublishTask
<1>2. CASE caller' = [caller EXCEPT ![c].pc = "undo"] /\ UNCHANGED queue
  <2> DEFINE s == [caller[c] EXCEPT !.pc = "undo"]
  <2>1. s.task = caller[c].task /\ caller' = [caller EXCEPT ![c] = s] /\ Pending(c)
    BY <1>1, <1>2 DEF CallerState, Pending
  <2> HIDE DEF s
  <2> QED
    BY <1>2, <2>1, CallerTasks DEF PublishTask
<1>3. CASE /\ queue' = Put(queue, [task |-> caller[c].task, attempt |-> caller[c].attempt])
           /\ caller' = [caller EXCEPT ![c] = Resting]
  <2> DEFINE x == [task |-> caller[c].task, attempt |-> caller[c].attempt]
  <2>1. x \in Msg /\ x.task = caller[c].task
    BY <1>1 DEF CallerInv, CallerSound, CallerState, Msg
  <2>2. queue' = Put(queue, x) /\ queue \in [Msg -> Nat] /\ UNCHANGED <<worker, nextTask>>
    BY <1>3 DEF PublishTask, QueueInv
  <2> HIDE DEF x
  <2>3. \A t : InUse(t)' => InUse(t) \/ t = caller[c].task
    BY <2>1, <2>2, PutBag DEF InUse
  <2>4. Pending(c) /\ caller[c].task \in 1..nextTask
    BY <1>1 DEF Pending, TaskInv
  <2>5. \A d \in Callers : Pending(d)' =>
          d # c /\ Pending(d) /\ caller'[d] = caller[d]
    BY <1>1, <1>3 DEF Pending, Resting
  <2>6. \A t : InUse(t)' => t \in 0..nextTask'
    BY <2>2, <2>3, <2>4 DEF TaskInv
  <2>7. \A t : \A d \in Callers : Pending(d)' /\ t = caller'[d].task =>
          t \in 1..nextTask' /\ ~InUse(t)'
    BY <2>2, <2>3, <2>4, <2>5 DEF TaskInv
  <2>8. \A d, e \in Callers :
          Pending(d)' /\ Pending(e)' /\ caller'[d].task = caller'[e].task => d = e
    BY <2>5 DEF TaskInv
  <2> QED
    BY <2>6, <2>7, <2>8 DEF TaskInv
<1> QED
  BY <1>2, <1>3 DEF PublishTask

LEMMA TaskNext == SyncInv /\ TaskInv /\ [Next]_vars => TaskInv'
<1> SUFFICES ASSUME SyncInv, TaskInv, [Next]_vars PROVE TaskInv'
  OBVIOUS
<1>1. ASSUME NEW c \in Callers, Trigger(c) \/ ScheduleDue(c) PROVE TaskInv'
  BY <1>1, NewTaskTasks DEF Trigger, ScheduleDue, Start
<1>2. ASSUME NEW c \in Callers, Recover(c) /\ Recoverable(caller[c].task) PROVE TaskInv'
  BY <1>2, NewTaskTasks DEF Recover
<1>3. ASSUME NEW c \in Callers,
             \/ Recover(c) /\ ~Recoverable(caller[c].task)
             \/ UndoPublish(c) \/ CallerDies(c)
      PROVE  TaskInv'
  <2>1. Resting.pc = "idle"
    BY DEF Resting
  <2> QED
    BY <1>3, <2>1, CallerTasks DEF Recover, UndoPublish, CallerDies
<1>4. ASSUME NEW c \in Callers, FindExpired(c) PROVE TaskInv'
  <2> DEFINE s == [pc |-> "recover", kind |-> "recover", task |-> src.task,
                   attempt |-> src.attempt]
  <2>1. s.pc = "recover" /\ caller' = [caller EXCEPT ![c] = s]
    BY <1>4 DEF FindExpired
  <2> HIDE DEF s
  <2> QED
    BY <1>4, <2>1, CallerTasks DEF FindExpired
<1>5. CASE \/ LeaseExpires \/ BecomesDue \/ UNCHANGED vars
  BY <1>5 DEF LeaseExpires, BecomesDue, vars, TaskInv, InUse, Pending
<1>6. Users \subseteq Callers /\ Schedulers \subseteq Callers
  BY DEF Callers
<1> QED
  BY <1>1, <1>2, <1>3, <1>4, <1>5, <1>6, HandlerTasks, ReceiveTasks, PublishTasks
     DEF Next, CallerRuns

\* What happens to one consumer when another, or nobody, moves.
LEMMA OthersKeep ==
  ASSUME WorkerInv, NEW w \in Workers,
         \/ \E m \in Msg : Receive(w, m)
         \/ Handles(w) \/ Crash(w) \/ LoseChannel(w)
  PROVE  \A v \in Workers \ {w} : worker'[v] = worker[v]
<1>1. worker \in [Workers -> WorkerState]
  BY DEF WorkerInv
<1>2. \/ \E s : worker' = [worker EXCEPT ![w] = s]
      \/ \E s, t : worker' = [worker EXCEPT ![w].attempt = s, ![w].pc = t]
      \/ \E s : worker' = [worker EXCEPT ![w].pc = s]
      \/ \E s : worker' = [worker EXCEPT ![w].held = s]
      \/ \E s, t : worker' = [worker EXCEPT ![w].pc = s, ![w].local = t]
  <2>1. CASE Claim(w) \/ Complete(w)
    BY <2>1 DEF Claim, Complete, Goto
  <2>2. CASE List(w) \/ SyncFails(w) \/ Present(w) \/ FetchFails(w)
    BY <2>2 DEF List, SyncFails, Present, FetchFails, Goto, Leave
  <2>3. CASE Absent(w)
    BY <2>3 DEF Absent, Goto
  <2>4. CASE Retry(w)
    BY <2>4 DEF Retry, Goto
  <2>5. CASE Publish(w) \/ Ack(w)
    BY <2>5 DEF Publish, Ack, Goto
  <2>6. CASE \E m \in Msg : Receive(w, m)
    BY <2>6 DEF Receive
  <2>7. CASE Crash(w) \/ LoseChannel(w)
    BY <2>7 DEF Crash, LoseChannel
  <2> QED
    BY <2>1, <2>2, <2>3, <2>4, <2>5, <2>6, <2>7 DEF Handles
<1> QED
  BY <1>1, <1>2

\* Of the consumer that moves itself: only a claim makes it hold the row.
LEMMA OwnMove ==
  ASSUME ~disturbed', SyncInv, NEW w \in Workers,
         \/ \E m \in Msg : Receive(w, m)
         \/ Handles(w) \/ Crash(w) \/ LoseChannel(w),
         Holds(w)'
  PROVE  /\ worker'[w].msg = worker[w].msg
         /\ \/ Holds(w) /\ UNCHANGED src
            \/ Claim(w) /\ Claimable(w)
<1> USE DEF SyncInv
<1>1. worker \in [Workers -> WorkerState]
  BY DEF WorkerInv
<1>2. ~Fault("lookup")
  BY NoDisturbance
<1>3. CASE Claim(w)
  BY <1>1, <1>2, <1>3 DEF Claim, Goto, Holds, Running, WorkerState
<1>4. CASE List(w) \/ SyncFails(w) \/ Present(w) \/ FetchFails(w) \/ Absent(w)
  BY <1>1, <1>4 DEF List, SyncFails, Present, FetchFails, Absent, Goto, Leave, Holds,
     Running, WorkerState
<1>5. CASE Complete(w)
  BY <1>1, <1>2, <1>5 DEF Complete, Goto, Holds, Running, WorkerState
<1>6. CASE Retry(w)
  <2>1. worker' = [worker EXCEPT ![w] = Idle] => worker'[w].pc = "idle"
    BY <1>1 DEF Idle
  <2>2. Goto(w, "ack") => worker'[w].pc = "ack"
    BY <1>1 DEF Goto, WorkerState
  <2>3. \A n, pc : worker' = [worker EXCEPT ![w].attempt = n, ![w].pc = pc]
                  => worker'[w].pc = pc
    BY <1>1 DEF WorkerState
  <2>4. worker'[w].pc \in {"dead", "publish", "ack", "idle"}
    BY <1>6, <2>1, <2>2, <2>3 DEF Retry
  <2> QED
    BY <2>4 DEF Holds, Running
<1>7. CASE Publish(w) \/ Ack(w) \/ Crash(w)
  BY <1>1, <1>7 DEF Publish, Ack, Crash, Goto, Idle, Holds, Running, WorkerState
<1>8. CASE LoseChannel(w)
  BY <1>1, <1>8 DEF LoseChannel, Holds, Running, WorkerState
<1>9. ASSUME NEW m \in Msg, Receive(w, m)
      PROVE  FALSE
  <2>1. worker' = [worker EXCEPT ![w] = [Routed(m) EXCEPT !.msg = m, !.held = TRUE]]
    BY <1>2, <1>9 DEF Receive
  <2>2. Routed(m) \in WorkerState /\ Routed(m).pc \in {"ack", "dead", "claim"}
    BY <1>9, RoutedSound DEF Receive, QueueInv
  <2>3. worker'[w].pc = Routed(m).pc
    BY <1>1, <2>1, <2>2 DEF WorkerState
  <2> QED
    BY <2>2, <2>3 DEF Holds, Running
<1> QED
  BY <1>3, <1>4, <1>5, <1>6, <1>7, <1>8, <1>9 DEF Handles

LEMMA HoldWorker ==
  ASSUME ~disturbed', SyncInv, HoldInv, NEW w \in Workers,
         \/ \E m \in Msg : Receive(w, m)
         \/ Handles(w) \/ Crash(w) \/ LoseChannel(w)
  PROVE  HoldInv'
<1> USE DEF SyncInv
<1>1. \A v \in Workers \ {w} : worker'[v] = worker[v]
  BY OthersKeep
<1>2. \A v \in Workers \ {w} : Holds(v)' <=> Holds(v)
  BY <1>1 DEF Holds, Running
<1>3. src \in SourceState
  BY DEF SourceInv
<1>4. CASE Claim(w) /\ Claimable(w)
  <2>1. \A v \in Workers : ~Holds(v)
    BY <1>4 DEF Claimable, HoldInv
  <2>2. ~Fault("lookup")
    BY NoDisturbance
  <2>3. src' = [src EXCEPT !.status = "syncing", !.attempt = worker[w].attempt, !.lease = "live"]
    BY <1>4, <2>2 DEF Claim
  <2>4. src'.status = "syncing" /\ src'.lease = "live" /\ src'.task = src.task
    BY <1>3, <2>3 DEF SourceState
  <2>5. worker'[w].msg.task = src.task
    <3>1. worker \in [Workers -> WorkerState]
      BY DEF WorkerInv
    <3>2. worker'[w].msg = worker[w].msg
      BY <1>4, <2>2, <3>1 DEF Claim, Goto, WorkerState
    <3> QED
      BY <1>4, <3>2 DEF Claimable, Current
  <2> QED
    BY <1>2, <2>1, <2>4, <2>5 DEF HoldInv, Current
<1>5. CASE UNCHANGED src /\ ~(Claim(w) /\ Claimable(w))
  <2>1. Holds(w)' => Holds(w) /\ worker'[w].msg = worker[w].msg
    BY <1>5, OwnMove
  <2>2. \A v \in Workers : Holds(v)' => Holds(v) /\ (Current(v)' <=> Current(v))
    BY <1>1, <1>2, <1>5, <2>1 DEF Current
  <2> QED
    BY <1>5, <2>2 DEF HoldInv
<1>6. CASE ~UNCHANGED src /\ ~(Claim(w) /\ Claimable(w))
  <2>1. Complete(w) \/ Retry(w)
    BY <1>6 DEF Handles, Claim, List, Present, FetchFails, Absent, SyncFails, Publish, Ack,
       Receive, Crash, LoseChannel
  <2>2. Holds(w)
    BY <2>1 DEF Complete, Retry, Holds, Running
  <2>3. ~Holds(w)'
    BY <1>6, OwnMove
  <2>4. \A v \in Workers : ~Holds(v)'
    BY <1>2, <2>2, <2>3 DEF HoldInv
  <2> QED
    BY <2>4 DEF HoldInv
<1> QED
  BY <1>4, <1>5, <1>6

LEMMA HoldKept ==
  ASSUME HoldInv, UNCHANGED <<src, worker>>
  PROVE  HoldInv'
BY DEF HoldInv, Holds, Running, Current

\* Callers and time write the row when no consumer holds it.
LEMMA HoldFree ==
  ASSUME UNCHANGED worker, \A w \in Workers : ~Holds(w)
  PROVE  HoldInv'
BY DEF HoldInv, Holds, Running

LEMMA HoldNext ==
  ASSUME ~disturbed', SyncInv, TaskInv, HoldInv, [Next]_vars
  PROVE  HoldInv'
<1>1. ASSUME NEW c \in Callers, Trigger(c) \/ ScheduleDue(c) PROVE HoldInv'
  <2>1. \A w \in Workers : ~Holds(w)
    BY <1>1 DEF Trigger, ScheduleDue, Schedulable, HoldInv
  <2> QED
    BY <1>1, <2>1, HoldFree DEF Trigger, ScheduleDue, Start
<1>2. ASSUME NEW c \in Callers, Recover(c) PROVE HoldInv'
  <2>1. CASE Recoverable(caller[c].task)
    <3>1. \A w \in Workers : ~Holds(w)
      BY <2>1 DEF Recoverable, HoldInv
    <3> QED
      BY <1>2, <3>1, HoldFree DEF Recover
  <2>2. CASE ~Recoverable(caller[c].task)
    BY <1>2, <2>2, HoldKept DEF Recover
  <2> QED
    BY <2>1, <2>2
<1>3. ASSUME NEW c \in Callers, UndoPublish(c) PROVE HoldInv'
  <2>1. CASE UNCHANGED src
    BY <1>3, <2>1, HoldKept DEF UndoPublish
  <2>2. CASE ~UNCHANGED src
    <3>1. caller[c].kind \in {"trigger", "due", "recover"}
      BY DEF SyncInv, CallerInv, CallerState
    <3>2. src.task = caller[c].task
      BY <1>3, <2>2, <3>1 DEF UndoPublish, Undone
    <3>3. ~InUse(src.task)
      BY <1>3, <3>2 DEF UndoPublish, Pending, TaskInv
    <3>4. \A w \in Workers : ~Holds(w)
      BY <3>3 DEF HoldInv, Current, InUse
    <3> QED
      BY <1>3, <3>4, HoldFree DEF UndoPublish
  <2> QED
    BY <2>1, <2>2
<1>4. CASE LeaseExpires
  <2>1. ~Alive
    BY <1>4, NoDisturbance DEF LeaseExpires
  <2>2. \A w \in Workers : ~Holds(w)
    BY <2>1 DEF Alive, HoldInv, Current, Holds, Running
  <2> QED
    BY <1>4, <2>2, HoldFree DEF LeaseExpires
<1>5. CASE \/ BecomesDue \/ UNCHANGED vars
           \/ \E c \in Callers : PublishTask(c) \/ CallerDies(c) \/ FindExpired(c)
  BY <1>5, HoldKept DEF BecomesDue, vars, PublishTask, CallerDies, FindExpired
<1>6. Users \subseteq Callers /\ Schedulers \subseteq Callers
  BY DEF Callers
<1> QED
  BY <1>1, <1>2, <1>3, <1>4, <1>5, <1>6, HoldWorker DEF Next, CallerRuns

\* A disturbance is never forgotten.
LEMMA Forgotten == SyncInv /\ [Next]_vars /\ ~disturbed' => ~disturbed
<1> SUFFICES ASSUME SyncInv, [Next]_vars, ~disturbed' PROVE ~disturbed
  OBVIOUS
<1>1. ASSUME NoFault \/ (\E kind : Fault(kind)) \/ UNCHANGED disturbed PROVE ~disturbed
  BY <1>1 DEF NoFault, Fault, SyncInv, RestInv
<1>2. ASSUME NEW w \in Workers, Handles(w) PROVE ~disturbed
  BY <1>1, <1>2 DEF Handles, Claim, List, Present, FetchFails, Absent, SyncFails,
     Complete, Retry, Publish, Ack
<1>3. ASSUME NEW w \in Workers, (\E m \in Msg : Receive(w, m)) \/ Crash(w) \/ LoseChannel(w)
      PROVE  ~disturbed
  BY <1>1, <1>3 DEF Receive, Crash, LoseChannel
<1>4. ASSUME NEW c, \/ Trigger(c) \/ ScheduleDue(c) \/ FindExpired(c)
                    \/ CallerRuns(c) \/ CallerDies(c)
      PROVE  ~disturbed
  BY <1>1, <1>4 DEF Trigger, ScheduleDue, Start, FindExpired, CallerRuns, Recover,
     PublishTask, UndoPublish, CallerDies
<1>5. CASE LeaseExpires \/ BecomesDue \/ UNCHANGED vars
  BY <1>1, <1>5 DEF LeaseExpires, BecomesDue, vars
<1> QED
  BY <1>2, <1>3, <1>4, <1>5 DEF Next

\* Sync never runs twice at once, in any number of server processes, until an execution
\* outlives its lease or a copy of a message fails before its claim: MarkSourceSyncing
\* takes a queued row only, and every way back to queued ends the execution that held it.
THEOREM OneSyncAtATime == Spec => []OneSync
<1>1. Init => TaskInv /\ (~disturbed => HoldInv)
  BY TaskInit, HoldInit
<1>2. SyncInv /\ TaskInv /\ (~disturbed => HoldInv) /\ [Next]_vars
        => TaskInv' /\ (~disturbed => HoldInv)'
  BY TaskNext, HoldNext, Forgotten
<1>3. (~disturbed => HoldInv) => OneSync
  BY DEF HoldInv, OneSync, Holds
<1> QED
  BY <1>1, <1>2, <1>3, SyncAlways, PTL DEF Spec

-----------------------------------------------------------------------------
(* The missing count of a page *)

Several(set) == \E a, b \in set : a # b

\* The count tells how many tasks missed the page in a row as far as it matters:
\* none, at least one, at least two. A count of one belongs to the task it names. What
\* the consumer that holds the row has read or written of the page is the page still.
PageInv ==
  /\ page.missing = 0 => page.marked = 0
  /\ page.missing > 0 => page.marked \in seen
  /\ page.missing > 1 => Several(seen)
  /\ page.deleted => Several(seen)
  /\ \A w \in Workers : worker[w].pc = "listed" =>
       worker[w].local = [missing |-> page.missing, marked |-> page.marked]
  /\ \A w \in Workers : worker[w].pc = "stored" =>
       page = [missing |-> 0, marked |-> 0, deleted |-> FALSE]

LEMMA PageInit == Init => PageInv
BY DEF Init, Idle, PageInv

\* A further task makes a second one of the first; the same task counts once.
LEMMA AbsentCounts ==
  ASSUME SyncInv, PageInv, NEW w \in Workers, Absent(w)
  PROVE  /\ page'.missing = 0 => page'.marked = 0
         /\ page'.missing > 0 => page'.marked \in seen'
         /\ page'.missing > 1 => Several(seen')
         /\ page'.deleted => Several(seen')
<1>1. CASE UNCHANGED <<page, seen>>
  BY <1>1 DEF PageInv
<1>2. CASE ~UNCHANGED <<page, seen>>
  <2>1. PICK task \in 1..MaxTasks : task = worker[w].msg.task
    BY DEF Absent, SyncInv, WorkerInv, WorkerSound, Msg
  <2>2. PICK n : n = Counted(task)
    OBVIOUS
  <2>3. /\ page' = [missing |-> n, marked |-> task,
                    deleted |-> page.deleted \/ n >= DeleteAfter]
        /\ seen' = seen \cup {task}
    BY <1>2, <2>1, <2>2 DEF Absent
  <2>4. /\ page'.missing = n /\ page'.marked = task
        /\ page'.deleted = (page.deleted \/ n >= DeleteAfter)
    BY <2>3
  <2>5. page.missing \in Nat /\ task # 0
    BY <2>1, LimitsAssumption DEF SyncInv, RestInv
  <2>6. n \in Nat /\ n > 0
    BY <2>2, <2>5 DEF Counted, PageInv
  <2>7. n > 1 => Several(seen')
    <3>1. CASE page.marked = task
      BY <2>2, <2>3, <3>1 DEF Counted, PageInv, Several
    <3>2. CASE page.marked # task
      <4>1. n > 1 => page.marked \in seen
        BY <2>2, <2>5, <3>2 DEF Counted, PageInv
      <4> QED
        BY <2>3, <3>2, <4>1 DEF Several
    <3> QED
      BY <3>1, <3>2
  <2>8. Several(seen) => Several(seen')
    BY <2>3 DEF Several
  <2>9. n >= DeleteAfter => n > 1
    BY <2>6, LimitsAssumption
  <2>10. task \in seen'
    BY <2>3
  <2>11. page'.deleted => Several(seen')
    BY <2>4, <2>7, <2>8, <2>9 DEF PageInv
  <2>12. (page'.missing = 0 => page'.marked = 0) /\ (page'.missing > 0 => page'.marked \in seen')
    BY <2>4, <2>6, <2>10
  <2>13. page'.missing > 1 => Several(seen')
    BY <2>4, <2>7
  <2> QED
    BY <2>11, <2>12, <2>13 DEF Several
<1> QED
  BY <1>1, <1>2

\* A step that leaves the page alone, and makes nobody a reader or a writer of it.
LEMMA PageKept ==
  ASSUME PageInv, UNCHANGED <<page, seen>>,
         \A w \in Workers : worker'[w].pc \in {"listed", "stored"} =>
           worker'[w].pc = worker[w].pc /\ worker'[w].local = worker[w].local
  PROVE  PageInv'
BY DEF PageInv

\* The consumer that holds the row is the only one that looks at the page.
LEMMA PageWorker ==
  ASSUME SyncInv, HoldInv, PageInv, NEW w \in Workers, Handles(w)
  PROVE  PageInv'
<1> USE DEF SyncInv
<1>1. \A v \in Workers \ {w} : worker'[v] = worker[v]
  BY OthersKeep
<1>2. worker \in [Workers -> WorkerState]
      /\ page \in [missing : Nat, marked : 0..MaxTasks, deleted : BOOLEAN]
  BY DEF WorkerInv, RestInv
<1>3. Running(w) => \A v \in Workers \ {w} : worker'[v].pc \notin {"listed", "stored"}
  BY <1>1 DEF HoldInv, Holds, Running
<1>4. CASE List(w)
  <2>1. UNCHANGED <<page, seen>> /\ Running(w)
    BY <1>4 DEF List, Running
  <2>2. worker'[w].pc = "listed" =>
          worker'[w].local = [missing |-> page.missing, marked |-> page.marked]
    BY <1>2, <1>4 DEF List, Goto, WorkerState
  <2>3. worker'[w].pc # "stored"
    BY <1>2, <1>4 DEF List, Goto, WorkerState
  <2> QED
    BY <1>3, <2>1, <2>2, <2>3 DEF PageInv
<1>5. CASE Present(w)
  <2>1. /\ page' = [missing |-> 0, marked |-> 0, deleted |-> FALSE]
        /\ worker'[w].pc = "stored" /\ Running(w)
    BY <1>2, <1>5 DEF Present, Leave, Running, WorkerState
  <2> QED
    BY <1>3, <2>1 DEF PageInv
<1>6. CASE FetchFails(w)
  <2>1. /\ worker[w].local = [missing |-> page.missing, marked |-> page.marked]
        /\ worker'[w].pc = "retry" /\ UNCHANGED seen
    BY <1>2, <1>6 DEF FetchFails, Leave, WorkerState, PageInv
  <2>2. page' = page
    <3>1. worker[w].local.missing = page.missing /\ worker[w].local.marked = page.marked
      BY <2>1
    <3>2. page' = [page EXCEPT !.missing = page.missing, !.marked = page.marked]
      BY <1>6, <3>1 DEF FetchFails
    <3> QED
      BY <1>2, <3>2
  <2> QED
    BY <1>1, <2>1, <2>2, PageKept
<1>7. CASE Absent(w)
  <2>1. worker'[w].pc = "complete" /\ Running(w)
    BY <1>2, <1>7 DEF Absent, Goto, Running, WorkerState
  <2> QED
    BY <1>3, <1>7, <2>1, AbsentCounts DEF PageInv
<1>8. CASE Complete(w)
  <2>1. worker'[w].pc \notin {"listed", "stored"} /\ UNCHANGED page /\ Running(w)
    BY <1>2, <1>8 DEF Complete, Goto, Running, WorkerState
  <2>2. CASE UNCHANGED seen
    BY <1>1, <2>1, <2>2, PageKept
  <2>3. CASE ~UNCHANGED seen
    <3>1. worker[w].pc = "stored"
      BY <1>8, <2>3 DEF Complete
    <3>2. page = [missing |-> 0, marked |-> 0, deleted |-> FALSE]
      BY <3>1 DEF PageInv
    <3> QED
      BY <1>3, <2>1, <3>2 DEF PageInv
  <2> QED
    BY <2>2, <2>3
<1>9. CASE Claim(w) \/ SyncFails(w) \/ Retry(w) \/ Publish(w) \/ Ack(w)
  <2>1. worker'[w].pc \notin {"listed", "stored"}
    BY <1>2, <1>9 DEF Claim, SyncFails, Retry, Publish, Ack, Goto, Leave, Idle, WorkerState
  <2> QED
    BY <1>1, <1>9, <2>1, PageKept DEF Claim, SyncFails, Retry, Publish, Ack
<1> QED
  BY <1>4, <1>5, <1>6, <1>7, <1>8, <1>9 DEF Handles

LEMMA PageNext == SyncInv /\ HoldInv /\ PageInv /\ [Next]_vars => PageInv'
<1> SUFFICES ASSUME SyncInv, HoldInv, PageInv, [Next]_vars PROVE PageInv'
  OBVIOUS
<1>1. ASSUME NEW w \in Workers, NEW m \in Msg, Receive(w, m) PROVE PageInv'
  <2>1. \A v \in Workers \ {w} : worker'[v] = worker[v]
    BY <1>1, OthersKeep DEF SyncInv
  <2>2. worker'[w].pc \notin {"listed", "stored"}
    <3>1. worker \in [Workers -> WorkerState]
      BY DEF SyncInv, WorkerInv
    <3>2. PICK s \in WorkerState : /\ worker' = [worker EXCEPT ![w] = [s EXCEPT !.msg = m, !.held = TRUE]]
                                   /\ s.pc \notin {"listed", "stored"}
      <4>1. Routed(m) \in WorkerState /\ Routed(m).pc \in {"ack", "dead", "claim"}
        BY <1>1, RoutedSound DEF Receive, SyncInv, QueueInv
      <4> DEFINE lost == [Idle EXCEPT !.pc = "retry", !.attempt = m.attempt]
      <4>2. lost \in WorkerState /\ lost.pc = "retry"
        BY IdleAt DEF WorkerPCs, Msg
      <4>3. \E s \in {Routed(m), lost} :
              worker' = [worker EXCEPT ![w] = [s EXCEPT !.msg = m, !.held = TRUE]]
        BY <1>1 DEF Receive
      <4> HIDE DEF lost
      <4> QED
        BY <4>1, <4>2, <4>3
    <3>3. worker'[w].pc = s.pc
      BY <3>1, <3>2 DEF WorkerState
    <3> QED
      BY <3>2, <3>3
  <2> QED
    BY <1>1, <2>1, <2>2, PageKept DEF Receive
<1>2. ASSUME NEW w \in Workers, Crash(w) \/ LoseChannel(w) PROVE PageInv'
  <2>1. worker \in [Workers -> WorkerState]
    BY DEF SyncInv, WorkerInv
  <2>2. \A v \in Workers : worker'[v].pc \in {"listed", "stored"} =>
          worker'[v].pc = worker[v].pc /\ worker'[v].local = worker[v].local
    BY <1>2, <2>1 DEF Crash, LoseChannel, Idle, WorkerState
  <2> QED
    BY <1>2, <2>2, PageKept DEF Crash, LoseChannel
<1>3. ASSUME UNCHANGED <<worker, page, seen>> PROVE PageInv'
  BY <1>3, PageKept
<1>4. ASSUME NEW c, \/ Trigger(c) \/ ScheduleDue(c) \/ FindExpired(c)
                    \/ CallerRuns(c) \/ CallerDies(c)
      PROVE  PageInv'
  BY <1>3, <1>4 DEF Trigger, ScheduleDue, Start, FindExpired, CallerRuns, Recover,
     PublishTask, UndoPublish, CallerDies
<1>5. CASE LeaseExpires \/ BecomesDue \/ UNCHANGED vars
  BY <1>3, <1>5 DEF LeaseExpires, BecomesDue, vars
<1> QED
  BY <1>1, <1>2, <1>4, <1>5, PageWorker DEF Next

LEMMA SeveralCount ==
  ASSUME NEW set, IsFiniteSet(set), Several(set) PROVE Cardinality(set) >= 2
<1>1. PICK a \in set, b \in set : a # b
  BY DEF Several
<1>2. IsFiniteSet({a}) /\ Cardinality({a}) = 1
  BY FS_Singleton
<1>3. Cardinality({a} \cup {b}) = 2
  <2>1. b \notin {a}
    BY <1>1
  <2>2. Cardinality({a} \cup {b}) = Cardinality({a}) + 1
    BY <1>2, <2>1, FS_AddElement
  <2> QED
    BY <1>2, <2>2
<1>4. {a} \cup {b} \in SUBSET set
  BY <1>1
<1>5. Cardinality({a} \cup {b}) <= Cardinality(set)
  BY <1>4, FS_Subset
<1>6. Cardinality(set) \in Nat
  BY FS_CardinalityType
<1> QED
  BY <1>3, <1>5, <1>6

\* handleMissingDocument begins the deletion of a page only after two tasks have
\* missed it with no completed sync of it between them (DeleteAfterMissingSyncs is at
\* least 2), until syncs run side by side: retries and redelivered copies count once,
\* and the row that a failed Fetch saves again is the row as it is.
THEOREM NoTaskAlone == Spec => []NoTaskDeletesAlone
<1> DEFINE Alone == ~disturbed => HoldInv /\ PageInv
<1>1. Init => TaskInv /\ Alone
  BY TaskInit, HoldInit, PageInit
<1>2. SyncInv /\ TaskInv /\ Alone /\ [Next]_vars => TaskInv' /\ Alone'
  BY TaskNext, HoldNext, PageNext, Forgotten
<1>3. SyncInv /\ Alone => NoTaskDeletesAlone
  <2>1. SyncInv => IsFiniteSet(seen)
    <3>1. IsFiniteSet(1..MaxTasks)
      BY LimitsAssumption, FS_Interval
    <3> QED
      BY <3>1, FS_Subset DEF SyncInv, RestInv
  <2> QED
    BY <2>1, SeveralCount DEF PageInv, NoTaskDeletesAlone
<1> HIDE DEF Alone
<1> QED
  BY <1>1, <1>2, <1>3, SyncAlways, PTL DEF Spec
=============================================================================
