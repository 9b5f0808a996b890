----------------------- MODULE DocumentPipeline_proofs -----------------------
(***************************************************************************)
(* Theorems about DocumentPipeline, for every number of workers, clients,  *)
(* retries, chunks, calls and failures.                                     *)
(***************************************************************************)
EXTENDS DocumentPipeline, TLAPS

-----------------------------------------------------------------------------
(* Messages and bags of messages *)

LEMMA MsgFields ==
  \A m \in Msg : /\ m.kind \in {"index", "delete", "deindex"}
                 /\ m.attempt \in 0..MaxRetries + 1
                 /\ m.ext \in BOOLEAN
BY DEF Msg

LEMMA AgainMsg ==
  ASSUME NEW m \in Msg, NEW a \in 0..MaxRetries + 1
  PROVE  /\ [m EXCEPT !.attempt = a] \in Msg
         /\ [m EXCEPT !.attempt = a].attempt = a
         /\ [m EXCEPT !.attempt = a].kind = m.kind
BY DEF Msg

LEMMA PutBag ==
  ASSUME NEW q \in [Msg -> Nat], NEW m \in Msg
  PROVE  /\ Put(q, m) \in [Msg -> Nat]
         /\ \A x \in Msg : Put(q, m)[x] > 0 <=> (q[x] > 0 \/ x = m)
BY DEF Put

LEMMA TakeBag ==
  ASSUME NEW q \in [Msg -> Nat], NEW m \in Msg, q[m] > 0
  PROVE  /\ Take(q, m) \in [Msg -> Nat]
         /\ \A x \in Msg : Take(q, m)[x] > 0 => q[x] > 0
         /\ \A x \in Msg : q[x] > 0 /\ x # m => Take(q, m)[x] > 0
BY DEF Take

LEMMA RedeliveredBag ==
  ASSUME NEW w \in Workers, TypeOK
  PROVE  /\ Redelivered(w) \in [Msg -> Nat]
         /\ \A x \in Msg : Redelivered(w)[x] > 0 =>
              main[x] > 0 \/ (worker[w].held /\ x = worker[w].msg)
         /\ \A x \in Msg : main[x] > 0 => Redelivered(w)[x] > 0
         /\ worker[w].held => Redelivered(w)[worker[w].msg] > 0
BY PutBag DEF Redelivered, TypeOK, WorkerState

-----------------------------------------------------------------------------
(* Types and retry counts *)

\* What a consumer knows of attempts: its message was waiting, so it has some
\* left; its own count has some left too, until it has decided to send the message
\* to the dead letter queue, and then it has none.
WorkerAttempts(s) ==
  /\ s.msg.attempt <= MaxRetries
  /\ s.to = "retry" /\ s.pc # "ack" => s.attempt <= MaxRetries
  /\ s.to = "dlq" => /\ s.attempt = MaxRetries + 1
                     /\ \/ s.pc \in {"ack", "publish"}
                        \/ s.pc = "extfail" /\ s.msg.kind = "index"

Sound(s) == s \in WorkerState /\ WorkerAttempts(s)

DocInv ==
  /\ doc \in DocState
  /\ doc.attempt <= MaxRetries + 1
  /\ doc.status \in {"none", "pending", "processing", "completed"} =>
       doc.attempt <= MaxRetries

StoreInv == /\ object \in BOOLEAN
            /\ rows \subseteq (Nat \X Nat)
            /\ vectors \subseteq (Nat \X Nat)

QueueInv ==
  /\ main \in [Msg -> Nat]
  /\ retry \in [Msg -> Nat]
  /\ dlq \in [Msg -> Nat]
  /\ \A m \in Msg : main[m] > 0 \/ retry[m] > 0 => m.attempt <= MaxRetries
  /\ \A m \in Msg : dlq[m] > 0 => m.attempt = MaxRetries + 1

WorkerInv == /\ worker \in [Workers -> WorkerState]
             /\ \A w \in Workers : WorkerAttempts(worker[w])

ClientInv ==
  /\ client \in [Clients -> ClientState]
  /\ \A c \in Clients : client[c].msg.attempt = 0

RestInv ==
  /\ ext \in ExternalState
  /\ nextTask \in Nat
  /\ calls \in Nat
  /\ faults \in Nat

AttemptsInv ==
  DocInv /\ StoreInv /\ QueueInv /\ WorkerInv /\ ClientInv /\ RestInv

LEMMA IdleSound == Sound(Idle)
<1>1. NoTask \in Msg /\ NoTask.attempt = 0
  BY BoundsAssumption DEF NoTask, Task, Msg
<1>2. Idle \in WorkerState
  BY <1>1, BoundsAssumption DEF Idle, WorkerState, WorkerPCs
<1>3. WorkerAttempts(Idle)
  BY <1>1, BoundsAssumption DEF Idle, WorkerAttempts
<1> QED
  BY <1>2, <1>3 DEF Sound

LEMMA RestingSound ==
  /\ Resting \in ClientState
  /\ Resting.msg.attempt = 0
<1>1. NoTask \in Msg /\ NoTask.attempt = 0
  BY BoundsAssumption DEF NoTask, Task, Msg
<1> QED
  BY <1>1 DEF Resting, ClientState, ClientPCs, Statuses

LEMMA AttemptsInit == Init => AttemptsInv
<1> SUFFICES ASSUME Init PROVE AttemptsInv
  OBVIOUS
<1>1. DocInv
  BY BoundsAssumption DEF Init, DocInv, DocState, Statuses
<1>. StoreInv
  BY DEF Init, StoreInv
<1>. RestInv
  BY DEF Init, RestInv, ExternalState
<1>2. QueueInv
  BY DEF Init, QueueInv
<1>3. WorkerInv
  BY IdleSound DEF Init, WorkerInv, Sound
<1>4. ClientInv
  BY RestingSound DEF Init, ClientInv, Resting, ClientPCs, Statuses
<1> QED
  BY <1>1, <1>2, <1>3, <1>4 DEF AttemptsInv

\* Ways in which an action changes one consumer.
LEMMA SetWorker ==
  ASSUME WorkerInv, NEW w \in Workers, NEW s, Sound(s),
         worker' = [worker EXCEPT ![w] = s]
  PROVE  WorkerInv'
BY DEF WorkerInv, Sound

LEMMA GotoWorker ==
  ASSUME WorkerInv, NEW w \in Workers, NEW pc \in WorkerPCs, Goto(w, pc),
         worker[w].pc \notin {"ack", "publish", "extfail"}
  PROVE  WorkerInv'
<1> DEFINE s == [worker[w] EXCEPT !.pc = pc]
<1>1. Sound(s)
  BY DEF Sound, WorkerState, WorkerAttempts, WorkerInv
<1>2. worker' = [worker EXCEPT ![w] = s]
  BY DEF Goto, WorkerInv
<1> QED
  BY <1>1, <1>2, SetWorker

LEMMA GotoAck ==
  ASSUME WorkerInv, NEW w \in Workers, Goto(w, "ack")
  PROVE  WorkerInv'
<1> DEFINE s == [worker[w] EXCEPT !.pc = "ack"]
<1>1. Sound(s)
  BY DEF Sound, WorkerState, WorkerPCs, WorkerAttempts, WorkerInv
<1>2. worker' = [worker EXCEPT ![w] = s]
  BY DEF Goto, WorkerInv
<1> QED
  BY <1>1, <1>2, SetWorker

LEMMA SendWorker ==
  ASSUME WorkerInv, NEW w \in Workers, NEW to, NEW attempt \in 0..MaxRetries + 1,
         \/ to = "retry" /\ attempt <= MaxRetries
         \/ to = "dlq" /\ attempt = MaxRetries + 1,
         Send(w, to, attempt)
  PROVE  WorkerInv'
<1> DEFINE s == [worker[w] EXCEPT !.pc = "publish", !.to = to, !.attempt = attempt]
<1>1. Sound(s)
  BY BoundsAssumption DEF Sound, WorkerState, WorkerPCs, WorkerAttempts, WorkerInv
<1>2. worker' = [worker EXCEPT ![w] = s]
  BY DEF Send, WorkerInv
<1> QED
  BY <1>1, <1>2, SetWorker

LEMMA RedeliveredInv ==
  ASSUME QueueInv, WorkerInv, NEW w \in Workers
  PROVE  /\ Redelivered(w) \in [Msg -> Nat]
         /\ \A m \in Msg : Redelivered(w)[m] > 0 => m.attempt <= MaxRetries
BY PutBag DEF Redelivered, QueueInv, WorkerInv, WorkerState, WorkerAttempts

LEMMA WorkerMsg ==
  ASSUME WorkerInv, NEW w \in Workers
  PROVE  /\ worker[w] \in WorkerState
         /\ worker[w].msg \in Msg
         /\ worker[w].msg.kind \in {"index", "delete", "deindex"}
BY MsgFields DEF WorkerInv, WorkerState

LEMMA ExternalDoneType ==
  ASSUME ext \in ExternalState, NEW kind \in {"index", "delete", "deindex"}
  PROVE  ExternalDone(kind) \in ExternalState
BY DEF ExternalDone, ExternalState

LEMMA ExternalFailedType ==
  ASSUME ext \in ExternalState
  PROVE  ExternalFailed \in ExternalState
BY DEF ExternalFailed, ExternalState

LEMMA LeaseLostInv ==
  ASSUME WorkerInv, NEW w \in Workers, LeaseLost(w),
         worker[w].pc \notin {"ack", "publish", "extfail"}
  PROVE  WorkerInv'
<1>1. worker[w].attempt \in 0..MaxRetries + 1 /\ worker[w].attempt <= MaxRetries
  BY DEF WorkerInv, WorkerState, WorkerAttempts
<1> QED
  BY <1>1, SendWorker DEF LeaseLost

LEMMA ReceiveInv ==
  ASSUME WorkerInv, NEW w \in Workers, NEW m \in Msg, m.attempt <= MaxRetries,
         NEW s, Sound(s), s.to = "dlq" => s.pc \in {"ack", "publish"}, Receive(w, m, s)
  PROVE  WorkerInv'
<1> DEFINE t == [s EXCEPT !.msg = m, !.held = TRUE]
<1>1. Sound(t)
  BY DEF Sound, WorkerState, WorkerAttempts
<1>2. worker' = [worker EXCEPT ![w] = t]
  BY DEF Receive
<1> QED
  BY <1>1, <1>2, SetWorker

LEMMA RoutedSound ==
  ASSUME DocInv, NEW m \in Msg, m.attempt <= MaxRetries
  PROVE  Sound(Routed(m)) /\ (Routed(m).to = "dlq" => Routed(m).pc = "publish")
<1> DEFINE attempt == Larger(m.attempt, doc.attempt)
           At(pc) == [Idle EXCEPT !.pc = pc, !.attempt = attempt]
<1>1. /\ attempt \in 0..MaxRetries + 1
      /\ doc.status \in {"pending", "processing", "completed"} => attempt <= MaxRetries
  BY MsgFields, BoundsAssumption DEF DocInv, DocState, Larger
<1>2. CASE Routed(m) = At("ack")
  BY <1>1, <1>2, IdleSound DEF Sound, Idle, WorkerState, WorkerPCs, WorkerAttempts
<1>3. CASE Routed(m) = At(Done(m)) /\ doc.status = "completed"
  BY <1>1, <1>3, IdleSound DEF Sound, Idle, WorkerState, WorkerPCs, WorkerAttempts, Done
<1>4. CASE Routed(m) = [At("publish") EXCEPT !.to = "dlq"] /\ attempt > MaxRetries
  <2>1. attempt = MaxRetries + 1
    BY <1>1, <1>4, BoundsAssumption
  <2>2. Routed(m) = [Idle EXCEPT !.pc = "publish", !.attempt = attempt, !.to = "dlq"]
    BY <1>4 DEF Idle
  <2> HIDE DEF attempt
  <2> QED
    BY <1>1, <2>1, <2>2, IdleSound, BoundsAssumption
       DEF Sound, Idle, WorkerState, WorkerPCs, WorkerAttempts
<1>5. CASE Routed(m) = [At("retry") EXCEPT !.task = doc.task] /\ attempt <= MaxRetries
  BY <1>1, <1>5, IdleSound DEF Sound, Idle, DocInv, DocState, WorkerState, WorkerPCs,
                               WorkerAttempts
<1>6. CASE Routed(m) = At("claim") /\ doc.status \in {"pending", "processing"}
  BY <1>1, <1>6, IdleSound DEF Sound, Idle, WorkerState, WorkerPCs, WorkerAttempts
<1> QED
  BY <1>1, <1>2, <1>3, <1>4, <1>5, <1>6 DEF Routed, Absent

\* Ways in which an action changes one client.
LEMMA SetClient ==
  ASSUME ClientInv, NEW c \in Clients, NEW s \in ClientState, s.msg.attempt = 0,
         client' = [client EXCEPT ![c] = s]
  PROVE  ClientInv'
BY DEF ClientInv

LEMMA RestClient ==
  ASSUME ClientInv, NEW c \in Clients, Rest(c)
  PROVE  ClientInv'
BY RestingSound, SetClient DEF Rest

LEMMA MoveClient ==
  ASSUME ClientInv, NEW c \in Clients, NEW pc \in ClientPCs,
         client' = [client EXCEPT ![c].pc = pc]
  PROVE  ClientInv'
<1> DEFINE s == [client[c] EXCEPT !.pc = pc]
<1>1. s \in ClientState /\ s.msg.attempt = 0
  BY DEF ClientInv, ClientState
<1>2. client' = [client EXCEPT ![c] = s]
  BY DEF ClientInv
<1> QED
  BY <1>1, <1>2, SetClient

LEMMA ClientAtInv ==
  ASSUME ClientInv, NEW c \in Clients, NEW pc \in ClientPCs, NEW m \in Msg,
         NEW seen \in Statuses, m.attempt = 0, ClientAt(c, pc, m, seen)
  PROVE  ClientInv'
BY SetClient DEF ClientAt, ClientState

LEMMA TaskSound ==
  ASSUME NEW kind \in {"index", "delete", "deindex"}, NEW external \in BOOLEAN,
         NEW m, m = Task(kind, external)
  PROVE  m \in Msg /\ m.attempt = 0 /\ m.kind = kind
BY BoundsAssumption DEF Task, Msg

LEMMA AttemptsCrash ==
  ASSUME AttemptsInv, NEW w \in Workers, Crash(w)
  PROVE  AttemptsInv'
<1>1. DocInv'
  BY DEF AttemptsInv, DocInv, Crash
<1>2. StoreInv'
  BY DEF AttemptsInv, StoreInv, stores, Crash
<1>3. QueueInv'
  BY RedeliveredInv DEF AttemptsInv, Crash, QueueInv
<1>4. WorkerInv'
  BY IdleSound, SetWorker DEF AttemptsInv, Crash
<1>5. ClientInv'
  BY DEF AttemptsInv, ClientInv, Crash
<1>6. RestInv'
  BY DEF AttemptsInv, RestInv, NoFault, Fault, Crash
<1> QED
  BY <1>1, <1>2, <1>3, <1>4, <1>5, <1>6 DEF AttemptsInv

LEMMA AttemptsLoseChannel ==
  ASSUME AttemptsInv, NEW w \in Workers, LoseChannel(w)
  PROVE  AttemptsInv'
<1>1. DocInv'
  BY DEF AttemptsInv, DocInv, LoseChannel
<1>2. StoreInv'
  BY DEF AttemptsInv, StoreInv, stores, LoseChannel
<1>3. QueueInv'
  BY RedeliveredInv DEF AttemptsInv, LoseChannel, QueueInv
<1>4. WorkerInv'
  <2> DEFINE s == [worker[w] EXCEPT !.held = FALSE]
  <2>1. Sound(s)
    BY DEF AttemptsInv, WorkerInv, Sound, WorkerState, WorkerAttempts
  <2>2. worker' = [worker EXCEPT ![w] = s]
    BY DEF AttemptsInv, WorkerInv, LoseChannel
  <2> QED
    BY <2>1, <2>2, SetWorker DEF AttemptsInv
<1>5. ClientInv'
  BY DEF AttemptsInv, ClientInv, LoseChannel
<1>6. RestInv'
  BY DEF AttemptsInv, RestInv, NoFault, Fault, LoseChannel
<1> QED
  BY <1>1, <1>2, <1>3, <1>4, <1>5, <1>6 DEF AttemptsInv

LEMMA AttemptsAck ==
  ASSUME AttemptsInv, NEW w \in Workers, Ack(w)
  PROVE  AttemptsInv'
<1>1. DocInv'
  BY DEF AttemptsInv, DocInv, Ack
<1>2. StoreInv'
  BY DEF AttemptsInv, StoreInv, stores, Ack
<1>3. QueueInv'
  BY DEF AttemptsInv, QueueInv, queues, Ack
<1>4. WorkerInv'
  BY IdleSound, SetWorker DEF AttemptsInv, Ack
<1>5. ClientInv'
  BY DEF AttemptsInv, ClientInv, Ack
<1>6. RestInv'
  BY DEF AttemptsInv, RestInv, NoFault, Fault, Ack
<1> QED
  BY <1>1, <1>2, <1>3, <1>4, <1>5, <1>6 DEF AttemptsInv

LEMMA AttemptsMarkExternalDone ==
  ASSUME AttemptsInv, NEW w \in Workers, MarkExternalDone(w)
  PROVE  AttemptsInv'
<1>1. DocInv'
  BY DEF AttemptsInv, DocInv, MarkExternalDone
<1>2. StoreInv'
  BY DEF AttemptsInv, StoreInv, stores, MarkExternalDone
<1>3. QueueInv'
  BY DEF AttemptsInv, QueueInv, queues, MarkExternalDone
<1>4. WorkerInv'
  <2>1. PICK pc \in WorkerPCs : Goto(w, pc)
    BY DEF MarkExternalDone, WorkerPCs
  <2> QED
    BY <2>1, GotoWorker DEF AttemptsInv, MarkExternalDone
<1>5. ClientInv'
  BY DEF AttemptsInv, ClientInv, MarkExternalDone
<1>6. RestInv'
  BY ExternalDoneType, WorkerMsg DEF AttemptsInv, RestInv, NoFault, Fault,
         MarkExternalDone
<1> QED
  BY <1>1, <1>2, <1>3, <1>4, <1>5, <1>6 DEF AttemptsInv

LEMMA AttemptsCleanVectors ==
  ASSUME AttemptsInv, NEW w \in Workers, CleanVectors(w)
  PROVE  AttemptsInv'
<1>1. DocInv'
  BY DEF AttemptsInv, DocInv, CleanVectors
<1>2. StoreInv'
  BY DEF AttemptsInv, StoreInv, stores, CleanVectors
<1>3. QueueInv'
  BY DEF AttemptsInv, QueueInv, queues, CleanVectors
<1>4. WorkerInv'
  <2>1. PICK pc \in WorkerPCs : Goto(w, pc)
    BY DEF CleanVectors, WorkerPCs, StoreError, DeleteError
  <2> QED
    BY <2>1, GotoWorker DEF AttemptsInv, CleanVectors
<1>5. ClientInv'
  BY DEF AttemptsInv, ClientInv, CleanVectors
<1>6. RestInv'
  BY DEF AttemptsInv, RestInv, NoFault, Fault, CleanVectors
<1> QED
  BY <1>1, <1>2, <1>3, <1>4, <1>5, <1>6 DEF AttemptsInv

LEMMA AttemptsCleanRows ==
  ASSUME AttemptsInv, NEW w \in Workers, CleanRows(w)
  PROVE  AttemptsInv'
<1>1. DocInv'
  BY DEF AttemptsInv, DocInv, CleanRows
<1>2. StoreInv'
  BY DEF AttemptsInv, StoreInv, stores, CleanRows
<1>3. QueueInv'
  BY DEF AttemptsInv, QueueInv, queues, CleanRows
<1>4. WorkerInv'
  <2>1. PICK pc \in WorkerPCs : Goto(w, pc)
    BY WorkerMsg DEF AttemptsInv, CleanRows, WorkerPCs, StoreError, DeleteError,
           AfterClean
  <2> QED
    BY <2>1, GotoWorker DEF AttemptsInv, CleanRows
<1>5. ClientInv'
  BY DEF AttemptsInv, ClientInv, CleanRows
<1>6. RestInv'
  BY DEF AttemptsInv, RestInv, NoFault, Fault, CleanRows
<1> QED
  BY <1>1, <1>2, <1>3, <1>4, <1>5, <1>6 DEF AttemptsInv

LEMMA AttemptsWriteRow ==
  ASSUME AttemptsInv, NEW w \in Workers, WriteRow(w)
  PROVE  AttemptsInv'
<1>1. DocInv'
  BY DEF AttemptsInv, DocInv, WriteRow
<1>2. StoreInv'
  <2>1. Chunk(w) \in Nat \X Nat
    BY DEF AttemptsInv, WorkerInv, WorkerState, Chunk
  <2> QED
    BY <2>1 DEF AttemptsInv, StoreInv, WriteRow
<1>3. QueueInv'
  BY DEF AttemptsInv, QueueInv, queues, WriteRow
<1>4. WorkerInv'
  <2>1. PICK pc \in WorkerPCs : Goto(w, pc)
    BY DEF WriteRow, WorkerPCs
  <2> QED
    BY <2>1, GotoWorker DEF AttemptsInv, WriteRow
<1>5. ClientInv'
  BY DEF AttemptsInv, ClientInv, WriteRow
<1>6. RestInv'
  BY DEF AttemptsInv, RestInv, NoFault, Fault, WriteRow
<1> QED
  BY <1>1, <1>2, <1>3, <1>4, <1>5, <1>6 DEF AttemptsInv

LEMMA AttemptsPublish ==
  ASSUME AttemptsInv, NEW w \in Workers, Publish(w)
  PROVE  AttemptsInv'
<1>1. DocInv'
  BY DEF AttemptsInv, DocInv, Publish
<1>2. StoreInv'
  BY DEF AttemptsInv, StoreInv, stores, Publish
<1>3. QueueInv'
  <2> DEFINE m == [worker[w].msg EXCEPT !.attempt = worker[w].attempt]
  <2>1. m \in Msg /\ m.attempt = worker[w].attempt
    BY WorkerMsg, AgainMsg DEF AttemptsInv, WorkerState
  <2>2. /\ worker[w].to \in {"retry", "dlq"}
        /\ worker[w].to = "retry" => worker[w].attempt <= MaxRetries
        /\ worker[w].to = "dlq" => worker[w].attempt = MaxRetries + 1
    BY DEF AttemptsInv, WorkerInv, WorkerState, WorkerAttempts, Publish
  <2>3. CASE /\ retry' = IF worker[w].to = "retry" THEN Put(retry, m) ELSE retry
             /\ dlq' = IF worker[w].to = "dlq" THEN Put(dlq, m) ELSE dlq
             /\ UNCHANGED main
    <3> HIDE DEF m
    <3>1. CASE worker[w].to = "retry"
      BY <2>1, <2>2, <2>3, <3>1, PutBag DEF AttemptsInv, QueueInv
    <3>2. CASE worker[w].to = "dlq"
      BY <2>1, <2>2, <2>3, <3>2, PutBag DEF AttemptsInv, QueueInv
    <3> QED
      BY <2>2, <3>1, <3>2
  <2>4. CASE main' = Redelivered(w) /\ UNCHANGED <<retry, dlq>>
    BY <2>4, RedeliveredInv DEF AttemptsInv, QueueInv
  <2> QED
    BY <2>3, <2>4 DEF Publish
<1>4. WorkerInv'
  BY IdleSound, SetWorker, GotoAck DEF AttemptsInv, Publish
<1>5. ClientInv'
  BY DEF AttemptsInv, ClientInv, Publish
<1>6. RestInv'
  BY DEF AttemptsInv, RestInv, NoFault, Fault, Publish
<1> QED
  BY <1>1, <1>2, <1>3, <1>4, <1>5, <1>6 DEF AttemptsInv

LEMMA AttemptsMarkExternalFailed ==
  ASSUME AttemptsInv, NEW w \in Workers, MarkExternalFailed(w)
  PROVE  AttemptsInv'
<1>1. DocInv'
  BY DEF AttemptsInv, DocInv, MarkExternalFailed
<1>2. StoreInv'
  BY DEF AttemptsInv, StoreInv, stores, MarkExternalFailed
<1>3. QueueInv'
  BY DEF AttemptsInv, QueueInv, queues, MarkExternalFailed
<1>4. WorkerInv'
  <2> DEFINE s == [worker[w] EXCEPT !.pc = IF worker[w].msg.kind = "index"
                                       THEN "publish" ELSE "retry"]
  <2>1. Sound(s)
    BY DEF AttemptsInv, WorkerInv, Sound, WorkerState, WorkerPCs, WorkerAttempts,
           MarkExternalFailed
  <2>2. worker' = [worker EXCEPT ![w] = s]
    BY DEF AttemptsInv, WorkerInv, MarkExternalFailed, Goto
  <2> QED
    BY <2>1, <2>2, SetWorker DEF AttemptsInv
<1>5. ClientInv'
  BY DEF AttemptsInv, ClientInv, MarkExternalFailed
<1>6. RestInv'
  BY ExternalFailedType DEF AttemptsInv, RestInv, NoFault, Fault, MarkExternalFailed
<1> QED
  BY <1>1, <1>2, <1>3, <1>4, <1>5, <1>6 DEF AttemptsInv

LEMMA AttemptsClaim ==
  ASSUME AttemptsInv, NEW w \in IndexWorkers, Claim(w)
  PROVE  AttemptsInv'
<1> w \in Workers
  BY DEF Workers
<1>1. DocInv'
  BY DEF AttemptsInv, DocInv, DocState, Statuses, RestInv, WorkerInv, WorkerState,
         WorkerAttempts, Claim
<1>2. StoreInv'
  BY DEF AttemptsInv, StoreInv, stores, Claim
<1>3. QueueInv'
  BY DEF AttemptsInv, QueueInv, queues, Claim
<1>4. WorkerInv'
  <2>1. CASE \E pc \in WorkerPCs : Goto(w, pc)
    BY <2>1, GotoWorker DEF AttemptsInv, Claim
  <2>2. CASE /\ nextTask' = nextTask + 1
             /\ worker' = [worker EXCEPT ![w].pc = "check", ![w].task = nextTask']
    <3> DEFINE s == [worker[w] EXCEPT !.pc = "check", !.task = nextTask']
    <3>1. nextTask' \in Nat
      BY <2>2 DEF AttemptsInv, RestInv
    <3>2. Sound(s)
      BY <3>1 DEF AttemptsInv, WorkerInv, Sound, WorkerState, WorkerPCs,
                  WorkerAttempts, Claim
    <3>3. worker' = [worker EXCEPT ![w] = s]
      BY <2>2 DEF AttemptsInv, WorkerInv
    <3> QED
      BY <3>2, <3>3, SetWorker DEF AttemptsInv
  <2> QED
    BY <2>1, <2>2 DEF Claim, WorkerPCs
<1>5. ClientInv'
  BY DEF AttemptsInv, ClientInv, Claim
<1>6. RestInv'
  BY DEF AttemptsInv, RestInv, NoFault, Fault, Claim
<1> QED
  BY <1>1, <1>2, <1>3, <1>4, <1>5, <1>6 DEF AttemptsInv

LEMMA AttemptsReread ==
  ASSUME AttemptsInv, NEW w \in IndexWorkers, Reread(w)
  PROVE  AttemptsInv'
<1> w \in Workers
  BY DEF Workers
<1>1. DocInv'
  BY DEF AttemptsInv, DocInv, Reread
<1>2. StoreInv'
  BY DEF AttemptsInv, StoreInv, stores, Reread
<1>3. QueueInv'
  BY DEF AttemptsInv, QueueInv, queues, Reread
<1>4. WorkerInv'
  <2> DEFINE attempt == Larger(worker[w].attempt, doc.attempt)
  <2>1. CASE \E pc \in WorkerPCs : Goto(w, pc)
    BY <2>1, GotoWorker DEF AttemptsInv, Reread
  <2>2. CASE doc.status = "processing" /\ Send(w, "retry", attempt)
    <3>1. attempt \in 0..MaxRetries + 1 /\ attempt <= MaxRetries
      BY <2>2 DEF AttemptsInv, DocInv, DocState, WorkerInv, WorkerState, WorkerAttempts,
                  Larger, Reread
    <3> QED
      BY <2>2, <3>1, SendWorker DEF AttemptsInv
  <2> QED
    BY <2>1, <2>2 DEF Reread, Done, WorkerPCs
<1>5. ClientInv'
  BY DEF AttemptsInv, ClientInv, Reread
<1>6. RestInv'
  BY DEF AttemptsInv, RestInv, NoFault, Fault, Reread
<1> QED
  BY <1>1, <1>2, <1>3, <1>4, <1>5, <1>6 DEF AttemptsInv

LEMMA AttemptsCheckToken ==
  ASSUME AttemptsInv, NEW w \in IndexWorkers, CheckToken(w)
  PROVE  AttemptsInv'
<1> w \in Workers
  BY DEF Workers
<1>1. DocInv'
  BY DEF AttemptsInv, DocInv, CheckToken
<1>2. StoreInv'
  BY DEF AttemptsInv, StoreInv, stores, CheckToken
<1>3. QueueInv'
  BY DEF AttemptsInv, QueueInv, queues, CheckToken
<1>4. WorkerInv'
  <2>1. CASE \E pc \in WorkerPCs : Goto(w, pc)
    BY <2>1, GotoWorker DEF AttemptsInv, CheckToken
  <2>2. CASE LeaseLost(w)
    BY <2>2, LeaseLostInv DEF AttemptsInv, CheckToken
  <2> QED
    BY <2>1, <2>2 DEF CheckToken, Done, WorkerPCs
<1>5. ClientInv'
  BY DEF AttemptsInv, ClientInv, CheckToken
<1>6. RestInv'
  BY DEF AttemptsInv, RestInv, NoFault, Fault, CheckToken
<1> QED
  BY <1>1, <1>2, <1>3, <1>4, <1>5, <1>6 DEF AttemptsInv

LEMMA AttemptsFailIndex ==
  ASSUME AttemptsInv, NEW w \in IndexWorkers, FailIndex(w)
  PROVE  AttemptsInv'
<1> w \in Workers
  BY DEF Workers
<1>1. DocInv'
  BY DEF AttemptsInv, DocInv, DocState, Statuses, HoldsToken, FailIndex
<1>2. StoreInv'
  BY DEF AttemptsInv, StoreInv, stores, FailIndex
<1>3. QueueInv'
  BY DEF AttemptsInv, QueueInv, queues, FailIndex
<1>4. WorkerInv'
  <2>1. CASE \E pc \in WorkerPCs : Goto(w, pc)
    BY <2>1, GotoWorker DEF AttemptsInv, FailIndex
  <2>2. CASE LeaseLost(w)
    BY <2>2, LeaseLostInv DEF AttemptsInv, FailIndex
  <2> QED
    BY <2>1, <2>2 DEF FailIndex, Done, WorkerPCs
<1>5. ClientInv'
  BY DEF AttemptsInv, ClientInv, FailIndex
<1>6. RestInv'
  BY DEF AttemptsInv, RestInv, NoFault, Fault, FailIndex
<1> QED
  BY <1>1, <1>2, <1>3, <1>4, <1>5, <1>6 DEF AttemptsInv

LEMMA AttemptsComplete ==
  ASSUME AttemptsInv, NEW w \in IndexWorkers, Complete(w)
  PROVE  AttemptsInv'
<1> w \in Workers
  BY DEF Workers
<1>1. DocInv'
  BY DEF AttemptsInv, DocInv, DocState, Statuses, HoldsToken, Complete
<1>2. StoreInv'
  BY DEF AttemptsInv, StoreInv, stores, Complete
<1>3. QueueInv'
  BY DEF AttemptsInv, QueueInv, queues, Complete
<1>4. WorkerInv'
  <2>1. CASE \E pc \in WorkerPCs : Goto(w, pc)
    BY <2>1, GotoWorker DEF AttemptsInv, Complete
  <2>2. CASE LeaseLost(w)
    BY <2>2, LeaseLostInv DEF AttemptsInv, Complete
  <2> QED
    BY <2>1, <2>2 DEF Complete, Done, WorkerPCs
<1>5. ClientInv'
  BY DEF AttemptsInv, ClientInv, Complete
<1>6. RestInv'
  BY DEF AttemptsInv, RestInv, NoFault, Fault, Complete
<1> QED
  BY <1>1, <1>2, <1>3, <1>4, <1>5, <1>6 DEF AttemptsInv

LEMMA AttemptsWriteVector ==
  ASSUME AttemptsInv, NEW w \in IndexWorkers, WriteVector(w)
  PROVE  AttemptsInv'
<1> w \in Workers
  BY DEF Workers
<1>1. DocInv'
  BY DEF AttemptsInv, DocInv, WriteVector
<1>2. StoreInv'
  <2>1. Chunk(w) \in Nat \X Nat
    BY DEF AttemptsInv, WorkerInv, WorkerState, Chunk
  <2> QED
    BY <2>1 DEF AttemptsInv, StoreInv, WriteVector
<1>3. QueueInv'
  BY DEF AttemptsInv, QueueInv, queues, WriteVector
<1>4. WorkerInv'
  <2>1. CASE Goto(w, "fail")
    BY <2>1, GotoWorker DEF AttemptsInv, WriteVector, WorkerPCs
  <2>2. CASE ~Goto(w, "fail")
    <3> DEFINE n == worker[w].n + 1
               pc == IF n = NumChunks THEN "complete" ELSE "row"
               s == [worker[w] EXCEPT !.n = n, !.pc = pc]
    <3>a. pc \in {"complete", "row"}
      OBVIOUS
    <3>b. worker[w].pc = "vec"
      BY DEF WriteVector
    <3>c. n \in Nat
      BY DEF AttemptsInv, WorkerInv, WorkerState
    <3> HIDE DEF pc, n
    <3>1. Sound(s)
      BY <3>a, <3>b, <3>c DEF AttemptsInv, WorkerInv, Sound, WorkerState, WorkerPCs,
                              WorkerAttempts
    <3>2. worker' = [worker EXCEPT ![w] = s]
      BY <2>2 DEF n, pc, AttemptsInv, WorkerInv, WriteVector
    <3> QED
      BY <3>1, <3>2, SetWorker DEF AttemptsInv
  <2> QED
    BY <2>1, <2>2
<1>5. ClientInv'
  BY DEF AttemptsInv, ClientInv, WriteVector
<1>6. RestInv'
  BY DEF AttemptsInv, RestInv, NoFault, Fault, WriteVector
<1> QED
  BY <1>1, <1>2, <1>3, <1>4, <1>5, <1>6 DEF AttemptsInv

LEMMA AttemptsRetryIndex ==
  ASSUME AttemptsInv, NEW w \in IndexWorkers, RetryIndex(w)
  PROVE  AttemptsInv'
<1> w \in Workers
  BY DEF Workers
<1>1. DocInv'
  <2>1. worker[w].attempt \in 0..MaxRetries
    BY DEF AttemptsInv, WorkerInv, WorkerState, WorkerAttempts, RetryIndex
  <2>2. doc' = Requeued(w) \/ doc' = doc
    BY DEF RetryIndex
  <2> DEFINE next == worker[w].attempt + 1
  <2>3. next \in Nat /\ next <= MaxRetries + 1
    BY <2>1, BoundsAssumption
  <2> HIDE DEF next
  <2> DEFINE status == IF next <= MaxRetries THEN "pending" ELSE "failed"
  <2>4. status \in Statuses /\ (status # "failed" => next <= MaxRetries)
    BY DEF Statuses
  <2>5. status = "pending" \/ status = "failed"
    OBVIOUS
  <2>6. doc' = [doc EXCEPT !.status = status, !.attempt = next, !.lease = "none"] \/ doc' = doc
    BY <2>2 DEF Requeued, next
  <2> HIDE DEF status
  <2> QED
    BY <2>3, <2>4, <2>5, <2>6 DEF AttemptsInv, DocInv, DocState
<1>2. StoreInv'
  BY DEF AttemptsInv, StoreInv, stores, RetryIndex
<1>3. QueueInv'
  BY RedeliveredInv DEF AttemptsInv, RetryIndex, QueueInv
<1>4. WorkerInv'
  <2> DEFINE next == worker[w].attempt + 1
             pc == IF worker[w].msg.ext THEN "extfail" ELSE "publish"
             s == [worker[w] EXCEPT !.pc = pc, !.to = RetryQueue(next), !.attempt = next]
  <2>0. worker[w].attempt \in 0..MaxRetries
    BY DEF AttemptsInv, WorkerInv, WorkerState, WorkerAttempts, RetryIndex
  <2>1. next \in 0..MaxRetries + 1
    BY <2>0, BoundsAssumption
  <2>2. \/ RetryQueue(next) = "retry" /\ next <= MaxRetries
        \/ RetryQueue(next) = "dlq" /\ next = MaxRetries + 1
    BY <2>1, BoundsAssumption DEF RetryQueue
  <2>3. pc \in {"extfail", "publish"} /\ worker[w].msg.kind = "index"
    BY DEF RetryIndex
  <2>4. worker' = [worker EXCEPT ![w] = s] \/ worker' = [worker EXCEPT ![w] = Idle]
    BY DEF AttemptsInv, WorkerInv, RetryIndex
  <2> HIDE DEF pc, next
  <2>5. Sound(s)
    BY <2>1, <2>2, <2>3, BoundsAssumption
       DEF AttemptsInv, WorkerInv, Sound, WorkerState, WorkerPCs, WorkerAttempts
  <2> QED
    BY <2>4, <2>5, IdleSound, SetWorker DEF AttemptsInv
<1>5. ClientInv'
  BY DEF AttemptsInv, ClientInv, RetryIndex
<1>6. RestInv'
  BY DEF AttemptsInv, RestInv, NoFault, Fault, RetryIndex
<1> QED
  BY <1>1, <1>2, <1>3, <1>4, <1>5, <1>6 DEF AttemptsInv

LEMMA AttemptsMarkDeindexing ==
  ASSUME AttemptsInv, NEW w \in DeleteWorkers, MarkDeindexing(w)
  PROVE  AttemptsInv'
<1> w \in Workers
  BY DEF Workers
<1>1. DocInv'
  BY DEF AttemptsInv, DocInv, DocState, Statuses, MarkDeindexing
<1>2. StoreInv'
  BY DEF AttemptsInv, StoreInv, stores, MarkDeindexing
<1>3. QueueInv'
  BY DEF AttemptsInv, QueueInv, queues, MarkDeindexing
<1>4. WorkerInv'
  <2>1. PICK pc \in WorkerPCs : Goto(w, pc)
    BY DEF MarkDeindexing, WorkerPCs, DeleteError
  <2> QED
    BY <2>1, GotoWorker DEF AttemptsInv, MarkDeindexing
<1>5. ClientInv'
  BY DEF AttemptsInv, ClientInv, MarkDeindexing
<1>6. RestInv'
  BY DEF AttemptsInv, RestInv, NoFault, Fault, MarkDeindexing
<1> QED
  BY <1>1, <1>2, <1>3, <1>4, <1>5, <1>6 DEF AttemptsInv

LEMMA AttemptsFinishDeindex ==
  ASSUME AttemptsInv, NEW w \in DeleteWorkers, FinishDeindex(w)
  PROVE  AttemptsInv'
<1> w \in Workers
  BY DEF Workers
<1>1. DocInv'
  BY DEF AttemptsInv, DocInv, DocState, Statuses, BackOffline, FinishDeindex
<1>2. StoreInv'
  BY DEF AttemptsInv, StoreInv, stores, FinishDeindex
<1>3. QueueInv'
  BY DEF AttemptsInv, QueueInv, queues, FinishDeindex
<1>4. WorkerInv'
  <2>1. PICK pc \in WorkerPCs : Goto(w, pc)
    BY DEF FinishDeindex, WorkerPCs, DeleteError, Done
  <2> QED
    BY <2>1, GotoWorker DEF AttemptsInv, FinishDeindex
<1>5. ClientInv'
  BY DEF AttemptsInv, ClientInv, FinishDeindex
<1>6. RestInv'
  BY DEF AttemptsInv, RestInv, NoFault, Fault, FinishDeindex
<1> QED
  BY <1>1, <1>2, <1>3, <1>4, <1>5, <1>6 DEF AttemptsInv

LEMMA AttemptsDeleteObject ==
  ASSUME AttemptsInv, NEW w \in DeleteWorkers, DeleteObject(w)
  PROVE  AttemptsInv'
<1> w \in Workers
  BY DEF Workers
<1>1. DocInv'
  BY DEF AttemptsInv, DocInv, DeleteObject
<1>2. StoreInv'
  BY DEF AttemptsInv, StoreInv, stores, DeleteObject
<1>3. QueueInv'
  BY DEF AttemptsInv, QueueInv, queues, DeleteObject
<1>4. WorkerInv'
  <2>1. PICK pc \in WorkerPCs : Goto(w, pc)
    BY DEF DeleteObject, WorkerPCs, DeleteError
  <2> QED
    BY <2>1, GotoWorker DEF AttemptsInv, DeleteObject
<1>5. ClientInv'
  BY DEF AttemptsInv, ClientInv, DeleteObject
<1>6. RestInv'
  BY DEF AttemptsInv, RestInv, NoFault, Fault, DeleteObject
<1> QED
  BY <1>1, <1>2, <1>3, <1>4, <1>5, <1>6 DEF AttemptsInv

LEMMA AttemptsRemoveDocument ==
  ASSUME AttemptsInv, NEW w \in DeleteWorkers, RemoveDocument(w)
  PROVE  AttemptsInv'
<1> w \in Workers
  BY DEF Workers
<1>1. DocInv'
  BY BoundsAssumption DEF AttemptsInv, DocInv, DocState, Statuses, RemoveDocument
<1>2. StoreInv'
  BY DEF AttemptsInv, StoreInv, stores, RemoveDocument
<1>3. QueueInv'
  BY DEF AttemptsInv, QueueInv, queues, RemoveDocument
<1>4. WorkerInv'
  <2>1. PICK pc \in WorkerPCs : Goto(w, pc)
    BY DEF RemoveDocument, WorkerPCs, DeleteError, Done
  <2> QED
    BY <2>1, GotoWorker DEF AttemptsInv, RemoveDocument
<1>5. ClientInv'
  BY DEF AttemptsInv, ClientInv, RemoveDocument
<1>6. RestInv'
  BY DEF AttemptsInv, RestInv, NoFault, Fault, RemoveDocument
<1> QED
  BY <1>1, <1>2, <1>3, <1>4, <1>5, <1>6 DEF AttemptsInv

LEMMA AttemptsRetryDelete ==
  ASSUME AttemptsInv, NEW w \in DeleteWorkers, RetryDelete(w)
  PROVE  AttemptsInv'
<1> w \in Workers
  BY DEF Workers
<1>1. DocInv'
  BY DEF AttemptsInv, DocInv, DocState, Statuses, BackOffline, RetryDelete
<1>2. StoreInv'
  BY DEF AttemptsInv, StoreInv, stores, RetryDelete
<1>3. QueueInv'
  BY DEF AttemptsInv, QueueInv, queues, RetryDelete
<1>4. WorkerInv'
  <2> DEFINE next == worker[w].msg.attempt + 1
  <2>1. worker[w].msg.attempt \in 0..MaxRetries
    BY MsgFields DEF AttemptsInv, WorkerInv, WorkerState, WorkerAttempts
  <2>2. /\ next \in 0..MaxRetries + 1
        /\ \/ RetryQueue(next) = "retry" /\ next <= MaxRetries
           \/ RetryQueue(next) = "dlq" /\ next = MaxRetries + 1
    BY <2>1, BoundsAssumption DEF RetryQueue
  <2>3. Send(w, RetryQueue(next), next)
    BY DEF RetryDelete
  <2> QED
    BY <2>2, <2>3, SendWorker DEF AttemptsInv
<1>5. ClientInv'
  BY DEF AttemptsInv, ClientInv, RetryDelete
<1>6. RestInv'
  BY DEF AttemptsInv, RestInv, NoFault, Fault, RetryDelete
<1> QED
  BY <1>1, <1>2, <1>3, <1>4, <1>5, <1>6 DEF AttemptsInv

LEMMA AttemptsFindForIndex ==
  ASSUME AttemptsInv, NEW w \in IndexWorkers, NEW m \in Msg, FindForIndex(w, m)
  PROVE  AttemptsInv'
<1> w \in Workers
  BY DEF Workers
<1>1. DocInv'
  BY DEF AttemptsInv, DocInv, FindForIndex
<1>2. StoreInv'
  BY DEF AttemptsInv, StoreInv, stores, FindForIndex
<1>3. QueueInv'
  BY TakeBag DEF AttemptsInv, QueueInv, Receive, FindForIndex
<1>4. WorkerInv'
  <2>1. m.attempt \in 0..MaxRetries + 1 /\ m.attempt <= MaxRetries
    BY MsgFields DEF AttemptsInv, QueueInv, Receive, FindForIndex
  <2>2. CASE Receive(w, m, Routed(m))
    BY <2>1, <2>2, RoutedSound, ReceiveInv DEF AttemptsInv, FindForIndex
  <2>3. CASE Receive(w, m, [Idle EXCEPT !.pc = "retry", !.attempt = m.attempt])
    <3> DEFINE s == [Idle EXCEPT !.pc = "retry", !.attempt = m.attempt]
    <3>1. Sound(s) /\ s.to = "retry"
      BY <2>1, IdleSound DEF Sound, Idle, WorkerState, WorkerPCs, WorkerAttempts
    <3> QED
      BY <2>1, <2>3, <3>1, ReceiveInv DEF AttemptsInv
  <2> QED
    BY <2>2, <2>3 DEF FindForIndex
<1>5. ClientInv'
  BY DEF AttemptsInv, ClientInv, FindForIndex
<1>6. RestInv'
  BY ExternalFailedType DEF AttemptsInv, RestInv, NoFault, Fault, FindForIndex
<1> QED
  BY <1>1, <1>2, <1>3, <1>4, <1>5, <1>6 DEF AttemptsInv

LEMMA AttemptsFindForDelete ==
  ASSUME AttemptsInv, NEW w \in DeleteWorkers, NEW m \in Msg, FindForDelete(w, m)
  PROVE  AttemptsInv'
<1> w \in Workers
  BY DEF Workers
<1>1. DocInv'
  BY DEF AttemptsInv, DocInv, FindForDelete
<1>2. StoreInv'
  BY DEF AttemptsInv, StoreInv, stores, FindForDelete
<1>3. QueueInv'
  BY TakeBag DEF AttemptsInv, QueueInv, Receive, FindForDelete
<1>4. WorkerInv'
  <2>1. m.attempt \in 0..MaxRetries + 1 /\ m.attempt <= MaxRetries
    BY MsgFields DEF AttemptsInv, QueueInv, Receive, FindForDelete
  <2>2. PICK pc \in WorkerPCs : Receive(w, m, [Idle EXCEPT !.pc = pc])
    BY DEF FindForDelete, CleanupRouted, DeleteError, Done, WorkerPCs
  <2> DEFINE s == [Idle EXCEPT !.pc = pc]
  <2>3. Sound(s) /\ s.to = "retry"
    BY IdleSound DEF Sound, Idle, WorkerState, WorkerAttempts
  <2> QED
    BY <2>1, <2>2, <2>3, ReceiveInv DEF AttemptsInv
<1>5. ClientInv'
  BY DEF AttemptsInv, ClientInv, FindForDelete
<1>6. RestInv'
  BY DEF AttemptsInv, RestInv, NoFault, Fault, FindForDelete
<1> QED
  BY <1>1, <1>2, <1>3, <1>4, <1>5, <1>6 DEF AttemptsInv

LEMMA AttemptsUpload ==
  ASSUME AttemptsInv, NEW c \in Clients, Upload(c)
  PROVE  AttemptsInv'
<1>1. DocInv'
  BY BoundsAssumption DEF AttemptsInv, DocInv, DocState, Statuses, Create, Upload
<1>2. StoreInv'
  BY DEF AttemptsInv, StoreInv, Create, Upload
<1>3. QueueInv'
  BY DEF AttemptsInv, QueueInv, queues, Create, Upload
<1>4. WorkerInv'
  BY DEF AttemptsInv, WorkerInv, Create, Upload
<1>5. ClientInv'
  <2>1. PICK pc \in ClientPCs, external \in BOOLEAN :
           ClientAt(c, pc, Task("index", external), "none")
    BY DEF Upload, Create, ClientPCs
  <2> DEFINE m == Task("index", external)
  <2>2. m \in Msg /\ m.attempt = 0
    BY TaskSound
  <2> QED
    BY <2>1, <2>2, ClientAtInv DEF AttemptsInv, Statuses
<1>6. RestInv'
  BY DEF AttemptsInv, RestInv, NoFault, Fault, Call, Create, Upload
<1> QED
  BY <1>1, <1>2, <1>3, <1>4, <1>5, <1>6 DEF AttemptsInv

LEMMA AttemptsFirstUpsert ==
  ASSUME AttemptsInv, NEW c \in Clients, FirstUpsert(c)
  PROVE  AttemptsInv'
<1>1. DocInv'
  BY BoundsAssumption DEF AttemptsInv, DocInv, DocState, Statuses, Create, FirstUpsert
<1>2. StoreInv'
  BY DEF AttemptsInv, StoreInv, Create, FirstUpsert
<1>3. QueueInv'
  BY DEF AttemptsInv, QueueInv, queues, Create, FirstUpsert
<1>4. WorkerInv'
  BY DEF AttemptsInv, WorkerInv, Create, FirstUpsert
<1>5. ClientInv'
  <2>1. PICK pc \in ClientPCs, external \in BOOLEAN :
           ClientAt(c, pc, Task("index", external), "none")
    BY DEF FirstUpsert, Create, ClientPCs
  <2> DEFINE m == Task("index", external)
  <2>2. m \in Msg /\ m.attempt = 0
    BY TaskSound
  <2> QED
    BY <2>1, <2>2, ClientAtInv DEF AttemptsInv, Statuses
<1>6. RestInv'
  BY DEF AttemptsInv, RestInv, NoFault, Fault, Call, Create, FirstUpsert
<1> QED
  BY <1>1, <1>2, <1>3, <1>4, <1>5, <1>6 DEF AttemptsInv

LEMMA AttemptsDelete ==
  ASSUME AttemptsInv, NEW c \in Clients, Delete(c)
  PROVE  AttemptsInv'
<1>1. DocInv'
  BY DEF AttemptsInv, DocInv, Delete
<1>2. StoreInv'
  BY DEF AttemptsInv, StoreInv, stores, Delete
<1>3. QueueInv'
  BY DEF AttemptsInv, QueueInv, queues, Delete
<1>4. WorkerInv'
  BY DEF AttemptsInv, WorkerInv, Delete
<1>5. ClientInv'
  <2> DEFINE m == Task("delete", FALSE)
  <2>1. m \in Msg /\ m.attempt = 0
    BY TaskSound
  <2>2. doc.status \in Statuses
    BY DEF AttemptsInv, DocInv, DocState
  <2>3. PICK pc \in ClientPCs : ClientAt(c, pc, m, doc.status)
    BY DEF Delete, ClientPCs
  <2> QED
    BY <2>1, <2>2, <2>3, ClientAtInv DEF AttemptsInv
<1>6. RestInv'
  BY DEF AttemptsInv, RestInv, NoFault, Fault, Call, Delete
<1> QED
  BY <1>1, <1>2, <1>3, <1>4, <1>5, <1>6 DEF AttemptsInv

LEMMA AttemptsReindex ==
  ASSUME AttemptsInv, NEW c \in Clients, Reindex(c)
  PROVE  AttemptsInv'
<1>1. DocInv'
  BY DEF AttemptsInv, DocInv, Reindex
<1>2. StoreInv'
  BY DEF AttemptsInv, StoreInv, stores, Reindex
<1>3. QueueInv'
  BY DEF AttemptsInv, QueueInv, queues, Reindex
<1>4. WorkerInv'
  BY DEF AttemptsInv, WorkerInv, Reindex
<1>5. ClientInv'
  <2> DEFINE m == Task("index", FALSE)
  <2>1. m \in Msg /\ m.attempt = 0
    BY TaskSound
  <2>2. doc.status \in Statuses
    BY DEF AttemptsInv, DocInv, DocState
  <2>3. PICK pc \in ClientPCs : ClientAt(c, pc, m, doc.status)
    BY DEF Reindex, ClientPCs
  <2> QED
    BY <2>1, <2>2, <2>3, ClientAtInv DEF AttemptsInv
<1>6. RestInv'
  BY DEF AttemptsInv, RestInv, NoFault, Fault, Call, Reindex
<1> QED
  BY <1>1, <1>2, <1>3, <1>4, <1>5, <1>6 DEF AttemptsInv

LEMMA AttemptsUpsert ==
  ASSUME AttemptsInv, NEW c \in Clients, Upsert(c)
  PROVE  AttemptsInv'
<1>1. DocInv'
  BY DEF AttemptsInv, DocInv, Upsert
<1>2. StoreInv'
  BY DEF AttemptsInv, StoreInv, stores, Upsert
<1>3. QueueInv'
  BY DEF AttemptsInv, QueueInv, queues, Upsert
<1>4. WorkerInv'
  BY DEF AttemptsInv, WorkerInv, Upsert
<1>5. ClientInv'
  <2> DEFINE m == Task("index", TRUE)
  <2>1. m \in Msg /\ m.attempt = 0
    BY TaskSound
  <2>2. doc.status \in Statuses
    BY DEF AttemptsInv, DocInv, DocState
  <2>3. ClientAt(c, "update", m, doc.status) \/ UNCHANGED client
    BY DEF Upsert
  <2>4. CASE ClientAt(c, "update", m, doc.status)
    BY <2>1, <2>2, <2>4, ClientAtInv DEF AttemptsInv, ClientPCs
  <2>5. CASE UNCHANGED client
    BY <2>5 DEF AttemptsInv, ClientInv
  <2> QED
    BY <2>3, <2>4, <2>5
<1>6. RestInv'
  <2>1. ext' = ext \/ ext' = [status |-> "synced", missing |-> 0, marked |-> FALSE]
    BY DEF Upsert
  <2>2. ext \in ExternalState
    BY DEF AttemptsInv, RestInv
  <2>3. [status |-> "synced", missing |-> 0, marked |-> FALSE] \in ExternalState
    BY DEF ExternalState
  <2>4. ext' \in ExternalState
    BY <2>1, <2>2, <2>3
  <2> QED
    BY <2>4 DEF AttemptsInv, RestInv, NoFault, Call, Upsert
<1> QED
  BY <1>1, <1>2, <1>3, <1>4, <1>5, <1>6 DEF AttemptsInv

LEMMA AttemptsMissing ==
  ASSUME AttemptsInv, NEW c \in Clients, Missing(c)
  PROVE  AttemptsInv'
<1>1. DocInv'
  BY DEF AttemptsInv, DocInv, Missing
<1>2. StoreInv'
  BY DEF AttemptsInv, StoreInv, stores, Missing
<1>3. QueueInv'
  BY DEF AttemptsInv, QueueInv, queues, Missing
<1>4. WorkerInv'
  BY DEF AttemptsInv, WorkerInv, Missing
<1>5. ClientInv'
  <2>1. PICK kind \in {"index", "delete", "deindex"} :
           ClientAt(c, "missed", Task(kind, TRUE), "none")
    BY DEF Missing
  <2> DEFINE m == Task(kind, TRUE)
  <2>2. m \in Msg /\ m.attempt = 0
    BY TaskSound
  <2> QED
    BY <2>1, <2>2, ClientAtInv DEF AttemptsInv, ClientPCs, Statuses
<1>6. RestInv'
  <2>1. PICK again \in BOOLEAN :
          ext' = IF again /\ ext.marked THEN ext
                 ELSE [status |-> "missing", missing |-> IF again /\ ext.marked
                         THEN ext.missing ELSE ext.missing + 1, marked |-> TRUE]
    BY DEF Missing
  <2>2. ext' \in ExternalState
    BY <2>1 DEF AttemptsInv, RestInv, ExternalState
  <2> QED
    BY <2>2 DEF AttemptsInv, RestInv, NoFault, Call, Missing
<1> QED
  BY <1>1, <1>2, <1>3, <1>4, <1>5, <1>6 DEF AttemptsInv

LEMMA AttemptsMissingFound ==
  ASSUME AttemptsInv, NEW c \in Clients, MissingFound(c)
  PROVE  AttemptsInv'
<1>1. DocInv'
  BY DEF AttemptsInv, DocInv, MissingFound
<1>2. StoreInv'
  BY DEF AttemptsInv, StoreInv, stores, MissingFound
<1>3. QueueInv'
  BY DEF AttemptsInv, QueueInv, queues, MissingFound
<1>4. WorkerInv'
  BY DEF AttemptsInv, WorkerInv, MissingFound
<1>5. ClientInv'
  <2> DEFINE m == client[c].msg
  <2>1. m \in Msg /\ m.attempt = 0 /\ doc.status \in Statuses
    BY DEF AttemptsInv, ClientInv, ClientState, DocInv, DocState
  <2>2. Rest(c) \/ \E pc \in ClientPCs : ClientAt(c, pc, m, doc.status)
    BY DEF MissingFound, ClientPCs
  <2> QED
    BY <2>1, <2>2, RestClient, ClientAtInv DEF AttemptsInv
<1>6. RestInv'
  BY ExternalDoneType DEF AttemptsInv, RestInv, NoFault, MissingFound
<1> QED
  BY <1>1, <1>2, <1>3, <1>4, <1>5, <1>6 DEF AttemptsInv

LEMMA AttemptsUpdateStatus ==
  ASSUME AttemptsInv, NEW c \in Clients, UpdateStatus(c)
  PROVE  AttemptsInv'
<1>1. DocInv'
  <2>1. client[c].msg.kind \in {"index", "delete", "deindex"}
    BY MsgFields DEF AttemptsInv, ClientInv, ClientState
  <2>2. doc' = doc \/ doc' = Reset(client[c].msg.kind)
    BY DEF UpdateStatus
  <2>3. \/ Reset(client[c].msg.kind) = doc
        \/ Reset(client[c].msg.kind) =
             [status |-> "pending", task |-> 0, attempt |-> 0, lease |-> "none"]
        \/ Reset(client[c].msg.kind) = [doc EXCEPT !.status = "deleting", !.lease = "none"]
        \/ Reset(client[c].msg.kind) = [doc EXCEPT !.status = "inactive", !.lease = "none"]
    BY <2>1 DEF Reset
  <2>4. /\ doc \in DocState /\ doc.attempt <= MaxRetries + 1
        /\ doc.status \in {"none", "pending", "processing", "completed"} =>
             doc.attempt <= MaxRetries
    BY DEF AttemptsInv, DocInv
  <2>5. CASE doc' = doc
    BY <2>5 DEF AttemptsInv, DocInv
  <2>6. CASE doc' = [status |-> "pending", task |-> 0, attempt |-> 0, lease |-> "none"]
    BY <2>6, BoundsAssumption DEF DocInv, DocState, Statuses
  <2>7. CASE \E status \in {"deleting", "inactive"} :
               doc' = [doc EXCEPT !.status = status, !.lease = "none"]
    BY <2>4, <2>7 DEF DocInv, DocState, Statuses
  <2> QED
    BY <2>2, <2>3, <2>5, <2>6, <2>7
<1>2. StoreInv'
  BY DEF AttemptsInv, StoreInv, stores, UpdateStatus
<1>3. QueueInv'
  BY DEF AttemptsInv, QueueInv, queues, UpdateStatus
<1>4. WorkerInv'
  BY DEF AttemptsInv, WorkerInv, UpdateStatus
<1>5. ClientInv'
  <2>1. Rest(c) \/ \E pc \in ClientPCs : client' = [client EXCEPT ![c].pc = pc]
    BY DEF UpdateStatus, ClientPCs
  <2> QED
    BY <2>1, RestClient, MoveClient DEF AttemptsInv
<1>6. RestInv'
  BY DEF AttemptsInv, RestInv, NoFault, Fault, UpdateStatus
<1> QED
  BY <1>1, <1>2, <1>3, <1>4, <1>5, <1>6 DEF AttemptsInv

LEMMA AttemptsSaveMapping ==
  ASSUME AttemptsInv, NEW c \in Clients, SaveMapping(c)
  PROVE  AttemptsInv'
<1>1. DocInv'
  BY DEF AttemptsInv, DocInv, SaveMapping
<1>2. StoreInv'
  BY DEF AttemptsInv, StoreInv, stores, SaveMapping
<1>3. QueueInv'
  BY DEF AttemptsInv, QueueInv, queues, SaveMapping
<1>4. WorkerInv'
  BY DEF AttemptsInv, WorkerInv, SaveMapping
<1>5. ClientInv'
  BY MoveClient DEF AttemptsInv, SaveMapping, ClientPCs
<1>6. RestInv'
  BY DEF AttemptsInv, RestInv, NoFault, SaveMapping, ExternalState
<1> QED
  BY <1>1, <1>2, <1>3, <1>4, <1>5, <1>6 DEF AttemptsInv

LEMMA AttemptsPublishTask ==
  ASSUME AttemptsInv, NEW c \in Clients, PublishTask(c)
  PROVE  AttemptsInv'
<1>1. DocInv'
  BY DEF AttemptsInv, DocInv, PublishTask
<1>2. StoreInv'
  BY DEF AttemptsInv, StoreInv, stores, PublishTask
<1>3. QueueInv'
  <2>1. client[c].msg \in Msg /\ client[c].msg.attempt = 0
    BY DEF AttemptsInv, ClientInv, ClientState
  <2> QED
    BY <2>1, PutBag, BoundsAssumption DEF AttemptsInv, QueueInv, PublishTask
<1>4. WorkerInv'
  BY DEF AttemptsInv, WorkerInv, PublishTask
<1>5. ClientInv'
  <2>1. Rest(c) \/ \E pc \in ClientPCs : client' = [client EXCEPT ![c].pc = pc]
    BY DEF PublishTask, ClientPCs
  <2> QED
    BY <2>1, RestClient, MoveClient DEF AttemptsInv
<1>6. RestInv'
  BY DEF AttemptsInv, RestInv, NoFault, Fault, PublishTask
<1> QED
  BY <1>1, <1>2, <1>3, <1>4, <1>5, <1>6 DEF AttemptsInv

LEMMA AttemptsUndoPublish ==
  ASSUME AttemptsInv, NEW c \in Clients, UndoPublish(c)
  PROVE  AttemptsInv'
<1>1. DocInv'
  BY DEF AttemptsInv, DocInv, DocState, Statuses, UndoPublish
<1>2. StoreInv'
  BY DEF AttemptsInv, StoreInv, stores, UndoPublish
<1>3. QueueInv'
  BY DEF AttemptsInv, QueueInv, queues, UndoPublish
<1>4. WorkerInv'
  BY DEF AttemptsInv, WorkerInv, UndoPublish
<1>5. ClientInv'
  BY RestClient DEF AttemptsInv, UndoPublish
<1>6. RestInv'
  BY ExternalFailedType DEF AttemptsInv, RestInv, NoFault, UndoPublish
<1> QED
  BY <1>1, <1>2, <1>3, <1>4, <1>5, <1>6 DEF AttemptsInv

LEMMA AttemptsClientStops ==
  ASSUME AttemptsInv, NEW c \in Clients, ClientStops(c)
  PROVE  AttemptsInv'
<1>1. DocInv'
  BY DEF AttemptsInv, DocInv, ClientStops
<1>2. StoreInv'
  BY DEF AttemptsInv, StoreInv, stores, ClientStops
<1>3. QueueInv'
  BY DEF AttemptsInv, QueueInv, queues, ClientStops
<1>4. WorkerInv'
  BY DEF AttemptsInv, WorkerInv, ClientStops
<1>5. ClientInv'
  BY RestClient DEF AttemptsInv, ClientStops
<1>6. RestInv'
  BY DEF AttemptsInv, RestInv, NoFault, Fault, ClientStops
<1> QED
  BY <1>1, <1>2, <1>3, <1>4, <1>5, <1>6 DEF AttemptsInv

LEMMA AttemptsRetryDelayExpires ==
  ASSUME AttemptsInv, NEW m \in Msg, RetryDelayExpires(m)
  PROVE  AttemptsInv'
<1>1. DocInv'
  BY DEF AttemptsInv, DocInv, RetryDelayExpires
<1>2. StoreInv'
  BY DEF AttemptsInv, StoreInv, stores, RetryDelayExpires
<1>3. QueueInv'
  BY PutBag, TakeBag DEF AttemptsInv, QueueInv, RetryDelayExpires
<1>4. WorkerInv'
  BY DEF AttemptsInv, WorkerInv, RetryDelayExpires
<1>5. ClientInv'
  BY DEF AttemptsInv, ClientInv, RetryDelayExpires
<1>6. RestInv'
  BY DEF AttemptsInv, RestInv, NoFault, Fault, RetryDelayExpires
<1> QED
  BY <1>1, <1>2, <1>3, <1>4, <1>5, <1>6 DEF AttemptsInv

LEMMA AttemptsLeaseRunsOut ==
  ASSUME AttemptsInv, LeaseExpires \/ LeaseOutrun
  PROVE  AttemptsInv'
<1>1. DocInv'
  BY DEF AttemptsInv, DocInv, LeaseExpires, LeaseOutrun, LeaseRunsOut, stores, queues,
         NoFault, Fault, DocState
<1>2. StoreInv'
  BY DEF AttemptsInv, StoreInv, LeaseExpires, LeaseOutrun, LeaseRunsOut, stores,
         queues, NoFault, Fault, DocState
<1>3. QueueInv'
  BY DEF AttemptsInv, QueueInv, LeaseExpires, LeaseOutrun, LeaseRunsOut, stores,
         queues, NoFault, Fault, DocState
<1>4. WorkerInv'
  BY DEF AttemptsInv, WorkerInv, LeaseExpires, LeaseOutrun, LeaseRunsOut, stores,
         queues, NoFault, Fault, DocState
<1>5. ClientInv'
  BY DEF AttemptsInv, ClientInv, LeaseExpires, LeaseOutrun, LeaseRunsOut, stores,
         queues, NoFault, Fault, DocState
<1>6. RestInv'
  BY DEF AttemptsInv, RestInv, LeaseExpires, LeaseOutrun, LeaseRunsOut, stores,
         queues, NoFault, Fault, DocState
<1> QED
  BY <1>1, <1>2, <1>3, <1>4, <1>5, <1>6 DEF AttemptsInv

LEMMA AttemptsNext ==
  ASSUME AttemptsInv, [Next]_vars
  PROVE  AttemptsInv'
<1>1. CASE \E w \in IndexWorkers : IndexStep(w)
  BY <1>1, AttemptsFindForIndex, AttemptsClaim, AttemptsReread, AttemptsCheckToken,
     AttemptsWriteRow, AttemptsWriteVector, AttemptsFailIndex, AttemptsComplete,
     AttemptsRetryIndex DEF IndexStep, Workers
<1>2. CASE \E w \in DeleteWorkers : DeleteStep(w)
  BY <1>2, AttemptsFindForDelete, AttemptsMarkDeindexing, AttemptsFinishDeindex,
     AttemptsDeleteObject, AttemptsRemoveDocument, AttemptsRetryDelete DEF DeleteStep
<1>3. CASE \E w \in Workers : CommonStep(w) \/ Crash(w) \/ LoseChannel(w)
  BY <1>3, AttemptsCleanVectors, AttemptsCleanRows, AttemptsMarkExternalDone,
     AttemptsMarkExternalFailed, AttemptsPublish, AttemptsAck, AttemptsCrash,
     AttemptsLoseChannel DEF CommonStep
<1>4. CASE \E c \in Clients : ClientStep(c)
  BY <1>4, AttemptsUpload, AttemptsFirstUpsert, AttemptsDelete, AttemptsReindex,
     AttemptsUpsert, AttemptsMissing, AttemptsMissingFound, AttemptsUpdateStatus,
     AttemptsSaveMapping, AttemptsPublishTask, AttemptsUndoPublish, AttemptsClientStops
     DEF ClientStep
<1>5. CASE \/ \E m \in Msg : RetryDelayExpires(m)
           \/ LeaseExpires \/ LeaseOutrun
  BY <1>5, AttemptsRetryDelayExpires, AttemptsLeaseRunsOut
<1>6. CASE UNCHANGED vars
  BY <1>6 DEF vars, stores, queues, AttemptsInv, DocInv, StoreInv, QueueInv, WorkerInv,
              ClientInv, RestInv
<1> QED
  BY <1>1, <1>2, <1>3, <1>4, <1>5, <1>6 DEF Next

\* The inductive invariant behind the next two theorems.
THEOREM AttemptsInvariant == Spec => []AttemptsInv
<1>1. AttemptsInv /\ [Next]_vars => AttemptsInv'
  BY AttemptsNext
<1> QED
  BY <1>1, AttemptsInit, PTL DEF Spec

\* Every variable keeps its type, whatever fails.
THEOREM TypeCorrect == Spec => []TypeOK
<1>1. AttemptsInv => TypeOK
  BY DEF AttemptsInv, TypeOK, DocInv, StoreInv, QueueInv, WorkerInv, ClientInv, RestInv
<1> QED
  BY <1>1, AttemptsInvariant, PTL

\* No message is retried more often than MaxRetries allows, and none reaches the
\* dead letter queue before, for any mix of calls, workers and failures.
THEOREM RetriesAreBounded == Spec => []AttemptsBounded
<1>1. AttemptsInv => AttemptsBounded
  BY DEF AttemptsInv, AttemptsBounded, Waiting, DocInv, QueueInv
<1> QED
  BY <1>1, AttemptsInvariant, PTL

-----------------------------------------------------------------------------
(* No index task is lost, as long as no consumer's lookup or claim fails, no   *)
(* channel is lost under a running handler and no client dies in mid-call      *)


Tame == FaultKinds \cap {"lookup", "conn", "client"} = {}

\* An index consumer that is at work has an index message to put back.
HeldInv ==
  \A w \in IndexWorkers : /\ worker[w].msg.kind = "index"
                          /\ worker[w].pc # "idle" => worker[w].held

Indexing == doc.status \in {"pending", "processing"}

Queued == \E m \in Msg : m.kind = "index" /\ Waiting(m)

TaskInv == AttemptsInv /\ HeldInv /\ IndexingHasTask

-----------------------------------------------------------------------------
(* Index consumers hold their message *)

LEMMA HeldInit == Init => HeldInv
BY DEF Init, HeldInv, Idle, NoTask, Task, Workers

\* A step of one consumer keeps its message, or ends with it, or takes one.
LEMMA HeldWorker ==
  ASSUME AttemptsInv, HeldInv, NEW w \in Workers,
         \A v \in Workers \ {w} : worker'[v] = worker[v],
         \/ worker'[w] = Idle
         \/ /\ worker[w].pc # "idle"
            /\ worker'[w].msg = worker[w].msg /\ worker'[w].held = worker[w].held
         \/ /\ w \in IndexWorkers => worker'[w].msg.kind = "index"
            /\ worker'[w].held
  PROVE  HeldInv'
BY DEF HeldInv, Idle, NoTask, Task, Workers

LEMMA GotoKeeps ==
  ASSUME AttemptsInv, NEW w \in Workers, NEW pc, Goto(w, pc)
  PROVE  /\ \A v \in Workers \ {w} : worker'[v] = worker[v]
         /\ worker'[w] = [worker[w] EXCEPT !.pc = pc]
         /\ worker'[w].pc = pc
         /\ worker'[w].msg = worker[w].msg /\ worker'[w].held = worker[w].held
         /\ worker'[w].task = worker[w].task /\ worker'[w].to = worker[w].to
BY DEF AttemptsInv, WorkerInv, WorkerState, Goto

LEMMA SendKeeps ==
  ASSUME AttemptsInv, NEW w \in Workers, NEW to, NEW attempt, Send(w, to, attempt)
  PROVE  /\ \A v \in Workers \ {w} : worker'[v] = worker[v]
         /\ worker'[w].pc = "publish"
         /\ worker'[w].msg = worker[w].msg /\ worker'[w].held = worker[w].held
         /\ worker'[w].to = to
BY DEF AttemptsInv, WorkerInv, WorkerState, Send

\* What the steps of a consumer, other than those that take a message, leave alone.
KeepsMessage(w) ==
  /\ \A v \in Workers \ {w} : worker'[v] = worker[v]
  /\ \/ worker'[w] = Idle
     \/ /\ worker[w].pc # "idle"
        /\ worker'[w].msg = worker[w].msg /\ worker'[w].held = worker[w].held

LEMMA KeepsClaim ==
  ASSUME AttemptsInv, NEW w \in Workers, Claim(w)
  PROVE  KeepsMessage(w)
BY GotoKeeps, SendKeeps DEF KeepsMessage, Claim, LeaseLost, AttemptsInv, WorkerInv,
       WorkerState

LEMMA KeepsReread ==
  ASSUME AttemptsInv, NEW w \in Workers, Reread(w)
  PROVE  KeepsMessage(w)
BY GotoKeeps, SendKeeps DEF KeepsMessage, Reread, LeaseLost, AttemptsInv, WorkerInv,
       WorkerState

LEMMA KeepsCheckToken ==
  ASSUME AttemptsInv, NEW w \in Workers, CheckToken(w)
  PROVE  KeepsMessage(w)
BY GotoKeeps, SendKeeps DEF KeepsMessage, CheckToken, LeaseLost, AttemptsInv,
       WorkerInv, WorkerState

LEMMA KeepsWriteRow ==
  ASSUME AttemptsInv, NEW w \in Workers, WriteRow(w)
  PROVE  KeepsMessage(w)
BY GotoKeeps, SendKeeps DEF KeepsMessage, WriteRow, LeaseLost, AttemptsInv, WorkerInv,
       WorkerState

LEMMA KeepsWriteVector ==
  ASSUME AttemptsInv, NEW w \in Workers, WriteVector(w)
  PROVE  KeepsMessage(w)
BY GotoKeeps, SendKeeps DEF KeepsMessage, WriteVector, LeaseLost, AttemptsInv,
       WorkerInv, WorkerState

LEMMA KeepsFailIndex ==
  ASSUME AttemptsInv, NEW w \in Workers, FailIndex(w)
  PROVE  KeepsMessage(w)
BY GotoKeeps, SendKeeps DEF KeepsMessage, FailIndex, LeaseLost, AttemptsInv,
       WorkerInv, WorkerState

LEMMA KeepsComplete ==
  ASSUME AttemptsInv, NEW w \in Workers, Complete(w)
  PROVE  KeepsMessage(w)
BY GotoKeeps, SendKeeps DEF KeepsMessage, Complete, LeaseLost, AttemptsInv, WorkerInv,
       WorkerState

LEMMA KeepsRetryIndex ==
  ASSUME AttemptsInv, NEW w \in Workers, RetryIndex(w)
  PROVE  KeepsMessage(w)
BY GotoKeeps, SendKeeps DEF KeepsMessage, RetryIndex, LeaseLost, AttemptsInv,
       WorkerInv, WorkerState

LEMMA KeepsMarkDeindexing ==
  ASSUME AttemptsInv, NEW w \in Workers, MarkDeindexing(w)
  PROVE  KeepsMessage(w)
BY GotoKeeps, SendKeeps DEF KeepsMessage, MarkDeindexing, LeaseLost, AttemptsInv,
       WorkerInv, WorkerState

LEMMA KeepsFinishDeindex ==
  ASSUME AttemptsInv, NEW w \in Workers, FinishDeindex(w)
  PROVE  KeepsMessage(w)
BY GotoKeeps, SendKeeps DEF KeepsMessage, FinishDeindex, LeaseLost, AttemptsInv,
       WorkerInv, WorkerState

LEMMA KeepsDeleteObject ==
  ASSUME AttemptsInv, NEW w \in Workers, DeleteObject(w)
  PROVE  KeepsMessage(w)
BY GotoKeeps, SendKeeps DEF KeepsMessage, DeleteObject, LeaseLost, AttemptsInv,
       WorkerInv, WorkerState

LEMMA KeepsRemoveDocument ==
  ASSUME AttemptsInv, NEW w \in Workers, RemoveDocument(w)
  PROVE  KeepsMessage(w)
BY GotoKeeps, SendKeeps DEF KeepsMessage, RemoveDocument, LeaseLost, AttemptsInv,
       WorkerInv, WorkerState

LEMMA KeepsRetryDelete ==
  ASSUME AttemptsInv, NEW w \in Workers, RetryDelete(w)
  PROVE  KeepsMessage(w)
BY GotoKeeps, SendKeeps DEF KeepsMessage, RetryDelete, LeaseLost, AttemptsInv,
       WorkerInv, WorkerState

LEMMA KeepsCleanVectors ==
  ASSUME AttemptsInv, NEW w \in Workers, CleanVectors(w)
  PROVE  KeepsMessage(w)
BY GotoKeeps, SendKeeps DEF KeepsMessage, CleanVectors, LeaseLost, AttemptsInv,
       WorkerInv, WorkerState

LEMMA KeepsCleanRows ==
  ASSUME AttemptsInv, NEW w \in Workers, CleanRows(w)
  PROVE  KeepsMessage(w)
BY GotoKeeps, SendKeeps DEF KeepsMessage, CleanRows, LeaseLost, AttemptsInv,
       WorkerInv, WorkerState

LEMMA KeepsMarkExternalDone ==
  ASSUME AttemptsInv, NEW w \in Workers, MarkExternalDone(w)
  PROVE  KeepsMessage(w)
BY GotoKeeps, SendKeeps DEF KeepsMessage, MarkExternalDone, LeaseLost, AttemptsInv,
       WorkerInv, WorkerState

LEMMA KeepsMarkExternalFailed ==
  ASSUME AttemptsInv, NEW w \in Workers, MarkExternalFailed(w)
  PROVE  KeepsMessage(w)
BY GotoKeeps, SendKeeps DEF KeepsMessage, MarkExternalFailed, LeaseLost, AttemptsInv,
       WorkerInv, WorkerState

LEMMA KeepsPublish ==
  ASSUME AttemptsInv, NEW w \in Workers, Publish(w)
  PROVE  KeepsMessage(w)
BY GotoKeeps, SendKeeps DEF KeepsMessage, Publish, LeaseLost, AttemptsInv, WorkerInv,
       WorkerState

LEMMA KeepsAck ==
  ASSUME AttemptsInv, NEW w \in Workers, Ack(w)
  PROVE  KeepsMessage(w)
BY GotoKeeps, SendKeeps DEF KeepsMessage, Ack, LeaseLost, AttemptsInv, WorkerInv,
       WorkerState

LEMMA KeepsCrash ==
  ASSUME AttemptsInv, NEW w \in Workers, Crash(w)
  PROVE  KeepsMessage(w)
BY GotoKeeps, SendKeeps DEF KeepsMessage, Crash, LeaseLost, AttemptsInv, WorkerInv,
       WorkerState

LEMMA HeldNext ==
  ASSUME Tame, AttemptsInv, HeldInv, [Next]_vars
  PROVE  HeldInv'
<1>1. ASSUME NEW w \in Workers, KeepsMessage(w)
      PROVE  HeldInv'
  BY <1>1, HeldWorker DEF KeepsMessage
<1>2. ASSUME NEW w \in Workers, NEW m \in Msg, NEW s, Receive(w, m, s),
             w \in IndexWorkers => m.kind = "index", s \in WorkerState
      PROVE  HeldInv'
  <2>1. /\ \A v \in Workers \ {w} : worker'[v] = worker[v]
        /\ worker'[w].msg = m /\ worker'[w].held = TRUE
    BY <1>2 DEF Receive, AttemptsInv, WorkerInv, WorkerState
  <2> QED
    BY <1>2, <2>1, HeldWorker
<1>3. CASE \E w \in IndexWorkers : IndexStep(w)
  <2>1. PICK w \in IndexWorkers : IndexStep(w)
    BY <1>3
  <2>2. w \in Workers
    BY DEF Workers
  <2>3. ASSUME NEW m \in Msg, FindForIndex(w, m)
        PROVE  HeldInv'
    <3>1. /\ Receive(w, m, Routed(m)) \/ Fault("lookup")
          /\ m.kind = "index"
      BY <2>3 DEF FindForIndex
    <3>2. Receive(w, m, Routed(m))
      BY <3>1 DEF Fault, Tame
    <3>3. Routed(m) \in WorkerState
      BY <3>2, RoutedSound DEF Receive, AttemptsInv, QueueInv, Sound
    <3> QED
      BY <1>2, <2>2, <3>1, <3>2, <3>3
  <2> QED
    BY <1>1, <2>1, <2>2, <2>3, KeepsClaim, KeepsReread, KeepsCheckToken, KeepsWriteRow,
       KeepsWriteVector, KeepsFailIndex, KeepsComplete, KeepsRetryIndex DEF IndexStep
<1>4. CASE \E w \in DeleteWorkers : DeleteStep(w)
  <2>1. PICK w \in DeleteWorkers : DeleteStep(w)
    BY <1>4
  <2>2. w \in Workers /\ w \notin IndexWorkers
    BY WorkersAssumption DEF Workers
  <2>3. ASSUME NEW m \in Msg, FindForDelete(w, m)
        PROVE  HeldInv'
    <3>1. PICK pc \in WorkerPCs : Receive(w, m, [Idle EXCEPT !.pc = pc])
      BY <2>3 DEF FindForDelete, CleanupRouted, DeleteError, Done, WorkerPCs
    <3>2. [Idle EXCEPT !.pc = pc] \in WorkerState
      BY IdleSound DEF Sound, WorkerState
    <3> QED
      BY <1>2, <2>2, <3>1, <3>2
  <2> QED
    BY <1>1, <2>1, <2>2, <2>3, KeepsMarkDeindexing, KeepsFinishDeindex,
       KeepsDeleteObject,
       KeepsRemoveDocument, KeepsRetryDelete DEF DeleteStep
<1>5. CASE \E w \in Workers : CommonStep(w) \/ Crash(w) \/ LoseChannel(w)
  <2>1. PICK w \in Workers : CommonStep(w) \/ Crash(w) \/ LoseChannel(w)
    BY <1>5
  <2>2. ~LoseChannel(w)
    BY DEF LoseChannel, Fault, Tame
  <2> QED
    BY <1>1, <2>1, <2>2, KeepsCleanVectors, KeepsCleanRows, KeepsMarkExternalDone,
       KeepsMarkExternalFailed, KeepsPublish, KeepsAck, KeepsCrash DEF CommonStep
<1>6. CASE UNCHANGED worker
  BY <1>6 DEF HeldInv
<1>7. (\E c \in Clients : ClientStep(c)) => UNCHANGED worker
  BY DEF ClientStep, Upload, FirstUpsert, Create, Delete, Reindex, Upsert, Missing,
         MissingFound, UpdateStatus, SaveMapping, PublishTask, UndoPublish, ClientStops
<1>8. (\E m \in Msg : RetryDelayExpires(m)) \/ LeaseExpires \/ LeaseOutrun \/ UNCHANGED vars
        => UNCHANGED worker
  BY DEF RetryDelayExpires, LeaseExpires, LeaseOutrun, LeaseRunsOut, vars
<1> QED
  BY <1>3, <1>4, <1>5, <1>6, <1>7, <1>8 DEF Next

-----------------------------------------------------------------------------
(* Who carries the task on *)

\* A step of consumer w that leaves the row's status and token alone.
LEMMA StepKeepsTask ==
  ASSUME IndexingHasTask, NEW w \in Workers,
         \A v \in Workers \ {w} : worker'[v] = worker[v],
         doc'.status = doc.status, doc'.task = doc.task, client' = client,
         \A m \in Msg : m.kind = "index" /\ Waiting(m) => Waiting(m)',
         w \in IndexWorkers /\ Indexing /\ Carries(w) => Carries(w)' \/ Queued'
  PROVE  IndexingHasTask'
<1> SUFFICES ASSUME Indexing, ~Queued'
             PROVE  \/ \E v \in IndexWorkers : Carries(v)'
                    \/ \E c \in Clients : Submitting(c)'
  BY DEF IndexingHasTask, Indexing, Queued
<1>1. CASE \E v \in IndexWorkers : Carries(v)
  <2>1. PICK v \in IndexWorkers : Carries(v)
    BY <1>1
  <2>2. CASE v = w
    BY <2>1, <2>2
  <2>3. CASE v # w
    BY <2>1, <2>3 DEF Carries, HoldsToken, Workers
  <2> QED
    BY <2>2, <2>3
<1>2. CASE \E c \in Clients : Submitting(c)
  BY <1>2 DEF Submitting
<1> QED
  BY <1>1, <1>2 DEF IndexingHasTask, Indexing, Queued

\* The same for a step that changes neither the row nor the queues.
LEMMA QuietStep ==
  ASSUME AttemptsInv, IndexingHasTask, NEW w \in Workers, KeepsMessage(w),
         UNCHANGED <<doc, main, retry, client>>,
         w \in IndexWorkers /\ Indexing /\ Carries(w) => Carries(w)'
  PROVE  IndexingHasTask'
<1>1. \A m \in Msg : Waiting(m) => Waiting(m)'
  BY DEF Waiting
<1> QED
  BY <1>1, StepKeepsTask DEF KeepsMessage

LEMMA AttemptsInv_Types == AttemptsInv => TypeOK
BY DEF AttemptsInv, TypeOK, DocInv, StoreInv, QueueInv, WorkerInv, ClientInv, RestInv

LEMMA RedeliverQueued ==
  ASSUME AttemptsInv, HeldInv, NEW w \in IndexWorkers, worker[w].pc # "idle",
         main' = Redelivered(w)
  PROVE  Queued'
<1> DEFINE m == worker[w].msg
<1>1. w \in Workers
  BY DEF Workers
<1>2. m \in Msg /\ m.kind = "index" /\ worker[w].held
  BY <1>1, WorkerMsg DEF AttemptsInv, HeldInv
<1>3. main'[m] > 0
  BY <1>1, <1>2, RedeliveredBag, AttemptsInv_Types
<1> QED
  BY <1>2, <1>3 DEF Queued, Waiting

LEMMA CarriedOn ==
  ASSUME NEW w \in IndexWorkers, Carries(w)'
  PROVE  IndexingHasTask'
BY DEF IndexingHasTask

LEMMA NotIndexing ==
  ASSUME doc'.status \notin {"pending", "processing"}
  PROVE  IndexingHasTask'
BY DEF IndexingHasTask

LEMMA TaskReread ==
  ASSUME Tame, TaskInv, NEW w \in IndexWorkers, Reread(w)
  PROVE  IndexingHasTask'
<1> USE DEF TaskInv
<1> w \in Workers
  BY DEF Workers
<1>1. KeepsMessage(w) /\ UNCHANGED <<doc, main, retry, client>>
  BY KeepsReread DEF Reread, queues
<1>2. w \in IndexWorkers /\ Carries(w) => Carries(w)'
  BY GotoKeeps, SendKeeps, WorkersAssumption DEF Reread, Carries, HoldsToken,
         LeaseLost, HeldInv, StoreError, AfterClean, Tame, Fault
<1> QED
  BY <1>1, <1>2, QuietStep

LEMMA TaskCheckToken ==
  ASSUME Tame, TaskInv, NEW w \in IndexWorkers, CheckToken(w)
  PROVE  IndexingHasTask'
<1> USE DEF TaskInv
<1> w \in Workers
  BY DEF Workers
<1>1. KeepsMessage(w) /\ UNCHANGED <<doc, main, retry, client>>
  BY KeepsCheckToken DEF CheckToken, queues
<1>2. w \in IndexWorkers /\ Carries(w) => Carries(w)'
  BY GotoKeeps, SendKeeps, WorkersAssumption DEF CheckToken, Carries, HoldsToken,
         LeaseLost, HeldInv, StoreError, AfterClean
<1> QED
  BY <1>1, <1>2, QuietStep

LEMMA TaskWriteRow ==
  ASSUME Tame, TaskInv, NEW w \in IndexWorkers, WriteRow(w)
  PROVE  IndexingHasTask'
<1> USE DEF TaskInv
<1> w \in Workers
  BY DEF Workers
<1>1. KeepsMessage(w) /\ UNCHANGED <<doc, main, retry, client>>
  BY KeepsWriteRow DEF WriteRow, queues
<1>2. w \in IndexWorkers /\ Carries(w) => Carries(w)'
  BY GotoKeeps, SendKeeps, WorkersAssumption DEF WriteRow, Carries, HoldsToken,
         LeaseLost, HeldInv, StoreError, AfterClean
<1> QED
  BY <1>1, <1>2, QuietStep

LEMMA TaskCleanVectors ==
  ASSUME Tame, TaskInv, NEW w \in Workers, CleanVectors(w)
  PROVE  IndexingHasTask'
<1> USE DEF TaskInv
<1> w \in Workers
  BY DEF Workers
<1>1. KeepsMessage(w) /\ UNCHANGED <<doc, main, retry, client>>
  BY KeepsCleanVectors DEF CleanVectors, queues
<1>2. w \in IndexWorkers /\ Carries(w) => Carries(w)'
  BY GotoKeeps, SendKeeps, WorkersAssumption DEF CleanVectors, Carries, HoldsToken,
         LeaseLost, HeldInv, StoreError, AfterClean
<1> QED
  BY <1>1, <1>2, QuietStep

LEMMA TaskCleanRows ==
  ASSUME Tame, TaskInv, NEW w \in Workers, CleanRows(w)
  PROVE  IndexingHasTask'
<1> USE DEF TaskInv
<1> w \in Workers
  BY DEF Workers
<1>1. KeepsMessage(w) /\ UNCHANGED <<doc, main, retry, client>>
  BY KeepsCleanRows DEF CleanRows, queues
<1>2. w \in IndexWorkers /\ Carries(w) => Carries(w)'
  BY GotoKeeps, SendKeeps, WorkersAssumption DEF CleanRows, Carries, HoldsToken,
         LeaseLost, HeldInv, StoreError, AfterClean
<1> QED
  BY <1>1, <1>2, QuietStep

LEMMA TaskMarkExternalDone ==
  ASSUME Tame, TaskInv, NEW w \in Workers, MarkExternalDone(w)
  PROVE  IndexingHasTask'
<1> USE DEF TaskInv
<1> w \in Workers
  BY DEF Workers
<1>1. KeepsMessage(w) /\ UNCHANGED <<doc, main, retry, client>>
  BY KeepsMarkExternalDone DEF MarkExternalDone, queues
<1>2. w \in IndexWorkers /\ Carries(w) => Carries(w)'
  BY GotoKeeps, SendKeeps, WorkersAssumption DEF MarkExternalDone, Carries,
         HoldsToken, LeaseLost, HeldInv, StoreError, AfterClean
<1> QED
  BY <1>1, <1>2, QuietStep

LEMMA TaskMarkExternalFailed ==
  ASSUME Tame, TaskInv, NEW w \in Workers, MarkExternalFailed(w)
  PROVE  IndexingHasTask'
<1> USE DEF TaskInv
<1> w \in Workers
  BY DEF Workers
<1>1. KeepsMessage(w) /\ UNCHANGED <<doc, main, retry, client>>
  BY KeepsMarkExternalFailed DEF MarkExternalFailed, queues
<1>2. w \in IndexWorkers /\ Carries(w) => Carries(w)'
  BY GotoKeeps, SendKeeps, WorkersAssumption DEF MarkExternalFailed, Carries,
         HoldsToken, LeaseLost, HeldInv, StoreError, AfterClean
<1> QED
  BY <1>1, <1>2, QuietStep

LEMMA TaskAck ==
  ASSUME Tame, TaskInv, NEW w \in Workers, Ack(w)
  PROVE  IndexingHasTask'
<1> USE DEF TaskInv
<1> w \in Workers
  BY DEF Workers
<1>1. KeepsMessage(w) /\ UNCHANGED <<doc, main, retry, client>>
  BY KeepsAck DEF Ack, queues
<1>2. w \in IndexWorkers /\ Carries(w) => Carries(w)'
  BY GotoKeeps, SendKeeps, WorkersAssumption DEF Ack, Carries, HoldsToken, LeaseLost,
         HeldInv, StoreError, AfterClean
<1> QED
  BY <1>1, <1>2, QuietStep

LEMMA TaskDeleteObject ==
  ASSUME Tame, TaskInv, NEW w \in DeleteWorkers, DeleteObject(w)
  PROVE  IndexingHasTask'
<1> USE DEF TaskInv
<1> w \in Workers
  BY DEF Workers
<1>1. KeepsMessage(w) /\ UNCHANGED <<doc, main, retry, client>>
  BY KeepsDeleteObject DEF DeleteObject, queues
<1>2. w \in IndexWorkers /\ Carries(w) => Carries(w)'
  BY GotoKeeps, SendKeeps, WorkersAssumption DEF DeleteObject, Carries, HoldsToken,
         LeaseLost, HeldInv, StoreError, AfterClean
<1> QED
  BY <1>1, <1>2, QuietStep

LEMMA TaskWriteVector ==
  ASSUME Tame, TaskInv, NEW w \in IndexWorkers, WriteVector(w)
  PROVE  IndexingHasTask'
<1> USE DEF TaskInv
<1> w \in Workers
  BY DEF Workers
<1>1. KeepsMessage(w) /\ UNCHANGED <<doc, main, retry, client>>
  BY KeepsWriteVector DEF WriteVector, queues
<1>2. /\ worker[w].pc = "vec"
      /\ worker'[w].pc \in {"complete", "row", "fail"} /\ worker'[w].task = worker[w].task
  BY GotoKeeps DEF WriteVector, AttemptsInv, WorkerInv, WorkerState
<1>3. Carries(w) => Carries(w)'
  BY <1>1, <1>2 DEF Carries, HoldsToken
<1> QED
  BY <1>1, <1>3, QuietStep

LEMMA TaskClaim ==
  ASSUME Tame, TaskInv, NEW w \in IndexWorkers, Claim(w)
  PROVE  IndexingHasTask'
<1> USE DEF TaskInv
<1> w \in Workers
  BY DEF Workers
<1>1. KeepsMessage(w) /\ UNCHANGED <<main, retry, client>>
  BY KeepsClaim DEF Claim, queues
<1>2. CASE ~Claimable /\ doc' = doc /\ Goto(w, "reread")
  <2>1. Indexing => Carries(w)'
    BY <1>2, GotoKeeps DEF Claimable, Indexing, Carries
  <2> QED
    BY <1>1, <1>2, <2>1, QuietStep
<1>3. CASE /\ doc'.status = "processing" /\ doc'.task = nextTask'
           /\ worker' = [worker EXCEPT ![w].pc = "check", ![w].task = nextTask']
  <2>1. worker'[w].pc = "check" /\ worker'[w].task = nextTask'
    BY <1>3 DEF AttemptsInv, WorkerInv, WorkerState
  <2>2. Carries(w)'
    BY <1>3, <2>1 DEF Carries, HoldsToken
  <2> QED
    BY <2>2, CarriedOn
<1> QED
  BY <1>2, <1>3 DEF Claim, Fault, Tame

LEMMA TaskFailIndex ==
  ASSUME Tame, TaskInv, NEW w \in IndexWorkers, FailIndex(w)
  PROVE  IndexingHasTask'
<1> USE DEF TaskInv
<1> w \in Workers
  BY DEF Workers
<1>1. KeepsMessage(w) /\ UNCHANGED <<main, retry, client>>
  BY KeepsFailIndex DEF FailIndex, queues
<1>2. CASE UNCHANGED doc /\ (Goto(w, "retry") \/ (~HoldsToken(w) /\ LeaseLost(w)))
  <2>1. Carries(w) => Carries(w)'
    BY <1>2, GotoKeeps, SendKeeps DEF FailIndex, Carries, HoldsToken, LeaseLost
  <2> QED
    BY <1>1, <1>2, <2>1, QuietStep
<1>3. CASE doc'.status \in {"failed", "completed"}
  BY <1>3, NotIndexing
<1> QED
  BY <1>2, <1>3 DEF FailIndex, AttemptsInv, DocInv, DocState

LEMMA TaskComplete ==
  ASSUME Tame, TaskInv, NEW w \in IndexWorkers, Complete(w)
  PROVE  IndexingHasTask'
<1> USE DEF TaskInv
<1> w \in Workers
  BY DEF Workers
<1>1. KeepsMessage(w) /\ UNCHANGED <<main, retry, client>>
  BY KeepsComplete DEF Complete, queues
<1>2. CASE UNCHANGED doc /\ (Goto(w, "retry") \/ (~HoldsToken(w) /\ LeaseLost(w)))
  <2>1. Carries(w) => Carries(w)'
    BY <1>2, GotoKeeps, SendKeeps DEF Complete, Carries, HoldsToken, LeaseLost
  <2> QED
    BY <1>1, <1>2, <2>1, QuietStep
<1>3. CASE doc'.status \in {"failed", "completed"}
  BY <1>3, NotIndexing
<1> QED
  BY <1>2, <1>3 DEF Complete, AttemptsInv, DocInv, DocState

LEMMA TaskRetryIndex ==
  ASSUME Tame, TaskInv, NEW w \in IndexWorkers, RetryIndex(w)
  PROVE  IndexingHasTask'
<1> USE DEF TaskInv
<1> w \in Workers
  BY DEF Workers
<1>1. KeepsMessage(w) /\ UNCHANGED client
  BY KeepsRetryIndex DEF RetryIndex
<1> DEFINE next == worker[w].attempt + 1
<1>2. CASE main' = Redelivered(w) /\ UNCHANGED <<doc, retry>>
  <2>1. \A m \in Msg : Waiting(m) => Waiting(m)'
    BY <1>2, RedeliveredBag, AttemptsInv_Types DEF Waiting
  <2>3. Queued'
    BY <1>2, RedeliverQueued DEF RetryIndex
  <2> QED
    BY <1>1, <1>2, <2>1, <2>3, StepKeepsTask DEF KeepsMessage
<1>3. CASE /\ doc' = Requeued(w) /\ UNCHANGED <<main, retry>>
           /\ worker'[w].pc \in {"extfail", "publish"} /\ worker'[w].to = RetryQueue(next)
  <2>1. CASE next <= MaxRetries
    <3>1. worker'[w].to = "retry"
      BY <1>3, <2>1, WorkerMsg, BoundsAssumption DEF RetryQueue, AttemptsInv,
             WorkerState
    <3> QED
      BY <1>3, <3>1, CarriedOn DEF Carries
  <2>2. CASE next > MaxRetries
    <3>1. next > MaxRetries /\ ~(next <= MaxRetries)
      BY <2>2, WorkerMsg, BoundsAssumption DEF AttemptsInv, WorkerState
    <3>2. CASE doc.status \in {"processing", "failed"} /\ doc.task = worker[w].task
      <4>1. doc'.status = "failed"
        BY <1>3, <3>1, <3>2 DEF Requeued, AttemptsInv, DocInv, DocState
      <4> QED
        BY <4>1, NotIndexing
    <3>3. CASE ~(doc.status \in {"processing", "failed"} /\ doc.task = worker[w].task)
      <4>1. doc' = doc
        BY <1>3, <3>3 DEF Requeued
      <4>2. Indexing => ~Carries(w)
        BY <3>3 DEF Carries, HoldsToken, RetryIndex
      <4> QED
        BY <1>1, <1>3, <4>1, <4>2, QuietStep
    <3> QED
      BY <3>2, <3>3
  <2> QED
    BY <2>1, <2>2, WorkerMsg, BoundsAssumption DEF AttemptsInv, WorkerState
<1>4. \/ main' = Redelivered(w) /\ UNCHANGED <<doc, retry>>
      \/ /\ doc' = Requeued(w) /\ UNCHANGED <<main, retry>>
         /\ worker'[w].pc \in {"extfail", "publish"} /\ worker'[w].to = RetryQueue(next)
  BY DEF RetryIndex, AttemptsInv, WorkerInv, WorkerState
<1> QED
  BY <1>2, <1>3, <1>4

LEMMA TaskPublish ==
  ASSUME Tame, TaskInv, NEW w \in Workers, Publish(w)
  PROVE  IndexingHasTask'
<1> USE DEF TaskInv
<1> w \in Workers
  BY DEF Workers
<1>1. KeepsMessage(w) /\ UNCHANGED <<doc, client>>
  BY KeepsPublish DEF Publish
<1> DEFINE m == [worker[w].msg EXCEPT !.attempt = worker[w].attempt]
<1>2. m \in Msg /\ (w \in IndexWorkers => m.kind = "index")
  BY WorkerMsg, AgainMsg DEF AttemptsInv, WorkerState, HeldInv
<1>3. CASE main' = Redelivered(w) /\ UNCHANGED retry
  <2>1. \A x \in Msg : Waiting(x) => Waiting(x)'
    BY <1>3, RedeliveredBag, AttemptsInv_Types DEF Waiting
  <2>3. w \in IndexWorkers => Queued'
    BY <1>3, RedeliverQueued DEF Publish
  <2> QED
    BY <1>1, <2>1, <2>3, StepKeepsTask DEF KeepsMessage
<1>4. CASE /\ UNCHANGED main
           /\ retry' = IF worker[w].to = "retry" THEN Put(retry, m) ELSE retry
  <2> HIDE DEF m
  <2>1. \A x \in Msg : Waiting(x) => Waiting(x)'
    BY <1>2, <1>4, PutBag DEF Waiting, AttemptsInv, QueueInv
  <2>2. w \in IndexWorkers /\ worker[w].to = "retry" => Queued'
    BY <1>2, <1>4, PutBag DEF Waiting, Queued, AttemptsInv, QueueInv
  <2>3. Carries(w) => worker[w].to = "retry"
    BY DEF Carries, Publish
  <2> QED
    BY <1>1, <2>1, <2>2, <2>3, StepKeepsTask DEF KeepsMessage
<1> QED
  BY <1>3, <1>4 DEF Publish

LEMMA TaskCrash ==
  ASSUME Tame, TaskInv, NEW w \in Workers, Crash(w)
  PROVE  IndexingHasTask'
<1> USE DEF TaskInv
<1> w \in Workers
  BY DEF Workers
<1>1. KeepsMessage(w) /\ UNCHANGED <<doc, client, retry>> /\ main' = Redelivered(w)
  BY KeepsCrash DEF Crash
<1>2. \A x \in Msg : Waiting(x) => Waiting(x)'
  BY <1>1, RedeliveredBag, AttemptsInv_Types DEF Waiting
<1>4. w \in IndexWorkers => Queued'
  BY <1>1, RedeliverQueued DEF Crash
<1> QED
  BY <1>1, <1>2, <1>4, StepKeepsTask DEF KeepsMessage

LEMMA TaskMarkDeindexing ==
  ASSUME Tame, TaskInv, NEW w \in DeleteWorkers, MarkDeindexing(w)
  PROVE  IndexingHasTask'
<1> USE DEF TaskInv
<1> w \in Workers
  BY DEF Workers
<1>1. KeepsMessage(w) /\ UNCHANGED <<main, retry, client>>
  BY KeepsMarkDeindexing DEF MarkDeindexing, queues
<1>2. CASE UNCHANGED doc
  BY <1>1, <1>2, QuietStep, WorkersAssumption
<1>3. CASE doc'.status \in {"inactive", "deindexing", "gone"}
  BY <1>3, NotIndexing
<1> QED
  BY <1>2, <1>3 DEF MarkDeindexing, AttemptsInv, DocInv, DocState

LEMMA TaskFinishDeindex ==
  ASSUME Tame, TaskInv, NEW w \in DeleteWorkers, FinishDeindex(w)
  PROVE  IndexingHasTask'
<1> USE DEF TaskInv
<1> w \in Workers
  BY DEF Workers
<1>1. KeepsMessage(w) /\ UNCHANGED <<main, retry, client>>
  BY KeepsFinishDeindex DEF FinishDeindex, queues
<1>2. CASE UNCHANGED doc
  BY <1>1, <1>2, QuietStep, WorkersAssumption
<1>3. CASE doc'.status \in {"inactive", "deindexing", "gone"}
  BY <1>3, NotIndexing
<1> QED
  BY <1>2, <1>3 DEF FinishDeindex, BackOffline, AttemptsInv, DocInv, DocState

LEMMA TaskRetryDelete ==
  ASSUME Tame, TaskInv, NEW w \in DeleteWorkers, RetryDelete(w)
  PROVE  IndexingHasTask'
<1> USE DEF TaskInv
<1> w \in Workers
  BY DEF Workers
<1>1. KeepsMessage(w) /\ UNCHANGED <<main, retry, client>>
  BY KeepsRetryDelete DEF RetryDelete, queues
<1>2. CASE UNCHANGED doc
  BY <1>1, <1>2, QuietStep, WorkersAssumption
<1>3. CASE doc'.status \in {"inactive", "deindexing", "gone"}
  BY <1>3, NotIndexing
<1> QED
  BY <1>2, <1>3 DEF RetryDelete, BackOffline, AttemptsInv, DocInv, DocState

LEMMA TaskRemoveDocument ==
  ASSUME Tame, TaskInv, NEW w \in DeleteWorkers, RemoveDocument(w)
  PROVE  IndexingHasTask'
<1> USE DEF TaskInv
<1> w \in Workers
  BY DEF Workers
<1>1. KeepsMessage(w) /\ UNCHANGED <<main, retry, client>>
  BY KeepsRemoveDocument DEF RemoveDocument, queues
<1>2. CASE UNCHANGED doc
  BY <1>1, <1>2, QuietStep, WorkersAssumption
<1>3. CASE doc'.status \in {"inactive", "deindexing", "gone"}
  BY <1>3, NotIndexing
<1> QED
  BY <1>2, <1>3 DEF RemoveDocument, AttemptsInv, DocInv, DocState

LEMMA TaskFindForIndex ==
  ASSUME Tame, TaskInv, NEW w \in IndexWorkers, NEW m \in Msg, FindForIndex(w, m)
  PROVE  IndexingHasTask'
<1> USE DEF TaskInv
<1> w \in Workers
  BY DEF Workers
<1>1. /\ Receive(w, m, Routed(m))
      /\ m.kind = "index" /\ UNCHANGED <<doc, retry, client>>
  BY DEF FindForIndex, Fault, Tame
<1>2. CASE Indexing
  <2>1. Routed(m).pc = "claim"
    BY <1>2 DEF Indexing, Routed, Absent, Idle
  <2>2. worker'[w].pc = "claim"
    BY <1>1, <2>1, RoutedSound DEF Receive, AttemptsInv, QueueInv, WorkerInv, Sound,
           WorkerState
  <2>3. Carries(w)'
    BY <1>1, <1>2, <2>2 DEF Carries, Indexing
  <2> QED
    BY <2>3, CarriedOn
<1>3. CASE ~Indexing
  BY <1>1, <1>3, NotIndexing DEF Indexing
<1> QED
  BY <1>2, <1>3

LEMMA TaskFindForDelete ==
  ASSUME Tame, TaskInv, NEW w \in DeleteWorkers, NEW m \in Msg, FindForDelete(w, m)
  PROVE  IndexingHasTask'
<1> USE DEF TaskInv
<1> w \in Workers
  BY DEF Workers
<1>1. /\ m.kind # "index" /\ UNCHANGED <<doc, retry, client>>
      /\ main' = Take(main, m) /\ main[m] > 0
      /\ \A v \in Workers \ {w} : worker'[v] = worker[v]
  BY DEF FindForDelete, Receive, AttemptsInv, WorkerInv, WorkerState
<1>2. \A x \in Msg : x.kind = "index" /\ Waiting(x) => Waiting(x)'
  BY <1>1, TakeBag DEF Waiting, AttemptsInv, QueueInv
<1> QED
  BY <1>1, <1>2, StepKeepsTask, WorkersAssumption

\* A step of client c that leaves the consumers and the row's status and token
\* alone.
LEMMA ClientKeepsTask ==
  ASSUME IndexingHasTask, NEW c \in Clients,
         \A d \in Clients \ {c} : client'[d] = client[d],
         UNCHANGED <<doc, worker>>,
         \A m \in Msg : Waiting(m) => Waiting(m)',
         Submitting(c) => Submitting(c)' \/ Queued'
  PROVE  IndexingHasTask'
BY DEF IndexingHasTask, Carries, HoldsToken, Submitting, Queued

LEMMA ClientSubmits ==
  ASSUME NEW c \in Clients, Submitting(c)'
  PROVE  IndexingHasTask'
BY DEF IndexingHasTask

LEMMA ClientStepsOn ==
  ASSUME AttemptsInv, NEW c \in Clients
  PROVE  /\ Rest(c) => \A d \in Clients \ {c} : client'[d] = client[d]
         /\ \A pc, m, seen : ClientAt(c, pc, m, seen) =>
              /\ \A d \in Clients \ {c} : client'[d] = client[d]
              /\ client'[c].pc = pc /\ client'[c].msg = m
         /\ \A pc : client' = [client EXCEPT ![c].pc = pc] =>
              /\ \A d \in Clients \ {c} : client'[d] = client[d]
              /\ client'[c].pc = pc /\ client'[c].msg = client[c].msg
BY DEF AttemptsInv, ClientInv, ClientState, Rest, ClientAt

LEMMA TaskUpload ==
  ASSUME Tame, TaskInv, NEW c \in Clients, Upload(c)
  PROVE  IndexingHasTask'
<1> USE DEF TaskInv
<1>1. PICK pc, m : /\ pc \in {"publish", "map"}
                   /\ ClientAt(c, pc, m, "none")
                   /\ m.kind = "index"
  BY DEF Upload, Create, Task
<1>2. Submitting(c)'
  BY <1>1, ClientStepsOn DEF Submitting
<1> QED
  BY <1>2, ClientSubmits

LEMMA TaskFirstUpsert ==
  ASSUME Tame, TaskInv, NEW c \in Clients, FirstUpsert(c)
  PROVE  IndexingHasTask'
<1> USE DEF TaskInv
<1>1. PICK pc, m : /\ pc \in {"publish", "map"}
                   /\ ClientAt(c, pc, m, "none")
                   /\ m.kind = "index"
  BY DEF FirstUpsert, Create, Task
<1>2. Submitting(c)'
  BY <1>1, ClientStepsOn DEF Submitting
<1> QED
  BY <1>2, ClientSubmits

LEMMA TaskDelete ==
  ASSUME Tame, TaskInv, NEW c \in Clients, Delete(c)
  PROVE  IndexingHasTask'
<1> USE DEF TaskInv
<1>1. UNCHANGED <<doc, worker, main, retry>> /\ ~Submitting(c)
  BY DEF Delete, Call, Submitting, queues
<1>2. Rest(c) \/ UNCHANGED client \/ \E pc, m, seen : ClientAt(c, pc, m, seen)
  BY DEF Delete
<1>3. \A d \in Clients \ {c} : client'[d] = client[d]
  BY <1>2, ClientStepsOn
<1>4. \A m \in Msg : Waiting(m) => Waiting(m)'
  BY <1>1 DEF Waiting
<1> QED
  BY <1>1, <1>3, <1>4, ClientKeepsTask

LEMMA TaskReindex ==
  ASSUME Tame, TaskInv, NEW c \in Clients, Reindex(c)
  PROVE  IndexingHasTask'
<1> USE DEF TaskInv
<1>1. UNCHANGED <<doc, worker, main, retry>> /\ ~Submitting(c)
  BY DEF Reindex, Call, Submitting, queues
<1>2. Rest(c) \/ UNCHANGED client \/ \E pc, m, seen : ClientAt(c, pc, m, seen)
  BY DEF Reindex
<1>3. \A d \in Clients \ {c} : client'[d] = client[d]
  BY <1>2, ClientStepsOn
<1>4. \A m \in Msg : Waiting(m) => Waiting(m)'
  BY <1>1 DEF Waiting
<1> QED
  BY <1>1, <1>3, <1>4, ClientKeepsTask

LEMMA TaskUpsert ==
  ASSUME Tame, TaskInv, NEW c \in Clients, Upsert(c)
  PROVE  IndexingHasTask'
<1> USE DEF TaskInv
<1>1. UNCHANGED <<doc, worker, main, retry>> /\ ~Submitting(c)
  BY DEF Upsert, Call, Submitting, queues
<1>2. Rest(c) \/ UNCHANGED client \/ \E pc, m, seen : ClientAt(c, pc, m, seen)
  BY DEF Upsert
<1>3. \A d \in Clients \ {c} : client'[d] = client[d]
  BY <1>2, ClientStepsOn
<1>4. \A m \in Msg : Waiting(m) => Waiting(m)'
  BY <1>1 DEF Waiting
<1> QED
  BY <1>1, <1>3, <1>4, ClientKeepsTask

LEMMA TaskMissing ==
  ASSUME Tame, TaskInv, NEW c \in Clients, Missing(c)
  PROVE  IndexingHasTask'
<1> USE DEF TaskInv
<1>1. UNCHANGED <<doc, worker, main, retry>> /\ ~Submitting(c)
  BY DEF Missing, Call, Submitting, queues
<1>2. Rest(c) \/ UNCHANGED client \/ \E pc, m, seen : ClientAt(c, pc, m, seen)
  BY DEF Missing
<1>3. \A d \in Clients \ {c} : client'[d] = client[d]
  BY <1>2, ClientStepsOn
<1>4. \A m \in Msg : Waiting(m) => Waiting(m)'
  BY <1>1 DEF Waiting
<1> QED
  BY <1>1, <1>3, <1>4, ClientKeepsTask

LEMMA TaskMissingFound ==
  ASSUME Tame, TaskInv, NEW c \in Clients, MissingFound(c)
  PROVE  IndexingHasTask'
<1> USE DEF TaskInv
<1>1. UNCHANGED <<doc, worker, main, retry>> /\ ~Submitting(c)
  BY DEF MissingFound, Call, Submitting, queues
<1>2. Rest(c) \/ UNCHANGED client \/ \E pc, m, seen : ClientAt(c, pc, m, seen)
  BY DEF MissingFound
<1>3. \A d \in Clients \ {c} : client'[d] = client[d]
  BY <1>2, ClientStepsOn
<1>4. \A m \in Msg : Waiting(m) => Waiting(m)'
  BY <1>1 DEF Waiting
<1> QED
  BY <1>1, <1>3, <1>4, ClientKeepsTask

LEMMA TaskUpdateStatus ==
  ASSUME Tame, TaskInv, NEW c \in Clients, UpdateStatus(c)
  PROVE  IndexingHasTask'
<1> USE DEF TaskInv
<1>1. UNCHANGED <<worker, main, retry>> /\ ~Submitting(c)
  BY DEF UpdateStatus, Submitting, queues
<1>2. client[c].msg.kind \in {"index", "delete", "deindex"}
  BY MsgFields DEF AttemptsInv, ClientInv, ClientState
<1>3. \/ UNCHANGED doc /\ Rest(c)
      \/ /\ doc' = Reset(client[c].msg.kind)
         /\ \E pc \in {"map", "publish"} : client' = [client EXCEPT ![c].pc = pc]
  BY DEF UpdateStatus
<1>4. \A d \in Clients \ {c} : client'[d] = client[d]
  BY <1>3, ClientStepsOn
<1>5. \A m \in Msg : Waiting(m) => Waiting(m)'
  BY <1>1 DEF Waiting
<1>6. CASE UNCHANGED doc
  BY <1>1, <1>4, <1>5, <1>6, ClientKeepsTask
<1>7. CASE doc' # doc /\ client[c].msg.kind = "index"
  <2>1. Submitting(c)'
    BY <1>3, <1>7, ClientStepsOn DEF Submitting
  <2> QED
    BY <2>1, ClientSubmits
<1>8. CASE doc' # doc /\ client[c].msg.kind # "index"
  <2>1. doc' = Reset(client[c].msg.kind)
    BY <1>3, <1>8
  <2>2. doc'.status \in {"deleting", "inactive"}
    BY <1>2, <1>8, <2>1 DEF Reset, AttemptsInv, DocInv, DocState
  <2> QED
    BY <2>2, NotIndexing
<1> QED
  BY <1>6, <1>7, <1>8

LEMMA TaskSaveMapping ==
  ASSUME Tame, TaskInv, NEW c \in Clients, SaveMapping(c)
  PROVE  IndexingHasTask'
<1> USE DEF TaskInv
<1>1. UNCHANGED <<doc, worker, main, retry>>
      /\ client' = [client EXCEPT ![c].pc = "publish"]
  BY DEF SaveMapping, queues
<1>2. Submitting(c) => Submitting(c)'
  BY <1>1, ClientStepsOn DEF Submitting
<1>3. \A m \in Msg : Waiting(m) => Waiting(m)'
  BY <1>1 DEF Waiting
<1> QED
  BY <1>1, <1>2, <1>3, ClientStepsOn, ClientKeepsTask

LEMMA TaskPublishTask ==
  ASSUME Tame, TaskInv, NEW c \in Clients, PublishTask(c)
  PROVE  IndexingHasTask'
<1> USE DEF TaskInv
<1> DEFINE m == client[c].msg
<1>1. UNCHANGED <<doc, worker, retry>>
  BY DEF PublishTask
<1>2. m \in Msg
  BY DEF AttemptsInv, ClientInv, ClientState
<1>3. CASE main' = Put(main, m) /\ Rest(c)
  <2>1. \A x \in Msg : Waiting(x) => Waiting(x)'
    BY <1>1, <1>2, <1>3, PutBag DEF Waiting, AttemptsInv, QueueInv
  <2>2. Submitting(c) => Queued'
    BY <1>1, <1>2, <1>3, PutBag DEF Waiting, Queued, Submitting, AttemptsInv, QueueInv
  <2> QED
    BY <1>1, <1>3, <2>1, <2>2, ClientStepsOn, ClientKeepsTask
<1>4. CASE UNCHANGED main /\ (IF m.kind = "index" \/ m.ext
                              THEN client' = [client EXCEPT ![c].pc = "undo"]
                              ELSE Rest(c))
  <2>1. \A x \in Msg : Waiting(x) => Waiting(x)'
    BY <1>1, <1>4 DEF Waiting
  <2>2. Submitting(c) => client' = [client EXCEPT ![c].pc = "undo"]
    BY <1>4 DEF Submitting
  <2>3. Submitting(c) => Submitting(c)'
    BY <2>2, ClientStepsOn DEF Submitting
  <2>4. \A d \in Clients \ {c} : client'[d] = client[d]
    BY <1>4, ClientStepsOn
  <2> QED
    BY <1>1, <2>1, <2>3, <2>4, ClientKeepsTask
<1> QED
  BY <1>3, <1>4 DEF PublishTask

LEMMA TaskUndoPublish ==
  ASSUME Tame, TaskInv, NEW c \in Clients, UndoPublish(c)
  PROVE  IndexingHasTask'
<1> USE DEF TaskInv
<1>1. UNCHANGED <<worker, main, retry>> /\ Rest(c)
  BY DEF UndoPublish, queues
<1>2. CASE doc' = [doc EXCEPT !.status = "failed", !.lease = "none"]
  <2>1. doc'.status = "failed"
    BY <1>2 DEF AttemptsInv, DocInv, DocState
  <2> QED
    BY <2>1, NotIndexing
<1>3. CASE UNCHANGED doc /\ (client[c].msg.kind # "index" \/ Absent)
  <2>1. \A x \in Msg : Waiting(x) => Waiting(x)'
    BY <1>1 DEF Waiting
  <2>2. CASE client[c].msg.kind # "index"
    <3>1. ~Submitting(c)
      BY <2>2 DEF Submitting
    <3> QED
      BY <1>1, <1>3, <2>1, <3>1, ClientStepsOn, ClientKeepsTask
  <2>3. CASE Absent
    BY <1>3, <2>3, NotIndexing DEF Absent
  <2> QED
    BY <1>3, <2>2, <2>3
<1> QED
  BY <1>2, <1>3 DEF UndoPublish

LEMMA TaskRetryDelayExpires ==
  ASSUME TaskInv, NEW m \in Msg, RetryDelayExpires(m)
  PROVE  IndexingHasTask'
<1>1. \A x \in Msg : Waiting(x) => Waiting(x)'
  BY PutBag, TakeBag DEF RetryDelayExpires, Waiting, TaskInv, AttemptsInv, QueueInv
<1> QED
  BY <1>1 DEF RetryDelayExpires, TaskInv, IndexingHasTask, Carries, HoldsToken,
         Submitting

LEMMA TaskLeaseRunsOut ==
  ASSUME TaskInv, LeaseExpires \/ LeaseOutrun
  PROVE  IndexingHasTask'
<1>1. /\ doc'.status = doc.status /\ doc'.task = doc.task
      /\ UNCHANGED <<worker, client, main, retry>>
  BY DEF LeaseExpires, LeaseOutrun, LeaseRunsOut, queues, TaskInv, AttemptsInv,
         DocInv, DocState
<1>2. \A x \in Msg : Waiting(x) => Waiting(x)'
  BY <1>1 DEF Waiting
<1> QED
  BY <1>1, <1>2 DEF TaskInv, IndexingHasTask, Carries, HoldsToken, Submitting

LEMMA TaskNext ==
  ASSUME Tame, TaskInv, [Next]_vars
  PROVE  IndexingHasTask'
<1>1. CASE \E w \in IndexWorkers : IndexStep(w)
  BY <1>1, TaskFindForIndex, TaskClaim, TaskReread, TaskCheckToken, TaskWriteRow,
     TaskWriteVector, TaskFailIndex, TaskComplete, TaskRetryIndex DEF IndexStep
<1>2. CASE \E w \in DeleteWorkers : DeleteStep(w)
  BY <1>2, TaskFindForDelete, TaskMarkDeindexing, TaskFinishDeindex, TaskDeleteObject,
     TaskRemoveDocument, TaskRetryDelete DEF DeleteStep
<1>3. CASE \E w \in Workers : CommonStep(w) \/ Crash(w) \/ LoseChannel(w)
  <2>1. PICK w \in Workers : CommonStep(w) \/ Crash(w) \/ LoseChannel(w)
    BY <1>3
  <2>2. ~LoseChannel(w)
    BY DEF LoseChannel, Fault, Tame
  <2> QED
    BY <2>1, <2>2, TaskCleanVectors, TaskCleanRows, TaskMarkExternalDone,
       TaskMarkExternalFailed, TaskPublish, TaskAck, TaskCrash DEF CommonStep
<1>4. CASE \E c \in Clients : ClientStep(c)
  <2>1. PICK c \in Clients : ClientStep(c)
    BY <1>4
  <2>2. ~ClientStops(c)
    BY DEF ClientStops, Fault, Tame
  <2> QED
    BY <2>1, <2>2, TaskUpload, TaskFirstUpsert, TaskDelete, TaskReindex, TaskUpsert,
       TaskMissing, TaskMissingFound, TaskUpdateStatus, TaskSaveMapping, TaskPublishTask,
       TaskUndoPublish DEF ClientStep
<1>5. CASE \/ \E m \in Msg : RetryDelayExpires(m)
           \/ LeaseExpires \/ LeaseOutrun
  BY <1>5, TaskRetryDelayExpires, TaskLeaseRunsOut
<1>6. CASE UNCHANGED vars
  BY <1>6 DEF vars, queues, TaskInv, IndexingHasTask, Waiting, Carries, HoldsToken,
         Submitting
<1> QED
  BY <1>1, <1>2, <1>3, <1>4, <1>5, <1>6 DEF Next

\* No index task is lost: as long as lookups and claims succeed, channels live as
\* long as their handlers and clients finish their calls, a pending or processing
\* document is always being taken on, for any number of workers, clients, retries,
\* crashes, expired leases and failing stores, updates and publishes.
THEOREM NoTaskLost ==
  ASSUME Tame
  PROVE  Spec => []IndexingHasTask
<1>1. Init => TaskInv
  BY AttemptsInit, HeldInit DEF TaskInv, IndexingHasTask, Init
<1>2. TaskInv /\ [Next]_vars => TaskInv'
  BY AttemptsNext, HeldNext, TaskNext DEF TaskInv
<1>3. TaskInv => IndexingHasTask
  BY DEF TaskInv
<1> QED
  BY <1>1, <1>2, <1>3, PTL DEF Spec

=============================================================================
