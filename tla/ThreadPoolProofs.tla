-------------------------- MODULE ThreadPoolProofs --------------------------
(***************************************************************************)
(* Proofs about the thread pool, for any number of producers and tasks,    *)
(* any workers up to the limit, any capacity, and any programs of the      *)
(* controllers.                                                            *)
(*                                                                         *)
(* The tracker's own invariant comes first.  The pool's runs are runs of   *)
(* its queue and of its tracker, so the theorems about these hold inside   *)
(* it; what they say is used to prove where every task is.                 *)
(***************************************************************************)
EXTENDS ThreadPool, FiniteSetTheorems, SequenceTheorems, TLAPS

QueueFacts == INSTANCE ThreadSafeQueueProofs

-----------------------------------------------------------------------------
(***************************************************************************)
(* The metrics on their own: the tracker under any callers, for every      *)
(* capacity, every limit on the workers and every bound on the clock.      *)
(* recordQueueFull keeps the record well-formed and its durations in order *)
(* for every duration, also a negative one.                                *)
(***************************************************************************)
Ordered(s) ==
  s.fullQueueMin <= s.fullQueueMax /\ s.fullQueueMax <= s.fullQueueTime

LEMMA RecordKeepsOrder ==
  ASSUME NEW s \in Tracker!StatsType, Ordered(s), NEW duration \in Int
  PROVE  /\ Tracker!RecordQueueFull(s, duration) \in Tracker!StatsType
         /\ Ordered(Tracker!RecordQueueFull(s, duration))
<1> DEFINE d == IF duration < 0 THEN 0 ELSE duration
           r == Tracker!RecordQueueFull(s, duration)
<1>1. d \in Nat
  OBVIOUS
<1>2. /\ r = [s EXCEPT !.fullQueueTime = s.fullQueueTime + d,
                       !.fullQueueMin = r.fullQueueMin,
                       !.fullQueueMax = r.fullQueueMax]
      /\ r.fullQueueTime = s.fullQueueTime + d
      /\ r.fullQueueMin = IF s.fullQueueMin = 0 \/ d < s.fullQueueMin
                            THEN d ELSE s.fullQueueMin
      /\ r.fullQueueMax = IF d > s.fullQueueMax THEN d ELSE s.fullQueueMax
  BY DEF Tracker!RecordQueueFull, Tracker!StatsType
<1>3. /\ r.fullQueueTime \in Nat
      /\ r.fullQueueMin \in Nat
      /\ r.fullQueueMax \in Nat
  <2> HIDE DEF d, r
  <2> QED
    BY <1>1, <1>2 DEF Tracker!StatsType
<1>4. r \in Tracker!StatsType
  <2> HIDE DEF d, r
  <2> QED
    BY <1>1, <1>2, <1>3 DEF Tracker!StatsType
<1>5. Ordered(r)
  <2> HIDE DEF d, r
  <2> QED
    BY <1>1, <1>2, <1>3 DEF Tracker!StatsType, Ordered
<1> QED
  BY <1>4, <1>5

(***************************************************************************)
(* Both parts are needed to prove either: an interval that ends is added   *)
(* to durations that are in order and natural numbers.                     *)
(***************************************************************************)
TrackerInv == Tracker!TypeOK /\ Ordered(stats)

LEMMA TrackerInvariant == Tracker!Spec => []TrackerInv
<1>0. Capacity \in Nat /\ kWorkerLimit \in Nat /\ MaxTime \in Nat
  BY TrackerAssumption DEF TrackerAssumption, Tracker!StatsAssumption
<1>1. Tracker!Init => TrackerInv
  <2> SUFFICES ASSUME Tracker!Init PROVE TrackerInv
    OBVIOUS
  <2>1. PICK count \in 0..kWorkerLimit :
          stats = [Tracker!InitialStats EXCEPT !.createdThreads = count]
    BY DEF Tracker!Init
  <2>2. stats \in Tracker!StatsType /\ Ordered(stats)
    BY <1>0, <2>1 DEF Tracker!InitialStats, Tracker!StatsType, Ordered
  <2>3. queueFullStart = 0 /\ clock = 0 /\ queueWasFull \in BOOLEAN
    BY DEF Tracker!Init
  <2>4. queueFullStart \in 0..clock /\ clock \in 0..MaxTime
    BY <1>0, <2>3
  <2> QED
    BY <2>2, <2>3, <2>4 DEF TrackerInv, Tracker!TypeOK
<1>2. TrackerInv /\ [Tracker!Next]_Tracker!statsVars => TrackerInv'
  <2> SUFFICES ASSUME TrackerInv, [Tracker!Next]_Tracker!statsVars PROVE TrackerInv'
    OBVIOUS
  <2> USE <1>0 DEF TrackerInv, Tracker!TypeOK
  <2>1. CASE Tracker!Tick
    BY <2>1 DEF Tracker!Tick
  <2>2. CASE Tracker!RecordWaitTime
    BY <2>2 DEF Tracker!RecordWaitTime, Tracker!Record, Tracker!StatsType, Ordered
  <2>3. CASE Tracker!RecordDroppedTask
    BY <2>3 DEF Tracker!RecordDroppedTask, Tracker!Record, Tracker!StatsType, Ordered
  <2>4. ASSUME NEW now \in 0..clock, Tracker!CloseInterval(now) PROVE TrackerInv'
    <3>1. now - queueFullStart \in Int
      OBVIOUS
    <3>2. stats' \in Tracker!StatsType /\ Ordered(stats')
      BY <2>4, <3>1, RecordKeepsOrder DEF Tracker!CloseInterval
    <3> QED
      BY <2>4, <3>2 DEF Tracker!CloseInterval
  <2>5. ASSUME NEW now \in 0..clock, NEW n \in 0..Capacity,
               Tracker!NoteQueueFullIfNeeded(n, now)
        PROVE  TrackerInv'
    BY <2>5 DEF Tracker!NoteQueueFullIfNeeded, Tracker!statsVars
  <2>6. CASE UNCHANGED Tracker!statsVars
    BY <2>6 DEF Tracker!statsVars
  <2>7. ASSUME NEW now \in 0..clock, NEW n \in 0..Capacity,
               \/ Tracker!NoteQueueNotFullIfNeeded(n, now)
               \/ Tracker!FinalizeQueueFullIfNeeded(now)
        PROVE  TrackerInv'
    BY <2>4, <2>6, <2>7
       DEF Tracker!NoteQueueNotFullIfNeeded, Tracker!FinalizeQueueFullIfNeeded
  <2> QED
    BY <2>1, <2>2, <2>3, <2>5, <2>6, <2>7 DEF Tracker!Next
<1> QED
  BY <1>1, <1>2, PTL DEF Tracker!Spec

(***************************************************************************)
(* The record stays well-formed, no duration in it is negative, and no     *)
(* interval starts in the future.                                          *)
(***************************************************************************)
THEOREM TrackerTypeCorrect == Tracker!Spec => []Tracker!TypeOK
<1>1. TrackerInv => Tracker!TypeOK
  BY DEF TrackerInv
<1> QED
  BY <1>1, TrackerInvariant, PTL

(***************************************************************************)
(* Shortest <= longest <= total, however old the times are that the        *)
(* tracker's callers pass.                                                 *)
(***************************************************************************)
THEOREM TrackerKeepsOrder == Tracker!Spec => []Tracker!DurationsOrdered
<1>1. TrackerInv => Tracker!DurationsOrdered
  BY DEF TrackerInv, Ordered, Tracker!DurationsOrdered
<1> QED
  BY <1>1, TrackerInvariant, PTL

-----------------------------------------------------------------------------
(***************************************************************************)
(* Where the threads are.                                                  *)
(***************************************************************************)
WorkerLabel == {"loop", "pop", "record", "note", "task", "check", "work", "exit"}
ProducerLabel == {"call", "push", "accepted", "refused", "drop"}

Positions ==
  /\ pc \in [Worker \cup Producer -> WorkerLabel \cup ProducerLabel]
  /\ index \in [Producer -> 1..(TasksPerProducer + 1)]
  /\ \A w \in Worker : pc[w] \in WorkerLabel
  /\ \A p \in Producer : pc[p] \in ProducerLabel
  /\ \A p \in Producer : pc[p] # "call" => index[p] <= TasksPerProducer

LEMMA PositionsInit == Init => Positions
  BY ThreadsAssumption, BoundsAssumption
     DEF Init, Positions, WorkerLabel, ProducerLabel, ThreadsAssumption, BoundsAssumption

LEMMA WorkerMoves ==
  ASSUME Positions, NEW w \in Worker, NEW label \in WorkerLabel, Goto(w, label),
         UNCHANGED index
  PROVE  Positions'
  BY ThreadsAssumption DEF Positions, Goto, ThreadsAssumption

LEMMA PositionsStep == Positions /\ [Next]_vars => Positions'
<1> SUFFICES ASSUME Positions, [Next]_vars PROVE Positions'
  OBVIOUS
<1>1. CASE UNCHANGED <<pc, index>>
  BY <1>1 DEF Positions
<1>2. ASSUME NEW w \in Worker, WorkerStep(w)
      PROVE  Positions'
  <2>1. UNCHANGED index
    BY <1>2 DEF WorkerStep, CallWaitPop, BlockInWaitPop, TakeTask, TakeNothing, RecordWait,
                NoteNotFull, StartTask, FirstPoll, CancelTask, FinishTask, EndTask, localVars
  <2>2. UNCHANGED pc \/ \E label \in WorkerLabel : Goto(w, label)
    BY <1>2 DEF WorkerStep, CallWaitPop, BlockInWaitPop, TakeTask, TakeNothing, RecordWait,
                NoteNotFull, StartTask, FirstPoll, CancelTask, FinishTask, EndTask, localVars,
                WorkerLabel
  <2> QED
    BY <1>1, <2>1, <2>2, WorkerMoves
<1>3. ASSUME NEW p \in Producer, ProducerStep(p)
      PROVE  Positions'
  <2>1. CASE CallEnqueue(p)
    BY <2>1, ThreadsAssumption
       DEF CallEnqueue, Goto, Positions, ProducerLabel, ThreadsAssumption
  <2>2. CASE PushTask(p)
    BY <2>2, ThreadsAssumption
       DEF PushTask, Goto, Positions, ProducerLabel, ThreadsAssumption
  <2>3. CASE pc[p] # "call" /\ NextTask(p)
    BY <2>3, ThreadsAssumption, BoundsAssumption
       DEF NextTask, Goto, Positions, ProducerLabel, ThreadsAssumption, BoundsAssumption
  <2>4. CASE pc[p] = "refused" /\ Goto(p, "drop") /\ UNCHANGED index
    BY <2>4, ThreadsAssumption DEF Goto, Positions, ProducerLabel, ThreadsAssumption
  <2> QED
    BY <1>3, <2>1, <2>2, <2>3, <2>4 DEF ProducerStep, NoteFull, DropTask
<1>4. ASSUME NEW c \in Controller, ControllerStep(c)
      PROVE  UNCHANGED <<pc, index>>
  BY <1>4 DEF ControllerStep, QueueCall, Notify, SetStopNow, ReadClock, Finalize, Join,
              JoinProducers, Snapshot, ThreadLocals, localVars
<1> QED
  BY <1>1, <1>2, <1>3, <1>4
     DEF Next, Finished, WakeSpuriously, Tick, vars, localVars

LEMMA PositionsAlways == Spec => []Positions
  BY PositionsInit, PositionsStep, PTL DEF Spec

LEMMA TaskParts ==
  /\ \A p \in Producer, i \in 1..TasksPerProducer : <<p, i>> \in Task
  /\ \A t \in Task : /\ t[1] \in Producer /\ t[2] \in 1..TasksPerProducer
                     /\ t = <<t[1], t[2]>>
  BY DEF Task

LEMMA CurrentTask ==
  ASSUME Positions, NEW p \in Producer, pc[p] # "call"
  PROVE  <<p, index[p]>> \in Task
<1>1. index[p] \in 1..TasksPerProducer
  BY BoundsAssumption DEF Positions, BoundsAssumption
<1> QED
  BY <1>1, TaskParts

-----------------------------------------------------------------------------
(***************************************************************************)
(* The pool is a client of its queue.                                      *)
(***************************************************************************)
LEMMA QueueStep == Positions /\ [Next]_vars => [Queue!Next]_queueVars
<1> SUFFICES ASSUME Positions, [Next]_vars PROVE [Queue!Next]_queueVars
  OBVIOUS
<1>1. ASSUME NEW w \in Worker, WorkerStep(w) \/ WakeSpuriously(w)
      PROVE  [Queue!Next]_queueVars
  <2>1. w \in Thread
    BY DEF Thread
  <2>2. \/ Queue!EnterWaitPop(w) \/ Queue!FinishWaitPop(w) \/ Queue!SpuriousWake(w)
        \/ UNCHANGED queueVars
    BY <1>1 DEF WorkerStep, WakeSpuriously, CallWaitPop, BlockInWaitPop, TakeTask,
                TakeNothing, RecordWait, NoteNotFull, StartTask, FirstPoll, CancelTask,
                FinishTask, EndTask, Queue!FinishWaitPop
  <2> QED
    BY <2>1, <2>2 DEF Queue!Next
<1>2. ASSUME NEW p \in Producer, ProducerStep(p)
      PROVE  [Queue!Next]_queueVars
  <2>1. p \in Thread
    BY DEF Thread
  <2>2. CASE PushTask(p)
    <3>1. <<p, index[p]>> \in Task
      BY <2>2, CurrentTask DEF PushTask
    <3>2. Queue!Push(p, <<p, index[p]>>) \/ UNCHANGED queueVars
      BY <2>2 DEF PushTask, Queue!PushRefused, Queue!queueVars, queueVars
    <3> QED
      BY <2>1, <3>1, <3>2 DEF Queue!Next
  <2> QED
    BY <1>2, <2>2 DEF ProducerStep, CallEnqueue, NoteFull, DropTask
<1>3. ASSUME NEW c \in Controller, ControllerStep(c)
      PROVE  [Queue!Next]_queueVars
  <2>1. c \in Thread
    BY DEF Thread
  <2>2. \/ Queue!Pause(c) \/ Queue!Resume(c) \/ Queue!StopGraceful(c) \/ Queue!StopNow(c)
        \/ Queue!NotifyAll(c) \/ UNCHANGED queueVars
    BY <1>3 DEF ControllerStep, QueueCall, Notify, SetStopNow, ReadClock, Finalize, Join,
                JoinProducers, Snapshot
  <2> QED
    BY <2>1, <2>2 DEF Queue!Next
<1> QED
  BY <1>1, <1>2, <1>3 DEF Next, Finished, Tick, vars

(***************************************************************************)
(* The pool's actions are composed of the queue's, so a run of the pool is *)
(* one of ThreadSafeQueue, and the queue's theorems hold in it.            *)
(***************************************************************************)
LEMMA PoolUsesQueue == Spec => Queue!Spec
<1>1. Init => Queue!Init
  BY DEF Init
<1>2. [Queue!Next]_queueVars => [Queue!Next]_Queue!queueVars
  BY DEF queueVars, Queue!queueVars
<1> QED
  BY <1>1, <1>2, QueueStep, PositionsAlways, PTL DEF Spec, Queue!Spec

-----------------------------------------------------------------------------
(***************************************************************************)
(* What the theorems about the queue say inside the pool.                  *)
(***************************************************************************)
LEMMA QueueAssumptions ==
  QueueFacts!ThreadAssumption /\ QueueFacts!CapacityAssumption
<1>1. IsFiniteSet(Thread)
  BY FS_Union, ThreadsAssumption, WorkerAssumption
     DEF Thread, ThreadsAssumption, WorkerAssumption
<1>2. QueueFacts!IsFiniteSet(Thread)
  BY <1>1 DEF QueueFacts!IsFiniteSet, IsFiniteSet
<1> QED
  BY <1>2, BoundsAssumption
     DEF QueueFacts!ThreadAssumption, QueueFacts!CapacityAssumption, BoundsAssumption

LEMMA QueueTheorems == Spec => QueueFacts!Spec
<1>1. Queue!Init => QueueFacts!Init
  BY DEF Queue!Init, QueueFacts!Init
<1>2. [Queue!Next]_Queue!queueVars => [QueueFacts!Next]_QueueFacts!queueVars
  BY DEF Queue!Next, Queue!queueVars, Queue!Push, Queue!EnterWaitPop, Queue!FinishWaitPop,
         Queue!Sleep, Queue!PopTask, Queue!PopNothing, Queue!SpuriousWake, Queue!Pause,
         Queue!Resume, Queue!StopGraceful, Queue!StopNow, Queue!NotifyAll, Queue!Idle,
         Queue!Accepts, Queue!NotifyOne, Queue!Awake, Queue!WakeCondition,
         QueueFacts!Next, QueueFacts!queueVars, QueueFacts!Push, QueueFacts!EnterWaitPop,
         QueueFacts!FinishWaitPop, QueueFacts!Sleep, QueueFacts!PopTask,
         QueueFacts!PopNothing, QueueFacts!SpuriousWake, QueueFacts!Pause,
         QueueFacts!Resume, QueueFacts!StopGraceful, QueueFacts!StopNow,
         QueueFacts!NotifyAll, QueueFacts!Idle, QueueFacts!Accepts,
         QueueFacts!NotifyOne, QueueFacts!Awake, QueueFacts!WakeCondition
<1> QED
  BY <1>1, <1>2, PoolUsesQueue, PTL DEF Queue!Spec, QueueFacts!Spec

LEMMA QueueTypes == Spec => []Queue!TypeOK
<1>1. QueueFacts!Spec => []QueueFacts!TypeOK
  BY QueueAssumptions, QueueFacts!TypeCorrect
<1>2. QueueFacts!TypeOK => Queue!TypeOK
  BY DEF QueueFacts!TypeOK, Queue!TypeOK
<1> QED
  BY <1>1, <1>2, QueueTheorems, PTL

(***************************************************************************)
(* No worker of the pool is left asleep beside a queue it could drain: the *)
(* property of waitPop, push and the notifications holds for the threads   *)
(* of the pool, whatever the controllers do.                               *)
(***************************************************************************)
THEOREM PoolLosesNoWakeup == Spec => []Queue!NoLostWakeup
<1>1. QueueFacts!Spec => []QueueFacts!NoLostWakeup
  BY QueueAssumptions, QueueFacts!WakeupsAreNotLost
<1>2. QueueFacts!NoLostWakeup => Queue!NoLostWakeup
  BY DEF QueueFacts!NoLostWakeup, Queue!NoLostWakeup, QueueFacts!Cardinality, Queue!Cardinality
<1> QED
  BY <1>1, <1>2, QueueTheorems, PTL

(***************************************************************************)
(* A shutdown reaches every worker: once its notify_all has been made no   *)
(* worker of the pool sleeps, unless the pool was paused again.            *)
(***************************************************************************)
THEOREM PoolStopWakesWorkers == Spec => []Queue!StopWakesEveryone
<1>1. QueueFacts!Spec => []QueueFacts!StopWakesEveryone
  BY QueueAssumptions, QueueFacts!StopsWakeEveryone
<1>2. QueueFacts!StopWakesEveryone => Queue!StopWakesEveryone
  BY DEF QueueFacts!StopWakesEveryone, Queue!StopWakesEveryone
<1> QED
  BY <1>1, <1>2, QueueTheorems, PTL

(***************************************************************************)
(* A stop of the pool is final: whatever producers, workers and a second   *)
(* shutdown do later, the queue accepts no further task, and after an      *)
(* immediate one it stays empty.                                           *)
(***************************************************************************)
THEOREM PoolStopIsFinal == Spec => Queue!StopIsFinal
<1>1. QueueFacts!Spec => QueueFacts!StopIsFinal
  BY QueueAssumptions, QueueFacts!StopsAreFinal
<1> DEFINE Final == /\ stop => stop' /\ Len(tasks') <= Len(tasks)
                    /\ stopNowFlag => stopNowFlag' /\ tasks' = <<>>
<1>2. [Final]_QueueFacts!queueVars => [Final]_Queue!queueVars
  BY DEF QueueFacts!queueVars, Queue!queueVars
<1> QED
  BY <1>1, <1>2, QueueTheorems, PTL DEF QueueFacts!StopIsFinal, Queue!StopIsFinal

-----------------------------------------------------------------------------
(***************************************************************************)
(* What the threads pass to the tracker: times read before, and sizes the  *)
(* queue had.                                                              *)
(***************************************************************************)
Readings ==
  /\ clock \in Nat
  /\ stamp \in [Thread -> Nat]
  /\ \A t \in Thread : stamp[t] <= clock
  /\ size \in [Worker \cup Producer -> Nat]
  /\ \A t \in Worker \cup Producer : size[t] <= Capacity
  /\ Len(tasks) <= Capacity

LEMMA ReadingsInit == Init => Readings
  BY BoundsAssumption, EmptySeq
     DEF Init, Readings, Queue!Init, BoundsAssumption, Thread

\* A thread may clear its reading or read the clock anew.
LEMMA ReadingsUpdate ==
  ASSUME Readings, NEW t \in Thread, NEW now \in {0, clock}
  PROVE  /\ [stamp EXCEPT ![t] = now] \in [Thread -> Nat]
         /\ \A u \in Thread : [stamp EXCEPT ![t] = now][u] <= clock
  BY DEF Readings

LEMMA SizeUpdate ==
  ASSUME Readings, NEW t \in Worker \cup Producer, NEW n \in 0..Capacity
  PROVE  /\ [size EXCEPT ![t] = n] \in [Worker \cup Producer -> Nat]
         /\ \A u \in Worker \cup Producer : [size EXCEPT ![t] = n][u] <= Capacity
  BY BoundsAssumption DEF Readings, BoundsAssumption

\* What a critical section of the queue does to the number of its tasks.
LEMMA LengthStep ==
  ASSUME Queue!TypeOK, [Queue!Next]_queueVars, Len(tasks) <= Capacity
  PROVE  Len(tasks') \in 0..Capacity
<1>1. Len(tasks) \in Nat
  BY LenProperties DEF Queue!TypeOK
<1>2. CASE UNCHANGED tasks
  BY <1>1, <1>2, BoundsAssumption DEF BoundsAssumption
<1>3. ASSUME NEW t \in Thread, NEW task \in Task, Queue!Push(t, task)
      PROVE  Len(tasks') \in 0..Capacity
  BY <1>1, <1>3, AppendProperties, BoundsAssumption
     DEF Queue!Push, Queue!Accepts, Queue!TypeOK, BoundsAssumption
<1>4. ASSUME NEW t \in Thread, Queue!PopTask(t)
      PROVE  Len(tasks') \in 0..Capacity
  BY <1>1, <1>4, HeadTailProperties, BoundsAssumption
     DEF Queue!PopTask, Queue!TypeOK, BoundsAssumption
<1>5. ASSUME NEW t \in Thread, Queue!StopNow(t)
      PROVE  Len(tasks') \in 0..Capacity
  BY <1>5, EmptySeq, BoundsAssumption DEF Queue!StopNow, BoundsAssumption
<1> QED
  BY <1>2, <1>3, <1>4, <1>5
     DEF Queue!Next, Queue!FinishWaitPop, Queue!Sleep, Queue!PopNothing, queueVars,
         Queue!EnterWaitPop, Queue!SpuriousWake, Queue!Pause, Queue!Resume,
         Queue!StopGraceful, Queue!NotifyAll

LEMMA ReadingsStep ==
  ASSUME Positions, Queue!TypeOK, Readings, [Next]_vars
  PROVE  Readings'
<1>1. Len(tasks') \in 0..Capacity
  BY QueueStep, LengthStep DEF Readings
<1>2. clock' \in Nat /\ clock <= clock'
  <2>1. UNCHANGED clock \/ Tracker!Tick
    BY DEF Next, Finished, WorkerStep, WakeSpuriously, CallWaitPop, BlockInWaitPop,
           TakeTask, TakeNothing, RecordWait, NoteNotFull, StartTask, FirstPoll,
           CancelTask, FinishTask, EndTask, ProducerStep, CallEnqueue, PushTask, NoteFull,
           DropTask, ControllerStep, QueueCall, Notify, SetStopNow, ReadClock, Finalize,
           Join, JoinProducers, Snapshot, Tick, vars, statsVars,
           Tracker!RecordWaitTime, Tracker!RecordDroppedTask, Tracker!Record,
           Tracker!NoteQueueFullIfNeeded, Tracker!NoteQueueNotFullIfNeeded,
           Tracker!FinalizeQueueFullIfNeeded, Tracker!CloseInterval, Tracker!statsVars
  <2> QED
    BY <2>1 DEF Tracker!Tick, Readings
<1>3. UNCHANGED stamp
      \/ \E t \in Thread, now \in {0, clock} : stamp' = [stamp EXCEPT ![t] = now]
  BY DEF Next, Finished, WorkerStep, WakeSpuriously, CallWaitPop, BlockInWaitPop,
         TakeTask, TakeNothing, RecordWait, NoteNotFull, StartTask, FirstPoll,
         CancelTask, FinishTask, EndTask, ProducerStep, CallEnqueue, PushTask, NoteFull,
         DropTask, ControllerStep, QueueCall, Notify, SetStopNow, ReadClock, Finalize,
         Join, JoinProducers, Snapshot, Tick, vars, localVars, ThreadLocals, Thread
<1>4. UNCHANGED size
      \/ \E t \in Worker \cup Producer, n \in {0, Len(tasks')} :
           size' = [size EXCEPT ![t] = n]
  BY DEF Next, Finished, WorkerStep, WakeSpuriously, CallWaitPop, BlockInWaitPop,
         TakeTask, TakeNothing, RecordWait, NoteNotFull, StartTask, FirstPoll,
         CancelTask, FinishTask, EndTask, ProducerStep, CallEnqueue, PushTask, NoteFull,
         DropTask, ControllerStep, QueueCall, Notify, SetStopNow, ReadClock, Finalize,
         Join, JoinProducers, Snapshot, Tick, vars, localVars, ThreadLocals
<1>5. stamp' \in [Thread -> Nat] /\ \A u \in Thread : stamp'[u] <= clock
  BY <1>3, ReadingsUpdate DEF Readings
<1>6. /\ size' \in [Worker \cup Producer -> Nat]
      /\ \A u \in Worker \cup Producer : size'[u] <= Capacity
  BY <1>1, <1>4, SizeUpdate, BoundsAssumption DEF Readings, BoundsAssumption
<1> QED
  BY <1>1, <1>2, <1>5, <1>6, BoundsAssumption DEF Readings, BoundsAssumption

LEMMA ReadingsAlways == Spec => []Readings
  BY ReadingsInit, ReadingsStep, PositionsAlways, QueueTypes, PTL DEF Spec

LEMMA TrackerStep ==
  ASSUME Positions, Readings, [Next]_vars
  PROVE  [Tracker!Next]_statsVars
<1>1. ASSUME NEW t \in Thread
      PROVE  stamp[t] \in 0..clock
  BY DEF Readings
<1>2. ASSUME NEW t \in Worker \cup Producer
      PROVE  size[t] \in 0..Capacity
  BY BoundsAssumption DEF Readings, BoundsAssumption
<1>3. ASSUME NEW w \in Worker, WorkerStep(w) \/ WakeSpuriously(w)
      PROVE  [Tracker!Next]_statsVars
  <2>1. CASE NoteNotFull(w)
    BY <1>1, <1>2, <2>1 DEF NoteNotFull, Tracker!Next, Thread
  <2>2. CASE RecordWait(w)
    BY <2>2 DEF RecordWait, Tracker!Next
  <2> QED
    BY <1>3, <2>1, <2>2
       DEF WorkerStep, WakeSpuriously, CallWaitPop, BlockInWaitPop, TakeTask, TakeNothing,
           StartTask, FirstPoll, CancelTask, FinishTask, EndTask
<1>4. ASSUME NEW p \in Producer, ProducerStep(p)
      PROVE  [Tracker!Next]_statsVars
  <2>1. CASE NoteFull(p)
    BY <1>1, <1>2, <2>1 DEF NoteFull, Tracker!Next, Thread
  <2>2. CASE DropTask(p)
    BY <2>2 DEF DropTask, Tracker!Next
  <2> QED
    BY <1>4, <2>1, <2>2 DEF ProducerStep, CallEnqueue, PushTask
<1>5. ASSUME NEW c \in Controller, ControllerStep(c)
      PROVE  [Tracker!Next]_statsVars
  <2>1. CASE Finalize(c)
    BY <1>1, <2>1, BoundsAssumption DEF Finalize, Tracker!Next, Thread, BoundsAssumption
  <2> QED
    BY <1>5, <2>1 DEF ControllerStep, QueueCall, Notify, SetStopNow, ReadClock, Join,
                      JoinProducers, Snapshot
<1> QED
  BY <1>3, <1>4, <1>5 DEF Next, Finished, Tick, Tracker!Next, vars

(***************************************************************************)
(* The pool uses its tracker as StatsTracker allows any caller to: every   *)
(* time it passes was read before, every size is one the queue can have,   *)
(* and the constructor reports no more workers than the limit.             *)
(***************************************************************************)
THEOREM PoolUsesTracker == Spec => TrackerSpec
<1>1. Init => Tracker!Init
  <2>1. Cardinality(Worker) \in 0..kWorkerLimit
    BY WorkerAssumption, FS_CardinalityType DEF WorkerAssumption, kWorkerLimit
  <2> QED
    BY <2>1 DEF Init, Tracker!Init
<1>2. [Tracker!Next]_statsVars => [Tracker!Next]_Tracker!statsVars
  BY DEF statsVars, Tracker!statsVars
<1> QED
  BY <1>1, <1>2, TrackerStep, PositionsAlways, ReadingsAlways, PTL
     DEF Spec, TrackerSpec, Tracker!Spec

LEMMA TrackerTypes == Spec => []Tracker!TypeOK
  BY PoolUsesTracker, TrackerTypeCorrect, PTL DEF TrackerSpec

(***************************************************************************)
(* The report of the pool is consistent, shortest <= longest <= total,     *)
(* however long its threads take between reading the clock and passing the *)
(* time on.                                                                *)
(***************************************************************************)
THEOREM PoolDurationsOrdered == Spec => []DurationsOrdered
<1>1. Tracker!DurationsOrdered <=> DurationsOrdered
  BY DEF DurationsOrdered
<1> QED
  BY <1>1, PoolUsesTracker, TrackerKeepsOrder, PTL DEF TrackerSpec

-----------------------------------------------------------------------------
(***************************************************************************)
(* Types.                                                                  *)
(***************************************************************************)
Outcome == {"none", "started", "finished", "cancelled", "rejected"}

Data ==
  /\ poolStopNow \in BOOLEAN
  /\ held \in [Worker -> Task \cup {NoTask}]
  /\ outcome \in [Task -> Outcome]
  /\ todo \in [Controller -> Seq(ControlOp)]

LEMMA DataInit == Init => Data
<1> SUFFICES ASSUME Init PROVE Data
  OBVIOUS
<1>1. todo \in [Controller -> Seq(ControlOp)]
  BY ProgramAssumption DEF Init, ProgramAssumption
<1>2. held \in [Worker -> Task \cup {NoTask}]
  BY DEF Init
<1>3. outcome \in [Task -> Outcome] /\ poolStopNow \in BOOLEAN
  BY DEF Init, Outcome
<1> QED
  BY <1>1, <1>2, <1>3 DEF Data

LEMMA ProgramGetsShorter ==
  ASSUME Data, NEW c \in Controller, NEW op, Do(c, op)
  PROVE  todo' \in [Controller -> Seq(ControlOp)]
<1>1. todo[c] \in Seq(ControlOp) /\ todo[c] # <<>>
  BY DEF Data, Do
<1>2. Tail(todo[c]) \in Seq(ControlOp)
  BY <1>1, HeadTailProperties
<1> QED
  BY <1>2 DEF Data, Do

LEMMA DataStep ==
  ASSUME Queue!TypeOK, Data, [Next]_vars
  PROVE  Data'
<1>1. UNCHANGED poolStopNow \/ poolStopNow' = TRUE
  BY DEF Next, Finished, WorkerStep, WakeSpuriously, CallWaitPop, BlockInWaitPop,
         TakeTask, TakeNothing, RecordWait, NoteNotFull, StartTask, FirstPoll,
         CancelTask, FinishTask, EndTask, ProducerStep, CallEnqueue, PushTask, NoteFull,
         DropTask, ControllerStep, QueueCall, Notify, SetStopNow, ReadClock, Finalize,
         Join, JoinProducers, Snapshot, Tick, vars, localVars
<1>2. UNCHANGED held
      \/ \E w \in Worker, t \in Task \cup {NoTask} : held' = [held EXCEPT ![w] = t]
  <2>1. ASSUME NEW w \in Worker, TakeTask(w)
        PROVE  Head(tasks) \in Task /\ held' = [held EXCEPT ![w] = Head(tasks)]
    BY <2>1, HeadTailProperties DEF TakeTask, Queue!PopTask, Queue!TypeOK
  <2> QED
    BY <2>1
       DEF Next, Finished, WorkerStep, WakeSpuriously, CallWaitPop, BlockInWaitPop,
           TakeNothing, RecordWait, NoteNotFull, StartTask, FirstPoll,
           CancelTask, FinishTask, EndTask, ProducerStep, CallEnqueue, PushTask, NoteFull,
           DropTask, ControllerStep, QueueCall, Notify, SetStopNow, ReadClock, Finalize,
           Join, JoinProducers, Snapshot, Tick, vars, localVars, ThreadLocals
<1>3. outcome' \in [Task -> Outcome]
  <2>1. ASSUME NEW t, NEW how \in Outcome, outcome' = [outcome EXCEPT ![t] = how]
        PROVE  outcome' \in [Task -> Outcome]
    BY <2>1 DEF Data
  <2>2. CASE UNCHANGED outcome
    BY <2>2 DEF Data
  <2>3. {"started", "finished", "cancelled", "rejected"} \subseteq Outcome
    BY DEF Outcome
  <2>4. ASSUME NEW w \in Worker, WorkerStep(w) \/ WakeSpuriously(w)
        PROVE  outcome' \in [Task -> Outcome]
    BY <2>1, <2>2, <2>3, <2>4
       DEF WorkerStep, WakeSpuriously, CallWaitPop, BlockInWaitPop, TakeTask, TakeNothing,
           RecordWait, NoteNotFull, StartTask, FirstPoll, CancelTask, FinishTask, EndTask,
           localVars
  <2>5. ASSUME NEW p \in Producer, ProducerStep(p)
        PROVE  outcome' \in [Task -> Outcome]
    BY <2>1, <2>2, <2>3, <2>5 DEF ProducerStep, CallEnqueue, PushTask, NoteFull, DropTask
  <2> QED
    BY <2>2, <2>4, <2>5
       DEF Next, Finished, ControllerStep, QueueCall, Notify, SetStopNow, ReadClock,
           Finalize, Join, JoinProducers, Snapshot, Tick, vars, localVars, ThreadLocals
<1>4. UNCHANGED todo \/ \E c \in Controller : \E op : Do(c, op)
  BY DEF Next, Finished, WorkerStep, WakeSpuriously, CallWaitPop, BlockInWaitPop,
         TakeTask, TakeNothing, RecordWait, NoteNotFull, StartTask, FirstPoll,
         CancelTask, FinishTask, EndTask, ProducerStep, CallEnqueue, PushTask, NoteFull,
         DropTask, ControllerStep, QueueCall, Notify, SetStopNow, ReadClock, Finalize,
         Join, JoinProducers, Snapshot, Tick, vars, localVars
<1>5. todo' \in [Controller -> Seq(ControlOp)]
  BY <1>4, ProgramGetsShorter DEF Data
<1> QED
  BY <1>1, <1>2, <1>3, <1>5 DEF Data

LEMMA DataAlways == Spec => []Data
  BY DataInit, DataStep, QueueTypes, PTL DEF Spec

\* What is known of every state before it is asked where the tasks are.
Sound == Positions /\ Queue!TypeOK /\ Data

LEMMA SoundAlways == Spec => []Sound
  BY PositionsAlways, QueueTypes, DataAlways, PTL DEF Sound

(***************************************************************************)
(* Every variable of the pool keeps its type: the queue's and the          *)
(* tracker's by the theorems about these, the others by the steps of the   *)
(* threads.                                                                *)
(***************************************************************************)
THEOREM PoolTypeCorrect == Spec => []TypeOK
<1>1. Sound /\ Readings /\ Tracker!TypeOK => TypeOK
  <2> SUFFICES ASSUME Sound, Readings, Tracker!TypeOK PROVE TypeOK
    OBVIOUS
  <2>1. stats \in Tracker!StatsType /\ queueWasFull \in BOOLEAN /\ queueFullStart \in Nat
    BY DEF Readings, Tracker!TypeOK
  <2>2. index \in [Producer -> Nat \ {0}]
    BY BoundsAssumption DEF Sound, Positions, BoundsAssumption
  <2> QED
    BY <2>1, <2>2
       DEF TypeOK, Sound, Readings, Data, Positions, WorkerLabel, ProducerLabel, Outcome
<1> QED
  BY <1>1, SoundAlways, ReadingsAlways, TrackerTypes, PTL

-----------------------------------------------------------------------------
(***************************************************************************)
(* Where the tasks are.  The invariant says where every task is, what the  *)
(* log says of it, and what a worker without a task tells about the queue. *)
(***************************************************************************)
Busy == {"note", "task", "check", "work"}

\* enqueue has done all it will do to the task.
Passed(t) ==
  \/ t[2] < index[t[1]]
  \/ t[2] = index[t[1]] /\ pc[t[1]] = "accepted"

Places ==
  \A w \in Worker : /\ pc[w] \in Busy => held[w] # NoTask
                    /\ held[w] # NoTask => pc[w] \in Busy \cup {"record"}

Stops ==
  /\ stop => ~accepting
  /\ stopNowFlag => stop /\ tasks = <<>>

Queued ==
  /\ \A i, j \in DOMAIN tasks : tasks[i] = tasks[j] => i = j
  /\ \A t \in Task : InQueue(t) => /\ outcome[t] = "none"
                                   /\ Submitted(t) /\ ~Refused(t) /\ ~Held(t)

InHand ==
  /\ \A v, w \in Worker : held[v] = held[w] /\ held[v] # NoTask => v = w
  /\ \A t \in Task : Held(t) => /\ outcome[t] \in {"none", "started"}
                                /\ Submitted(t) /\ ~Refused(t)

Begun ==
  \A w \in Worker : pc[w] \in {"check", "work"} => outcome[held[w]] = "started"

Logged ==
  \A t \in Task : /\ outcome[t] # "none" => Passed(t)
                  /\ outcome[t] = "started" => Held(t)
                  /\ outcome[t] = "cancelled" => poolStopNow

EmptyHanded ==
  \A w \in Worker :
    held[w] = NoTask /\ pc[w] \in {"record", "exit"} => stop /\ tasks = <<>>

TaskInv ==
  /\ Places /\ Stops
  /\ Queued /\ InHand /\ Logged
  /\ Begun /\ EmptyHanded
  /\ NothingLost

LEMMA TaskInvInit == Init => TaskInv
<1> SUFFICES ASSUME Init PROVE TaskInv
  OBVIOUS
<1> USE DEF Init, Queue!Init
<1>1. \A w \in Worker : ~(w \in Producer)
  BY ThreadsAssumption DEF ThreadsAssumption
<1>2. \A t \in Task : ~Submitted(t) /\ ~InQueue(t) /\ ~Held(t)
  BY TaskParts, NoTaskAssumption DEF Submitted, InQueue, Held, NoTaskAssumption
<1>3. Places /\ Begun /\ EmptyHanded
  BY <1>1 DEF Places, Begun, EmptyHanded, Busy
<1>4. Stops /\ Queued /\ Logged /\ NothingLost
  BY <1>2 DEF Stops, Queued, Logged, NothingLost
<1>5. InHand
  BY <1>2 DEF InHand
<1> QED
  BY <1>3, <1>4, <1>5 DEF TaskInv

(***************************************************************************)
(* What a step does to the tasks.  Next to the step itself the lemmas say  *)
(* which tasks become submitted, refused and passed by it; tasks at other  *)
(* producers, or of other iterations, keep their stage.                    *)
(***************************************************************************)
Current(p) == <<p, index[p]>>

Stages(submitted, refused, passed) ==
  \A t \in Task :
    /\ Submitted(t)' <=> Submitted(t) \/ t \in submitted
    /\ Refused(t)' <=> Refused(t) \/ t \in refused
    /\ Passed(t)' <=> Passed(t) \/ t \in passed

LEMMA CurrentStage ==
  ASSUME Sound, NEW p \in Producer, pc[p] # "call"
  PROVE  /\ Current(p) \in Task
         /\ \A t \in Task : t[1] = p /\ t[2] = index[p] <=> t = Current(p)
  BY CurrentTask, TaskParts DEF Sound, Current

\* A producer moves on within its call; nothing is decided about a task.
LEMMA ProducersRest ==
  ASSUME UNCHANGED <<outcome, index>>, \A p \in Producer : pc'[p] = pc[p]
  PROVE  Stages({}, {}, {})
  BY TaskParts DEF Stages, Submitted, Refused, Passed

LEMMA CallEnqueueStages ==
  ASSUME Sound, NEW p \in Producer, CallEnqueue(p)
  PROVE  Stages({}, {}, {})
  BY TaskParts DEF Sound, Positions, CallEnqueue, Goto, Stages, Submitted, Refused, Passed

LEMMA PushStages ==
  ASSUME Sound, Logged, NEW p \in Producer, PushTask(p)
  PROVE  /\ ~Submitted(Current(p)) /\ ~Passed(Current(p)) /\ ~Refused(Current(p))
         /\ \/ /\ Queue!Push(p, Current(p))
               /\ Stages({Current(p)}, {}, {Current(p)})
            \/ /\ Queue!PushRefused(p)
               /\ Stages({Current(p)}, {Current(p)}, {})
<1>1. pc[p] = "push"
  BY DEF PushTask
<1>2. /\ Current(p) \in Task
      /\ \A t \in Task : t[1] = p /\ t[2] = index[p] <=> t = Current(p)
  BY <1>1, CurrentStage
<1>3. ~Submitted(Current(p)) /\ ~Passed(Current(p)) /\ ~Refused(Current(p))
  BY <1>1, <1>2, BoundsAssumption
     DEF Sound, Positions, BoundsAssumption, Logged, Submitted, Refused, Passed, Current
<1>4. ASSUME Goto(p, "accepted")
      PROVE  Stages({Current(p)}, {}, {Current(p)})
  BY <1>1, <1>2, <1>4, TaskParts
     DEF PushTask, Sound, Positions, Goto, Stages, Submitted, Refused, Passed
<1>5. ASSUME Goto(p, "refused")
      PROVE  Stages({Current(p)}, {Current(p)}, {})
  BY <1>1, <1>2, <1>5, TaskParts
     DEF PushTask, Sound, Positions, Goto, Stages, Submitted, Refused, Passed
<1>6. \/ Queue!Push(p, Current(p)) /\ Goto(p, "accepted")
      \/ Queue!PushRefused(p) /\ Goto(p, "refused")
  BY DEF PushTask, Current
<1> QED
  BY <1>3, <1>4, <1>5, <1>6

LEMMA NoteFullStages ==
  ASSUME Sound, NEW p \in Producer, NoteFull(p)
  PROVE  Stages({}, {}, {})
<1>1. /\ Current(p) \in Task
      /\ \A t \in Task : t[1] = p /\ t[2] = index[p] <=> t = Current(p)
  BY CurrentStage DEF NoteFull
<1>2. CASE pc[p] = "accepted" /\ NextTask(p)
  BY <1>1, <1>2, TaskParts, BoundsAssumption
     DEF NoteFull, NextTask, Sound, Positions, Goto, Stages, Submitted, Refused, Passed,
         BoundsAssumption
<1>3. CASE pc[p] = "refused" /\ Goto(p, "drop") /\ UNCHANGED index
  BY <1>1, <1>3, TaskParts
     DEF NoteFull, Sound, Positions, Goto, Stages, Submitted, Refused, Passed
<1> QED
  BY <1>2, <1>3 DEF NoteFull

LEMMA DropTaskStages ==
  ASSUME Sound, NEW p \in Producer, DropTask(p)
  PROVE  /\ Current(p) \in Task /\ Refused(Current(p)) /\ Submitted(Current(p))
         /\ ~Passed(Current(p))
         /\ outcome' = [outcome EXCEPT ![Current(p)] = "rejected"]
         /\ Stages({}, {}, {Current(p)})
<1>1. /\ Current(p) \in Task
      /\ \A t \in Task : t[1] = p /\ t[2] = index[p] <=> t = Current(p)
  BY CurrentStage DEF DropTask
<1>2. outcome' = [outcome EXCEPT ![Current(p)] = "rejected"]
  BY DEF DropTask, Current
<1>3. Refused(Current(p)) /\ Submitted(Current(p)) /\ ~Passed(Current(p))
  BY <1>1, BoundsAssumption
     DEF DropTask, Refused, Submitted, Passed, Current, Sound, Positions, BoundsAssumption
<1>4. Stages({}, {}, {Current(p)})
  BY <1>1, <1>2, TaskParts, BoundsAssumption
     DEF DropTask, NextTask, Sound, Positions, Data, Goto, Stages, Submitted, Refused, Passed,
         BoundsAssumption
<1> QED
  BY <1>1, <1>2, <1>3, <1>4

\* A worker writes another line about its task.
LEMMA WorkerStages ==
  ASSUME Sound, InHand, NEW w \in Worker, held[w] # NoTask,
         NEW how \in Outcome \ {"rejected"},
         outcome' = [outcome EXCEPT ![held[w]] = how],
         UNCHANGED index, \A p \in Producer : pc'[p] = pc[p]
  PROVE  Stages({}, {}, {})
<1>1. held[w] \in Task /\ Held(held[w])
  BY DEF Sound, Data, Held
<1>2. outcome[held[w]] # "rejected"
  BY <1>1 DEF InHand
<1> QED
  BY <1>1, <1>2, TaskParts DEF Sound, Data, Stages, Submitted, Refused, Passed

(***************************************************************************)
(* What the two ends of the queue do to its contents.                      *)
(***************************************************************************)
Distinct == \A i, j \in DOMAIN tasks : tasks[i] = tasks[j] => i = j

LEMMA AppendContents ==
  ASSUME Queue!TypeOK, NEW t \in Task, tasks' = Append(tasks, t)
  PROVE  /\ \A u : InQueue(u)' <=> InQueue(u) \/ u = t
         /\ Distinct /\ ~InQueue(t) => Distinct'
<1>1. tasks \in Seq(Task)
  BY DEF Queue!TypeOK
<1>2. /\ Len(tasks) \in Nat /\ DOMAIN tasks = 1..Len(tasks)
      /\ DOMAIN tasks' = 1..(Len(tasks) + 1)
      /\ \A i \in 1..Len(tasks) : tasks'[i] = tasks[i]
      /\ tasks'[Len(tasks) + 1] = t
  <2>1. tasks' \in Seq(Task)
    BY <1>1, AppendProperties
  <2> QED
    BY <1>1, <2>1, AppendProperties, LenProperties
<1>3. \A i \in DOMAIN tasks' : i \in DOMAIN tasks \/ i = Len(tasks) + 1
  BY <1>2
<1>4. DOMAIN tasks \subseteq DOMAIN tasks' /\ Len(tasks) + 1 \in DOMAIN tasks'
  BY <1>2
<1> QED
  BY <1>2, <1>3, <1>4 DEF InQueue, Distinct

LEMMA TailContents ==
  ASSUME Queue!TypeOK, tasks # <<>>, Distinct, tasks' = Tail(tasks)
  PROVE  /\ Head(tasks) \in Task
         /\ InQueue(Head(tasks))
         /\ \A u : InQueue(u)' <=> InQueue(u) /\ u # Head(tasks)
         /\ Distinct'
<1>1. tasks \in Seq(Task)
  BY DEF Queue!TypeOK
<1>2. /\ Len(tasks) \in Nat \ {0} /\ DOMAIN tasks = 1..Len(tasks)
      /\ DOMAIN tasks' = 1..(Len(tasks) - 1)
      /\ \A i \in 1..(Len(tasks) - 1) : tasks'[i] = tasks[i + 1]
      /\ Head(tasks) = tasks[1] /\ Head(tasks) \in Task
  <2>1. tasks' \in Seq(Task)
    BY <1>1, HeadTailProperties
  <2> QED
    BY <1>1, <2>1, HeadTailProperties, LenProperties, EmptySeq
<1>3. InQueue(Head(tasks))
  BY <1>2 DEF InQueue
<1>4. ASSUME NEW u
      PROVE  InQueue(u)' <=> InQueue(u) /\ u # Head(tasks)
  <2>1. ASSUME NEW i \in DOMAIN tasks', tasks'[i] = u
        PROVE  InQueue(u) /\ u # Head(tasks)
    <3>1. i + 1 \in DOMAIN tasks /\ tasks[i + 1] = u /\ 1 \in DOMAIN tasks /\ i + 1 # 1
      BY <1>2, <2>1
    <3> QED
      BY <1>2, <3>1 DEF InQueue, Distinct
  <2>2. ASSUME NEW i \in DOMAIN tasks, tasks[i] = u, u # Head(tasks)
        PROVE  InQueue(u)'
    <3>1. i - 1 \in DOMAIN tasks' /\ tasks'[i - 1] = u
      BY <1>2, <2>2
    <3> QED
      BY <3>1 DEF InQueue
  <2> QED
    BY <2>1, <2>2 DEF InQueue
<1>5. Distinct'
  <2> SUFFICES ASSUME NEW i \in DOMAIN tasks', NEW j \in DOMAIN tasks',
                      tasks'[i] = tasks'[j]
               PROVE  i = j
    BY DEF Distinct
  <2>1. i + 1 \in DOMAIN tasks /\ j + 1 \in DOMAIN tasks /\ tasks[i + 1] = tasks[j + 1]
    BY <1>2
  <2>2. i + 1 = j + 1
    BY <2>1 DEF Distinct
  <2> QED
    BY <1>2, <2>2
<1> QED
  BY <1>2, <1>3, <1>4, <1>5

(***************************************************************************)
(* Each of these steps keeps account of the tasks.                         *)
(***************************************************************************)
Account == Queued /\ InHand /\ Logged /\ NothingLost

\* The stops are never taken back.
StopsGrow == (stopNowFlag => stopNowFlag') /\ (poolStopNow => poolStopNow')

LEMMA CalmKeepsAccount ==
  ASSUME Account, StopsGrow, Stages({}, {}, {}), UNCHANGED <<tasks, held, outcome>>
  PROVE  Account'
<1>1. \A t : (InQueue(t)' <=> InQueue(t)) /\ (Held(t)' <=> Held(t))
  BY DEF InQueue, Held
<1>2. Queued' /\ InHand'
  BY <1>1 DEF Account, Queued, InHand, Stages
<1>3. Logged' /\ NothingLost'
  BY <1>1 DEF Account, Logged, NothingLost, Stages, StopsGrow
<1> QED
  BY <1>2, <1>3 DEF Account

LEMMA PushKeepsAccount ==
  ASSUME Sound, Account, StopsGrow, NEW p \in Producer, PushTask(p)
  PROVE  Account'
<1> DEFINE t == Current(p)
<1>1. UNCHANGED <<held, outcome>> /\ t \in Task
  BY CurrentStage DEF PushTask
<1>2. /\ ~Submitted(t) /\ ~Passed(t) /\ ~Refused(t)
      /\ \/ Queue!Push(p, t) /\ Stages({t}, {}, {t})
         \/ Queue!PushRefused(p) /\ Stages({t}, {t}, {})
  BY PushStages DEF Account
<1>3. \A u : Held(u)' <=> Held(u)
  BY <1>1 DEF Held
<1>4. outcome[t] = "none" /\ ~InQueue(t) /\ ~Held(t)
  BY <1>1, <1>2 DEF Account, Queued, InHand, Logged
<1>5. CASE Queue!Push(p, t) /\ Stages({t}, {}, {t})
  <2>1. /\ \A u : InQueue(u)' <=> InQueue(u) \/ u = t
        /\ Distinct'
    BY <1>1, <1>4, <1>5, AppendContents DEF Queue!Push, Account, Queued, Distinct, Sound
  <2> HIDE DEF t
  <2>2. Queued'
    BY <1>1, <1>2, <1>3, <1>4, <1>5, <2>1 DEF Account, Queued, Distinct, Stages
  <2>3. InHand'
    BY <1>1, <1>3, <1>4, <1>5 DEF Account, InHand, Stages
  <2>4. Logged' /\ NothingLost'
    BY <1>1, <1>3, <1>4, <1>5, <2>1 DEF Account, Logged, NothingLost, Stages, StopsGrow
  <2> QED
    BY <2>2, <2>3, <2>4 DEF Account
<1>6. CASE Queue!PushRefused(p) /\ Stages({t}, {t}, {})
  <2> HIDE DEF t
  <2>1. \A u : InQueue(u)' <=> InQueue(u)
    BY <1>6 DEF Queue!PushRefused, Queue!queueVars, InQueue
  <2>2. UNCHANGED tasks
    BY <1>6 DEF Queue!PushRefused, Queue!queueVars
  <2>3. Queued' /\ InHand'
    BY <1>1, <1>3, <1>4, <1>6, <2>1, <2>2 DEF Account, Queued, InHand, Stages
  <2>4. Logged' /\ NothingLost'
    BY <1>1, <1>3, <1>4, <1>6, <2>1 DEF Account, Logged, NothingLost, Stages, StopsGrow
  <2> QED
    BY <2>3, <2>4 DEF Account
<1> QED
  BY <1>2, <1>5, <1>6

LEMMA DropKeepsAccount ==
  ASSUME Sound, Account, StopsGrow, NEW p \in Producer, DropTask(p)
  PROVE  Account'
<1> DEFINE t == Current(p)
<1>1. /\ t \in Task /\ Refused(t) /\ Submitted(t) /\ ~Passed(t)
      /\ outcome' = [outcome EXCEPT ![t] = "rejected"]
      /\ Stages({}, {}, {t})
  BY DropTaskStages
<1>2. UNCHANGED <<tasks, held>>
  BY DEF DropTask, queueVars
<1>3. \A u : (Held(u)' <=> Held(u)) /\ (InQueue(u)' <=> InQueue(u))
  BY <1>2 DEF Held, InQueue
<1> HIDE DEF t
<1>4. \A u \in Task : outcome'[u] = IF u = t THEN "rejected" ELSE outcome[u]
  BY <1>1 DEF Sound, Data
<1>5. Queued' /\ InHand'
  BY <1>1, <1>2, <1>3, <1>4 DEF Account, Queued, InHand, Stages
<1>6. Logged' /\ NothingLost'
  BY <1>1, <1>3, <1>4 DEF Account, Logged, NothingLost, Stages, StopsGrow
<1> QED
  BY <1>5, <1>6 DEF Account

LEMMA TakeKeepsAccount ==
  ASSUME Sound, Account, Places, StopsGrow, NEW w \in Worker, TakeTask(w)
  PROVE  Account'
<1> DEFINE t == Head(tasks)
<1>1. /\ t \in Task /\ InQueue(t)
      /\ \A u : InQueue(u)' <=> InQueue(u) /\ u # t
      /\ Distinct'
  BY TailContents DEF Sound, TakeTask, Queue!PopTask, Account, Queued, Distinct
<1>2. /\ outcome' = outcome /\ Stages({}, {}, {})
      /\ held' = [held EXCEPT ![w] = t]
  <2>1. UNCHANGED <<outcome, index>> /\ \A p \in Producer : pc'[p] = pc[p]
    BY ThreadsAssumption DEF TakeTask, Goto, Sound, Positions, ThreadsAssumption
  <2> QED
    BY <2>1, ProducersRest DEF TakeTask
<1> HIDE DEF t
<1>3. held[w] = NoTask
  BY DEF Places, TakeTask, Busy
<1>4. \A v \in Worker : held'[v] = IF v = w THEN t ELSE held[v]
  BY <1>2 DEF Sound, Data
<1>5. \A u \in Task : Held(u)' <=> Held(u) \/ u = t
  BY <1>3, <1>4, NoTaskAssumption DEF Held, NoTaskAssumption
<1>6. ~Held(t) /\ outcome[t] = "none" /\ Submitted(t) /\ ~Refused(t)
  BY <1>1 DEF Account, Queued
<1>7. Queued'
  BY <1>1, <1>2, <1>5 DEF Account, Queued, Distinct, Stages
<1>8. InHand'
  BY <1>1, <1>2, <1>4, <1>5, <1>6 DEF Account, InHand, Stages, Held
<1>9. Logged' /\ NothingLost'
  BY <1>1, <1>2, <1>5 DEF Account, Logged, NothingLost, Stages, StopsGrow
<1> QED
  BY <1>7, <1>8, <1>9 DEF Account

\* The task of a worker gets as far as its poll or its end.
LEMMA LineKeepsAccount ==
  ASSUME Sound, Account, StopsGrow, NEW w \in Worker, held[w] # NoTask,
         NEW how \in {"started", "finished", "cancelled"},
         how = "cancelled" => poolStopNow,
         outcome' = [outcome EXCEPT ![held[w]] = how],
         held' = IF how = "started" THEN held ELSE [held EXCEPT ![w] = NoTask],
         UNCHANGED <<tasks, index>>, \A p \in Producer : pc'[p] = pc[p]
  PROVE  Account'
<1> DEFINE t == held[w]
<1>1. t \in Task /\ Held(t) /\ Submitted(t) /\ ~Refused(t) /\ ~InQueue(t)
  BY DEF Sound, Data, Held, Account, InHand, Queued
<1>2. Stages({}, {}, {})
  <2>1. how \in Outcome \ {"rejected"}
    BY DEF Outcome
  <2> QED
    BY <2>1, WorkerStages DEF Account
<1>3. \A u : InQueue(u)' <=> InQueue(u)
  BY DEF InQueue
<1>4. \A u \in Task : outcome'[u] = IF u = t THEN how ELSE outcome[u]
  BY DEF Sound, Data
<1>5. \A v \in Worker : held'[v] = IF v = w /\ how # "started" THEN NoTask ELSE held[v]
  BY DEF Sound, Data
<1>6. \A v \in Worker : held[v] = t => v = w
  BY DEF Account, InHand
<1>7. \A u \in Task : Held(u)' <=> Held(u) /\ (u = t => how = "started")
  BY <1>5, <1>6, NoTaskAssumption DEF Held, NoTaskAssumption
<1>8. Passed(t)
  <2>1. pc[t[1]] \notin {"refused", "drop"} \/ t[2] # index[t[1]]
    BY <1>1 DEF Refused
  <2> QED
    BY <1>1, <2>1 DEF Submitted, Passed
<1> HIDE DEF t
<1>9. Queued'
  BY <1>1, <1>2, <1>3, <1>4, <1>7 DEF Account, Queued, Stages
<1>10. InHand'
  BY <1>1, <1>2, <1>4, <1>5, <1>7 DEF Account, InHand, Stages
<1>11. Logged' /\ NothingLost'
  BY <1>1, <1>2, <1>3, <1>4, <1>7, <1>8
     DEF Account, Logged, NothingLost, Stages, StopsGrow
<1> QED
  BY <1>9, <1>10, <1>11 DEF Account

LEMMA EmptyingKeepsAccount ==
  ASSUME Account, tasks' = <<>>, stopNowFlag', StopsGrow, Stages({}, {}, {}),
         UNCHANGED <<held, outcome>>
  PROVE  Account'
<1>1. \A u : ~InQueue(u)' /\ (Held(u)' <=> Held(u))
  BY DEF InQueue, Held
<1>2. Queued'
  BY <1>1 DEF Queued
<1>3. InHand' /\ Logged' /\ NothingLost'
  BY <1>1 DEF Account, InHand, Logged, NothingLost, Stages, StopsGrow
<1> QED
  BY <1>2, <1>3 DEF Account

-----------------------------------------------------------------------------
(***************************************************************************)
(* Every step of the pool keeps the invariant.                             *)
(***************************************************************************)
LEMMA StopsStep ==
  ASSUME Positions, Queue!TypeOK, Stops, [Next]_vars
  PROVE  Stops' /\ StopsGrow
<1>1. (stop => stop') /\ (~accepting => ~accepting')
  BY QueueStep
     DEF queueVars, Queue!Next, Queue!Push, Queue!EnterWaitPop, Queue!FinishWaitPop,
         Queue!Sleep, Queue!PopTask, Queue!PopNothing, Queue!SpuriousWake, Queue!Pause,
         Queue!Resume, Queue!StopGraceful, Queue!StopNow, Queue!NotifyAll
<1>2. Stops' /\ (stopNowFlag => stopNowFlag')
  BY QueueStep
     DEF queueVars, Queue!Next, Queue!Push, Queue!EnterWaitPop, Queue!FinishWaitPop,
         Queue!Sleep, Queue!PopTask, Queue!PopNothing, Queue!SpuriousWake, Queue!Pause,
         Queue!Resume, Queue!StopGraceful, Queue!StopNow, Queue!NotifyAll,
         Queue!Accepts, Queue!TypeOK, Stops
<1>3. poolStopNow => poolStopNow'
  BY DEF Next, Finished, WorkerStep, WakeSpuriously, CallWaitPop, BlockInWaitPop,
         TakeTask, TakeNothing, RecordWait, NoteNotFull, StartTask, FirstPoll,
         CancelTask, FinishTask, EndTask, ProducerStep, CallEnqueue, PushTask, NoteFull,
         DropTask, ControllerStep, QueueCall, Notify, SetStopNow, ReadClock, Finalize,
         Join, JoinProducers, Snapshot, Tick, vars, localVars
<1> QED
  BY <1>1, <1>2, <1>3 DEF StopsGrow

\* A step of a worker leaves the producers alone, and the other workers.
LEMMA WorkerMovesAlone ==
  ASSUME Positions, NEW w \in Worker, WorkerStep(w) \/ WakeSpuriously(w)
  PROVE  /\ UNCHANGED index
         /\ \A p \in Producer : pc'[p] = pc[p]
         /\ \A v \in Worker : v # w => pc'[v] = pc[v]
  BY ThreadsAssumption
     DEF WorkerStep, WakeSpuriously, CallWaitPop, BlockInWaitPop, TakeTask, TakeNothing,
         RecordWait, NoteNotFull, StartTask, FirstPoll, CancelTask, FinishTask, EndTask,
         Goto, localVars, Positions, ThreadsAssumption

LEMMA WorkerKeepsAccount ==
  ASSUME Sound, Places, Account, StopsGrow,
         NEW w \in Worker, WorkerStep(w) \/ WakeSpuriously(w)
  PROVE  Account'
<1>1. UNCHANGED index /\ \A p \in Producer : pc'[p] = pc[p]
  BY WorkerMovesAlone DEF Sound
<1>2. CASE TakeTask(w)
  BY <1>2, TakeKeepsAccount
<1>3. CASE StartTask(w)
  BY <1>1, <1>3, LineKeepsAccount DEF StartTask, Places, Busy, queueVars
<1>4. CASE CancelTask(w)
  BY <1>1, <1>4, LineKeepsAccount DEF CancelTask, EndTask, Places, Busy, queueVars
<1>5. CASE FinishTask(w)
  BY <1>1, <1>5, LineKeepsAccount DEF FinishTask, EndTask, Places, Busy, queueVars
<1>6. CASE UNCHANGED <<tasks, held, outcome>>
  BY <1>1, <1>6, ProducersRest, CalmKeepsAccount
<1> QED
  BY <1>2, <1>3, <1>4, <1>5, <1>6
     DEF WorkerStep, WakeSpuriously, CallWaitPop, BlockInWaitPop, TakeNothing, RecordWait,
         NoteNotFull, FirstPoll, queueVars, localVars, Queue!EnterWaitPop, Queue!Sleep,
         Queue!PopNothing, Queue!SpuriousWake

LEMMA ProducerKeepsAccount ==
  ASSUME Sound, Account, StopsGrow, NEW p \in Producer, ProducerStep(p)
  PROVE  Account'
<1>1. CASE CallEnqueue(p)
  BY <1>1, CallEnqueueStages, CalmKeepsAccount DEF CallEnqueue, queueVars
<1>2. CASE NoteFull(p)
  BY <1>2, NoteFullStages, CalmKeepsAccount DEF NoteFull, queueVars
<1> QED
  BY <1>1, <1>2, PushKeepsAccount, DropKeepsAccount DEF ProducerStep

LEMMA ControllerKeepsAccount ==
  ASSUME Account, StopsGrow, NEW c \in Controller, ControllerStep(c)
  PROVE  Account'
<1>1. UNCHANGED <<pc, index, held, outcome>>
  BY DEF ControllerStep, QueueCall, Notify, SetStopNow, ReadClock, Finalize, Join,
         JoinProducers, Snapshot, ThreadLocals, localVars
<1>2. Stages({}, {}, {})
  BY <1>1, ProducersRest
<1>3. CASE Queue!StopNow(c)
  BY <1>1, <1>2, <1>3, EmptyingKeepsAccount DEF Queue!StopNow
<1>4. CASE UNCHANGED tasks
  BY <1>1, <1>2, <1>4, CalmKeepsAccount
<1> QED
  BY <1>3, <1>4
     DEF ControllerStep, QueueCall, Notify, SetStopNow, ReadClock, Finalize, Join,
         JoinProducers, Snapshot, queueVars, Queue!Pause, Queue!Resume,
         Queue!StopGraceful, Queue!NotifyAll

LEMMA AccountStep ==
  ASSUME Sound, Places, Account, StopsGrow, [Next]_vars
  PROVE  Account'
<1>1. CASE UNCHANGED <<pc, index, tasks, held, outcome>>
  BY <1>1, ProducersRest, CalmKeepsAccount
<1> QED
  BY <1>1, WorkerKeepsAccount, ProducerKeepsAccount, ControllerKeepsAccount
     DEF Next, Finished, Tick, vars, queueVars, localVars

\* What the invariant says of one worker by itself.
WorkerInv(w) ==
  /\ pc[w] \in Busy => held[w] # NoTask
  /\ held[w] # NoTask => pc[w] \in Busy \cup {"record"}
  /\ pc[w] \in {"check", "work"} => outcome[held[w]] = "started"
  /\ held[w] = NoTask /\ pc[w] \in {"record", "exit"} => stop /\ tasks = <<>>

LEMMA WorkersInv == Places /\ Begun /\ EmptyHanded <=> \A w \in Worker : WorkerInv(w)
  BY DEF Places, Begun, EmptyHanded, WorkerInv

LEMMA OwnStep ==
  ASSUME Sound, Stops, NEW w \in Worker, WorkerInv(w), WorkerStep(w) \/ WakeSpuriously(w)
  PROVE  WorkerInv(w)'
<1>1. pc[w] \in WorkerLabel /\ held[w] \in Task \cup {NoTask}
  BY DEF Sound, Positions, Data
<1>2. \A label : Goto(w, label) => pc'[w] = label
  BY DEF Goto, Sound, Positions
<1>3. CASE CallWaitPop(w)
  BY <1>2, <1>3 DEF CallWaitPop, WorkerInv, Busy
<1>4. CASE BlockInWaitPop(w) \/ WakeSpuriously(w)
  BY <1>4 DEF BlockInWaitPop, WakeSpuriously, Queue!Sleep, Queue!SpuriousWake, localVars,
              WorkerInv
<1>5. CASE TakeTask(w)
  <2>1. Head(tasks) \in Task
    BY <1>5, HeadTailProperties DEF TakeTask, Queue!PopTask, Sound, Queue!TypeOK
  <2>2. held'[w] # NoTask
    BY <1>5, <2>1, NoTaskAssumption DEF TakeTask, Sound, Data, NoTaskAssumption
  <2> QED
    BY <1>2, <1>5, <2>2 DEF TakeTask, WorkerInv, Busy
<1>6. CASE TakeNothing(w)
  BY <1>2, <1>6
     DEF TakeNothing, Queue!PopNothing, Queue!WakeCondition, Stops, WorkerInv, Busy
<1>7. CASE RecordWait(w)
  BY <1>2, <1>7 DEF RecordWait, WorkerInv, Busy, queueVars
<1>8. CASE NoteNotFull(w)
  BY <1>2, <1>8 DEF NoteNotFull, WorkerInv, Busy
<1>9. CASE StartTask(w)
  <2>1. held[w] \in Task
    BY <1>1, <1>9 DEF StartTask, WorkerInv, Busy
  <2>2. outcome'[held[w]] = "started"
    BY <1>9, <2>1 DEF StartTask, Sound, Data
  <2> QED
    BY <1>2, <1>9, <2>1, <2>2 DEF StartTask, WorkerInv, Busy
<1>10. CASE FirstPoll(w)
  BY <1>2, <1>10 DEF FirstPoll, WorkerInv, Busy
<1>11. CASE CancelTask(w) \/ FinishTask(w)
  <2>1. held'[w] = NoTask
    BY <1>11 DEF CancelTask, FinishTask, EndTask, Sound, Data
  <2> QED
    BY <1>2, <1>11, <2>1 DEF CancelTask, FinishTask, EndTask, WorkerInv, Busy
<1> QED
  BY <1>3, <1>4, <1>5, <1>6, <1>7, <1>8, <1>9, <1>10, <1>11 DEF WorkerStep

\* Once stopped and empty, the queue stays so.
LEMMA StoppedAndEmpty ==
  ASSUME Positions, Queue!TypeOK, Stops, [Next]_vars, stop, tasks = <<>>
  PROVE  stop' /\ tasks' = <<>>
  BY QueueStep
     DEF queueVars, Queue!Next, Queue!Push, Queue!EnterWaitPop, Queue!FinishWaitPop,
         Queue!Sleep, Queue!PopTask, Queue!PopNothing, Queue!SpuriousWake, Queue!Pause,
         Queue!Resume, Queue!StopGraceful, Queue!StopNow, Queue!NotifyAll,
         Queue!Accepts

\* Nobody else writes a line about the task of a worker, or moves the worker.
LEMMA OthersLeaveWorker ==
  ASSUME Sound, Places, InHand, [Next]_vars, NEW v \in Worker,
         ~(WorkerStep(v) \/ WakeSpuriously(v))
  PROVE  /\ pc'[v] = pc[v] /\ held'[v] = held[v]
         /\ held[v] # NoTask => outcome'[held[v]] = outcome[held[v]]
<1> DEFINE Left == /\ pc'[v] = pc[v] /\ held'[v] = held[v]
                   /\ held[v] # NoTask => outcome'[held[v]] = outcome[held[v]]
<1>1. CASE UNCHANGED <<pc, held, outcome>>
  BY <1>1
<1>2. ASSUME NEW w \in Worker, w # v, WorkerStep(w) \/ WakeSpuriously(w)
      PROVE  Left
  <2>1. pc'[v] = pc[v]
    BY <1>2, WorkerMovesAlone DEF Sound
  <2>2. held'[v] = held[v]
    BY <1>2
       DEF WorkerStep, WakeSpuriously, CallWaitPop, BlockInWaitPop, TakeTask, TakeNothing,
           RecordWait, NoteNotFull, StartTask, FirstPoll, CancelTask, FinishTask, EndTask,
           localVars, Sound, Data
  <2>3. \/ UNCHANGED outcome
        \/ /\ pc[w] \in Busy
           /\ \E how : outcome' = [outcome EXCEPT ![held[w]] = how]
    BY <1>2
       DEF WorkerStep, WakeSpuriously, CallWaitPop, BlockInWaitPop, TakeTask, TakeNothing,
           RecordWait, NoteNotFull, StartTask, FirstPoll, CancelTask, FinishTask, EndTask,
           localVars, Busy
  <2>4. pc[w] \in Busy /\ held[v] # NoTask => held[w] # held[v]
    BY <1>2 DEF InHand, Places
  <2>5. held[v] # NoTask => held[v] \in Task
    BY DEF Sound, Data
  <2> QED
    BY <2>1, <2>2, <2>3, <2>4, <2>5 DEF Sound, Data
<1>3. ASSUME NEW p \in Producer, ProducerStep(p)
      PROVE  Left
  <2>1. pc'[v] = pc[v] /\ UNCHANGED held
    BY <1>3, ThreadsAssumption
       DEF ProducerStep, CallEnqueue, PushTask, NoteFull, DropTask, NextTask, Goto,
           Sound, Positions, ThreadsAssumption
  <2>2. CASE DropTask(p)
    <3>1. /\ Current(p) \in Task /\ Refused(Current(p))
          /\ outcome' = [outcome EXCEPT ![Current(p)] = "rejected"]
      BY <2>2, DropTaskStages
    <3>2. held[v] # NoTask => held[v] \in Task /\ ~Refused(held[v])
      BY DEF Sound, Data, InHand, Held
    <3> QED
      BY <2>1, <3>1, <3>2 DEF Sound, Data
  <2> QED
    BY <1>3, <2>1, <2>2 DEF ProducerStep, CallEnqueue, PushTask, NoteFull
<1>4. ASSUME NEW c \in Controller, ControllerStep(c)
      PROVE  Left
  BY <1>1, <1>4
     DEF ControllerStep, QueueCall, Notify, SetStopNow, ReadClock, Finalize, Join,
         JoinProducers, Snapshot, ThreadLocals, localVars
<1> QED
  BY <1>1, <1>2, <1>3, <1>4 DEF Next, Finished, Tick, vars, localVars

LEMMA WorkersStep ==
  ASSUME Sound, Stops, Places, InHand, [Next]_vars,
         \A w \in Worker : WorkerInv(w)
  PROVE  \A w \in Worker : WorkerInv(w)'
<1> SUFFICES ASSUME NEW v \in Worker PROVE WorkerInv(v)'
  OBVIOUS
<1>1. CASE WorkerStep(v) \/ WakeSpuriously(v)
  BY <1>1, OwnStep
<1>2. CASE ~(WorkerStep(v) \/ WakeSpuriously(v))
  <2>1. /\ pc'[v] = pc[v] /\ held'[v] = held[v]
        /\ held[v] # NoTask => outcome'[held[v]] = outcome[held[v]]
    BY <1>2, OthersLeaveWorker
  <2>2. stop /\ tasks = <<>> => stop' /\ tasks' = <<>>
    BY StoppedAndEmpty DEF Sound
  <2> QED
    BY <2>1, <2>2 DEF WorkerInv, Busy
<1> QED
  BY <1>1, <1>2

LEMMA TaskInvStep ==
  ASSUME Sound, TaskInv, [Next]_vars
  PROVE  TaskInv'
<1>1. Stops' /\ StopsGrow
  BY StopsStep DEF Sound, TaskInv
<1>2. Account'
  BY <1>1, AccountStep DEF TaskInv, Account
<1>3. (Places /\ Begun /\ EmptyHanded)'
  <2>1. \A w \in Worker : WorkerInv(w)'
    BY WorkersStep, WorkersInv DEF TaskInv
  <2> QED
    BY <2>1 DEF Places, Begun, EmptyHanded, WorkerInv
<1> QED
  BY <1>1, <1>2, <1>3 DEF TaskInv, Account

LEMMA TaskInvariant == Spec => []TaskInv
  BY TaskInvInit, TaskInvStep, SoundAlways, PTL DEF Spec

(***************************************************************************)
(* No task is executed twice, whatever the threads do between two of their *)
(* critical sections: in particular no two workers are ever given the same *)
(* task by waitPop, and none is given one that was run before.             *)
(***************************************************************************)
THEOREM TasksRunAtMostOnce == Spec => []AtMostOnce
<1>1. Sound /\ TaskInv => AtMostOnce
  <2> SUFFICES ASSUME Sound, TaskInv PROVE AtMostOnce
    OBVIOUS
  <2>1. \A i \in DOMAIN tasks : tasks[i] \in Task /\ InQueue(tasks[i])
    BY ElementOfSeq, LenProperties DEF Sound, Queue!TypeOK, InQueue
  <2>2. \A w \in Worker : held[w] # NoTask => held[w] \in Task /\ Held(held[w])
    BY DEF Sound, Data, Held
  <2> QED
    BY <2>1, <2>2 DEF TaskInv, Queued, InHand, AtMostOnce
<1> QED
  BY <1>1, SoundAlways, TaskInvariant, PTL

(***************************************************************************)
(* No task that enqueue accepted is lost: until an immediate stop empties  *)
(* the queue, each is queued, held by a worker, or has run to its end.     *)
(***************************************************************************)
THEOREM NoTaskIsLost == Spec => []NothingLost
  BY TaskInvariant, PTL DEF TaskInv

(***************************************************************************)
(* The graceful shutdown completes the work: when the last worker has left *)
(* its loop, and no immediate shutdown was asked for, every accepted task  *)
(* has finished.  It is the worker's empty-handed return that tells that   *)
(* the queue is stopped and empty, and it stays so.                        *)
(***************************************************************************)
THEOREM GracefulShutdownCompletes == Spec => []GracefulCompletes
<1>1. TaskInv => GracefulCompletes
  <2> SUFFICES ASSUME TaskInv, AllWorkersExited, Worker # {}, ~poolStopNow, ~stopNowFlag,
                      NEW t \in Task, Submitted(t), ~Refused(t)
               PROVE  outcome[t] = "finished"
    BY DEF GracefulCompletes
  <2>1. \A w \in Worker : held[w] = NoTask
    BY DEF TaskInv, Places, AllWorkersExited, Busy
  <2>2. tasks = <<>>
    BY <2>1 DEF TaskInv, EmptyHanded, AllWorkersExited
  <2>3. ~InQueue(t) /\ ~Held(t)
    BY <2>1, <2>2, NoTaskAssumption DEF InQueue, Held, NoTaskAssumption
  <2> QED
    BY <2>3 DEF TaskInv, NothingLost, Logged
<1> QED
  BY <1>1, TaskInvariant, PTL

-----------------------------------------------------------------------------
(***************************************************************************)
(* What the report counts.                                                 *)
(***************************************************************************)
Dropped == {t \in Task : outcome[t] = "rejected"}
Over == {t \in Task : outcome[t] \in {"finished", "cancelled"}}
\* The workers whose last wait has been recorded.
Recorded == {w \in Worker : pc[w] \in Busy \cup {"exit"}}

Counters ==
  /\ stats.droppedTasks = Cardinality(Dropped)
  /\ stats.waitSamples = Cardinality(Recorded) + Cardinality(Over)

LEMMA CountersFinite ==
  /\ IsFiniteSet(Dropped) /\ IsFiniteSet(Over) /\ IsFiniteSet(Recorded)
  /\ Cardinality(Dropped) \in Nat /\ Cardinality(Over) \in Nat
  /\ Cardinality(Recorded) \in Nat
<1>1. IsFiniteSet(Task)
  <2>1. IsFiniteSet(1..TasksPerProducer)
    BY FS_Interval, BoundsAssumption DEF BoundsAssumption
  <2> QED
    BY <2>1, FS_Product, ThreadsAssumption DEF Task, ThreadsAssumption
<1>2. IsFiniteSet(Dropped) /\ IsFiniteSet(Over)
  BY <1>1, FS_Subset DEF Dropped, Over
<1>3. IsFiniteSet(Recorded)
  BY FS_Subset, WorkerAssumption DEF Recorded, WorkerAssumption
<1> QED
  BY <1>2, <1>3, FS_CardinalityType

LEMMA CountersInit == Init => Counters
<1> SUFFICES ASSUME Init PROVE Counters
  OBVIOUS
<1>1. Dropped = {} /\ Over = {}
  BY DEF Init, Dropped, Over
<1>2. Recorded = {}
  BY DEF Init, Recorded, Busy
<1>3. stats.droppedTasks = 0 /\ stats.waitSamples = 0
  BY DEF Init, Tracker!InitialStats
<1> QED
  BY <1>1, <1>2, <1>3, FS_EmptySet DEF Counters

\* The critical sections of the tracker that deal with the full queue.
LEMMA IntervalsCountNothing ==
  ASSUME Tracker!TypeOK,
         \/ \E n, now : \/ Tracker!NoteQueueFullIfNeeded(n, now)
                        \/ Tracker!NoteQueueNotFullIfNeeded(n, now)
         \/ \E now : Tracker!FinalizeQueueFullIfNeeded(now)
  PROVE  UNCHANGED <<stats.droppedTasks, stats.waitSamples>>
<1>1. ASSUME NEW now, Tracker!CloseInterval(now)
      PROVE  UNCHANGED <<stats.droppedTasks, stats.waitSamples>>
  BY <1>1 DEF Tracker!CloseInterval, Tracker!RecordQueueFull, Tracker!TypeOK,
              Tracker!StatsType
<1> QED
  BY <1>1 DEF Tracker!NoteQueueFullIfNeeded, Tracker!NoteQueueNotFullIfNeeded,
              Tracker!FinalizeQueueFullIfNeeded, Tracker!statsVars

\* A step that counts nothing and decides nothing.
LEMMA UncountedKeeps ==
  ASSUME Counters, UNCHANGED <<stats.droppedTasks, stats.waitSamples, outcome>>,
         \A w \in Worker : pc'[w] \in Busy \cup {"exit"} <=> pc[w] \in Busy \cup {"exit"}
  PROVE  Counters'
<1>1. UNCHANGED <<Dropped, Over, Recorded>>
  BY DEF Dropped, Over, Recorded
<1> QED
  BY <1>1 DEF Counters

LEMMA WorkerCounts ==
  ASSUME Sound, Tracker!TypeOK, TaskInv, Counters,
         NEW w \in Worker, WorkerStep(w) \/ WakeSpuriously(w)
  PROVE  Counters'
<1>1. \A v \in Worker : v # w => pc'[v] = pc[v]
  BY WorkerMovesAlone DEF Sound
<1>2. \A label : Goto(w, label) => pc'[w] = label
  BY DEF Goto, Sound, Positions
<1>3. CASE RecordWait(w)
  <2>1. Recorded' = Recorded \cup {w} /\ w \notin Recorded
    BY <1>1, <1>2, <1>3 DEF RecordWait, Recorded, Busy
  <2>2. UNCHANGED <<Dropped, Over>>
    BY <1>3 DEF RecordWait, Dropped, Over
  <2>3. /\ stats'.droppedTasks = stats.droppedTasks
        /\ stats'.waitSamples = stats.waitSamples + 1
    BY <1>3 DEF RecordWait, Tracker!RecordWaitTime, Tracker!Record, Tracker!TypeOK,
                Tracker!StatsType
  <2>4. Cardinality(Recorded') = Cardinality(Recorded) + 1
    BY <2>1, CountersFinite, FS_AddElement
  <2> QED
    BY <2>2, <2>3, <2>4, CountersFinite DEF Counters
<1>4. ASSUME NEW how \in {"finished", "cancelled"}, pc[w] \in {"check", "work"},
             EndTask(w, how)
      PROVE  Counters'
  <2>1. /\ held[w] \in Task /\ outcome[held[w]] = "started"
        /\ \A t \in Task : outcome'[t] = IF t = held[w] THEN how ELSE outcome[t]
    BY <1>4 DEF EndTask, TaskInv, Places, Begun, Busy, Sound, Data
  <2>2. Recorded' = Recorded \ {w} /\ w \in Recorded
    BY <1>1, <1>2, <1>4 DEF EndTask, Recorded, Busy
  <2>3. UNCHANGED Dropped
    BY <2>1 DEF Dropped
  <2>4. Over' = Over \cup {held[w]} /\ held[w] \notin Over
    BY <2>1 DEF Over
  <2>5. Cardinality(Recorded') = Cardinality(Recorded) - 1
    BY <2>2, CountersFinite, FS_RemoveElement
  <2>6. Cardinality(Over') = Cardinality(Over) + 1
    BY <2>4, CountersFinite, FS_AddElement
  <2> QED
    BY <1>4, <2>3, <2>5, <2>6, CountersFinite DEF Counters, EndTask, statsVars
<1>5. CASE StartTask(w)
  <2>1. /\ held[w] \in Task /\ outcome[held[w]] \in {"none", "started"}
        /\ \A t \in Task : outcome'[t] = IF t = held[w] THEN "started" ELSE outcome[t]
    BY <1>5 DEF StartTask, TaskInv, Places, InHand, Held, Busy, Sound, Data
  <2>2. UNCHANGED Dropped
    BY <2>1 DEF Dropped
  <2>3. UNCHANGED Over
    BY <2>1 DEF Over
  <2>4. UNCHANGED Recorded
    BY <1>1, <1>2, <1>5 DEF StartTask, Recorded, Busy
  <2> QED
    BY <1>5, <2>2, <2>3, <2>4 DEF Counters, StartTask, statsVars
<1>6. CASE NoteNotFull(w)
  <2>1. UNCHANGED <<stats.droppedTasks, stats.waitSamples>>
    BY <1>6, IntervalsCountNothing DEF NoteNotFull
  <2> QED
    BY <1>1, <1>2, <1>6, <2>1, UncountedKeeps DEF NoteNotFull, Busy
<1>7. CASE \/ CallWaitPop(w) \/ TakeTask(w) \/ TakeNothing(w) \/ FirstPoll(w)
  BY <1>1, <1>2, <1>7, UncountedKeeps
     DEF CallWaitPop, TakeTask, TakeNothing, FirstPoll, Busy, statsVars
<1>8. CASE BlockInWaitPop(w) \/ WakeSpuriously(w)
  BY <1>8, UncountedKeeps DEF BlockInWaitPop, WakeSpuriously, statsVars, localVars
<1> QED
  BY <1>3, <1>4, <1>5, <1>6, <1>7, <1>8 DEF WorkerStep, CancelTask, FinishTask

LEMMA ProducerCounts ==
  ASSUME Sound, Tracker!TypeOK, TaskInv, Counters, NEW p \in Producer, ProducerStep(p)
  PROVE  Counters'
<1>1. \A w \in Worker : pc'[w] = pc[w]
  BY ThreadsAssumption
     DEF ProducerStep, CallEnqueue, PushTask, NoteFull, DropTask, NextTask, Goto, Sound,
         Positions, ThreadsAssumption
<1>2. CASE DropTask(p)
  <2>1. /\ Current(p) \in Task /\ outcome[Current(p)] = "none"
        /\ outcome' = [outcome EXCEPT ![Current(p)] = "rejected"]
    BY <1>2, DropTaskStages DEF TaskInv, Logged
  <2>2. \A t \in Task : outcome'[t] = IF t = Current(p) THEN "rejected" ELSE outcome[t]
    BY <2>1 DEF Sound, Data
  <2>3. Dropped' = Dropped \cup {Current(p)} /\ Current(p) \notin Dropped
    BY <2>1, <2>2 DEF Dropped
  <2>4. UNCHANGED Over
    BY <2>1, <2>2 DEF Over
  <2>5. UNCHANGED Recorded
    BY <1>1 DEF Recorded
  <2>6. /\ stats'.waitSamples = stats.waitSamples
        /\ stats'.droppedTasks = stats.droppedTasks + 1
    BY <1>2 DEF DropTask, Tracker!RecordDroppedTask, Tracker!Record, Tracker!TypeOK,
                Tracker!StatsType
  <2>7. Cardinality(Dropped') = Cardinality(Dropped) + 1
    BY <2>3, CountersFinite, FS_AddElement
  <2> QED
    BY <2>4, <2>5, <2>6, <2>7 DEF Counters
<1>3. CASE NoteFull(p)
  <2>1. UNCHANGED <<stats.droppedTasks, stats.waitSamples>>
    BY <1>3, IntervalsCountNothing DEF NoteFull
  <2> QED
    BY <1>1, <1>3, <2>1, UncountedKeeps DEF NoteFull
<1>4. CASE CallEnqueue(p) \/ PushTask(p)
  BY <1>1, <1>4, UncountedKeeps DEF CallEnqueue, PushTask, statsVars
<1> QED
  BY <1>2, <1>3, <1>4 DEF ProducerStep

LEMMA CountersStep ==
  ASSUME Sound, Tracker!TypeOK, TaskInv, Counters, [Next]_vars
  PROVE  Counters'
<1>1. ASSUME NEW c \in Controller, ControllerStep(c)
      PROVE  Counters'
  <2>1. UNCHANGED <<pc, outcome>>
    BY <1>1 DEF ControllerStep, QueueCall, Notify, SetStopNow, ReadClock, Finalize, Join,
                JoinProducers, Snapshot, ThreadLocals, localVars
  <2>2. UNCHANGED <<stats.droppedTasks, stats.waitSamples>>
    BY <1>1, IntervalsCountNothing
       DEF ControllerStep, QueueCall, Notify, SetStopNow, ReadClock, Finalize, Join,
           JoinProducers, Snapshot, statsVars
  <2> QED
    BY <2>1, <2>2, UncountedKeeps
<1>2. CASE Tick \/ UNCHANGED vars
  BY <1>2, UncountedKeeps DEF Tick, Tracker!Tick, vars, statsVars, localVars
<1> QED
  BY <1>1, <1>2, WorkerCounts, ProducerCounts DEF Next, Finished

LEMMA CountersAlways == Spec => []Counters
  BY CountersInit, CountersStep, SoundAlways, TrackerTypes, TaskInvariant, PTL DEF Spec

(***************************************************************************)
(* In the programs of main.cpp the report comes after both joins.          *)
(***************************************************************************)
Preceded(s, op, first) ==
  \A i \in DOMAIN s : s[i] = op => \E j \in DOMAIN s : j < i /\ s[j] = first

ReportsAfterJoins ==
  \A program \in Programs, c \in Controller :
    /\ Preceded(program[c], "snapshot", "join")
    /\ Preceded(program[c], "snapshot", "joinProducers")

LEMMA TailPreceded ==
  ASSUME NEW s \in Seq(ControlOp), s # <<>>, NEW op, NEW first,
         Preceded(s, op, first), Head(s) # first
  PROVE  Preceded(Tail(s), op, first)
<1>1. /\ Len(s) \in Nat \ {0} /\ DOMAIN s = 1..Len(s)
      /\ DOMAIN Tail(s) = 1..(Len(s) - 1)
      /\ \A i \in 1..(Len(s) - 1) : Tail(s)[i] = s[i + 1]
      /\ Head(s) = s[1]
  BY HeadTailProperties, LenProperties, EmptySeq
<1> SUFFICES ASSUME NEW i \in DOMAIN Tail(s), Tail(s)[i] = op
             PROVE  \E j \in DOMAIN Tail(s) : j < i /\ Tail(s)[j] = first
  BY DEF Preceded
<1>2. i + 1 \in DOMAIN s /\ s[i + 1] = op
  BY <1>1
<1>3. PICK j \in DOMAIN s : j < i + 1 /\ s[j] = first
  BY <1>2 DEF Preceded
<1>4. j - 1 \in DOMAIN Tail(s) /\ j - 1 < i /\ Tail(s)[j - 1] = first
  BY <1>1, <1>3
<1> QED
  BY <1>4

\* An operation at the head has nothing before it.
LEMMA HeadPreceded ==
  ASSUME NEW s \in Seq(ControlOp), s # <<>>, NEW op, NEW first,
         Preceded(s, op, first)
  PROVE  Head(s) # op
<1>1. DOMAIN s = 1..Len(s) /\ 1 \in DOMAIN s /\ Head(s) = s[1]
  BY LenProperties, EmptySeq
<1> QED
  BY <1>1 DEF Preceded

ProducersDone == \A p \in Producer : ProducerDone(p)

ReportInv ==
  \A c \in Controller :
    /\ AllWorkersExited \/ Preceded(todo[c], "snapshot", "join")
    /\ ProducersDone \/ Preceded(todo[c], "snapshot", "joinProducers")

\* A join that returned stays true: nobody starts again.
LEMMA JoinedForGood ==
  ASSUME Positions, [Next]_vars
  PROVE  /\ AllWorkersExited => AllWorkersExited'
         /\ ProducersDone => ProducersDone'
<1>1. CASE UNCHANGED <<pc, index>>
  BY <1>1 DEF AllWorkersExited, ProducersDone, ProducerDone
<1>2. ASSUME NEW w \in Worker, WorkerStep(w) \/ WakeSpuriously(w)
      PROVE  /\ AllWorkersExited => AllWorkersExited'
             /\ ProducersDone => ProducersDone'
  <2>1. /\ UNCHANGED index
        /\ \A p \in Producer : pc'[p] = pc[p]
        /\ \A v \in Worker : v # w => pc'[v] = pc[v]
    BY <1>2, WorkerMovesAlone
  <2>2. pc[w] # "exit" \/ pc'[w] = pc[w]
    BY <1>2
       DEF WorkerStep, WakeSpuriously, CallWaitPop, BlockInWaitPop, TakeTask, TakeNothing,
           RecordWait, NoteNotFull, StartTask, FirstPoll, CancelTask, FinishTask, localVars
  <2> QED
    BY <2>1, <2>2 DEF AllWorkersExited, ProducersDone, ProducerDone
<1>3. ASSUME NEW p \in Producer, ProducerStep(p)
      PROVE  /\ AllWorkersExited => AllWorkersExited'
             /\ ProducersDone => ProducersDone'
  <2>1. \A w \in Worker : pc'[w] = pc[w]
    BY <1>3, ThreadsAssumption
       DEF ProducerStep, CallEnqueue, PushTask, NoteFull, DropTask, NextTask, Goto,
           Positions, ThreadsAssumption
  <2>2. ~ProducerDone(p)
    BY <1>3, BoundsAssumption
       DEF ProducerStep, CallEnqueue, PushTask, NoteFull, DropTask, ProducerDone, Positions,
           BoundsAssumption
  <2> QED
    BY <2>1, <2>2 DEF AllWorkersExited, ProducersDone
<1>4. ASSUME NEW c \in Controller, ControllerStep(c)
      PROVE  UNCHANGED <<pc, index>>
  BY <1>4 DEF ControllerStep, QueueCall, Notify, SetStopNow, ReadClock, Finalize, Join,
              JoinProducers, Snapshot, ThreadLocals, localVars
<1> QED
  BY <1>1, <1>2, <1>3, <1>4 DEF Next, Finished, Tick, vars, localVars

\* What a controller does next, it does on the condition of its join.
LEMMA ProgramStep ==
  ASSUME Data, [Next]_vars, NEW c \in Controller
  PROVE  \/ todo'[c] = todo[c]
         \/ /\ todo[c] \in Seq(ControlOp) /\ todo[c] # <<>>
            /\ todo'[c] = Tail(todo[c])
            /\ Head(todo[c]) = "join" => AllWorkersExited
            /\ Head(todo[c]) = "joinProducers" => ProducersDone
            /\ Head(todo[c]) = "setStopNow" => poolStopNow'
<1> DEFINE Goal == \/ todo'[c] = todo[c]
                   \/ /\ todo[c] \in Seq(ControlOp) /\ todo[c] # <<>>
                      /\ todo'[c] = Tail(todo[c])
                      /\ Head(todo[c]) = "join" => AllWorkersExited
                      /\ Head(todo[c]) = "joinProducers" => ProducersDone
                      /\ Head(todo[c]) = "setStopNow" => poolStopNow'
<1>1. CASE UNCHANGED todo
  BY <1>1
<1>2. ASSUME NEW d \in Controller, NEW op, Do(d, op),
             op = "join" => AllWorkersExited,
             op = "joinProducers" => ProducersDone,
             op = "setStopNow" => poolStopNow'
      PROVE  Goal
  BY <1>2 DEF Do, Data
<1>3. ASSUME NEW d \in Controller, ControllerStep(d)
      PROVE  Goal
  <2>1. CASE QueueCall(d)
    BY <1>2, <2>1 DEF QueueCall
  <2>2. CASE SetStopNow(d)
    BY <1>2, <2>2 DEF SetStopNow
  <2>3. CASE Join(d)
    BY <1>2, <2>3 DEF Join
  <2>4. CASE JoinProducers(d)
    BY <1>2, <2>4 DEF JoinProducers, ProducersDone
  <2>5. CASE ReadClock(d) \/ Finalize(d) \/ Snapshot(d)
    BY <1>2, <2>5 DEF ReadClock, Finalize, Snapshot
  <2>6. CASE Notify(d)
    BY <1>1, <2>6 DEF Notify, localVars
  <2> QED
    BY <1>3, <2>1, <2>2, <2>3, <2>4, <2>5, <2>6 DEF ControllerStep
<1> QED
  BY <1>1, <1>3
     DEF Next, Finished, WorkerStep, WakeSpuriously, CallWaitPop, BlockInWaitPop,
         TakeTask, TakeNothing, RecordWait, NoteNotFull, StartTask, FirstPoll,
         CancelTask, FinishTask, EndTask, ProducerStep, CallEnqueue, PushTask, NoteFull,
         DropTask, Tick, vars, localVars

LEMMA ReportStep ==
  ASSUME Positions, Data, ReportInv, [Next]_vars
  PROVE  ReportInv'
<1> SUFFICES ASSUME NEW c \in Controller
             PROVE  /\ AllWorkersExited' \/ Preceded(todo'[c], "snapshot", "join")
                    /\ ProducersDone' \/ Preceded(todo'[c], "snapshot", "joinProducers")
  BY DEF ReportInv
<1>1. /\ AllWorkersExited \/ Preceded(todo[c], "snapshot", "join")
      /\ ProducersDone \/ Preceded(todo[c], "snapshot", "joinProducers")
  BY DEF ReportInv
<1>2. /\ AllWorkersExited => AllWorkersExited'
      /\ ProducersDone => ProducersDone'
  BY JoinedForGood
<1>3. CASE todo'[c] = todo[c]
  BY <1>1, <1>2, <1>3
<1>4. CASE /\ todo[c] \in Seq(ControlOp) /\ todo[c] # <<>>
           /\ todo'[c] = Tail(todo[c])
           /\ Head(todo[c]) = "join" => AllWorkersExited
           /\ Head(todo[c]) = "joinProducers" => ProducersDone
  BY <1>1, <1>2, <1>4, TailPreceded
<1> QED
  BY <1>3, <1>4, ProgramStep

(***************************************************************************)
(* In every program that reports after both joins, as main.cpp's do, the   *)
(* counters of the report are exact: one dropped task for every task the   *)
(* queue refused, and one wait for every task run and for every worker's   *)
(* last, empty-handed return.  Without the joins it would not hold: a      *)
(* refused task is counted in a later critical section.                    *)
(***************************************************************************)
THEOREM ReportsAreExact ==
  ASSUME ReportsAfterJoins
  PROVE  Spec => []SnapshotExact
<1>1. Init => ReportInv
  BY DEF Init, ReportInv, ReportsAfterJoins
<1>2. Spec => []ReportInv
  BY <1>1, ReportStep, PositionsAlways, DataAlways, PTL DEF Spec
<1>3. Sound /\ TaskInv /\ Counters /\ ReportInv => SnapshotExact
  <2> SUFFICES ASSUME Sound, TaskInv, Counters, ReportInv,
                      NEW c \in Controller, todo[c] # <<>>, Head(todo[c]) = "snapshot"
               PROVE  /\ stats.droppedTasks = Cardinality({t \in Task : Refused(t)})
                      /\ stats.waitSamples = Cardinality(Worker)
                           + Cardinality({t \in Task :
                                            outcome[t] \in {"finished", "cancelled"}})
    BY DEF SnapshotExact
  <2>1. AllWorkersExited /\ ProducersDone
    <3>1. todo[c] \in Seq(ControlOp)
      BY DEF Sound, Data
    <3> QED
      BY <3>1, HeadPreceded DEF ReportInv
  <2>2. Recorded = Worker
    BY <2>1 DEF Recorded, AllWorkersExited
  <2>3. \A t \in Task : Refused(t) <=> outcome[t] = "rejected"
    BY <2>1, TaskParts DEF Refused, ProducersDone, ProducerDone
  <2> QED
    BY <2>2, <2>3 DEF Counters, Dropped, Over
<1> QED
  BY <1>2, <1>3, SoundAlways, TaskInvariant, CountersAlways, PTL

-----------------------------------------------------------------------------
(***************************************************************************)
(* The pool implements TaskPool.  A task's stage there is read off where   *)
(* it is here.                                                             *)
(***************************************************************************)
Staged ==
  \A t \in Task :
    /\ ~Submitted(t) => Status(t) = "new"
    /\ Refused(t) => Status(t) = "rejected"
    /\ InQueue(t) => Status(t) = "queued"
    /\ Held(t) => Status(t) = "running"
    /\ outcome[t] \in {"finished", "cancelled"} => Status(t) = outcome[t]
    /\ (/\ Submitted(t) /\ ~Refused(t) /\ ~InQueue(t) /\ ~Held(t)
        /\ outcome[t] \notin {"finished", "cancelled"}) => Status(t) = "discarded"

\* No two of the cases hold of one task.
LEMMA OneStagePerTask == Sound /\ TaskInv => Staged
<1> SUFFICES ASSUME Sound, TaskInv, NEW t \in Task
             PROVE  /\ ~Submitted(t) => Status(t) = "new"
                    /\ Refused(t) => Status(t) = "rejected"
                    /\ InQueue(t) => Status(t) = "queued"
                    /\ Held(t) => Status(t) = "running"
                    /\ outcome[t] \in {"finished", "cancelled"} => Status(t) = outcome[t]
                    /\ (/\ Submitted(t) /\ ~Refused(t) /\ ~InQueue(t) /\ ~Held(t)
                        /\ outcome[t] \notin {"finished", "cancelled"})
                         => Status(t) = "discarded"
  BY DEF Staged
<1>1. /\ InQueue(t) => /\ Submitted(t) /\ ~Refused(t) /\ ~Held(t)
                       /\ outcome[t] = "none"
      /\ Held(t) => Submitted(t) /\ ~Refused(t) /\ outcome[t] \in {"none", "started"}
  BY DEF TaskInv, Queued, InHand
<1>2. /\ Passed(t) => Submitted(t)
      /\ Refused(t) => Submitted(t)
      /\ Refused(t) => outcome[t] \in {"none", "rejected"}
  <2>1. index[t[1]] \in Nat /\ t[2] \in Nat
    BY TaskParts, BoundsAssumption DEF Sound, Positions, BoundsAssumption
  <2>2. outcome[t] # "none" => Passed(t)
    BY DEF TaskInv, Logged
  <2> QED
    BY <2>1, <2>2 DEF Passed, Submitted, Refused
<1>3. outcome[t] # "none" => Submitted(t)
  BY <1>2 DEF TaskInv, Logged
<1> QED
  BY <1>1, <1>2, <1>3 DEF Status

\* Only shutdown_now empties the queue at once, and it sets the flag first.
FlagsBeforeStops ==
  \A program \in Programs, c \in Controller :
    Preceded(program[c], "stopNow", "setStopNow")

FlagInv ==
  \A c \in Controller : poolStopNow \/ Preceded(todo[c], "stopNow", "setStopNow")

LEMMA FlagStep ==
  ASSUME Data, FlagInv, StopsGrow, [Next]_vars
  PROVE  FlagInv'
<1> SUFFICES ASSUME NEW c \in Controller
             PROVE  poolStopNow' \/ Preceded(todo'[c], "stopNow", "setStopNow")
  BY DEF FlagInv
<1>1. poolStopNow \/ Preceded(todo[c], "stopNow", "setStopNow")
  BY DEF FlagInv
<1>2. CASE todo'[c] = todo[c]
  BY <1>1, <1>2 DEF StopsGrow
<1>3. CASE /\ todo[c] \in Seq(ControlOp) /\ todo[c] # <<>>
           /\ todo'[c] = Tail(todo[c])
           /\ Head(todo[c]) = "setStopNow" => poolStopNow'
  BY <1>1, <1>3, TailPreceded DEF StopsGrow
<1> QED
  BY <1>2, <1>3, ProgramStep

\* A step that moves no task.
LEMMA NobodyMoves ==
  ASSUME Staged, Staged', Stages({}, {}, {}), UNCHANGED <<tasks, held>>,
         \A t \in Task : outcome'[t] = outcome[t] \/ Refused(t) \/ Held(t)
  PROVE  UNCHANGED [t \in Task |-> Status(t)]
<1>1. \A t : (InQueue(t)' <=> InQueue(t)) /\ (Held(t)' <=> Held(t))
  BY DEF InQueue, Held
<1>2. \A t \in Task : Status(t)' = Status(t)
  BY <1>1 DEF Stages, Staged
<1> QED
  BY <1>2

LEMMA PushMoves ==
  ASSUME Sound, Readings, TaskInv, Staged, Staged', NEW p \in Producer, PushTask(p)
  PROVE  Promise!Accept(Current(p)) \/ Promise!Reject(Current(p))
<1> DEFINE t == Current(p)
<1>1. UNCHANGED <<held, outcome, poolStopNow>> /\ t \in Task
  BY CurrentStage DEF PushTask
<1>2. /\ ~Submitted(t)
      /\ \/ Queue!Push(p, t) /\ Stages({t}, {}, {t})
         \/ Queue!PushRefused(p) /\ Stages({t}, {t}, {})
  BY PushStages DEF TaskInv
<1>3. \A u : Held(u)' <=> Held(u)
  BY <1>1 DEF Held
<1>4. ~InQueue(t) /\ ~Held(t) /\ ~Refused(t)
  BY <1>1, <1>2, PushStages DEF TaskInv, Queued, InHand
<1>5. Status(t) = "new"
  BY <1>1, <1>2 DEF Staged
<1>6. CASE Queue!Push(p, t) /\ Stages({t}, {}, {t})
  <2>1. \A u : InQueue(u)' <=> InQueue(u) \/ u = t
    BY <1>1, <1>6, AppendContents DEF Queue!Push, Sound
  <2>2. \A u \in Task : Status(u)' = IF u = t THEN "queued" ELSE Status(u)
    <3> HIDE DEF t
    <3> QED
      BY <1>1, <1>3, <1>4, <1>6, <2>1 DEF Stages, Staged
  <2>3. accepting /\ Len(tasks) < Capacity /\ tasks' = Append(tasks, t)
        /\ UNCHANGED accepting
    BY <1>6 DEF Queue!Push, Queue!Accepts
  <2>4. [u \in Task |-> Status(u)]' = [[u \in Task |-> Status(u)] EXCEPT ![t] = "queued"]
    BY <1>1, <2>2
  <2> QED
    BY <1>1, <1>5, <2>3, <2>4 DEF Promise!Accept, Promise!Move
<1>7. CASE Queue!PushRefused(p) /\ Stages({t}, {t}, {})
  <2>1. UNCHANGED <<tasks, accepting>>
    BY <1>7 DEF Queue!PushRefused, Queue!queueVars
  <2>2. \A u : InQueue(u)' <=> InQueue(u)
    BY <2>1 DEF InQueue
  <2>3. \A u \in Task : Status(u)' = IF u = t THEN "rejected" ELSE Status(u)
    <3> HIDE DEF t
    <3> QED
      BY <1>1, <1>3, <1>4, <1>7, <2>2 DEF Stages, Staged
  <2>4. ~accepting \/ Len(tasks) = Capacity
    <3>1. Len(tasks) \in Nat
      BY LenProperties DEF Sound, Queue!TypeOK
    <3> QED
      BY <1>7, <3>1, BoundsAssumption
         DEF Queue!PushRefused, Queue!Accepts, Readings, TaskInv, Stops, BoundsAssumption
  <2>5. [u \in Task |-> Status(u)]' = [[u \in Task |-> Status(u)] EXCEPT ![t] = "rejected"]
    BY <1>1, <2>3
  <2> QED
    BY <1>1, <1>5, <2>1, <2>4, <2>5 DEF Promise!Reject, Promise!Move
<1> QED
  BY <1>2, <1>6, <1>7

\* A worker without a task leaves room for one more running task.
LEMMA RoomForOne ==
  ASSUME Sound, TaskInv, Staged, NEW w \in Worker, held[w] = NoTask
  PROVE  Promise!Cardinality(Promise!Running) < Cardinality(Worker)
<1> DEFINE R == Promise!Running
           W == Worker \ {w}
           f == [t \in R |-> CHOOSE v \in W : held[v] = t]
<1>1. IsFiniteSet(Worker) /\ IsFiniteSet(W) /\ Cardinality(W) = Cardinality(Worker) - 1
  BY WorkerAssumption, FS_RemoveElement DEF WorkerAssumption
<1>2. \A t \in R : t \in Task /\ Held(t)
  <2> SUFFICES ASSUME NEW t \in Task, Status(t) = "running"
               PROVE  Held(t)
    BY DEF Promise!Running
  <2> QED
    BY DEF Staged
<1>3. \A t \in R : f[t] \in W /\ held[f[t]] = t
  BY <1>2, NoTaskAssumption DEF Held, NoTaskAssumption
<1>4. f \in Injection(R, W)
  BY <1>3 DEF Injection, IsInjective
<1>5. Cardinality(R) <= Cardinality(W) /\ IsFiniteSet(R)
  BY <1>1, <1>4, FS_Injection
<1>6. Promise!Cardinality(R) = Cardinality(R)
  BY DEF Promise!Cardinality, Cardinality
<1> HIDE DEF R, W, f
<1>7. Cardinality(Worker) \in Nat /\ Cardinality(R) \in Nat /\ Cardinality(W) \in Nat
  BY <1>1, <1>5, FS_CardinalityType
<1>8. Promise!Cardinality(R) < Cardinality(Worker)
  BY <1>1, <1>5, <1>6, <1>7
<1> QED
  BY <1>8 DEF R

LEMMA TakeMoves ==
  ASSUME Sound, TaskInv, Staged, Staged', NEW w \in Worker, TakeTask(w)
  PROVE  Promise!Begin
<1> DEFINE t == Head(tasks)
<1>1. /\ t \in Task /\ InQueue(t)
      /\ \A u : InQueue(u)' <=> InQueue(u) /\ u # t
  BY TailContents DEF Sound, TakeTask, Queue!PopTask, TaskInv, Queued, Distinct
<1>2. /\ outcome' = outcome /\ Stages({}, {}, {})
      /\ held' = [held EXCEPT ![w] = t]
  <2>1. UNCHANGED <<outcome, index>> /\ \A p \in Producer : pc'[p] = pc[p]
    BY ThreadsAssumption DEF TakeTask, Goto, Sound, Positions, ThreadsAssumption
  <2> QED
    BY <2>1, ProducersRest DEF TakeTask
<1>3. held[w] = NoTask
  BY DEF TaskInv, Places, TakeTask, Busy
<1> HIDE DEF t
<1>4. \A u \in Task : Held(u)' <=> Held(u) \/ u = t
  <2>1. \A v \in Worker : held'[v] = IF v = w THEN t ELSE held[v]
    BY <1>2 DEF Sound, Data
  <2> QED
    BY <1>3, <2>1, NoTaskAssumption DEF Held, NoTaskAssumption
<1>5. Status(t) = "queued"
  BY <1>1 DEF Staged
<1>6. \A u \in Task : Status(u)' = IF u = t THEN "running" ELSE Status(u)
  BY <1>1, <1>2, <1>4 DEF Stages, Staged
<1>7. [u \in Task |-> Status(u)]' = [[u \in Task |-> Status(u)] EXCEPT ![t] = "running"]
  BY <1>1, <1>6
<1>8. tasks # <<>> /\ tasks' = Tail(tasks) /\ UNCHANGED <<accepting, poolStopNow>>
  BY DEF TakeTask, Queue!PopTask
<1> QED
  BY <1>1, <1>3, <1>5, <1>7, <1>8, RoomForOne DEF Promise!Begin, Promise!Move, t

LEMMA EndMoves ==
  ASSUME Sound, TaskInv, Staged, Staged', NEW w \in Worker,
         pc[w] \in {"check", "work"}, NEW how \in {"finished", "cancelled"},
         how = "cancelled" => poolStopNow, EndTask(w, how)
  PROVE  Promise!End(held[w])
<1> DEFINE t == held[w]
<1>1. t \in Task /\ Held(t) /\ ~InQueue(t) /\ Submitted(t) /\ ~Refused(t)
  BY DEF TaskInv, Places, Busy, Sound, Data, Held, InHand, Queued
<1>2. Stages({}, {}, {})
  <2>1. how \in Outcome \ {"rejected"}
    BY DEF Outcome
  <2>2. UNCHANGED index /\ \A p \in Producer : pc'[p] = pc[p]
    BY ThreadsAssumption DEF EndTask, Goto, Sound, Positions, ThreadsAssumption
  <2> QED
    BY <1>1, <2>1, <2>2, NoTaskAssumption, WorkerStages
       DEF EndTask, TaskInv, NoTaskAssumption
<1>3. \A u : InQueue(u)' <=> InQueue(u)
  BY DEF EndTask, queueVars, InQueue
<1>4. \A u \in Task : outcome'[u] = IF u = t THEN how ELSE outcome[u]
  BY DEF EndTask, Sound, Data
<1>5. \A u \in Task : Held(u)' <=> Held(u) /\ u # t
  <2>1. \A v \in Worker : held'[v] = IF v = w THEN NoTask ELSE held[v]
    BY DEF EndTask, Sound, Data
  <2>2. \A v \in Worker : held[v] = t => v = w
    BY <1>1, NoTaskAssumption DEF TaskInv, InHand, NoTaskAssumption
  <2> QED
    BY <2>1, <2>2, NoTaskAssumption DEF Held, NoTaskAssumption
<1> HIDE DEF t
<1>6. Status(t) = "running"
  BY <1>1 DEF Staged
<1>7. \A u \in Task : Status(u)' = IF u = t THEN how ELSE Status(u)
  BY <1>1, <1>2, <1>3, <1>4, <1>5 DEF Stages, Staged
<1>8. [u \in Task |-> Status(u)]' = [[u \in Task |-> Status(u)] EXCEPT ![t] = how]
  BY <1>1, <1>7
<1>9. UNCHANGED <<tasks, accepting, poolStopNow>>
  BY DEF EndTask, queueVars
<1> QED
  BY <1>1, <1>6, <1>8, <1>9 DEF Promise!End, Promise!Move, t

LEMMA StopNowMoves ==
  ASSUME Sound, TaskInv, Staged, Staged', FlagInv, NEW c \in Controller,
         Do(c, "stopNow"), Queue!StopNow(c), UNCHANGED <<ThreadLocals, poolStopNow>>
  PROVE  Promise!Discard
<1>1. poolStopNow
  BY HeadPreceded DEF FlagInv, Do, Sound, Data
<1>2. Stages({}, {}, {})
  BY ProducersRest DEF ThreadLocals
<1>3. \A u : ~InQueue(u)' /\ (Held(u)' <=> Held(u))
  BY DEF Queue!StopNow, InQueue, Held, ThreadLocals
<1>4. \A u \in Task : Status(u)' = IF Status(u) = "queued" THEN "discarded" ELSE Status(u)
  <2> SUFFICES ASSUME NEW u \in Task
               PROVE  Status(u)' = IF Status(u) = "queued" THEN "discarded" ELSE Status(u)
    OBVIOUS
  <2>1. CASE InQueue(u)
    BY <1>2, <1>3, <2>1
       DEF TaskInv, Queued, Stages, Staged, ThreadLocals
  <2>2. CASE ~InQueue(u)
    <3>1. Status(u)' = Status(u)
      BY <1>2, <1>3, <2>2 DEF Stages, Staged, ThreadLocals
    <3>2. Status(u) # "queued"
      BY <2>2 DEF Staged
    <3> QED
      BY <3>1, <3>2
  <2> QED
    BY <2>1, <2>2
<1>5. \A u \in Task : [v \in Task |-> Status(v)][u] = Status(u)
  OBVIOUS
<1>6. [u \in Task |-> Status(u)]' =
        [u \in Task |-> IF [v \in Task |-> Status(v)][u] = "queued" THEN "discarded"
                        ELSE [v \in Task |-> Status(v)][u]]
  BY <1>4, <1>5
<1> QED
  BY <1>1, <1>6 DEF Promise!Discard, Queue!StopNow

PromiseVars == <<[t \in Task |-> Status(t)], tasks, accepting, poolStopNow>>

LEMMA WorkerMovesTasks ==
  ASSUME Sound, TaskInv, Staged, Staged', NEW w \in Worker,
         WorkerStep(w) \/ WakeSpuriously(w)
  PROVE  \/ Promise!Begin
         \/ \E t \in Task : Promise!End(t)
         \/ UNCHANGED PromiseVars
<1>1. UNCHANGED index /\ \A p \in Producer : pc'[p] = pc[p]
  BY WorkerMovesAlone DEF Sound
<1>2. CASE TakeTask(w)
  BY <1>2, TakeMoves
<1>3. CASE CancelTask(w) \/ FinishTask(w)
  <2>1. pc[w] \in {"check", "work"}
    BY <1>3 DEF CancelTask, FinishTask
  <2>2. held[w] \in Task
    BY <2>1 DEF TaskInv, Places, Busy, Sound, Data
  <2>3. Promise!End(held[w])
    BY <1>3, <2>1, EndMoves DEF CancelTask, FinishTask
  <2> QED
    BY <2>2, <2>3
<1>4. CASE StartTask(w)
  <2>1. held[w] \in Task /\ Held(held[w])
    BY <1>4 DEF StartTask, TaskInv, Places, Busy, Sound, Data, Held
  <2>2. /\ \A t \in Task : outcome'[t] = outcome[t] \/ Held(t)
        /\ UNCHANGED <<tasks, held, accepting, poolStopNow>>
    BY <1>4, <2>1 DEF StartTask, Sound, Data, queueVars
  <2>3. Stages({}, {}, {})
    <3>1. "started" \in Outcome \ {"rejected"}
      BY DEF Outcome
    <3> QED
      BY <1>1, <1>4, <2>1, <3>1, NoTaskAssumption, WorkerStages
         DEF StartTask, TaskInv, NoTaskAssumption
  <2> QED
    BY <2>2, <2>3, NobodyMoves DEF PromiseVars
<1>5. CASE UNCHANGED <<tasks, held, outcome, accepting, poolStopNow>>
  BY <1>1, <1>5, ProducersRest, NobodyMoves DEF PromiseVars
<1> QED
  BY <1>2, <1>3, <1>4, <1>5
     DEF WorkerStep, WakeSpuriously, CallWaitPop, BlockInWaitPop, TakeNothing, RecordWait,
         NoteNotFull, FirstPoll, queueVars, localVars, Queue!EnterWaitPop, Queue!Sleep,
         Queue!PopNothing, Queue!SpuriousWake

LEMMA ProducerMovesTasks ==
  ASSUME Sound, Readings, TaskInv, Staged, Staged', NEW p \in Producer, ProducerStep(p)
  PROVE  \/ \E t \in Task : Promise!Accept(t) \/ Promise!Reject(t)
         \/ UNCHANGED PromiseVars
<1>1. CASE PushTask(p)
  <2>1. Current(p) \in Task
    BY <1>1, CurrentStage DEF PushTask
  <2> QED
    BY <1>1, <2>1, PushMoves
<1>2. CASE CallEnqueue(p)
  BY <1>2, CallEnqueueStages, NobodyMoves DEF CallEnqueue, queueVars, PromiseVars
<1>3. CASE NoteFull(p)
  BY <1>3, NoteFullStages, NobodyMoves DEF NoteFull, queueVars, PromiseVars
<1>4. CASE DropTask(p)
  <2> DEFINE t == Current(p)
  <2>1. /\ t \in Task /\ Refused(t) /\ Submitted(t)
        /\ outcome' = [outcome EXCEPT ![t] = "rejected"]
        /\ Stages({}, {}, {t})
    BY <1>4, DropTaskStages
  <2> HIDE DEF t
  <2>2. \A u : (InQueue(u)' <=> InQueue(u)) /\ (Held(u)' <=> Held(u))
    BY <1>4 DEF DropTask, queueVars, InQueue, Held
  <2>3. \A u \in Task : u # t => outcome'[u] = outcome[u]
    BY <2>1 DEF Sound, Data
  <2>4. \A u \in Task : Status(u)' = Status(u)
    BY <2>1, <2>2, <2>3 DEF Stages, Staged
  <2> QED
    BY <1>4, <2>4 DEF DropTask, queueVars, PromiseVars
<1> QED
  BY <1>1, <1>2, <1>3, <1>4 DEF ProducerStep

LEMMA ControllerMovesTasks ==
  ASSUME Sound, TaskInv, Staged, Staged', FlagInv, NEW c \in Controller, ControllerStep(c)
  PROVE  Promise!Close \/ Promise!Kill \/ Promise!Discard \/ UNCHANGED PromiseVars
<1>1. UNCHANGED <<pc, index, held, outcome>>
  BY DEF ControllerStep, QueueCall, Notify, SetStopNow, ReadClock, Finalize, Join,
         JoinProducers, Snapshot, ThreadLocals, localVars
<1>2. Stages({}, {}, {})
  BY <1>1, ProducersRest
<1>3. UNCHANGED tasks => UNCHANGED [t \in Task |-> Status(t)]
  BY <1>1, <1>2, NobodyMoves
<1>4. CASE QueueCall(c)
  <2>1. CASE Do(c, "stopNow") /\ Queue!StopNow(c)
    BY <1>4, <2>1, StopNowMoves DEF QueueCall
  <2>2. CASE Queue!StopGraceful(c)
    BY <1>3, <1>4, <2>2 DEF QueueCall, Queue!StopGraceful, Promise!Close
  <2>3. CASE Queue!Pause(c) \/ Queue!Resume(c)
    BY <1>3, <1>4, <2>3 DEF QueueCall, Queue!Pause, Queue!Resume, PromiseVars
  <2> QED
    BY <1>4, <2>1, <2>2, <2>3 DEF QueueCall
<1>5. CASE SetStopNow(c)
  BY <1>3, <1>5 DEF SetStopNow, Promise!Kill, queueVars
<1> QED
  BY <1>3, <1>4, <1>5
     DEF ControllerStep, Notify, Queue!NotifyAll, ReadClock, Finalize, Join, JoinProducers,
         Snapshot, queueVars, localVars, PromiseVars

LEMMA PromiseStep ==
  ASSUME Sound, Readings, TaskInv, Staged, Staged', FlagInv, [Next]_vars
  PROVE  [Promise!Next]_Promise!poolVars
<1>1. CASE UNCHANGED PromiseVars
  <2>1. UNCHANGED Promise!poolVars
    BY <1>1 DEF PromiseVars, Promise!poolVars
  <2> QED
    BY <2>1
<1>2. CASE UNCHANGED <<tasks, held, outcome, pc, index, accepting, poolStopNow>>
  BY <1>1, <1>2, ProducersRest, NobodyMoves DEF PromiseVars
<1> QED
  BY <1>1, <1>2, WorkerMovesTasks, ProducerMovesTasks, ControllerMovesTasks
     DEF Next, Finished, Tick, vars, queueVars, localVars, Promise!Next

(***************************************************************************)
(* The pool keeps the promise of TaskPool, for every set of programs in    *)
(* which only shutdown_now empties the queue, that is with the flag set    *)
(* before: tasks start in the order of their acceptance, no more of them   *)
(* at once than there are workers, one is rejected only by a full or       *)
(* closed queue, and only an immediate shutdown cancels or discards any.   *)
(***************************************************************************)
THEOREM PoolKeepsPromise ==
  ASSUME FlagsBeforeStops
  PROVE  Spec => KeepsPromise
<1>1. Init => FlagInv
  BY DEF Init, FlagInv, FlagsBeforeStops
<1>2. Sound /\ TaskInv /\ FlagInv /\ [Next]_vars => FlagInv'
  BY FlagStep, StopsStep DEF Sound, TaskInv
<1>3. Spec => []FlagInv
  BY <1>1, <1>2, SoundAlways, TaskInvariant, PTL DEF Spec
<1>4. Spec => []Staged
  BY OneStagePerTask, SoundAlways, TaskInvariant, PTL
<1>5. Init => Promise!Init
  <2> SUFFICES ASSUME Init PROVE Promise!Init
    OBVIOUS
  <2>1. \A t \in Task : ~Submitted(t)
    BY TaskParts DEF Init, Submitted
  <2>2. Sound /\ TaskInv
    <3>1. Queue!TypeOK
      BY EmptySeq DEF Init, Queue!Init, Queue!TypeOK
    <3> QED
      BY <3>1, PositionsInit, DataInit, TaskInvInit DEF Sound
  <2>3. \A t \in Task : Status(t) = "new"
    BY <2>1, <2>2, OneStagePerTask DEF Staged
  <2> QED
    BY <2>3 DEF Init, Queue!Init, Promise!Init
<1> QED
  BY <1>3, <1>4, <1>5, PromiseStep, SoundAlways, ReadingsAlways, TaskInvariant, PTL
     DEF Spec, KeepsPromise, Promise!Spec

(***************************************************************************)
(* The programs of main.cpp satisfy the hypotheses of the two theorems     *)
(* that have one, with either shutdown.                                    *)
(***************************************************************************)
Occurs(s, op) == \E i \in DOMAIN s : s[i] = op

LEMMA ConcatElements ==
  ASSUME NEW S, NEW s \in Seq(S), NEW t \in Seq(S), NEW u, u = s \o t
  PROVE  /\ u \in Seq(S)
         /\ Len(u) = Len(s) + Len(t)
         /\ \A i \in 1..(Len(s) + Len(t)) : u[i] = IF i <= Len(s) THEN s[i] ELSE t[i - Len(s)]
  BY ConcatProperties, Zenon

LEMMA PrecededInConcat ==
  ASSUME NEW s \in Seq(ControlOp), NEW t \in Seq(ControlOp), NEW op, NEW first,
         Preceded(s, op, first), Preceded(t, op, first) \/ Occurs(s, first)
  PROVE  /\ s \o t \in Seq(ControlOp)
         /\ Preceded(s \o t, op, first)
         /\ Occurs(s, first) \/ Occurs(t, first) => Occurs(s \o t, first)
<1> DEFINE u == s \o t
           m == Len(s)
           n == Len(t)
<1>1. /\ u \in Seq(ControlOp) /\ Len(u) = m + n
      /\ \A i \in 1..(m + n) : u[i] = IF i <= m THEN s[i] ELSE t[i - m]
  <2>1. PICK v : v = u
    OBVIOUS
  <2>2. /\ v \in Seq(ControlOp) /\ Len(v) = m + n
        /\ \A i \in 1..(m + n) : v[i] = IF i <= m THEN s[i] ELSE t[i - m]
    BY <2>1, ConcatElements
  <2> QED
    BY <2>1, <2>2, Zenon
<1>2. m \in Nat /\ n \in Nat /\ DOMAIN s = 1..m /\ DOMAIN t = 1..n
  BY LenProperties
<1>3. DOMAIN u = 1..(m + n)
  BY <1>1, LenProperties, Zenon
<1> HIDE DEF u, m, n
<1>4. /\ \A i \in DOMAIN s : i \in DOMAIN u /\ u[i] = s[i]
      /\ \A i \in DOMAIN t : i + m \in DOMAIN u /\ u[i + m] = t[i]
  BY <1>1, <1>2, <1>3
<1>5. Preceded(u, op, first)
  <2> SUFFICES ASSUME NEW i \in DOMAIN u, u[i] = op
               PROVE  \E j \in DOMAIN u : j < i /\ u[j] = first
    BY DEF Preceded
  <2>1. CASE i <= m
    BY <1>1, <1>2, <1>3, <1>4, <2>1 DEF Preceded
  <2>2. CASE i > m /\ Occurs(s, first)
    BY <1>2, <1>3, <1>4, <2>2 DEF Occurs
  <2>3. CASE i > m /\ Preceded(t, op, first)
    <3>1. i - m \in DOMAIN t /\ t[i - m] = op
      BY <1>1, <1>2, <1>3, <2>3
    <3>2. PICK j \in DOMAIN t : j < i - m /\ t[j] = first
      BY <2>3, <3>1 DEF Preceded
    <3> QED
      BY <1>2, <1>3, <1>4, <3>2
  <2> QED
    BY <1>2, <1>3, <2>1, <2>2, <2>3
<1>6. Occurs(s, first) \/ Occurs(t, first) => Occurs(u, first)
  BY <1>4 DEF Occurs
<1> QED
  BY <1>1, <1>5, <1>6 DEF u

LEMMA ShortSequences ==
  ASSUME NEW S
  PROVE  /\ \A a \in S : <<a>> \in Seq(S)
         /\ \A a, b \in S : <<a, b>> \in Seq(S)
         /\ \A a, b, c, d \in S : <<a, b, c, d>> \in Seq(S)
         /\ \A a, b, c, d, e \in S : <<a, b, c, d, e>> \in Seq(S)
  OBVIOUS

LEMMA CallsAreSequences ==
  /\ PauseCall \in Seq(ControlOp) /\ ResumeCall \in Seq(ControlOp)
  /\ ShutdownGraceful \in Seq(ControlOp) /\ ShutdownNow \in Seq(ControlOp)
  /\ <<"joinProducers", "snapshot">> \in Seq(ControlOp)
  BY ShortSequences
     DEF PauseCall, ResumeCall, ShutdownGraceful, ShutdownNow, ControlOp

LEMMA MainProgramPrecedes ==
  ASSUME NEW shutdown \in Seq(ControlOp), NEW op, NEW first,
         Preceded(PauseCall, op, first), Preceded(ResumeCall, op, first),
         Preceded(shutdown, op, first), Preceded(ShutdownGraceful, op, first),
         \/ Preceded(<<"joinProducers", "snapshot">>, op, first)
         \/ Occurs(shutdown, first)
  PROVE  /\ MainProgram(shutdown) \in Seq(ControlOp)
         /\ Preceded(MainProgram(shutdown), op, first)
<1> DEFINE A == PauseCall \o ResumeCall
           B == A \o shutdown
           R == <<"joinProducers", "snapshot">>
           D == B \o R
<1>1. A \in Seq(ControlOp) /\ Preceded(A, op, first)
  BY PrecededInConcat, CallsAreSequences
<1> HIDE DEF A
<1>2. /\ B \in Seq(ControlOp) /\ Preceded(B, op, first)
      /\ Occurs(shutdown, first) => Occurs(B, first)
  BY <1>1, PrecededInConcat
<1> HIDE DEF B, R
<1>3. D \in Seq(ControlOp) /\ Preceded(D, op, first)
  BY <1>2, PrecededInConcat, CallsAreSequences DEF R
<1> HIDE DEF D
<1>4. D \o ShutdownGraceful \in Seq(ControlOp) /\ Preceded(D \o ShutdownGraceful, op, first)
  BY <1>3, PrecededInConcat, CallsAreSequences
<1> QED
  BY <1>4 DEF MainProgram, A, B, R, D

LEMMA MainProgramsQualify ==
  \A shutdown \in {ShutdownGraceful, ShutdownNow} :
    /\ MainProgram(shutdown) \in Seq(ControlOp)
    /\ Preceded(MainProgram(shutdown), "snapshot", "join")
    /\ Preceded(MainProgram(shutdown), "snapshot", "joinProducers")
    /\ Preceded(MainProgram(shutdown), "stopNow", "setStopNow")
<1> USE DEF Preceded, Occurs
<1>1. /\ \A s \in {PauseCall, ResumeCall} : \A op \in {"snapshot", "stopNow"} :
           ~Occurs(s, op)
  BY DEF PauseCall, ResumeCall
<1>2. /\ \A op \in {"snapshot", "stopNow"} : ~Occurs(ShutdownGraceful, op)
      /\ Occurs(ShutdownGraceful, "join")
  BY DEF ShutdownGraceful
<1>3. /\ ~Occurs(ShutdownNow, "snapshot") /\ Occurs(ShutdownNow, "join")
      /\ Preceded(ShutdownNow, "stopNow", "setStopNow")
  BY DEF ShutdownNow
<1>4. /\ Preceded(<<"joinProducers", "snapshot">>, "snapshot", "joinProducers")
      /\ ~Occurs(<<"joinProducers", "snapshot">>, "stopNow")
  OBVIOUS
<1>5. ASSUME NEW s, NEW op, NEW first, ~Occurs(s, op)
      PROVE  Preceded(s, op, first)
  BY <1>5
<1> HIDE DEF Preceded, Occurs
<1> SUFFICES ASSUME NEW shutdown \in {ShutdownGraceful, ShutdownNow}
             PROVE  /\ MainProgram(shutdown) \in Seq(ControlOp)
                    /\ Preceded(MainProgram(shutdown), "snapshot", "join")
                    /\ Preceded(MainProgram(shutdown), "snapshot", "joinProducers")
                    /\ Preceded(MainProgram(shutdown), "stopNow", "setStopNow")
  OBVIOUS
<1>6. shutdown \in Seq(ControlOp)
  BY CallsAreSequences
<1>7. /\ MainProgram(shutdown) \in Seq(ControlOp)
      /\ Preceded(MainProgram(shutdown), "snapshot", "join")
  BY <1>1, <1>2, <1>3, <1>5, <1>6, MainProgramPrecedes
<1>8. Preceded(MainProgram(shutdown), "snapshot", "joinProducers")
  BY <1>1, <1>2, <1>3, <1>4, <1>5, <1>6, MainProgramPrecedes
<1>9. Preceded(MainProgram(shutdown), "stopNow", "setStopNow")
  BY <1>1, <1>2, <1>3, <1>4, <1>5, <1>6, MainProgramPrecedes
<1> QED
  BY <1>7, <1>8, <1>9
=============================================================================
