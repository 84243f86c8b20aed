----------------------- MODULE ThreadSafeQueueProofs -----------------------
(***************************************************************************)
(* Proofs about the queue of lab_3, for every finite set of threads, every *)
(* set of tasks and every capacity.                                        *)
(***************************************************************************)
EXTENDS ThreadSafeQueue, FiniteSetTheorems, SequenceTheorems, TLAPS

(***************************************************************************)
(* The queue of tasks is a sequence of tasks, and a thread is blocked or   *)
(* about to notify only inside the call that says so.                      *)
(***************************************************************************)
THEOREM TypeCorrect == Spec => []TypeOK
<1>1. Init => TypeOK
  BY EmptySeq DEF Init, TypeOK
<1>2. TypeOK /\ [Next]_queueVars => TypeOK'
  <2> SUFFICES ASSUME TypeOK, [Next]_queueVars PROVE TypeOK'
    OBVIOUS
  <2> USE DEF TypeOK
  <2>1. ASSUME NEW t \in Thread, NEW task \in Task, Push(t, task) PROVE TypeOK'
    BY <2>1 DEF Push, NotifyOne
  <2>2. ASSUME NEW t \in Thread, EnterWaitPop(t) PROVE TypeOK'
    BY <2>2 DEF EnterWaitPop, Idle
  <2>3. ASSUME NEW t \in Thread, Sleep(t) PROVE TypeOK'
    BY <2>3 DEF Sleep, Awake
  <2>4. ASSUME NEW t \in Thread, PopTask(t) PROVE TypeOK'
    <3>1. tasks' \in Seq(Task)
      BY <2>4, HeadTailProperties DEF PopTask
    <3> QED
      BY <2>4, <3>1 DEF PopTask, Awake
  <2>5. ASSUME NEW t \in Thread, PopNothing(t) PROVE TypeOK'
    BY <2>5 DEF PopNothing, Awake
  <2>6. ASSUME NEW t \in Thread, SpuriousWake(t) PROVE TypeOK'
    BY <2>6 DEF SpuriousWake
  <2>7. ASSUME NEW t \in Thread, Pause(t) PROVE TypeOK'
    BY <2>7 DEF Pause
  <2>8. ASSUME NEW t \in Thread, Resume(t) PROVE TypeOK'
    BY <2>8 DEF Resume, Idle
  <2>9. ASSUME NEW t \in Thread, StopGraceful(t) PROVE TypeOK'
    BY <2>9 DEF StopGraceful, Idle
  <2>10. ASSUME NEW t \in Thread, StopNow(t) PROVE TypeOK'
    BY <2>10, EmptySeq DEF StopNow, Idle
  <2>11. ASSUME NEW t \in Thread, NotifyAll(t) PROVE TypeOK'
    BY <2>11 DEF NotifyAll
  <2>12. CASE UNCHANGED queueVars
    BY <2>12 DEF queueVars
  <2> QED
    BY <2>1, <2>2, <2>3, <2>4, <2>5, <2>6, <2>7, <2>8, <2>9, <2>10, <2>11,
       <2>12 DEF Next, FinishWaitPop
<1> QED
  BY <1>1, <1>2, PTL DEF Spec

-----------------------------------------------------------------------------
(***************************************************************************)
(* An immediate stop empties the queue, and nothing enters it afterwards.  *)
(* NoLostWakeup needs this for a waitPop that returns empty-handed: then   *)
(* either the queue is empty or stopNow has emptied it.                    *)
(***************************************************************************)
StopNowEmpties == stopNowFlag => tasks = <<>>

THEOREM StopNowLeavesNothing == Spec => []StopNowEmpties
<1>1. Init => StopNowEmpties
  BY DEF Init, StopNowEmpties
<1>2. TypeOK /\ StopNowEmpties /\ [Next]_queueVars => StopNowEmpties'
  <2> SUFFICES ASSUME StopNowEmpties, [Next]_queueVars PROVE StopNowEmpties'
    OBVIOUS
  <2> USE DEF StopNowEmpties
  <2>1. ASSUME NEW t \in Thread, NEW task \in Task, Push(t, task)
        PROVE StopNowEmpties'
    BY <2>1 DEF Push, Accepts
  <2>2. ASSUME NEW t \in Thread, PopTask(t) PROVE StopNowEmpties'
    BY <2>2 DEF PopTask
  <2>3. ASSUME NEW t \in Thread, StopNow(t) PROVE StopNowEmpties'
    BY <2>3 DEF StopNow
  <2>4. ASSUME NEW t \in Thread,
               \/ EnterWaitPop(t) \/ Sleep(t) \/ PopNothing(t)
               \/ SpuriousWake(t) \/ Pause(t) \/ Resume(t)
               \/ StopGraceful(t) \/ NotifyAll(t)
        PROVE UNCHANGED <<tasks, stopNowFlag>>
    BY <2>4 DEF EnterWaitPop, Sleep, PopNothing, SpuriousWake, Pause, Resume,
                StopGraceful, NotifyAll
  <2>5. CASE UNCHANGED queueVars
    BY <2>5 DEF queueVars
  <2> QED
    BY <2>1, <2>2, <2>3, <2>4, <2>5 DEF Next, FinishWaitPop
<1> QED
  BY <1>1, <1>2, TypeCorrect, PTL DEF Spec

-----------------------------------------------------------------------------
(***************************************************************************)
(* Awake threads, counted.                                                 *)
(***************************************************************************)
AwakeThreads == waiting \ sleeping

LEMMA AwakeFinite ==
  ASSUME TypeOK
  PROVE  /\ IsFiniteSet(AwakeThreads)
         /\ Cardinality(AwakeThreads) \in Nat
<1>1. AwakeThreads \in SUBSET Thread
  BY DEF TypeOK, AwakeThreads
<1>2. IsFiniteSet(AwakeThreads)
  BY <1>1, ThreadAssumption, FS_Subset
<1> QED
  BY <1>2, FS_CardinalityType

(***************************************************************************)
(* No wake-up is lost.  A push adds one task and, if anybody sleeps, one   *)
(* awake thread; a pop takes one of each; a thread that goes to sleep has  *)
(* found the queue empty or paused; and whoever makes a sleeping thread's  *)
(* condition true without waking it still owes a notify_all.               *)
(***************************************************************************)
THEOREM WakeupsAreNotLost == Spec => []NoLostWakeup
<1>1. Init => NoLostWakeup
  BY DEF Init, NoLostWakeup
<1>2. TypeOK /\ TypeOK' /\ StopNowEmpties /\ NoLostWakeup /\ [Next]_queueVars
        => NoLostWakeup'
  <2> SUFFICES ASSUME TypeOK, TypeOK', StopNowEmpties, NoLostWakeup,
                      [Next]_queueVars,
                      sleeping' # {}, notifying' = {}, ~paused'
               PROVE  Len(tasks') <= Cardinality(AwakeThreads')
    BY DEF NoLostWakeup, AwakeThreads
  <2> DEFINE Goal == Len(tasks') <= Cardinality(AwakeThreads')
  <2>a. /\ Cardinality(AwakeThreads) \in Nat /\ IsFiniteSet(AwakeThreads)
        /\ Cardinality(AwakeThreads') \in Nat /\ IsFiniteSet(AwakeThreads')
    <3>1. IsFiniteSet(AwakeThreads) /\ Cardinality(AwakeThreads) \in Nat
      BY AwakeFinite
    <3>2. AwakeThreads' \in SUBSET Thread
      BY DEF TypeOK, AwakeThreads
    <3>3. IsFiniteSet(AwakeThreads')
      BY <3>2, ThreadAssumption, FS_Subset
    <3> QED
      BY <3>1, <3>3, FS_CardinalityType
  <2>b. Len(tasks) \in Nat /\ tasks \in Seq(Task)
    BY DEF TypeOK
  <2>c. ASSUME sleeping # {}, notifying = {}, ~paused
        PROVE  Len(tasks) <= Cardinality(AwakeThreads)
    BY <2>c DEF NoLostWakeup, AwakeThreads
  \* More awake threads and no more tasks.
  <2>d. ASSUME NEW t \in waiting', AwakeThreads' = AwakeThreads \cup {t},
               UNCHANGED <<tasks, notifying, paused>>, sleeping # {}
        PROVE  Goal
    BY <2>a, <2>b, <2>c, <2>d, FS_AddElement
  <2>1. ASSUME NEW t \in Thread, NEW task \in Task, Push(t, task) PROVE Goal
    <3>1. PICK s \in sleeping : sleeping' = sleeping \ {s}
      BY <2>1 DEF Push, NotifyOne
    <3>2. AwakeThreads' = AwakeThreads \cup {s} /\ s \notin AwakeThreads
      BY <2>1, <3>1 DEF Push, AwakeThreads, TypeOK
    <3>3. Cardinality(AwakeThreads') = Cardinality(AwakeThreads) + 1
      BY <2>a, <3>2, FS_AddElement
    <3>4. Len(tasks') = Len(tasks) + 1
      BY <2>1, <2>b DEF Push
    <3>5. Len(tasks) <= Cardinality(AwakeThreads)
      BY <2>1, <2>c, <3>1 DEF Push
    <3> QED
      BY <2>a, <2>b, <3>3, <3>4, <3>5
  <2>2. ASSUME NEW t \in Thread, EnterWaitPop(t) PROVE Goal
    <3>1. AwakeThreads' = AwakeThreads \cup {t} /\ t \in waiting'
      BY <2>2 DEF EnterWaitPop, AwakeThreads, Idle, TypeOK
    <3> QED
      BY <2>2, <3>1, <2>d DEF EnterWaitPop
  <2>3. ASSUME NEW t \in Thread, Sleep(t) PROVE Goal
    <3>1. tasks' = <<>>
      BY <2>3 DEF Sleep, WakeCondition
    <3> QED
      BY <3>1, <2>a
  <2>4. ASSUME NEW t \in Thread, PopTask(t) PROVE Goal
    <3>1. AwakeThreads' = AwakeThreads \ {t} /\ t \in AwakeThreads
      BY <2>4 DEF PopTask, Awake, AwakeThreads
    <3>2. Cardinality(AwakeThreads') = Cardinality(AwakeThreads) - 1
      BY <2>a, <3>1, FS_RemoveElement
    <3>3. Len(tasks') = Len(tasks) - 1
      BY <2>4, <2>b, HeadTailProperties DEF PopTask
    <3>4. Len(tasks) <= Cardinality(AwakeThreads)
      BY <2>4, <2>c DEF PopTask
    <3> QED
      BY <2>a, <2>b, <3>2, <3>3, <3>4
  <2>5. ASSUME NEW t \in Thread, PopNothing(t) PROVE Goal
    <3>1. tasks' = <<>>
      BY <2>5 DEF PopNothing, StopNowEmpties
    <3> QED
      BY <3>1, <2>a
  <2>6. ASSUME NEW t \in Thread, SpuriousWake(t) PROVE Goal
    <3>1. AwakeThreads' = AwakeThreads \cup {t} /\ t \in waiting'
      BY <2>6 DEF SpuriousWake, AwakeThreads, TypeOK
    <3> QED
      BY <2>6, <3>1, <2>d DEF SpuriousWake
  <2>7. ASSUME NEW t \in Thread, Pause(t) PROVE Goal
    BY <2>7 DEF Pause
  <2>8. ASSUME NEW t \in Thread, Resume(t) \/ StopGraceful(t) \/ StopNow(t)
        PROVE Goal
    BY <2>8 DEF Resume, StopGraceful, StopNow
  <2>9. ASSUME NEW t \in Thread, NotifyAll(t) PROVE Goal
    BY <2>9 DEF NotifyAll
  <2>10. CASE UNCHANGED queueVars
    BY <2>10, <2>c DEF queueVars, AwakeThreads
  <2> QED
    BY <2>1, <2>2, <2>3, <2>4, <2>5, <2>6, <2>7, <2>8, <2>9, <2>10
       DEF Next, FinishWaitPop
<1> QED
  BY <1>1, <1>2, TypeCorrect, StopNowLeavesNothing, PTL DEF Spec

-----------------------------------------------------------------------------
(***************************************************************************)
(* After the notify_all of a stop nobody sleeps on, unless the queue was   *)
(* paused again: whoever is about to sleep evaluates waitPop's predicate   *)
(* first, under the mutex, and the stop has made it true.                  *)
(***************************************************************************)
THEOREM StopsWakeEveryone == Spec => []StopWakesEveryone
<1>1. Init => StopWakesEveryone
  BY DEF Init, StopWakesEveryone
<1>2. StopWakesEveryone /\ [Next]_queueVars => StopWakesEveryone'
  <2> SUFFICES ASSUME StopWakesEveryone, [Next]_queueVars
               PROVE  StopWakesEveryone'
    OBVIOUS
  <2> USE DEF StopWakesEveryone
  <2>1. ASSUME NEW t \in Thread, NEW task \in Task, Push(t, task)
        PROVE StopWakesEveryone'
    BY <2>1 DEF Push, NotifyOne
  <2>2. ASSUME NEW t \in Thread, Sleep(t) PROVE StopWakesEveryone'
    BY <2>2 DEF Sleep, WakeCondition
  <2>3. ASSUME NEW t \in Thread, EnterWaitPop(t) \/ PopTask(t) \/ PopNothing(t)
        PROVE StopWakesEveryone'
    BY <2>3 DEF EnterWaitPop, PopTask, PopNothing
  <2>4. ASSUME NEW t \in Thread, SpuriousWake(t) PROVE StopWakesEveryone'
    BY <2>4 DEF SpuriousWake
  <2>5. ASSUME NEW t \in Thread, Pause(t) PROVE StopWakesEveryone'
    BY <2>5 DEF Pause
  <2>6. ASSUME NEW t \in Thread, Resume(t) \/ StopGraceful(t) \/ StopNow(t)
        PROVE StopWakesEveryone'
    BY <2>6 DEF Resume, StopGraceful, StopNow
  <2>7. ASSUME NEW t \in Thread, NotifyAll(t) PROVE StopWakesEveryone'
    BY <2>7 DEF NotifyAll
  <2>8. CASE UNCHANGED queueVars
    BY <2>8 DEF queueVars
  <2> QED
    BY <2>1, <2>2, <2>3, <2>4, <2>5, <2>6, <2>7, <2>8 DEF Next, FinishWaitPop
<1> QED
  BY <1>1, <1>2, PTL DEF Spec

-----------------------------------------------------------------------------
(***************************************************************************)
(* A stop is final: no later call takes it back, nothing enters the queue  *)
(* once it has begun, and after an immediate one the queue stays empty.    *)
(***************************************************************************)
THEOREM StopsAreFinal == Spec => StopIsFinal
<1> DEFINE Final == /\ stop => stop' /\ Len(tasks') <= Len(tasks)
                    /\ stopNowFlag => stopNowFlag' /\ tasks' = <<>>
<1>1. TypeOK /\ StopNowEmpties /\ [Next]_queueVars => [Final]_queueVars
  <2> SUFFICES ASSUME TypeOK, StopNowEmpties, Next PROVE Final
    OBVIOUS
  <2>a. Len(tasks) \in Nat /\ tasks \in Seq(Task)
    BY DEF TypeOK
  <2>1. ASSUME NEW t \in Thread, NEW task \in Task, Push(t, task) PROVE Final
    BY <2>1 DEF Push, Accepts
  <2>2. ASSUME NEW t \in Thread, PopTask(t) PROVE Final
    <3>1. Len(tasks') = Len(tasks) - 1
      BY <2>2, <2>a, HeadTailProperties DEF PopTask
    <3> QED
      BY <2>2, <2>a, <3>1 DEF PopTask
  <2>3. ASSUME NEW t \in Thread, StopNow(t) PROVE Final
    BY <2>3, <2>a DEF StopNow
  <2>4. ASSUME NEW t \in Thread, StopGraceful(t) PROVE Final
    BY <2>4, <2>a DEF StopGraceful, StopNowEmpties
  <2>5. ASSUME NEW t \in Thread,
               \/ EnterWaitPop(t) \/ Sleep(t) \/ PopNothing(t)
               \/ SpuriousWake(t) \/ Pause(t) \/ Resume(t) \/ NotifyAll(t)
        PROVE Final
    <3>1. UNCHANGED <<tasks, stop, stopNowFlag>>
      BY <2>5 DEF EnterWaitPop, Sleep, PopNothing, SpuriousWake, Pause, Resume,
                  NotifyAll
    <3> QED
      BY <3>1, <2>a DEF StopNowEmpties
  <2> QED
    BY <2>1, <2>2, <2>3, <2>4, <2>5 DEF Next, FinishWaitPop
<1> QED
  BY <1>1, TypeCorrect, StopNowLeavesNothing, PTL DEF Spec, StopIsFinal
=============================================================================
