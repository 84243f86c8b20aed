-------------------------- MODULE ThreadSafeQueue --------------------------
(***************************************************************************)
(* The bounded task queue of lab_3 (queue.h, queue.cpp) under an arbitrary *)
(* set of client threads.  All the state of the class is guarded by one    *)
(* mutex, so a critical section is one action.  What is NOT atomic in the  *)
(* code is kept apart here:                                                *)
(*   - cv.wait releases the mutex and sleeps, so a call of waitPop is      *)
(*     EnterWaitPop, any number of Sleep, and one PopTask or PopNothing;   *)
(*   - resume, stopGraceful and stopNow call notify_all after they have    *)
(*     released the mutex, so NotifyAll is a step of its own;              *)
(*   - push calls notify_one while it holds the mutex, so it is one step.  *)
(* A thread executes one call at a time.                                   *)
(***************************************************************************)
EXTENDS Naturals, Sequences, FiniteSets

CONSTANTS Thread,    \* the threads that may call the queue
          Task,      \* the std::function values that may be pushed
          Capacity   \* capacityValue

ASSUME ThreadAssumption == IsFiniteSet(Thread)
ASSUME CapacityAssumption == Capacity \in Nat

VARIABLES
  tasks,        \* std::queue<Task>, front first
  accepting,
  stop,
  stopNowFlag,
  paused,
  waiting,      \* threads that called waitPop and have not returned
  sleeping,     \* those of them blocked in cv.wait and not notified since
  notifying     \* threads between the unlock and the cv.notify_all of a call

queueVars == <<tasks, accepting, stop, stopNowFlag, paused,
               waiting, sleeping, notifying>>

(***************************************************************************)
(* State predicates of the code.                                           *)
(***************************************************************************)
\* The thread is in no call of the queue.
Idle(t) == t \notin waiting \cup notifying

\* Mutant of Accepts: only the capacity is checked.
AcceptsAfterStop == Len(tasks) < Capacity

\* The negation of push's early return.
Accepts == accepting /\ ~stop /\ ~stopNowFlag /\ Len(tasks) < Capacity

\* Mutant of WakeCondition: a graceful stop no longer ends a wait.
WakeConditionIgnoresStop == stopNowFlag \/ (~paused /\ tasks # <<>>)

\* The predicate waitPop gives to cv.wait.
WakeCondition == stopNowFlag \/ (~paused /\ (tasks # <<>> \/ stop))

Init ==
  /\ tasks = <<>>
  /\ accepting = TRUE
  /\ stop = FALSE
  /\ stopNowFlag = FALSE
  /\ paused = FALSE
  /\ waiting = {}
  /\ sleeping = {}
  /\ notifying = {}

-----------------------------------------------------------------------------
(***************************************************************************)
(* push.                                                                   *)
(***************************************************************************)
\* cv.notify_one: one of the blocked threads, if there is any.
NotifyOne ==
  \/ sleeping = {} /\ UNCHANGED sleeping
  \/ \E s \in sleeping : sleeping' = sleeping \ {s}

\* Mutant of Push: it only notifies when the queue was empty.
PushNotifiesOnFirst(t, task) ==
  /\ Idle(t) /\ Accepts
  /\ tasks' = Append(tasks, task)
  /\ IF tasks = <<>> THEN NotifyOne ELSE UNCHANGED sleeping
  /\ UNCHANGED <<accepting, stop, stopNowFlag, paused, waiting, notifying>>

Push(t, task) ==
  /\ Idle(t) /\ Accepts
  /\ tasks' = Append(tasks, task)
  /\ NotifyOne
  /\ UNCHANGED <<accepting, stop, stopNowFlag, paused, waiting, notifying>>

PushRefused(t) == Idle(t) /\ ~Accepts /\ UNCHANGED queueVars

-----------------------------------------------------------------------------
(***************************************************************************)
(* waitPop.                                                                *)
(***************************************************************************)
Awake(t) == t \in waiting \ sleeping

EnterWaitPop(t) ==
  /\ Idle(t)
  /\ waiting' = waiting \cup {t}
  /\ UNCHANGED <<tasks, accepting, stop, stopNowFlag, paused, sleeping,
                 notifying>>

Sleep(t) ==
  /\ Awake(t) /\ ~WakeCondition
  /\ sleeping' = sleeping \cup {t}
  /\ UNCHANGED <<tasks, accepting, stop, stopNowFlag, paused, waiting,
                 notifying>>

\* A condition variable may wake without a notification.
SpuriousWake(t) ==
  /\ t \in sleeping
  /\ sleeping' = sleeping \ {t}
  /\ UNCHANGED <<tasks, accepting, stop, stopNowFlag, paused, waiting,
                 notifying>>

\* Mutant of PopTask: the task is copied and stays in the queue.
PopKeepsFront(t) ==
  /\ Awake(t) /\ WakeCondition
  /\ ~stopNowFlag /\ tasks # <<>>
  /\ waiting' = waiting \ {t}
  /\ UNCHANGED <<tasks, accepting, stop, stopNowFlag, paused, sleeping,
                 notifying>>

\* waitPop returns {true, size}; the caller receives Head(tasks).
PopTask(t) ==
  /\ Awake(t) /\ WakeCondition
  /\ ~stopNowFlag /\ tasks # <<>>
  /\ tasks' = Tail(tasks)
  /\ waiting' = waiting \ {t}
  /\ UNCHANGED <<accepting, stop, stopNowFlag, paused, sleeping, notifying>>

\* Mutant of PopNothing: any stop returns, whatever is left in the queue.
PopNothingOnStop(t) ==
  /\ Awake(t) /\ WakeCondition
  /\ stop \/ tasks = <<>>
  /\ waiting' = waiting \ {t}
  /\ UNCHANGED <<tasks, accepting, stop, stopNowFlag, paused, sleeping,
                 notifying>>

\* Mutant of PopNothing: a thread gives up while it is blocked.
PopNothingAsleep(t) ==
  /\ t \in waiting /\ WakeCondition
  /\ stopNowFlag \/ tasks = <<>>
  /\ waiting' = waiting \ {t}
  /\ UNCHANGED <<tasks, accepting, stop, stopNowFlag, paused, sleeping,
                 notifying>>

\* waitPop returns {false, size}.
PopNothing(t) ==
  /\ Awake(t) /\ WakeCondition
  /\ stopNowFlag \/ tasks = <<>>
  /\ waiting' = waiting \ {t}
  /\ UNCHANGED <<tasks, accepting, stop, stopNowFlag, paused, sleeping,
                 notifying>>

-----------------------------------------------------------------------------
(***************************************************************************)
(* pause, resume and the two stops.                                        *)
(***************************************************************************)
Pause(t) ==
  /\ Idle(t)
  /\ paused' = TRUE
  /\ UNCHANGED <<tasks, accepting, stop, stopNowFlag, waiting, sleeping,
                 notifying>>

\* Mutant of Resume: the notification is forgotten.
ResumeSilently(t) ==
  /\ Idle(t)
  /\ paused' = FALSE
  /\ UNCHANGED <<tasks, accepting, stop, stopNowFlag, waiting, sleeping,
                 notifying>>

Resume(t) ==
  /\ Idle(t)
  /\ paused' = FALSE
  /\ notifying' = notifying \cup {t}
  /\ UNCHANGED <<tasks, accepting, stop, stopNowFlag, waiting, sleeping>>

\* Mutant of StopGraceful: the notification is forgotten.
StopGracefulSilently(t) ==
  /\ Idle(t)
  /\ accepting' = FALSE /\ stop' = TRUE /\ paused' = FALSE
  /\ UNCHANGED <<tasks, stopNowFlag, waiting, sleeping, notifying>>

StopGraceful(t) ==
  /\ Idle(t)
  /\ accepting' = FALSE
  /\ stop' = TRUE
  /\ paused' = FALSE
  /\ notifying' = notifying \cup {t}
  /\ UNCHANGED <<tasks, stopNowFlag, waiting, sleeping>>

\* Mutant of StopNow: the notification is forgotten.
StopNowSilently(t) ==
  /\ Idle(t)
  /\ accepting' = FALSE /\ stopNowFlag' = TRUE /\ stop' = TRUE
  /\ paused' = FALSE /\ tasks' = <<>>
  /\ UNCHANGED <<waiting, sleeping, notifying>>

\* Mutant of StopNow: the queue is not emptied.
StopNowKeepsTasks(t) ==
  /\ Idle(t)
  /\ accepting' = FALSE /\ stopNowFlag' = TRUE /\ stop' = TRUE
  /\ paused' = FALSE
  /\ notifying' = notifying \cup {t}
  /\ UNCHANGED <<tasks, waiting, sleeping>>

StopNow(t) ==
  /\ Idle(t)
  /\ accepting' = FALSE
  /\ stopNowFlag' = TRUE
  /\ stop' = TRUE
  /\ paused' = FALSE
  /\ tasks' = <<>>
  /\ notifying' = notifying \cup {t}
  /\ UNCHANGED <<waiting, sleeping>>

\* The cv.notify_all that ends resume, stopGraceful and stopNow.
NotifyAll(t) ==
  /\ t \in notifying
  /\ sleeping' = {}
  /\ notifying' = notifying \ {t}
  /\ UNCHANGED <<tasks, accepting, stop, stopNowFlag, paused, waiting>>

-----------------------------------------------------------------------------
\* The part of a call of waitPop that the calling thread itself executes.
FinishWaitPop(t) == Sleep(t) \/ PopTask(t) \/ PopNothing(t)

Next ==
  \E t \in Thread :
    \/ \E task \in Task : Push(t, task)
    \/ EnterWaitPop(t)
    \/ FinishWaitPop(t)
    \/ SpuriousWake(t)
    \/ Pause(t)
    \/ Resume(t)
    \/ StopGraceful(t)
    \/ StopNow(t)
    \/ NotifyAll(t)

Spec == Init /\ [][Next]_queueVars

(***************************************************************************)
(* A thread inside a call keeps running (the operating system schedules    *)
(* it); nothing obliges a client to make a call, and no spurious wake-up   *)
(* is ever owed.                                                           *)
(***************************************************************************)
Fairness ==
  \A t \in Thread : /\ WF_queueVars(FinishWaitPop(t))
                    /\ WF_queueVars(NotifyAll(t))

FairSpec == Spec /\ Fairness

-----------------------------------------------------------------------------
TypeOK ==
  /\ tasks \in Seq(Task)
  /\ accepting \in BOOLEAN
  /\ stop \in BOOLEAN
  /\ stopNowFlag \in BOOLEAN
  /\ paused \in BOOLEAN
  /\ waiting \in SUBSET Thread
  /\ sleeping \in SUBSET waiting
  /\ notifying \in SUBSET (Thread \ waiting)

(***************************************************************************)
(* No wake-up is lost: when the queue may be drained, no notify_all is     *)
(* still to come and a thread is nevertheless blocked in cv.wait, there    *)
(* are at least as many threads already on their way to waitPop's          *)
(* predicate as there are tasks.  It relates push's notify_one under the   *)
(* lock, the notify_all outside it, pause eating a notification, and       *)
(* threads that steal a task from the one that was notified.               *)
(***************************************************************************)
NoLostWakeup ==
  (sleeping # {} /\ notifying = {} /\ ~paused)
    => Len(tasks) <= Cardinality(waiting \ sleeping)

(***************************************************************************)
(* After a stop whose notify_all has been made, nobody is left blocked in  *)
(* cv.wait, unless the queue was paused again.                             *)
(***************************************************************************)
StopWakesEveryone ==
  ((stopNowFlag \/ (stop /\ ~paused)) /\ notifying = {}) => sleeping = {}

(***************************************************************************)
(* A stop is final: once one has begun the queue accepts nothing more, and *)
(* an immediate stop leaves nothing to pop whatever is called later        *)
(* (pushes that were under way, a resume, a second, graceful stop).        *)
(***************************************************************************)
StopIsFinal ==
  [][/\ stop => stop' /\ Len(tasks') <= Len(tasks)
     /\ stopNowFlag => stopNowFlag' /\ tasks' = <<>>]_queueVars

(***************************************************************************)
(* A stop ends every call of waitPop, however many of them there are: an   *)
(* immediate one also those of a queue that is paused, or paused again     *)
(* afterwards, a graceful one unless a later pause undoes it.              *)
(***************************************************************************)
StopReleasesWaiters ==
  /\ \A t \in Thread : (stopNowFlag /\ t \in waiting) ~> (t \notin waiting)
  /\ <>[](stop /\ ~paused) => \A t \in Thread : []<>(t \notin waiting)

(***************************************************************************)
(* Queued tasks and waiting threads meet: while there are both and the     *)
(* queue is not paused, waitPop goes on returning tasks, also when nobody  *)
(* calls the queue any more.  Which of the threads gets them is left open. *)
(***************************************************************************)
TasksReachWaiters ==
  <>[](tasks # <<>> /\ waiting # {} /\ ~paused)
    => []<><<\E t \in Thread : PopTask(t)>>_queueVars
=============================================================================
