----------------------------- MODULE ThreadPool -----------------------------
(***************************************************************************)
(* The thread pool of lab_3 (thread_pool.cpp, worker.cpp) and the program  *)
(* that drives it (main.cpp): workers that take tasks from the queue,      *)
(* producers that enqueue tasks, and controllers that pause, resume and    *)
(* shut the pool down.  The queue and the metrics are instances of         *)
(* ThreadSafeQueue and StatsTracker, which own the state their class       *)
(* guards with its mutex; what this module adds is what every thread holds *)
(* between two of its calls.                                               *)
(***************************************************************************)
EXTENDS Integers, Sequences, FiniteSets

CONSTANTS Worker, Producer, Controller,
          TasksPerProducer,   \* tasksPerProducer of main.cpp
          Capacity,           \* queueCapacity
          MaxTime,            \* bound on the clock
          Programs,           \* what the controllers may be told to do, see below
          NoTask              \* an empty std::function

kWorkerLimit == 6
Thread == Worker \cup Producer \cup Controller
Task == Producer \X (1..TasksPerProducer)

ControlOp == {"pause", "resume", "stopGraceful", "setStopNow", "stopNow",
              "readClock", "finalize", "join", "joinProducers", "snapshot"}

\* The constructor starts at most kWorkerLimit workers.
ASSUME WorkerAssumption ==
  IsFiniteSet(Worker) /\ Cardinality(Worker) <= kWorkerLimit
ASSUME ThreadsAssumption ==
  /\ IsFiniteSet(Producer) /\ IsFiniteSet(Controller)
  /\ Worker \cap Producer = {} /\ Worker \cap Controller = {}
  /\ Producer \cap Controller = {}
ASSUME BoundsAssumption ==
  TasksPerProducer \in Nat /\ Capacity \in Nat /\ MaxTime \in Nat
ASSUME ProgramAssumption == Programs \subseteq [Controller -> Seq(ControlOp)]
ASSUME NoTaskAssumption == NoTask \notin Task

VARIABLES
  tasks, accepting, stop, stopNowFlag, paused,    \* see ThreadSafeQueue
  waiting, sleeping, notifying,
  stats, queueWasFull, queueFullStart, clock,     \* see StatsTracker
  poolStopNow,  \* ThreadPool::stopNowFlag, which the tasks poll
  pc,           \* where each worker and producer is
  held,         \* Worker::run's task
  size,         \* sizeAfter of a thread's last push or waitPop
  stamp,        \* the steady_clock reading a thread carries (now, waitEnd)
  index,        \* the loop variable i of a producer
  outcome,      \* the last line main.cpp logs about a task
  todo          \* what is left of each controller's program

queueVars == <<tasks, accepting, stop, stopNowFlag, paused,
               waiting, sleeping, notifying>>
statsVars == <<stats, queueWasFull, queueFullStart, clock>>
localVars == <<pc, held, size, stamp, index, outcome, todo, poolStopNow>>
vars == <<queueVars, statsVars, localVars>>

Queue == INSTANCE ThreadSafeQueue
Tracker == INSTANCE StatsTracker WITH MaxThreads <- kWorkerLimit

ASSUME TrackerAssumption == Tracker!StatsAssumption

(***************************************************************************)
(* The public calls of the pool as programs of a controller, and the       *)
(* controller of main.cpp: a pause, a resume, the shutdown the command     *)
(* line chose, the join of the producers, the report, and the destructor.  *)
(***************************************************************************)
PauseCall == <<"pause">>
ResumeCall == <<"resume">>
ShutdownGraceful == <<"stopGraceful", "readClock", "finalize", "join">>

\* Mutant of ShutdownNow: the queue is emptied before the flag is set.
ShutdownNowSwapped == <<"stopNow", "setStopNow", "readClock", "finalize", "join">>

ShutdownNow == <<"setStopNow", "stopNow", "readClock", "finalize", "join">>
MainProgram(shutdown) ==
  PauseCall \o ResumeCall \o shutdown
    \o <<"joinProducers", "snapshot">> \o ShutdownGraceful

\* The state after the constructor, which starts every worker.
Init ==
  /\ Queue!Init
  /\ stats = [Tracker!InitialStats EXCEPT
                 !.createdThreads = Cardinality(Worker)]
  /\ queueWasFull = FALSE /\ queueFullStart = 0 /\ clock = 0
  /\ poolStopNow = FALSE
  /\ pc = [t \in Worker \cup Producer |->
             IF t \in Worker THEN "loop" ELSE "call"]
  /\ held = [w \in Worker |-> NoTask]
  /\ size = [t \in Worker \cup Producer |-> 0]
  /\ stamp = [t \in Thread |-> 0]
  /\ index = [p \in Producer |-> 1]
  /\ outcome = [t \in Task |-> "none"]
  /\ todo \in Programs

-----------------------------------------------------------------------------
(***************************************************************************)
(* Worker::run.  size and stamp are locals of the loop body: they are      *)
(* cleared where their last use is.                                        *)
(***************************************************************************)
Goto(t, label) == pc' = [pc EXCEPT ![t] = label]

CallWaitPop(w) ==
  /\ pc[w] = "loop" /\ Goto(w, "pop")
  /\ Queue!EnterWaitPop(w)
  /\ UNCHANGED <<statsVars, held, size, stamp, index, outcome, todo, poolStopNow>>

BlockInWaitPop(w) ==
  pc[w] = "pop" /\ Queue!Sleep(w) /\ UNCHANGED <<statsVars, localVars>>

WakeSpuriously(w) ==
  Queue!SpuriousWake(w) /\ UNCHANGED <<statsVars, localVars>>

TakeTask(w) ==
  /\ pc[w] = "pop" /\ Goto(w, "record")
  /\ Queue!PopTask(w)
  /\ held' = [held EXCEPT ![w] = Head(tasks)]
  /\ size' = [size EXCEPT ![w] = Len(tasks')]
  /\ UNCHANGED <<statsVars, stamp, index, outcome, todo, poolStopNow>>

TakeNothing(w) ==
  /\ pc[w] = "pop" /\ Goto(w, "record")
  /\ Queue!PopNothing(w)
  /\ UNCHANGED <<statsVars, held, size, stamp, index, outcome, todo, poolStopNow>>

\* Mutant of RecordWait: one wait is recorded as two samples.
RecordWaitTwice(w) ==
  /\ pc[w] = "record" /\ Goto(w, IF held[w] = NoTask THEN "exit" ELSE "note")
  /\ stamp' = [stamp EXCEPT ![w] = clock]
  /\ Tracker!Record([stats EXCEPT !.waitSamples = @ + 2])
  /\ UNCHANGED <<queueVars, held, size, index, outcome, todo, poolStopNow>>

\* Reads waitEnd, records the wait, and leaves the loop without a task.
RecordWait(w) ==
  /\ pc[w] = "record" /\ Goto(w, IF held[w] = NoTask THEN "exit" ELSE "note")
  /\ stamp' = [stamp EXCEPT ![w] = clock]
  /\ Tracker!RecordWaitTime
  /\ UNCHANGED <<queueVars, held, size, index, outcome, todo, poolStopNow>>

NoteNotFull(w) ==
  /\ pc[w] = "note" /\ Goto(w, "task")
  /\ Tracker!NoteQueueNotFullIfNeeded(size[w], stamp[w])
  /\ size' = [size EXCEPT ![w] = 0]
  /\ stamp' = [stamp EXCEPT ![w] = 0]
  /\ UNCHANGED <<queueVars, held, index, outcome, todo, poolStopNow>>

(***************************************************************************)
(* The task that main.cpp enqueues: it logs its start, then polls the      *)
(* pool's stop flag before every sleep, at least once.                     *)
(***************************************************************************)
StartTask(w) ==
  /\ pc[w] = "task" /\ Goto(w, "check")
  /\ outcome' = [outcome EXCEPT ![held[w]] = "started"]
  /\ UNCHANGED <<queueVars, statsVars, held, size, stamp, index, todo, poolStopNow>>

\* The first poll finds the flag clear: the task sleeps and polls on.
FirstPoll(w) ==
  /\ pc[w] = "check" /\ ~poolStopNow /\ Goto(w, "work")
  /\ UNCHANGED <<queueVars, statsVars, held, size, stamp, index, outcome, todo,
                 poolStopNow>>

\* The task returns to Worker::run.
EndTask(w, how) ==
  /\ Goto(w, "loop")
  /\ outcome' = [outcome EXCEPT ![held[w]] = how]
  /\ held' = [held EXCEPT ![w] = NoTask]
  /\ UNCHANGED <<queueVars, statsVars, size, stamp, index, todo, poolStopNow>>

CancelTask(w) ==
  pc[w] \in {"check", "work"} /\ poolStopNow /\ EndTask(w, "cancelled")

FinishTask(w) == pc[w] = "work" /\ EndTask(w, "finished")

WorkerStep(w) ==
  \/ CallWaitPop(w) \/ BlockInWaitPop(w) \/ TakeTask(w) \/ TakeNothing(w)
  \/ RecordWait(w) \/ NoteNotFull(w)
  \/ StartTask(w) \/ FirstPoll(w) \/ CancelTask(w) \/ FinishTask(w)

-----------------------------------------------------------------------------
(***************************************************************************)
(* A producer of main.cpp: TasksPerProducer calls of ThreadPool::enqueue.  *)
(***************************************************************************)
\* The loop goes on to its next iteration.
NextTask(p) == index' = [index EXCEPT ![p] = @ + 1] /\ Goto(p, "call")

CallEnqueue(p) ==
  /\ pc[p] = "call" /\ index[p] <= TasksPerProducer /\ Goto(p, "push")
  /\ stamp' = [stamp EXCEPT ![p] = clock]
  /\ UNCHANGED <<queueVars, statsVars, held, size, index, outcome, todo,
                 poolStopNow>>

\* Mutant of PushTask: a refusal is reported as acceptance.
PushTaskUnchecked(p) ==
  /\ pc[p] = "push" /\ Goto(p, "accepted")
  /\ Queue!Push(p, <<p, index[p]>>) \/ Queue!PushRefused(p)
  /\ size' = [size EXCEPT ![p] = Len(tasks')]
  /\ UNCHANGED <<statsVars, held, stamp, index, outcome, todo, poolStopNow>>

PushTask(p) ==
  /\ pc[p] = "push"
  /\ \/ Queue!Push(p, <<p, index[p]>>) /\ Goto(p, "accepted")
     \/ Queue!PushRefused(p) /\ Goto(p, "refused")
  /\ size' = [size EXCEPT ![p] = Len(tasks')]
  /\ UNCHANGED <<statsVars, held, stamp, index, outcome, todo, poolStopNow>>

NoteFull(p) ==
  /\ \/ pc[p] = "accepted" /\ NextTask(p)
     \/ pc[p] = "refused" /\ Goto(p, "drop") /\ UNCHANGED index
  /\ Tracker!NoteQueueFullIfNeeded(size[p], stamp[p])
  /\ size' = [size EXCEPT ![p] = 0]
  /\ stamp' = [stamp EXCEPT ![p] = 0]
  /\ UNCHANGED <<queueVars, held, outcome, todo, poolStopNow>>

\* enqueue counts the task as dropped and the producer logs it as rejected.
DropTask(p) ==
  /\ pc[p] = "drop" /\ NextTask(p)
  /\ Tracker!RecordDroppedTask
  /\ outcome' = [outcome EXCEPT ![<<p, index[p]>>] = "rejected"]
  /\ UNCHANGED <<queueVars, held, size, stamp, todo, poolStopNow>>

ProducerStep(p) == CallEnqueue(p) \/ PushTask(p) \/ NoteFull(p) \/ DropTask(p)

ProducerDone(p) == pc[p] = "call" /\ index[p] > TasksPerProducer

-----------------------------------------------------------------------------
(***************************************************************************)
(* The pool's other methods, step by step.                                 *)
(***************************************************************************)
\* The next step of c's program is op, and it is taken.
Do(c, op) ==
  /\ todo[c] # <<>> /\ Head(todo[c]) = op /\ c \notin notifying
  /\ todo' = [todo EXCEPT ![c] = Tail(@)]

ThreadLocals == <<pc, held, size, stamp, index, outcome>>

\* A critical section of the queue.
QueueCall(c) ==
  /\ \/ Do(c, "pause") /\ Queue!Pause(c)
     \/ Do(c, "resume") /\ Queue!Resume(c)
     \/ Do(c, "stopGraceful") /\ Queue!StopGraceful(c)
     \/ Do(c, "stopNow") /\ Queue!StopNow(c)
  /\ UNCHANGED <<statsVars, ThreadLocals, poolStopNow>>

Notify(c) == Queue!NotifyAll(c) /\ UNCHANGED <<statsVars, localVars>>

SetStopNow(c) ==
  /\ Do(c, "setStopNow")
  /\ poolStopNow' = TRUE
  /\ UNCHANGED <<queueVars, statsVars, ThreadLocals>>

ReadClock(c) ==
  /\ Do(c, "readClock")
  /\ stamp' = [stamp EXCEPT ![c] = clock]
  /\ UNCHANGED <<queueVars, statsVars, pc, held, size, index, outcome, poolStopNow>>

Finalize(c) ==
  /\ Do(c, "finalize")
  /\ Tracker!FinalizeQueueFullIfNeeded(stamp[c])
  /\ stamp' = [stamp EXCEPT ![c] = 0]
  /\ UNCHANGED <<queueVars, pc, held, size, index, outcome, poolStopNow>>

AllWorkersExited == \A w \in Worker : pc[w] = "exit"

Join(c) ==
  /\ Do(c, "join") /\ AllWorkersExited
  /\ UNCHANGED <<queueVars, statsVars, ThreadLocals, poolStopNow>>

\* Mutant of JoinProducers: it does not wait.
JoinNobody(c) ==
  /\ Do(c, "joinProducers")
  /\ UNCHANGED <<queueVars, statsVars, ThreadLocals, poolStopNow>>

JoinProducers(c) ==
  /\ Do(c, "joinProducers") /\ \A p \in Producer : ProducerDone(p)
  /\ UNCHANGED <<queueVars, statsVars, ThreadLocals, poolStopNow>>

\* main reads the metrics (snapshot_stats) and prints them.
Snapshot(c) ==
  /\ Do(c, "snapshot")
  /\ UNCHANGED <<queueVars, statsVars, ThreadLocals, poolStopNow>>

ControllerStep(c) ==
  \/ QueueCall(c) \/ Notify(c) \/ SetStopNow(c) \/ ReadClock(c) \/ Finalize(c)
  \/ Join(c) \/ JoinProducers(c) \/ Snapshot(c)

-----------------------------------------------------------------------------
Tick == Tracker!Tick /\ UNCHANGED <<queueVars, localVars>>

\* The program is over.
Finished ==
  /\ AllWorkersExited
  /\ \A p \in Producer : ProducerDone(p)
  /\ \A c \in Controller : todo[c] = <<>> /\ c \notin notifying
  /\ UNCHANGED vars

Next ==
  \/ \E w \in Worker : WorkerStep(w) \/ WakeSpuriously(w)
  \/ \E p \in Producer : ProducerStep(p)
  \/ \E c \in Controller : ControllerStep(c)
  \/ Tick
  \/ Finished

Spec == Init /\ [][Next]_vars

(***************************************************************************)
(* Every thread that can take a step eventually takes one, and the mutexes *)
(* are fair.  Spurious wake-ups and the clock owe nothing.                 *)
(***************************************************************************)
Fairness ==
  /\ \A w \in Worker : WF_vars(WorkerStep(w))
  /\ \A p \in Producer : WF_vars(ProducerStep(p))
  /\ \A c \in Controller : WF_vars(ControllerStep(c))

FairSpec == Spec /\ Fairness

-----------------------------------------------------------------------------
(***************************************************************************)
(* Where a task is.                                                        *)
(***************************************************************************)
InQueue(t) == \E i \in DOMAIN tasks : tasks[i] = t
Held(t) == \E w \in Worker : held[w] = t
\* push has been called for the task.
Submitted(t) ==
  \/ t[2] < index[t[1]]
  \/ t[2] = index[t[1]] /\ pc[t[1]] \in {"accepted", "refused", "drop"}
\* push has refused the task.
Refused(t) ==
  \/ outcome[t] = "rejected"
  \/ t[2] = index[t[1]] /\ pc[t[1]] \in {"refused", "drop"}

TypeOK ==
  /\ Queue!TypeOK
  /\ stats \in Tracker!StatsType
  /\ queueWasFull \in BOOLEAN
  /\ queueFullStart \in Nat
  /\ clock \in Nat
  /\ poolStopNow \in BOOLEAN
  /\ pc \in [Worker \cup Producer ->
              {"loop", "pop", "record", "note", "task", "check", "work", "exit",
               "call", "push", "accepted", "refused", "drop"}]
  /\ held \in [Worker -> Task \cup {NoTask}]
  /\ size \in [Worker \cup Producer -> Nat]
  /\ stamp \in [Thread -> Nat]
  /\ index \in [Producer -> Nat \ {0}]
  /\ outcome \in [Task -> {"none", "started", "finished", "cancelled", "rejected"}]
  /\ todo \in [Controller -> Seq(ControlOp)]

(***************************************************************************)
(* No task is ever executed twice: a task that has been logged as over is  *)
(* neither queued nor held again, no two workers hold the same task, and   *)
(* the queue holds no task a worker holds, nor one task twice.             *)
(***************************************************************************)
AtMostOnce ==
  /\ \A v, w \in Worker : held[v] = held[w] /\ held[v] # NoTask => v = w
  /\ \A i, j \in DOMAIN tasks : tasks[i] = tasks[j] => i = j
  /\ \A i \in DOMAIN tasks : ~Held(tasks[i]) /\ outcome[tasks[i]] = "none"
  /\ \A w \in Worker :
       held[w] # NoTask => outcome[held[w]] \in {"none", "started"}

(***************************************************************************)
(* No accepted task is lost: it is queued, in the hands of a worker, or    *)
(* over, unless an immediate stop has emptied the queue.                   *)
(***************************************************************************)
NothingLost ==
  \A t \in Task :
    (Submitted(t) /\ ~Refused(t) /\ ~stopNowFlag)
      => InQueue(t) \/ Held(t) \/ outcome[t] \in {"finished", "cancelled"}

(***************************************************************************)
(* thread_pool.h: a graceful shutdown completes the work.  When all the    *)
(* workers are gone and shutdown_now was not called, every task that       *)
(* enqueue accepted has run to its end.                                    *)
(***************************************************************************)
GracefulCompletes ==
  (AllWorkersExited /\ Worker # {} /\ ~poolStopNow /\ ~stopNowFlag)
    => \A t \in Task : Submitted(t) /\ ~Refused(t) => outcome[t] = "finished"

(***************************************************************************)
(* When main takes its snapshot the counters are exact: every task that    *)
(* the queue refused was counted as dropped, and one wait was              *)
(* recorded for every task a worker took and for every worker's last,      *)
(* empty-handed return.                                                    *)
(***************************************************************************)
SnapshotExact ==
  (\E c \in Controller : todo[c] # <<>> /\ Head(todo[c]) = "snapshot") =>
    /\ stats.droppedTasks = Cardinality({t \in Task : Refused(t)})
    /\ stats.waitSamples = Cardinality(Worker)
         + Cardinality({t \in Task : outcome[t] \in {"finished", "cancelled"}})

(***************************************************************************)
(* However old the clock readings are that workers, producers and the      *)
(* shutdown pass, and in whatever order they reach the tracker, the three  *)
(* durations of the report stay consistent: shortest <= longest <= total.  *)
(***************************************************************************)
DurationsOrdered == Tracker!DurationsOrdered

(***************************************************************************)
(* The program ends: every shutdown returns, so each worker leaves its     *)
(* loop and each controller comes to the end of its program.  The one way  *)
(* to keep it from ending is a pause that nobody takes back: the wait      *)
(* predicate of the queue then hides the stop from the workers.            *)
(***************************************************************************)
ProgramEnds == <>(\A c \in Controller : todo[c] = <<>>) \/ <>[]paused

(***************************************************************************)
(* A task that is in the queue leaves it, taken by a worker or discarded,  *)
(* and a worker that holds a task gets rid of it, unless the queue stays   *)
(* paused.                                                                 *)
(***************************************************************************)
EveryTaskServed ==
  \/ \A t \in Task : (InQueue(t) \/ Held(t)) ~> ~(InQueue(t) \/ Held(t))
  \/ <>[]paused

(***************************************************************************)
(* The pool keeps the promise of TaskPool: read off where every task is,   *)
(* each of its steps is one of TaskPool's or changes nothing there.        *)
(***************************************************************************)
Status(t) ==
  CASE ~Submitted(t) -> "new"
    [] Refused(t) -> "rejected"
    [] InQueue(t) -> "queued"
    [] Held(t) -> "running"
    [] outcome[t] \in {"finished", "cancelled"} -> outcome[t]
    [] OTHER -> "discarded"

Promise == INSTANCE TaskPool
             WITH status <- [t \in Task |-> Status(t)], line <- tasks,
                  closed <- ~accepting, killed <- poolStopNow,
                  Width <- Cardinality(Worker)

KeepsPromise == Promise!Spec

(***************************************************************************)
(* The pool passes the tracker only times that were read before, and sizes *)
(* the queue can have.                                                     *)
(***************************************************************************)
TrackerSpec == Tracker!Spec
=============================================================================
