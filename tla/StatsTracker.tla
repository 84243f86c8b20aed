---------------------------- MODULE StatsTracker ----------------------------
(***************************************************************************)
(* The metrics of lab_3's pool (stats_tracker.h, stats_tracker.cpp).  Each *)
(* method is one critical section of the tracker's mutex and so one        *)
(* action; the times it is given were read from steady_clock before the    *)
(* mutex was taken and may be old by then.  The clock is a counter that    *)
(* ticks at most MaxTime times.  averageWaitMs is left out: it is a        *)
(* floating-point mean that nothing else reads.                            *)
(***************************************************************************)
EXTENDS Integers

CONSTANTS Capacity,    \* the queue's capacity, passed on every call
          MaxThreads,  \* the pool's limit on its workers
          MaxTime      \* bound on the clock

\* What the theorems assume; ThreadPool assumes it of its own constants.
StatsAssumption ==
  Capacity \in Nat /\ MaxThreads \in Nat /\ MaxTime \in Nat

VARIABLES
  stats,            \* the Stats record that getSnapshot returns
  queueWasFull,     \* a "queue is full" interval is open
  queueFullStart,   \* its start
  clock             \* std::chrono::steady_clock

statsVars == <<stats, queueWasFull, queueFullStart, clock>>

InitialStats == [createdThreads |-> 0, droppedTasks |-> 0, waitSamples |-> 0,
                 fullQueueTime |-> 0, fullQueueMin |-> 0, fullQueueMax |-> 0]

\* The pool's constructor has reported the number of its workers.
Init ==
  /\ \E count \in 0..MaxThreads :
       stats = [InitialStats EXCEPT !.createdThreads = count]
  /\ queueWasFull = FALSE
  /\ queueFullStart = 0
  /\ clock = 0

Tick ==
  /\ clock < MaxTime
  /\ clock' = clock + 1
  /\ UNCHANGED <<stats, queueWasFull, queueFullStart>>

-----------------------------------------------------------------------------
\* Only the record changes.
Record(newStats) ==
  stats' = newStats /\ UNCHANGED <<queueWasFull, queueFullStart, clock>>

\* recordWaitTime with samples = 1, the only value its caller passes.
RecordWaitTime == Record([stats EXCEPT !.waitSamples = @ + 1])

RecordDroppedTask == Record([stats EXCEPT !.droppedTasks = @ + 1])

\* Mutant of RecordQueueFull: a negative duration is not clamped.
RecordUnclamped(s, duration) ==
  [s EXCEPT !.fullQueueTime = @ + duration,
            !.fullQueueMin = IF @ = 0 \/ duration < @ THEN duration ELSE @,
            !.fullQueueMax = IF duration > @ THEN duration ELSE @]

\* Mutant of RecordQueueFull: a new minimum is not considered as maximum.
RecordMinOrMax(s, duration) ==
  LET d == IF duration < 0 THEN 0 ELSE duration
      newMin == s.fullQueueMin = 0 \/ d < s.fullQueueMin
  IN  [s EXCEPT !.fullQueueTime = @ + d,
                !.fullQueueMin = IF newMin THEN d ELSE @,
                !.fullQueueMax = IF ~newMin /\ d > @ THEN d ELSE @]

\* The record after an interval of the given length; 0 stands for "no
\* minimum yet" in fullQueueMin.
RecordQueueFull(s, duration) ==
  LET d == IF duration < 0 THEN 0 ELSE duration
  IN  [s EXCEPT !.fullQueueTime = @ + d,
                !.fullQueueMin = IF @ = 0 \/ d < @ THEN d ELSE @,
                !.fullQueueMax = IF d > @ THEN d ELSE @]

\* The interval that is open ends now.
CloseInterval(now) ==
  /\ stats' = RecordQueueFull(stats, now - queueFullStart)
  /\ queueWasFull' = FALSE
  /\ UNCHANGED <<queueFullStart, clock>>

NoteQueueFullIfNeeded(size, now) ==
  IF Capacity > 0 /\ size >= Capacity /\ ~queueWasFull
    THEN /\ queueWasFull' = TRUE
         /\ queueFullStart' = now
         /\ UNCHANGED <<stats, clock>>
    ELSE UNCHANGED statsVars

NoteQueueNotFullIfNeeded(size, now) ==
  IF Capacity > 0 /\ queueWasFull /\ size < Capacity
    THEN CloseInterval(now)
    ELSE UNCHANGED statsVars

FinalizeQueueFullIfNeeded(now) ==
  IF queueWasFull THEN CloseInterval(now) ELSE UNCHANGED statsVars

-----------------------------------------------------------------------------
(***************************************************************************)
(* The tracker under arbitrary callers, each of which read the clock at    *)
(* some earlier moment.                                                    *)
(***************************************************************************)
Next ==
  \/ Tick
  \/ RecordWaitTime
  \/ RecordDroppedTask
  \/ \E now \in 0..clock, size \in 0..Capacity :
       \/ NoteQueueFullIfNeeded(size, now)
       \/ NoteQueueNotFullIfNeeded(size, now)
       \/ FinalizeQueueFullIfNeeded(now)

Spec == Init /\ [][Next]_statsVars

-----------------------------------------------------------------------------
StatsType == [createdThreads: Nat, droppedTasks: Nat, waitSamples: Nat,
              fullQueueTime: Nat, fullQueueMin: Nat, fullQueueMax: Nat]

TypeOK ==
  /\ stats \in StatsType
  /\ queueWasFull \in BOOLEAN
  /\ queueFullStart \in 0..clock
  /\ clock \in 0..MaxTime

(***************************************************************************)
(* However old the times are that the callers pass, the three durations    *)
(* of the report stay consistent: shortest <= longest <= total.            *)
(***************************************************************************)
DurationsOrdered ==
  /\ stats.fullQueueMin <= stats.fullQueueMax
  /\ stats.fullQueueMax <= stats.fullQueueTime
=============================================================================
