----------------------------- MODULE ArrayScan -----------------------------
(***************************************************************************)
(* What the two parallel searches of lab_2 (main.cpp) share: the array,    *)
(* the sequential search they are compared with, and the loop by which the *)
(* calling thread cuts the array into blocks, one after the other, and     *)
(* starts a thread on each while the earlier ones are already at work.     *)
(***************************************************************************)
EXTENDS Integers, FiniteSets

CONSTANTS Size,           \* the number of elements
          ThreadCount,
          Value,          \* the elements' values
          INT_MAX         \* greater than every element, as in main

ASSUME ScanAssumption ==
  /\ Size \in Nat \ {0} /\ ThreadCount \in Nat \ {0}
  /\ Value \subseteq Int /\ INT_MAX \in Int
  /\ \A v \in Value : v < INT_MAX

VARIABLES
  data,           \* arr.data
  threadIndex,    \* how many threads have been started
  blockStart,     \* where the next block starts
  position,       \* the index i of each thread
  blockEnd,       \* where its block ends
  joined          \* the caller has joined every thread

scanVars == <<data, threadIndex, blockStart, position, blockEnd, joined>>

Index == 0..(Size - 1)
ThreadId == 0..(ThreadCount - 1)

ScanInit ==
  /\ data \in [Index -> Value]
  /\ threadIndex = 0
  /\ blockStart = 0
  /\ position = [t \in ThreadId |-> 0]
  /\ blockEnd = [t \in ThreadId |-> 0]
  /\ joined = FALSE

-----------------------------------------------------------------------------
\* Mutant of Include: a new minimum does not reset the count.
IncludeWithoutReset(result, value) ==
  IF value <= result.minValue
    THEN [minValue |-> value, count |-> result.count + 1] ELSE result

\* One step of the sequential search, and of the one under the mutex.
Include(result, value) ==
  IF value < result.minValue THEN [minValue |-> value, count |-> 1]
  ELSE IF value = result.minValue THEN [result EXCEPT !.count = @ + 1]
  ELSE result

\* The result of the sequential search over the elements 0..i.
findMinAndCount[i \in Index] ==
  IF i = 0 THEN [minValue |-> data[0], count |-> 1]
           ELSE Include(findMinAndCount[i - 1], data[i])

Sequential == findMinAndCount[Size - 1]

-----------------------------------------------------------------------------
\* Mutant of Extra: one block too many is longer.
ExtraOffByOne(t) == IF t <= Size % ThreadCount THEN 1 ELSE 0

\* The first Size % ThreadCount blocks are one longer.
Extra(t) == IF t < Size % ThreadCount THEN 1 ELSE 0

\* Mutant of StartThread: every block has the same length.
StartEqualBlock ==
  /\ threadIndex < ThreadCount
  /\ LET end == blockStart + Size \div ThreadCount
     IN  /\ position' = [position EXCEPT ![threadIndex] = blockStart]
         /\ blockEnd' = [blockEnd EXCEPT ![threadIndex] = end]
         /\ blockStart' = end
  /\ threadIndex' = threadIndex + 1
  /\ UNCHANGED <<data, joined>>

StartThread ==
  /\ threadIndex < ThreadCount
  /\ LET end == blockStart + Size \div ThreadCount + Extra(threadIndex)
     IN  /\ position' = [position EXCEPT ![threadIndex] = blockStart]
         /\ blockEnd' = [blockEnd EXCEPT ![threadIndex] = end]
         /\ blockStart' = end
  /\ threadIndex' = threadIndex + 1
  /\ UNCHANGED <<data, joined>>

Scanning(t) == t < threadIndex /\ position[t] < blockEnd[t]

\* Thread t goes on to its next element.
Advance(t) ==
  /\ position' = [position EXCEPT ![t] = @ + 1]
  /\ UNCHANGED <<data, threadIndex, blockStart, blockEnd, joined>>

JoinAll ==
  /\ threadIndex = ThreadCount /\ ~joined
  /\ \A t \in ThreadId : ~Scanning(t)
  /\ joined' = TRUE
  /\ UNCHANGED <<data, threadIndex, blockStart, position, blockEnd>>

\* The next search of the same array.
ScanAgain ==
  /\ threadIndex' = 0 /\ blockStart' = 0 /\ joined' = FALSE
  /\ position' = [t \in ThreadId |-> 0]
  /\ blockEnd' = [t \in ThreadId |-> 0]
  /\ UNCHANGED data

-----------------------------------------------------------------------------
ScanTypeOK ==
  /\ data \in [Index -> Value]
  /\ threadIndex \in 0..ThreadCount
  /\ blockStart \in 0..Size
  /\ position \in [ThreadId -> 0..Size]
  /\ blockEnd \in [ThreadId -> 0..Size]
  /\ joined \in BOOLEAN

\* The elements that no thread has finished with.
Pending == {i \in Index : \/ i >= blockStart
                          \/ \E t \in ThreadId : position[t] <= i /\ i < blockEnd[t]}

(***************************************************************************)
(* No element is given to two threads, and none is forgotten when the last *)
(* thread has been started.                                                *)
(***************************************************************************)
BlocksPartition ==
  /\ \A t, u \in ThreadId :
       t # u => blockEnd[t] <= position[u] \/ blockEnd[u] <= position[t]
                  \/ ~Scanning(t) \/ ~Scanning(u)
  /\ threadIndex = ThreadCount => blockStart = Size
=============================================================================
