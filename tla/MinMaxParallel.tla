--------------------------- MODULE MinMaxParallel ---------------------------
(***************************************************************************)
(* The parallel minimum and maximum of a matrix: findMinMaxParallel in the *)
(* two forms the repository has, that of lab_1 (main.cpp) under lab_1's    *)
(* main, and that of lab_4 (minmax.h) under the worker of its server,      *)
(* which MinMaxServer takes for one step.  They cut the rows into blocks   *)
(* alike; they differ in what they do with a number of threads that does   *)
(* not fit the matrix.                                                     *)
(*                                                                         *)
(* The matrix is flat, row after row, as in lab_4.  Nobody writes to it    *)
(* during the search, and a local result is read after the join only, so a *)
(* step of a thread is the comparison of one element.                      *)
(***************************************************************************)
EXTENDS Integers, Sequences

CONSTANTS
  MaxRows,          \* bound on the rows of a matrix
  Cols,             \* its columns
  Value,            \* the values of its elements
  Cores,            \* what hardware_concurrency may return: 0 if unknown
  MaxRequested,     \* bound on the numThreads that lab_4's clients send
  ThreadsMayFail    \* a std::thread may not be creatable

ASSUME MatrixAssumption ==
  MaxRows \in Nat \ {0} /\ Cols \in Nat \ {0} /\ Value \subseteq Int
ASSUME CoresAssumption ==
  Cores \subseteq Nat /\ MaxRequested \in Nat /\ ThreadsMayFail \in BOOLEAN

VARIABLES
  program,              \* which of the two programs this is
  rows, data,           \* the matrix
  cores,                \* hardware_concurrency() in lab_1
  calls,                \* the numThreads of the calls that are to be made
  pc,                   \* where the caller is
  numThreads, i, currentRow,       \* its locals
  index, startIndex, endIndex,     \* each thread's loop, as in minmax.h
  localResults, result

matrixVars == <<program, rows, data, cores>>
callerVars == <<calls, pc, numThreads, i, currentRow, result>>
threadVars == <<index, startIndex, endIndex, localResults>>
vars == <<matrixVars, callerVars, threadVars>>

Cell == 0..(rows * Cols - 1)
ThreadId == 0..(numThreads - 1)
Element == {data[k] : k \in Cell}

-----------------------------------------------------------------------------
\* Mutant of threadConfigs: no value to fall back on.
threadConfigsOfCores(n) ==
  <<(n \div 2) \div 2, n \div 2, n, n * 2, n * 4, n * 8, n * 16>>

\* The numbers of threads that lab_1's main tries.
threadConfigs(n) ==
  LET physicalCores == IF n \div 2 = 0 THEN 10 ELSE n \div 2
      logicalCores == IF n = 0 THEN 16 ELSE n
  IN  <<physicalCores \div 2, physicalCores, logicalCores, logicalCores * 2,
        logicalCores * 4, logicalCores * 8, logicalCores * 16>>

\* No thread is at work and a result has its initial value.
Zero == [min |-> 0, max |-> 0]
Init ==
  /\ rows \in 1..MaxRows
  /\ data \in [Cell -> Value]
  /\ \/ /\ program = "lab_1" /\ cores \in Cores
        /\ calls = threadConfigs(cores)
     \/ /\ program = "lab_4" /\ cores = 0
        /\ \E n \in 0..MaxRequested : calls = <<n>>
  /\ pc = "call" /\ numThreads = 0 /\ i = 0 /\ currentRow = 0
  /\ index = <<>> /\ startIndex = <<>> /\ endIndex = <<>>
  /\ localResults = <<>> /\ result = Zero

\* The sequential searches, and how local results are combined: the least
\* of the minima and the greatest of the maxima.
IsMinMax(r, minima, maxima) ==
  /\ r.min \in minima /\ \A v \in minima : r.min <= v
  /\ r.max \in maxima /\ \A v \in maxima : r.max >= v

findMinMax(r) == IsMinMax(r, Element, Element)

-----------------------------------------------------------------------------
(***************************************************************************)
(* The calling thread.                                                     *)
(***************************************************************************)
At(label) == pc = label /\ UNCHANGED matrixVars

\* lab_1 divides the rows by the number of threads it was given.
DivideByZero ==
  /\ At("call") /\ program = "lab_1" /\ Head(calls) = 0
  /\ pc' = "crashed"
  /\ UNCHANGED <<calls, numThreads, i, currentRow, result, threadVars>>

\* lab_4 needs no thread for one row, or for one thread.
Sequential == program = "lab_4" /\ (Head(calls) <= 1 \/ rows = 1)

SearchSequentially ==
  /\ At("call") /\ Sequential
  /\ \E min, max \in Value :
       /\ result' = [min |-> min, max |-> max]
       /\ findMinMax(result')
  /\ pc' = "returned"
  /\ UNCHANGED <<calls, numThreads, i, currentRow, threadVars>>

\* lab_4 starts no more threads than there are rows.
Threads(n) == IF program = "lab_4" /\ n > rows THEN rows ELSE n

EnterParallel ==
  /\ At("call") /\ ~Sequential /\ Head(calls) > 0
  /\ numThreads' = Threads(Head(calls))
  /\ i' = 0 /\ currentRow' = 0
  /\ index' = [t \in 0..(numThreads' - 1) |-> 0]
  /\ startIndex' = index' /\ endIndex' = index'
  /\ localResults' = [t \in 0..(numThreads' - 1) |-> Zero]
  /\ pc' = "start"
  /\ UNCHANGED <<calls, result>>

\* Mutant of Extra: one block too many is longer.
ExtraOffByOne(t) == IF t <= rows % numThreads THEN 1 ELSE 0

\* The first rows % numThreads blocks are one row longer.
Extra(t) == IF t < rows % numThreads THEN 1 ELSE 0

EndRow == currentRow + rows \div numThreads + Extra(i)

\* The thread's loop is set up; the block of thread i is the next one.
CutBlock ==
  /\ At("start") /\ i < numThreads
  /\ startIndex' = [startIndex EXCEPT ![i] = currentRow * Cols]
  /\ index' = [index EXCEPT ![i] = currentRow * Cols]
  /\ endIndex' = [endIndex EXCEPT ![i] = EndRow * Cols]
  /\ currentRow' = EndRow
  /\ i' = i + 1
  /\ UNCHANGED <<calls, pc, numThreads, result>>

StartThread ==
  CutBlock /\ currentRow < EndRow /\ UNCHANGED localResults

\* Mutant of SkipThread: the result keeps its initial value.
SkipThreadOnly ==
  program = "lab_1" /\ CutBlock /\ currentRow = EndRow /\ UNCHANGED localResults

\* No row is left for the thread: its result is that of the first element.
\* lab_4 has no such branch, nor a thread without a row (see Threads).
SkipThread ==
  /\ program = "lab_1" /\ CutBlock /\ currentRow = EndRow
  /\ localResults' = [localResults EXCEPT ![i] = [min |-> data[0], max |-> data[0]]]

Started(t) == startIndex[t] < endIndex[t]

\* std::thread throws.  The vector of the threads that were started, all of
\* them joinable, is destroyed on the way out; without any the exception
\* reaches the catch of lab_4's worker, or leaves lab_1's main.
ThreadFails ==
  /\ At("start") /\ i < numThreads /\ currentRow < EndRow /\ ThreadsMayFail
  /\ pc' = IF program = "lab_4" /\ ~\E t \in ThreadId : Started(t)
             THEN "threw" ELSE "terminated"
  /\ index' = <<>> /\ startIndex' = <<>> /\ endIndex' = <<>>
  /\ localResults' = <<>>
  /\ UNCHANGED <<calls, numThreads, i, currentRow, result>>

Join ==
  /\ At("start") /\ i = numThreads
  /\ \A t \in ThreadId : index[t] = endIndex[t]
  /\ pc' = "combine"
  /\ UNCHANGED <<calls, numThreads, i, currentRow, result, threadVars>>

\* The local results become the global one; the vectors are destroyed.
Combine ==
  /\ At("combine")
  /\ LET minima == {localResults[t].min : t \in ThreadId}
         maxima == {localResults[t].max : t \in ThreadId}
     IN  \E min \in minima, max \in maxima :
           /\ result' = [min |-> min, max |-> max]
           /\ IsMinMax(result', minima, maxima)
  /\ pc' = "returned"
  /\ index' = <<>> /\ startIndex' = <<>> /\ endIndex' = <<>>
  /\ localResults' = <<>>
  /\ UNCHANGED <<calls, numThreads, i, currentRow>>

\* lab_1's main reports the result and goes on to its next configuration;
\* lab_4's worker stores it.
NextCall ==
  /\ At("returned")
  /\ calls' = Tail(calls)
  /\ pc' = IF calls' = <<>> THEN "finished" ELSE "call"
  /\ result' = Zero /\ numThreads' = 0 /\ i' = 0 /\ currentRow' = 0
  /\ UNCHANGED threadVars

CallerStep ==
  \/ DivideByZero \/ SearchSequentially \/ EnterParallel
  \/ StartThread \/ SkipThread \/ ThreadFails \/ Join \/ Combine \/ NextCall

-----------------------------------------------------------------------------
(***************************************************************************)
(* minMaxWorker, and the lambda in minmax.h.                               *)
(***************************************************************************)
Widen(r, v) == [min |-> IF v < r.min THEN v ELSE r.min,
                max |-> IF v > r.max THEN v ELSE r.max]

\* The local result starts as the first element of the block.
Compare(t) ==
  /\ index[t] < endIndex[t]
  /\ LET v == data[index[t]]
     IN  localResults' = [localResults EXCEPT
           ![t] = IF index[t] = startIndex[t] THEN [min |-> v, max |-> v]
                                              ELSE Widen(@, v)]
  /\ index' = [index EXCEPT ![t] = @ + 1]
  /\ UNCHANGED <<matrixVars, callerVars, startIndex, endIndex>>

WorkerStep == \E t \in DOMAIN index : Compare(t)

-----------------------------------------------------------------------------
Ended == pc \in {"finished", "threw", "terminated", "crashed"}

Finished == Ended /\ UNCHANGED vars

Next == CallerStep \/ WorkerStep \/ Finished

Spec == Init /\ [][Next]_vars

(***************************************************************************)
(* The caller runs, and so do the threads; as their work is finite it is   *)
(* enough that one of them does.                                           *)
(***************************************************************************)
Fairness == WF_vars(CallerStep) /\ WF_vars(WorkerStep)

FairSpec == Spec /\ Fairness

-----------------------------------------------------------------------------
LocalResult == [min: Value \cup {0}, max: Value \cup {0}]

\* A thread never reads beyond the matrix.
TypeOK ==
  /\ program \in {"lab_1", "lab_4"}
  /\ rows \in 1..MaxRows /\ data \in [Cell -> Value] /\ cores \in Nat
  /\ calls \in Seq(Nat)
  /\ pc \in {"call", "start", "combine", "returned", "finished", "threw",
             "terminated", "crashed"}
  /\ numThreads \in Nat /\ i \in 0..numThreads /\ currentRow \in 0..rows
  /\ index \in [DOMAIN index -> 0..(rows * Cols)]
  /\ startIndex \in [DOMAIN index -> 0..(rows * Cols)]
  /\ endIndex \in [DOMAIN index -> 0..(rows * Cols)]
  /\ localResults \in [DOMAIN index -> LocalResult]
  /\ result \in LocalResult

(***************************************************************************)
(* lab_1's main prints [OK] when the parallel and the sequential result    *)
(* agree: they do for every matrix and every number of threads, more than  *)
(* there are rows and numbers that do not divide them included, in         *)
(* whatever order the threads are done.                                    *)
(***************************************************************************)
ParallelAgrees == pc = "returned" => findMinMax(result)

(***************************************************************************)
(* Every call returns, as long as threads can be created, and lab_1 goes   *)
(* through all its configurations, except on a machine with two or three   *)
(* logical cores, where half the physical ones is zero.                    *)
(***************************************************************************)
EveryCallReturns ==
  <>(\/ pc \in {"finished", "threw", "terminated"}
     \/ program = "lab_1" /\ cores \in {2, 3})
=============================================================================
