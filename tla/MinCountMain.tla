---------------------------- MODULE MinCountMain ----------------------------
(***************************************************************************)
(* One round of lab_2's main: an array is searched by one thread, then     *)
(* with a mutex, then with atomics, and the results are compared.          *)
(***************************************************************************)
EXTENDS ArrayScan

VARIABLES
  globalResult,                          \* see MinCountMutex
  minValue, count, past, pc, current,    \* see MinCountAtomic
  phase                                  \* which search is under way

countVars == <<minValue, count, past, pc, current>>
vars == <<scanVars, globalResult, countVars, phase>>

Mutex == INSTANCE MinCountMutex
Atomic == INSTANCE MinCountAtomic

Init == Mutex!Init /\ Atomic!Init /\ phase = "mutex"

SearchWithMutex ==
  /\ phase = "mutex"
  /\ Mutex!Start \/ (\E t \in ThreadId : Mutex!Visit(t)) \/ Mutex!Join
  /\ UNCHANGED <<countVars, phase>>

\* main goes on to the second search of the same array.
CallAtomic ==
  /\ phase = "mutex" /\ joined /\ phase' = "atomic"
  /\ ScanAgain
  /\ UNCHANGED <<globalResult, countVars>>

SearchWithAtomics ==
  /\ phase = "atomic"
  /\ Atomic!Start \/ (\E t \in ThreadId : Atomic!ThreadStep(t)) \/ Atomic!Join
  /\ UNCHANGED <<globalResult, phase>>

\* The results are printed.
Finished == phase = "atomic" /\ joined /\ UNCHANGED vars

Next == SearchWithMutex \/ CallAtomic \/ SearchWithAtomics \/ Finished

Spec == Init /\ [][Next]_vars

-----------------------------------------------------------------------------
TypeOK == Mutex!TypeOK /\ Atomic!TypeOK /\ phase \in {"mutex", "atomic"}

(***************************************************************************)
(* During the search under the mutex the shared result is at every moment  *)
(* that of the elements visited so far.                                    *)
(***************************************************************************)
ResultOfVisited == phase = "mutex" => Mutex!ResultOfVisited

(***************************************************************************)
(* What main.cpp compares and the code guarantees: the search under the    *)
(* mutex returns the sequential result, in whatever order the threads get  *)
(* it; the one with atomics at least the right minimum: however the        *)
(* exchanges interleave and however old the values are that the threads    *)
(* have loaded, no smaller value is overwritten.                           *)
(***************************************************************************)
SearchesAgree ==
  /\ (joined \/ phase = "atomic") => globalResult = Sequential
  /\ (phase = "atomic" /\ joined) => minValue = Sequential.minValue

(***************************************************************************)
(* main.cpp compares the count of the search with atomics, too.            *)
(***************************************************************************)
AtomicAgrees ==
  (phase = "atomic" /\ joined)
    => [minValue |-> minValue, count |-> count] = Sequential
=============================================================================
