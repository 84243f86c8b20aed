--------------------------- MODULE MinCountMutex ---------------------------
(***************************************************************************)
(* findMinAndCountParallelMutex of lab_2: every element is compared with   *)
(* the shared result inside one critical section.                          *)
(***************************************************************************)
EXTENDS ArrayScan

VARIABLE globalResult

vars == <<scanVars, globalResult>>

Init ==
  /\ ScanInit
  /\ globalResult = [minValue |-> INT_MAX, count |-> 0]

Visit(t) ==
  /\ Scanning(t)
  /\ globalResult' = Include(globalResult, data[position[t]])
  /\ Advance(t)

Start == StartThread /\ UNCHANGED globalResult
Join == JoinAll /\ UNCHANGED globalResult

\* The caller has its result.
Finished == joined /\ UNCHANGED vars

Next ==
  \/ Start
  \/ \E t \in ThreadId : Visit(t)
  \/ Join
  \/ Finished

Spec == Init /\ [][Next]_vars

-----------------------------------------------------------------------------
TypeOK ==
  /\ ScanTypeOK
  /\ globalResult \in [minValue: Value \cup {INT_MAX}, count: 0..Size]

(***************************************************************************)
(* At every moment the result is that of the elements visited so far.      *)
(***************************************************************************)
ResultOfVisited ==
  LET visited == Index \ Pending
      smallest == {i \in visited : data[i] = globalResult.minValue}
  IN  /\ \A i \in visited : globalResult.minValue <= data[i]
      /\ globalResult.count = Cardinality(smallest)
=============================================================================
