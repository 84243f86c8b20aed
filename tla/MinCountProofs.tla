--------------------------- MODULE MinCountProofs ---------------------------
(***************************************************************************)
(* Proofs about the two parallel searches of lab_2, for every array, every *)
(* number of threads and every order in which they take their steps. The   *)
(* results are compared with the array itself, and so is what the          *)
(* sequential search, a recursive function, computes; there is one right   *)
(* result, so the searches agree.                                          *)
(***************************************************************************)
EXTENDS MinCountMain, FiniteSetTheorems, WellFoundedInduction, TLAPS

-----------------------------------------------------------------------------
(***************************************************************************)
(* Facts of arithmetic.                                                    *)
(***************************************************************************)
LEMMA Division ==
  ASSUME NEW a \in Nat, NEW b \in Nat \ {0}
  PROVE  /\ a \div b \in Nat
         /\ a % b \in 0..(b - 1)
         /\ a = (b * (a \div b)) + (a % b)
  OBVIOUS

LEMMA Product ==
  ASSUME NEW a \in Nat, NEW b \in Nat, NEW c \in Nat
  PROVE  /\ a * c \in Nat
         /\ a <= b => a * c <= b * c
         /\ (a + 1) * c = (a * c) + c
  OBVIOUS

-----------------------------------------------------------------------------
(***************************************************************************)
(* The blocks.                                                             *)
(***************************************************************************)
\* What the first n threads have got of the remainder.
Spread(n) == IF n < Size % ThreadCount THEN n ELSE Size % ThreadCount

Blocks ==
  \A t \in ThreadId :
    /\ position[t] <= blockEnd[t] /\ blockEnd[t] <= blockStart
    /\ t >= threadIndex => position[t] = 0 /\ blockEnd[t] = 0

Ascending ==
  \A t, u \in ThreadId : t < u /\ u < threadIndex => blockEnd[t] <= position[u]

ScanInv ==
  /\ ScanTypeOK
  /\ blockStart = (threadIndex * (Size \div ThreadCount)) + Spread(threadIndex)
  /\ Blocks /\ Ascending

Visited == Index \ Pending

(***************************************************************************)
(* The results.                                                            *)
(***************************************************************************)
IsResult(result, visited) ==
  /\ \A k \in visited : result.minValue <= data[k]
  /\ result.count = Cardinality({k \in visited : data[k] = result.minValue})
  /\ IF visited = {} THEN result.minValue = INT_MAX
                     ELSE \E k \in visited : data[k] = result.minValue

MutexInv ==
  /\ globalResult \in [minValue: Value \cup {INT_MAX}, count: Nat]
  /\ phase \in {"mutex", "atomic"}
  /\ phase = "mutex" => IsResult(globalResult, Visited)
  /\ phase = "atomic" => IsResult(globalResult, Index)

\* A thread between two loads has an element that is not below the minimum.
Compared ==
  \A t \in ThreadId :
    IF Scanning(t)
      THEN pc[t] \in {"store", "compare", "add"} => minValue <= data[position[t]]
      ELSE pc[t] = "load"

AtomicInv ==
  /\ minValue \in {data[k] : k \in Index} \cup {INT_MAX}
  /\ past \subseteq Int /\ \A v \in past : minValue <= v
  /\ current \in [ThreadId -> Int] /\ \A t \in ThreadId : minValue <= current[t]
  /\ pc \in [ThreadId -> {"load", "while", "store", "compare", "add"}]
  /\ IF phase = "atomic"
       THEN Compared /\ \A k \in Visited : minValue <= data[k]
       ELSE pc = [t \in ThreadId |-> "load"]

Joined == joined => Pending = {}

IInv == ScanInv /\ MutexInv /\ AtomicInv /\ Joined

-----------------------------------------------------------------------------
(***************************************************************************)
(* Cutting the array.                                                      *)
(***************************************************************************)
LEMMA StartAscends ==
  ASSUME ScanAssumption
  PROVE  0 = (0 * (Size \div ThreadCount)) + Spread(0)
<1>1. Size \div ThreadCount \in Nat /\ Size % ThreadCount \in 0..(ThreadCount - 1)
  BY ScanAssumption, Division DEF ScanAssumption
<1>2. Spread(0) = 0
  BY <1>1 DEF Spread
<1> QED
  BY <1>1, <1>2

LEMMA NextBlockEnd ==
  ASSUME ScanAssumption, ScanInv, threadIndex < ThreadCount,
         NEW end, end = blockStart + Size \div ThreadCount + Extra(threadIndex)
  PROVE  /\ end \in Nat /\ blockStart <= end /\ end <= Size
         /\ end = ((threadIndex + 1) * (Size \div ThreadCount)) + Spread(threadIndex + 1)
<1> DEFINE q == Size \div ThreadCount
           r == Size % ThreadCount
           n == threadIndex
<1>1. /\ ThreadCount \in Nat \ {0} /\ Size \in Nat /\ n \in Nat
      /\ n + 1 <= ThreadCount /\ blockStart \in Nat
  BY ScanAssumption DEF ScanAssumption, ScanInv, ScanTypeOK
<1>2. q \in Nat /\ r \in 0..(ThreadCount - 1) /\ Size = (ThreadCount * q) + r
  BY <1>1, Division
<1>3. /\ n * q \in Nat /\ (n + 1) * q = (n * q) + q
      /\ (n + 1) * q <= ThreadCount * q
  <2> HIDE DEF q, r, n
  <2> QED
    BY <1>1, <1>2, Product
<1>4. /\ blockStart = (n * q) + Spread(n)
      /\ Spread(n) = IF n < r THEN n ELSE r
      /\ Spread(n + 1) = IF n + 1 < r THEN n + 1 ELSE r
      /\ end = blockStart + q + (IF n < r THEN 1 ELSE 0)
  BY DEF ScanInv, Spread, Extra
<1> HIDE DEF q, r, n
<1>5. ThreadCount * q \in Nat /\ (n + 1) * q \in Nat
  BY <1>1, <1>2, Product
<1>6. Spread(n) \in Nat /\ Spread(n + 1) <= r
  BY <1>1, <1>2, <1>4
<1>7. end = ((n + 1) * q) + Spread(n + 1)
  BY <1>1, <1>2, <1>3, <1>4, <1>5
<1>8. end \in Nat /\ blockStart <= end /\ end <= Size
  BY <1>1, <1>2, <1>3, <1>4, <1>5, <1>6, <1>7
<1> QED
  BY <1>7, <1>8 DEF q, n

LEMMA AllDealt ==
  ASSUME ScanAssumption, ScanInv, threadIndex = ThreadCount
  PROVE  blockStart = Size
<1> DEFINE q == Size \div ThreadCount
           r == Size % ThreadCount
<1>1. q \in Nat /\ r \in 0..(ThreadCount - 1) /\ Size = (ThreadCount * q) + r
  BY ScanAssumption, Division DEF ScanAssumption
<1>2. blockStart = (ThreadCount * q) + Spread(ThreadCount)
  BY DEF ScanInv
<1>3. Spread(ThreadCount) = r
  BY <1>1, ScanAssumption DEF ScanAssumption, Spread
<1> QED
  BY <1>1, <1>2, <1>3

-----------------------------------------------------------------------------
(***************************************************************************)
(* The steps the two searches share.                                       *)
(***************************************************************************)
LEMMA FreshScan ==
  ASSUME ScanAssumption, data' \in [Index -> Value], threadIndex' = 0,
         blockStart' = 0, joined' = FALSE,
         position' = [t \in ThreadId |-> 0], blockEnd' = [t \in ThreadId |-> 0]
  PROVE  ScanInv' /\ Visited' = {} /\ \A t \in ThreadId : ~Scanning(t)'
<1>1. ScanTypeOK'
  <2>1. 0 \in 0..Size /\ 0 \in 0..ThreadCount
    BY ScanAssumption DEF ScanAssumption
  <2>2. [t \in ThreadId |-> 0] \in [ThreadId -> 0..Size]
    BY <2>1
  <2> QED
    BY <2>1, <2>2, Zenon DEF ScanTypeOK
<1>2. Blocks' /\ Ascending' /\ \A t \in ThreadId : ~Scanning(t)'
  <2>1. \A t \in ThreadId : t \in Nat /\ position'[t] = 0 /\ blockEnd'[t] = 0
    BY ScanAssumption DEF ScanAssumption, ThreadId
  <2> QED
    BY <2>1 DEF Blocks, Ascending, Scanning
<1>3. Visited' = {}
  BY ScanAssumption DEF ScanAssumption, Visited, Pending, Index
<1>4. blockStart' = (threadIndex' * (Size \div ThreadCount)) + Spread(threadIndex')
  BY StartAscends, ScanAssumption
<1> QED
  BY <1>1, <1>2, <1>3, <1>4 DEF ScanInv

LEMMA StartThreadKeeps ==
  ASSUME ScanAssumption, ScanInv, StartThread
  PROVE  /\ ScanInv' /\ Visited' = Visited
         /\ \A t \in ThreadId : t # threadIndex =>
              (Scanning(t)' <=> Scanning(t)) /\ position'[t] = position[t]
         /\ threadIndex \in ThreadId /\ ~Scanning(threadIndex)
<1> DEFINE end == blockStart + Size \div ThreadCount + Extra(threadIndex)
<1>1. /\ threadIndex < ThreadCount /\ threadIndex' = threadIndex + 1
      /\ position' = [position EXCEPT ![threadIndex] = blockStart]
      /\ blockEnd' = [blockEnd EXCEPT ![threadIndex] = end]
      /\ blockStart' = end /\ data' = data /\ joined' = joined
  BY DEF StartThread
<1>2. /\ end \in Nat /\ blockStart <= end /\ end <= Size
      /\ end = ((threadIndex + 1) * (Size \div ThreadCount)) + Spread(threadIndex + 1)
  BY <1>1, ScanAssumption, NextBlockEnd
<1> HIDE DEF end
<1>3. /\ ThreadCount \in Nat /\ Size \in Nat /\ threadIndex \in ThreadId
      /\ threadIndex \in Nat /\ blockStart \in 0..Size /\ blockStart \in Nat
      /\ position \in [ThreadId -> 0..Size] /\ blockEnd \in [ThreadId -> 0..Size]
  BY <1>1, ScanAssumption DEF ScanAssumption, ScanInv, ScanTypeOK, ThreadId
<1>4. ScanTypeOK'
  <2>1. end \in 0..Size /\ threadIndex + 1 \in 0..ThreadCount
    BY <1>1, <1>2, <1>3
  <2> QED
    BY <1>1, <1>3, <2>1 DEF ScanInv, ScanTypeOK
<1>5. \A t \in ThreadId :
        IF t = threadIndex
          THEN position'[t] = blockStart /\ blockEnd'[t] = end
          ELSE position'[t] = position[t] /\ blockEnd'[t] = blockEnd[t]
  BY <1>1, <1>3
<1>6. \A t \in ThreadId :
        /\ t \in Nat /\ position[t] \in Nat /\ blockEnd[t] \in Nat
        /\ position[t] <= blockEnd[t] /\ blockEnd[t] <= blockStart
        /\ t >= threadIndex => position[t] = 0 /\ blockEnd[t] = 0
  BY <1>3 DEF ScanInv, Blocks, ThreadId
<1>7. Blocks'
  BY <1>1, <1>2, <1>3, <1>5, <1>6 DEF Blocks
<1>8. Ascending'
  <2> SUFFICES ASSUME NEW t \in ThreadId, NEW u \in ThreadId, t < u, u < threadIndex + 1
               PROVE  blockEnd'[t] <= position'[u]
    BY <1>1 DEF Ascending
  <2>1. CASE u = threadIndex
    BY <1>3, <1>5, <1>6, <2>1
  <2>2. CASE u < threadIndex
    BY <1>3, <1>5, <1>6, <2>2 DEF ScanInv, Ascending
  <2> QED
    BY <1>3, <1>6, <2>1, <2>2
<1>9. Pending' = Pending
  <2>1. ASSUME NEW k \in Index, k \in Pending'
        PROVE  k \in Pending
    BY <1>1, <1>2, <1>3, <1>5, <1>6, <2>1 DEF Pending, Index
  <2>2. ASSUME NEW k \in Index, k \in Pending
        PROVE  k \in Pending'
    <3>0. k \in Nat
      BY <1>3 DEF Index
    <3>1. CASE k >= blockStart
      <4>1. CASE k >= end
        BY <1>1, <4>1 DEF Pending
      <4>2. CASE k < end
        BY <1>3, <1>5, <3>1, <4>2 DEF Pending
      <4> QED
        BY <1>2, <3>0, <4>1, <4>2
    <3>2. CASE \E t \in ThreadId : position[t] <= k /\ k < blockEnd[t]
      <4>1. PICK t \in ThreadId : position[t] <= k /\ k < blockEnd[t]
        BY <3>2
      <4>2. t # threadIndex
        BY <1>3, <1>6, <3>0, <4>1
      <4> QED
        BY <1>5, <4>1, <4>2 DEF Pending
    <3> QED
      BY <2>2, <3>1, <3>2 DEF Pending
  <2>3. Pending \subseteq Index /\ Pending' \subseteq Index
    BY DEF Pending
  <2> QED
    BY <2>1, <2>2, <2>3
<1>10. ScanInv' /\ Visited' = Visited
  BY <1>1, <1>2, <1>4, <1>7, <1>8, <1>9 DEF ScanInv, Visited
<1>11. ASSUME NEW t \in ThreadId, t # threadIndex
       PROVE  (Scanning(t)' <=> Scanning(t)) /\ position'[t] = position[t]
  <2>1. t < threadIndex' <=> t < threadIndex
    BY <1>1, <1>3, <1>6, <1>11
  <2> QED
    BY <1>5, <1>11, <2>1 DEF Scanning
<1> QED
  BY <1>3, <1>10, <1>11 DEF Scanning

LEMMA AdvanceKeeps ==
  ASSUME ScanAssumption, ScanInv, NEW t \in ThreadId, Scanning(t), Advance(t)
  PROVE  /\ ScanInv' /\ data' = data /\ joined' = joined
         /\ position[t] \in Pending
         /\ Visited' = Visited \cup {position[t]}
         /\ \A u \in ThreadId \ {t} :
              (Scanning(u)' <=> Scanning(u)) /\ position'[u] = position[u]
<1>1. /\ UNCHANGED <<data, threadIndex, blockStart, blockEnd, joined>>
      /\ position' = [position EXCEPT ![t] = @ + 1]
  BY DEF Advance
<1>2. /\ ThreadCount \in Nat /\ Size \in Nat /\ threadIndex \in Nat
      /\ blockStart \in 0..Size /\ blockStart \in Nat
      /\ position \in [ThreadId -> 0..Size] /\ blockEnd \in [ThreadId -> 0..Size]
  BY ScanAssumption DEF ScanAssumption, ScanInv, ScanTypeOK
<1>3. \A u \in ThreadId :
        /\ u \in Nat /\ position[u] \in Nat /\ blockEnd[u] \in Nat
        /\ position[u] <= blockEnd[u] /\ blockEnd[u] <= blockStart
        /\ u >= threadIndex => position[u] = 0 /\ blockEnd[u] = 0
  BY <1>2 DEF ScanInv, Blocks, ThreadId
<1>4. t < threadIndex /\ position[t] < blockEnd[t]
  BY DEF Scanning
<1>5. \A u \in ThreadId :
        position'[u] = IF u = t THEN position[t] + 1 ELSE position[u]
  BY <1>1, <1>2
<1>6. position[t] + 1 \in 0..Size /\ position[t] \in Index
  BY <1>2, <1>3, <1>4 DEF Index
<1>7. ScanTypeOK'
  BY <1>1, <1>2, <1>6 DEF ScanInv, ScanTypeOK
<1>8. Blocks' /\ Ascending'
  <2>1. Blocks'
    BY <1>1, <1>2, <1>3, <1>4, <1>5 DEF Blocks
  <2>2. Ascending'
    <3> SUFFICES ASSUME NEW u \in ThreadId, NEW v \in ThreadId, u < v, v < threadIndex
                 PROVE  blockEnd[u] <= position'[v]
      BY <1>1 DEF Ascending
    <3>1. blockEnd[u] <= position[v]
      BY DEF ScanInv, Ascending
    <3> QED
      BY <1>3, <1>5, <3>1
  <2> QED
    BY <2>1, <2>2
<1>9. position[t] \in Pending
  BY <1>4, <1>6, <1>3 DEF Pending
<1>10. \A u \in ThreadId \ {t} : ~(position[u] <= position[t] /\ position[t] < blockEnd[u])
  <2> SUFFICES ASSUME NEW u \in ThreadId \ {t},
                      position[u] <= position[t], position[t] < blockEnd[u]
               PROVE  FALSE
    OBVIOUS
  <2>1. u < threadIndex
    BY <1>2, <1>3
  <2>2. CASE u < t
    <3>1. blockEnd[u] <= position[t]
      BY <1>4, <2>2 DEF ScanInv, Ascending
    <3> QED
      BY <1>3, <3>1
  <2>3. CASE t < u
    <3>1. blockEnd[t] <= position[u]
      BY <2>1, <2>3 DEF ScanInv, Ascending
    <3> QED
      BY <1>3, <1>4, <3>1
  <2> QED
    BY <1>3, <2>2, <2>3
<1>11. Pending' = Pending \ {position[t]}
  <2>1. ASSUME NEW k \in Index, k \in Pending'
        PROVE  k \in Pending /\ k # position[t]
    <3>1. k \in Nat /\ ~(position[t] >= blockStart)
      BY <1>2, <1>3, <1>4 DEF Index
    <3>2. CASE k >= blockStart
      BY <3>1, <3>2 DEF Pending
    <3>3. CASE \E u \in ThreadId : position'[u] <= k /\ k < blockEnd[u]
      <4>1. PICK u \in ThreadId : position'[u] <= k /\ k < blockEnd[u]
        BY <3>3
      <4>2. CASE u = t
        BY <1>3, <1>5, <3>1, <4>1, <4>2 DEF Pending
      <4>3. CASE u # t
        BY <1>3, <1>5, <1>10, <3>1, <4>1, <4>3 DEF Pending
      <4> QED
        BY <4>2, <4>3
    <3> QED
      BY <1>1, <2>1, <3>2, <3>3 DEF Pending
  <2>2. ASSUME NEW k \in Index, k \in Pending, k # position[t]
        PROVE  k \in Pending'
    <3>1. k \in Nat
      BY <1>2 DEF Index
    <3>2. CASE k >= blockStart
      BY <1>1, <3>2 DEF Pending
    <3>3. CASE \E u \in ThreadId : position[u] <= k /\ k < blockEnd[u]
      <4>1. PICK u \in ThreadId : position[u] <= k /\ k < blockEnd[u]
        BY <3>3
      <4>2. position'[u] <= k
        BY <1>3, <1>5, <2>2, <3>1, <4>1
      <4> QED
        BY <1>1, <4>1, <4>2 DEF Pending
    <3> QED
      BY <2>2, <3>2, <3>3 DEF Pending
  <2>3. Pending \subseteq Index /\ Pending' \subseteq Index
    BY DEF Pending
  <2> QED
    BY <2>1, <2>2, <2>3
<1>12. Visited' = Visited \cup {position[t]}
  BY <1>6, <1>11 DEF Visited
<1>13. ScanInv'
  BY <1>1, <1>7, <1>8 DEF ScanInv
<1>14. \A u \in ThreadId \ {t} :
         (Scanning(u)' <=> Scanning(u)) /\ position'[u] = position[u]
  BY <1>1, <1>5 DEF Scanning
<1> QED
  BY <1>1, <1>9, <1>12, <1>13, <1>14

LEMMA JoinAllKeeps ==
  ASSUME ScanAssumption, ScanInv, JoinAll
  PROVE  /\ ScanInv' /\ Visited' = Visited /\ Pending' = {}
         /\ \A t \in ThreadId : Scanning(t)' <=> Scanning(t)
<1>1. UNCHANGED <<data, threadIndex, blockStart, position, blockEnd>> /\ joined' = TRUE
  BY DEF JoinAll
<1>2. ScanInv'
  BY <1>1 DEF ScanInv, ScanTypeOK, Blocks, Ascending
<1>3. Pending' = Pending
  BY <1>1 DEF Pending
<1>4. Pending = {}
  <2> SUFFICES ASSUME NEW k \in Pending
               PROVE  FALSE
    OBVIOUS
  <2>1. /\ threadIndex = ThreadCount /\ \A t \in ThreadId : ~Scanning(t)
        /\ k \in Index /\ blockStart = Size
    BY AllDealt, ScanAssumption DEF JoinAll, Pending
  <2>2. k \in Nat /\ k < Size
    BY <2>1, ScanAssumption DEF Index, ScanAssumption
  <2>3. PICK t \in ThreadId : position[t] <= k /\ k < blockEnd[t]
    BY <2>1, <2>2, ScanAssumption DEF Pending, ScanAssumption
  <2>4. t < threadIndex /\ position[t] \in Nat /\ blockEnd[t] \in Nat
    BY <2>1, ScanAssumption DEF ThreadId, ScanAssumption, ScanInv, ScanTypeOK
  <2> QED
    BY <2>1, <2>2, <2>3, <2>4 DEF Scanning
<1> QED
  BY <1>1, <1>2, <1>3, <1>4 DEF Visited, Scanning

-----------------------------------------------------------------------------
(***************************************************************************)
(* The results.                                                            *)
(***************************************************************************)
ResultType == [minValue: Value \cup {INT_MAX}, count: Nat]

\* One more element, of whatever value, and the result is still right.
LEMMA IncludeIsRight ==
  ASSUME ScanAssumption, data \in [Index -> Value],
         NEW visited \in SUBSET Index, NEW k \in Index, k \notin visited,
         NEW result \in ResultType, IsResult(result, visited)
  PROVE  /\ Include(result, data[k]) \in ResultType
         /\ IsResult(Include(result, data[k]), visited \cup {k})
<1> DEFINE v == data[k]
           min == result.minValue
           after == Include(result, v)
           visited2 == visited \cup {k}
           smallest == {j \in visited : data[j] = min}
           smallest2 == {j \in visited2 : data[j] = after.minValue}
<1>1. /\ v \in Value /\ v \in Int /\ min \in Int /\ v < INT_MAX /\ INT_MAX \in Int
      /\ result.count \in Nat /\ \A j \in Index : data[j] \in Int
      /\ Value \subseteq Int
  BY ScanAssumption DEF ScanAssumption, ResultType
<1>2. IsFiniteSet(smallest)
  <2>1. IsFiniteSet(Index)
    BY FS_Interval, ScanAssumption DEF ScanAssumption, Index
  <2> QED
    BY <2>1, FS_Subset
<1>3. /\ \A j \in visited : min <= data[j]
      /\ result.count = Cardinality(smallest)
      /\ IF visited = {} THEN min = INT_MAX ELSE \E j \in visited : data[j] = min
  BY DEF IsResult
<1>4. CASE v < min
  <2>1. after = [minValue |-> v, count |-> 1]
    BY <1>4 DEF Include
  <2>2. smallest2 = {k}
    <3>1. \A j \in visited : data[j] # v
      BY <1>1, <1>3, <1>4
    <3> QED
      BY <2>1, <3>1
  <2>3. Cardinality(smallest2) = 1
    BY <2>2, FS_Singleton
  <2>4. \A j \in visited2 : v <= data[j]
    BY <1>1, <1>3, <1>4
  <2> QED
    BY <1>1, <2>1, <2>3, <2>4 DEF IsResult, ResultType
<1>5. CASE v = min
  <2>1. after = [minValue |-> min, count |-> result.count + 1]
    BY <1>1, <1>5 DEF Include, ResultType
  <2>2. smallest2 = smallest \cup {k}
    BY <1>5, <2>1
  <2>3. Cardinality(smallest2) = Cardinality(smallest) + 1
    BY <1>2, <2>2, FS_AddElement
  <2>4. \A j \in visited2 : min <= data[j]
    BY <1>1, <1>3, <1>5
  <2>5. after \in ResultType
    BY <1>1, <2>1 DEF ResultType
  <2> QED
    BY <1>3, <1>5, <2>1, <2>3, <2>4, <2>5 DEF IsResult
<1>6. CASE v > min
  <2>1. after = result
    BY <1>1, <1>6 DEF Include
  <2>2. smallest2 = smallest
    BY <1>1, <1>6, <2>1
  <2>3. visited # {} /\ \E j \in visited2 : data[j] = min
    BY <1>1, <1>3, <1>6
  <2>4. \A j \in visited2 : min <= data[j]
    BY <1>1, <1>3, <1>6
  <2> QED
    BY <1>3, <2>1, <2>2, <2>3, <2>4 DEF IsResult
<1> QED
  BY <1>1, <1>4, <1>5, <1>6

-----------------------------------------------------------------------------
(***************************************************************************)
(* The sequential search, which is a recursive function of the array.      *)
(***************************************************************************)
\* A set of numbers that has 0 and the successor of each of its elements has
\* them all.
LEMMA Induction ==
  ASSUME NEW S \in SUBSET Nat, 0 \in S, \A n \in S : n + 1 \in S
  PROVE  S = Nat
<1> DEFINE T == Nat \ S
           R == OpToRel(<, Nat)
<1> SUFFICES ASSUME T # {} PROVE FALSE
  OBVIOUS
<1>1. \A x, y \in Nat : y < x => <<y, x>> \in R
  BY DEF OpToRel
<1>2. IsWellFoundedOn(R, Nat)
  BY NatLessThanWellFounded, Zenon
<1> HIDE DEF R
<1>3. PICK x \in T : \A y \in T : <<y, x>> \notin R
  BY <1>2, WFMin
<1>4. x \notin S /\ x # 0 /\ x \in Nat /\ x - 1 \in Nat /\ x - 1 < x
  OBVIOUS
<1>5. x - 1 \in S
  BY <1>1, <1>3, <1>4
<1> QED
  BY <1>4, <1>5

\* The right-hand side of findMinAndCount, for any function in its place.
ScanStep(f, i) ==
  IF i = 0 THEN [minValue |-> data[0], count |-> 1] ELSE Include(f[i - 1], data[i])

\* Some function satisfies the equation, so findMinAndCount does.
LEMMA SearchExists ==
  ASSUME ScanAssumption
  PROVE  findMinAndCount = [i \in Index |-> ScanStep(findMinAndCount, i)]
<1> DEFINE Solves(f, n) == f = [i \in 0..n |-> ScanStep(f, i)]
           S == {n \in Nat : \E f : Solves(f, n)}
<1>1. 0 \in S
  <2> DEFINE f == [i \in 0..0 |-> [minValue |-> data[0], count |-> 1]]
  <2>1. Solves(f, 0)
    BY DEF ScanStep
  <2> QED
    BY <2>1
<1>2. ASSUME NEW n \in S
      PROVE  n + 1 \in S
  <2>1. PICK f : Solves(f, n)
    OBVIOUS
  <2> DEFINE g == [i \in 0..(n + 1) |-> IF i <= n THEN f[i] ELSE ScanStep(f, n + 1)]
  <2>2. n \in Nat /\ \A i \in 0..n : f[i] = ScanStep(f, i) /\ g[i] = f[i]
    <3>1. n \in Nat
      OBVIOUS
    <3>2. \A i \in 0..n : f[i] = ScanStep(f, i)
      <4> HIDE DEF S, g
      <4> QED
        BY <2>1, Zenon
    <3>3. ASSUME NEW i \in 0..n
          PROVE  g[i] = f[i]
      <4>1. i \in 0..(n + 1) /\ i <= n
        BY <3>1
      <4> HIDE DEF S, Solves
      <4> QED
        BY <4>1
    <3> HIDE DEF S, Solves, g
    <3> QED
      BY <3>1, <3>2, <3>3
  <2>3. ASSUME NEW i \in 0..(n + 1)
        PROVE  g[i] = ScanStep(g, i)
    <3>1. i = 0 \/ i - 1 \in 0..n
      BY <2>2
    <3>2. ScanStep(g, i) = ScanStep(f, i)
      BY <2>2, <3>1 DEF ScanStep
    <3>3. g[i] = IF i <= n THEN f[i] ELSE ScanStep(f, n + 1)
      OBVIOUS
    <3>4. i <= n => i \in 0..n
      BY <2>2
    <3>5. ~(i <= n) => i = n + 1
      BY <2>2
    <3> HIDE DEF g
    <3> QED
      BY <2>2, <3>2, <3>3, <3>4, <3>5
  <2>4. Solves(g, n + 1)
    BY <2>3
  <2>5. \E h : Solves(h, n + 1)
    BY <2>4
  <2> HIDE DEF g, Solves
  <2> QED
    BY <2>2, <2>5
<1>3. S = Nat
  <2> HIDE DEF S
  <2>1. S \in SUBSET Nat
    BY DEF S
  <2> QED
    BY <1>1, <1>2, <2>1, Induction
<1>4. \E f : f = [i \in Index |-> ScanStep(f, i)]
  <2>1. Size - 1 \in S
    BY <1>3, ScanAssumption DEF ScanAssumption
  <2> QED
    BY <2>1 DEF Index
<1>5. PICK f : f = [i \in Index |-> IF i = 0 THEN [minValue |-> data[0], count |-> 1]
                                    ELSE Include(f[i - 1], data[i])]
  BY <1>4 DEF ScanStep
<1>6. findMinAndCount
        = [i \in Index |-> IF i = 0 THEN [minValue |-> data[0], count |-> 1]
                           ELSE Include(findMinAndCount[i - 1], data[i])]
  BY <1>5 DEF findMinAndCount
<1> QED
  BY <1>6 DEF ScanStep

\* It finds the least element and counts its occurrences.
LEMMA SearchIsRight ==
  ASSUME ScanAssumption, data \in [Index -> Value]
  PROVE  Sequential \in ResultType /\ IsResult(Sequential, Index)
<1> DEFINE f == findMinAndCount
           Right(n) == f[n] \in ResultType /\ IsResult(f[n], 0..n)
           S == {n \in Nat : n < Size => Right(n)}
<1>1. \A i \in Index : f[i] = ScanStep(f, i)
  BY SearchExists, Zenon
<1> HIDE DEF f
<1>2. Size \in Nat \ {0} /\ \A n \in Nat : n < Size <=> n \in Index
  BY ScanAssumption DEF ScanAssumption, Index
<1>3. 0 \in S
  <2> DEFINE none == [minValue |-> INT_MAX, count |-> 0]
  <2>1. none \in ResultType
    BY DEF ResultType
  <2>2. IsResult(none, {})
    <3>1. {k \in {} : data[k] = none.minValue} = {}
      OBVIOUS
    <3> QED
      BY <3>1, FS_EmptySet DEF IsResult
  <2>3. 0 \in Index /\ data[0] \in Value /\ data[0] < INT_MAX
    <3>1. 0 \in Index
      BY <1>2
    <3>2. data[0] \in Value
      BY <3>1
    <3> QED
      BY <3>1, <3>2, ScanAssumption DEF ScanAssumption
  <2>4. Include(none, data[0]) = [minValue |-> data[0], count |-> 1]
    BY <2>3 DEF Include
  <2>5. f[0] = Include(none, data[0])
    BY <1>1, <2>3, <2>4 DEF ScanStep
  <2>6. {} \in SUBSET Index /\ 0 \notin {} /\ {} \cup {0} = 0..0
    OBVIOUS
  <2> HIDE DEF none
  <2>7. Right(0)
    <3>1. /\ Include(none, data[0]) \in ResultType
          /\ IsResult(Include(none, data[0]), {} \cup {0})
      BY <2>1, <2>2, <2>3, <2>6, IncludeIsRight, ScanAssumption
    <3> QED
      BY <2>5, <2>6, <3>1
  <2> QED
    BY <2>7
<1>4. ASSUME NEW n \in S
      PROVE  n + 1 \in S
  <2> SUFFICES ASSUME n + 1 < Size
               PROVE  Right(n + 1)
    OBVIOUS
  <2>1. n \in Nat /\ n < Size /\ n + 1 \in Index
    BY <1>2
  <2>2. Right(n)
    BY <2>1
  <2>3. f[n + 1] = Include(f[n], data[n + 1])
    BY <1>1, <2>1 DEF ScanStep
  <2>4. 0..n \in SUBSET Index /\ n + 1 \notin 0..n /\ (0..n) \cup {n + 1} = 0..(n + 1)
    BY <2>1 DEF Index
  <2>5. /\ Include(f[n], data[n + 1]) \in ResultType
        /\ IsResult(Include(f[n], data[n + 1]), (0..n) \cup {n + 1})
    BY <2>1, <2>2, <2>4, IncludeIsRight, ScanAssumption
  <2> QED
    BY <2>3, <2>4, <2>5
<1>5. S = Nat
  <2> HIDE DEF S
  <2>1. S \in SUBSET Nat
    BY DEF S
  <2> QED
    BY <1>3, <1>4, <2>1, Induction
<1>6. Right(Size - 1)
  <2>1. Size - 1 \in S /\ Size - 1 < Size
    BY <1>2, <1>5
  <2> QED
    BY <2>1
<1> QED
  BY <1>6 DEF f, Sequential, Index

\* There is one right result.
LEMMA ResultUnique ==
  ASSUME ScanAssumption, data \in [Index -> Value], NEW visited \in SUBSET Index,
         visited # {}, NEW r \in ResultType, NEW s \in ResultType,
         IsResult(r, visited), IsResult(s, visited)
  PROVE  r = s
<1>1. /\ \A k \in visited : data[k] \in Int
      /\ \A k \in visited : r.minValue <= data[k] /\ s.minValue <= data[k]
  BY ScanAssumption DEF ScanAssumption, IsResult
<1>2. PICK k \in visited : data[k] = r.minValue
  BY DEF IsResult
<1>3. PICK j \in visited : data[j] = s.minValue
  BY DEF IsResult
<1>4. r.minValue = s.minValue
  BY <1>1, <1>2, <1>3
<1>5. r.count = s.count
  BY <1>4 DEF IsResult
<1> QED
  BY <1>4, <1>5 DEF ResultType

-----------------------------------------------------------------------------
(***************************************************************************)
(* The search under the mutex.                                             *)
(***************************************************************************)
LEMMA InitInv ==
  ASSUME ScanAssumption, Init
  PROVE  IInv
<1>1. /\ data \in [Index -> Value] /\ threadIndex = 0 /\ blockStart = 0
      /\ position = [t \in ThreadId |-> 0] /\ blockEnd = [t \in ThreadId |-> 0]
      /\ joined = FALSE
      /\ globalResult = [minValue |-> INT_MAX, count |-> 0]
      /\ minValue = INT_MAX /\ past = {INT_MAX} /\ phase = "mutex"
      /\ pc = [t \in ThreadId |-> "load"]
      /\ current = [t \in ThreadId |-> INT_MAX]
  BY DEF Init, Mutex!Init, Mutex!ScanInit, Mutex!Index, Mutex!ThreadId,
         Atomic!Init, Atomic!ThreadId, Index, ThreadId
<1>2. ScanInv
  <2>1. ScanTypeOK
    <3>1. 0 \in 0..Size /\ 0 \in 0..ThreadCount
      BY ScanAssumption DEF ScanAssumption
    <3>2. [t \in ThreadId |-> 0] \in [ThreadId -> 0..Size]
      BY <3>1
    <3> QED
      BY <1>1, <3>1, <3>2, Zenon DEF ScanTypeOK
  <2>2. \A t \in ThreadId : t \in Nat /\ position[t] = 0 /\ blockEnd[t] = 0
    BY <1>1, ScanAssumption DEF ScanAssumption, ThreadId
  <2> QED
    BY <1>1, <2>1, <2>2, StartAscends, ScanAssumption DEF ScanInv, Blocks, Ascending
<1>3. Visited = {}
  BY <1>1, ScanAssumption DEF ScanAssumption, Visited, Pending, Index
<1>4. MutexInv
  <2>1. Cardinality({k \in {} : data[k] = globalResult.minValue}) = 0
    <3>1. {k \in {} : data[k] = globalResult.minValue} = {}
      OBVIOUS
    <3> QED
      BY <3>1, FS_EmptySet
  <2> QED
    BY <1>1, <1>3, <2>1 DEF MutexInv, IsResult
<1>5. AtomicInv
  BY <1>1, ScanAssumption DEF ScanAssumption, AtomicInv
<1> QED
  BY <1>1, <1>2, <1>4, <1>5 DEF IInv, Joined

\* During the first search the atomics rest.
LEMMA AtomicsRest ==
  ASSUME AtomicInv, phase = "mutex", phase' = phase, data' = data,
         UNCHANGED countVars
  PROVE  AtomicInv'
<1>1. UNCHANGED <<minValue, past, pc, current, Index, ThreadId>>
  BY DEF countVars, Index, ThreadId
<1> QED
  BY <1>1 DEF AtomicInv

LEMMA MutexStartKeepsInv ==
  ASSUME ScanAssumption, IInv, SearchWithMutex, Mutex!Start
  PROVE  IInv'
<1>1. StartThread /\ globalResult' = globalResult /\ data' = data /\ joined' = joined
  BY DEF Mutex!Start, Mutex!StartThread, Mutex!Extra, StartThread, Extra
<1>2. ScanInv' /\ Visited' = Visited
  BY <1>1, StartThreadKeeps DEF IInv
<1>3. MutexInv' /\ AtomicInv'
  BY <1>1, <1>2, AtomicsRest DEF SearchWithMutex, IInv, MutexInv, IsResult, Index
<1>4. Joined'
  <2>1. Pending' = Pending
    BY <1>2 DEF Visited, Pending
  <2> QED
    BY <1>1, <2>1 DEF IInv, Joined
<1> QED
  BY <1>2, <1>3, <1>4 DEF IInv

LEMMA MutexVisitKeepsInv ==
  ASSUME ScanAssumption, IInv, SearchWithMutex, NEW t \in ThreadId, Mutex!Visit(t)
  PROVE  IInv'
<1>1. /\ Scanning(t) /\ Advance(t)
      /\ globalResult' = Include(globalResult, data[position[t]])
  BY DEF Mutex!Visit, Mutex!Scanning, Mutex!Advance, Mutex!Include, Scanning,
         Advance, Include
<1>2. /\ ScanInv' /\ data' = data /\ joined' = joined
      /\ position[t] \in Pending /\ Visited' = Visited \cup {position[t]}
  BY <1>1, AdvanceKeeps DEF IInv
<1>3. phase = "mutex" /\ phase' = phase /\ UNCHANGED countVars
  BY DEF SearchWithMutex
<1>4. /\ data \in [Index -> Value] /\ globalResult \in ResultType
      /\ IsResult(globalResult, Visited)
      /\ Visited \in SUBSET Index /\ position[t] \in Index /\ position[t] \notin Visited
  BY <1>2, <1>3 DEF IInv, ScanInv, ScanTypeOK, MutexInv, ResultType, Visited, Pending
<1>5. globalResult' \in ResultType /\ IsResult(globalResult', Visited')
  BY <1>1, <1>2, <1>4, IncludeIsRight
<1>6. MutexInv'
  BY <1>2, <1>3, <1>5 DEF MutexInv, ResultType, IsResult
<1>7. AtomicInv' /\ Joined'
  BY <1>2, <1>3, AtomicsRest DEF IInv, Joined
<1> QED
  BY <1>2, <1>6, <1>7 DEF IInv

LEMMA MutexJoinKeepsInv ==
  ASSUME ScanAssumption, IInv, SearchWithMutex, Mutex!Join
  PROVE  IInv'
<1>1. JoinAll /\ globalResult' = globalResult /\ data' = data
  BY DEF Mutex!Join, Mutex!JoinAll, Mutex!Scanning, Mutex!ThreadId, JoinAll,
         Scanning, ThreadId
<1>2. ScanInv' /\ Visited' = Visited /\ Pending' = {}
  BY <1>1, JoinAllKeeps DEF IInv
<1>3. MutexInv' /\ AtomicInv'
  BY <1>1, <1>2, AtomicsRest DEF SearchWithMutex, IInv, MutexInv, IsResult, Index
<1> QED
  BY <1>2, <1>3 DEF IInv, Joined

LEMMA CallAtomicKeepsInv ==
  ASSUME ScanAssumption, IInv, CallAtomic
  PROVE  IInv'
<1>1. /\ phase = "mutex" /\ joined /\ phase' = "atomic" /\ data' = data
      /\ threadIndex' = 0 /\ blockStart' = 0 /\ joined' = FALSE
      /\ position' = [t \in ThreadId |-> 0] /\ blockEnd' = [t \in ThreadId |-> 0]
      /\ UNCHANGED <<globalResult, minValue, past, pc, current>>
  BY DEF CallAtomic, ScanAgain, countVars
<1>2. ScanInv' /\ Visited' = {} /\ \A t \in ThreadId : ~Scanning(t)'
  BY <1>1, FreshScan DEF IInv, ScanInv, ScanTypeOK
<1>3. Visited = Index
  BY <1>1 DEF IInv, Joined, Visited
<1>4. MutexInv'
  BY <1>1, <1>3 DEF IInv, MutexInv, IsResult, Index
<1>5. AtomicInv'
  <2>1. Compared'
    BY <1>1, <1>2 DEF IInv, AtomicInv, Compared, ThreadId
  <2>2. \A k \in Visited' : minValue' <= data'[k]
    BY <1>2
  <2> QED
    BY <1>1, <2>1, <2>2 DEF IInv, AtomicInv, Index, ThreadId
<1> QED
  BY <1>1, <1>2, <1>4, <1>5 DEF IInv, Joined

-----------------------------------------------------------------------------
(***************************************************************************)
(* The search with atomics.                                                *)
(***************************************************************************)
LEMMA MutexRests ==
  ASSUME MutexInv, phase = "atomic", phase' = phase, data' = data,
         globalResult' = globalResult
  PROVE  MutexInv'
BY DEF MutexInv, IsResult, Index

LEMMA AtomicStartKeepsInv ==
  ASSUME ScanAssumption, IInv, SearchWithAtomics, Atomic!Start
  PROVE  IInv'
<1>1. /\ StartThread /\ data' = data /\ joined' = joined
      /\ UNCHANGED <<minValue, past, pc, current>>
  BY DEF Atomic!Start, Atomic!StartThread, Atomic!Extra, Atomic!countVars,
         StartThread, Extra
<1>2. /\ ScanInv' /\ Visited' = Visited
      /\ \A t \in ThreadId : t # threadIndex =>
           (Scanning(t)' <=> Scanning(t)) /\ position'[t] = position[t]
      /\ threadIndex \in ThreadId /\ ~Scanning(threadIndex)
  BY <1>1, StartThreadKeeps DEF IInv
<1>3. phase = "atomic" /\ phase' = phase /\ globalResult' = globalResult
  BY DEF SearchWithAtomics
<1>4. Compared /\ \A k \in Visited : minValue <= data[k]
  BY <1>3 DEF IInv, AtomicInv
<1>5. Compared'
  <2> SUFFICES ASSUME NEW t \in ThreadId
               PROVE  IF Scanning(t)'
                        THEN pc[t] \in {"store", "compare", "add"} =>
                               minValue <= data[position'[t]]
                        ELSE pc[t] = "load"
    BY <1>1 DEF Compared, ThreadId
  <2>1. CASE t = threadIndex
    BY <1>2, <1>4, <2>1 DEF Compared
  <2>2. CASE t # threadIndex
    BY <1>2, <1>4, <2>2 DEF Compared
  <2> QED
    BY <2>1, <2>2
<1>6. AtomicInv'
  BY <1>1, <1>2, <1>3, <1>4, <1>5 DEF IInv, AtomicInv, Index, ThreadId
<1>7. Joined'
  BY <1>1, <1>2 DEF IInv, Joined, Visited, Pending
<1> QED
  BY <1>2, <1>6, <1>7, MutexRests, <1>1, <1>3 DEF IInv

LEMMA AtomicJoinKeepsInv ==
  ASSUME ScanAssumption, IInv, SearchWithAtomics, Atomic!Join
  PROVE  IInv'
<1>1. /\ JoinAll /\ data' = data /\ position' = position
      /\ UNCHANGED <<minValue, past, pc, current>>
  BY DEF Atomic!Join, Atomic!JoinAll, Atomic!Scanning, Atomic!ThreadId,
         Atomic!countVars, JoinAll, Scanning, ThreadId
<1>2. /\ ScanInv' /\ Visited' = Visited /\ Pending' = {}
      /\ \A t \in ThreadId : Scanning(t)' <=> Scanning(t)
  BY <1>1, JoinAllKeeps DEF IInv
<1>3. phase = "atomic" /\ phase' = phase /\ globalResult' = globalResult
  BY DEF SearchWithAtomics
<1>4. Compared'
  BY <1>1, <1>2, <1>3 DEF IInv, AtomicInv, Compared, ThreadId
<1>5. AtomicInv'
  BY <1>1, <1>2, <1>3, <1>4 DEF IInv, AtomicInv, Index, ThreadId
<1> QED
  BY <1>1, <1>2, <1>3, <1>5, MutexRests DEF IInv, Joined

\* A step that keeps to values of the array and never raises the minimum; and
\* one of these by which thread t does not move on to its next element: it
\* sees the value seen and goes to label.
Kept ==
  /\ minValue' \in {data[k] : k \in Index} \cup {INT_MAX} /\ minValue' <= minValue
  /\ past' \subseteq Int /\ \A v \in past' : minValue' <= v

Stay(t, label, seen) ==
  /\ UNCHANGED <<phase, globalResult, scanVars>>
  /\ Kept
  /\ label \in {"load", "while", "store", "compare", "add"}
  /\ pc' = [pc EXCEPT ![t] = label]
  /\ seen \in Int /\ minValue' <= seen /\ current' = [current EXCEPT ![t] = seen]
  /\ label \in {"store", "compare", "add"} => minValue' <= data[position[t]]

LEMMA KeptUnchanged ==
  ASSUME minValue \in {data[k] : k \in Index} \cup {INT_MAX}, minValue \in Int,
         past \subseteq Int, \A v \in past : minValue <= v,
         UNCHANGED <<minValue, past>>
  PROVE  Kept
  BY DEF Kept

LEMMA AtomicStayKeepsInv ==
  ASSUME ScanAssumption, IInv, phase = "atomic", NEW t \in ThreadId, Scanning(t),
         NEW label, NEW seen, Stay(t, label, seen)
  PROVE  IInv'
<1>0. /\ UNCHANGED <<phase, globalResult>>
      /\ minValue' \in {data[k] : k \in Index} \cup {INT_MAX} /\ minValue' <= minValue
      /\ past' \subseteq Int /\ \A v \in past' : minValue' <= v
      /\ label \in {"load", "while", "store", "compare", "add"}
      /\ pc' = [pc EXCEPT ![t] = label]
      /\ seen \in Int /\ minValue' <= seen /\ current' = [current EXCEPT ![t] = seen]
      /\ label \in {"store", "compare", "add"} => minValue' <= data[position[t]]
  BY DEF Stay, Kept
<1>1. UNCHANGED <<data, threadIndex, blockStart, position, blockEnd, joined>>
  BY DEF Stay, scanVars
<1>2. /\ ScanInv' /\ Pending' = Pending /\ Visited' = Visited
      /\ \A u \in ThreadId : Scanning(u)' <=> Scanning(u)
  BY <1>1 DEF IInv, ScanInv, ScanTypeOK, Blocks, Ascending, Visited, Pending, Scanning
<1>3. /\ minValue \in Int /\ minValue' \in Int
      /\ \A k \in Index : data[k] \in Int
      /\ \A u \in ThreadId : Scanning(u) => position[u] \in Index
  <2>1. /\ \A k \in Index : data[k] \in Int
        /\ INT_MAX \in Int
    BY ScanAssumption DEF ScanAssumption, IInv, ScanInv, ScanTypeOK
  <2>2. \A u \in ThreadId : Scanning(u) => position[u] \in Index
    BY ScanAssumption DEF ScanAssumption, IInv, ScanInv, ScanTypeOK, Scanning, Index
  <2>3. minValue \in {data[k] : k \in Index} \cup {INT_MAX}
    BY DEF IInv, AtomicInv
  <2>4. minValue \in Int /\ minValue' \in Int
    BY <1>0, <2>1, <2>3
  <2> QED
    BY <2>1, <2>2, <2>4
<1>4. /\ current \in [ThreadId -> Int] /\ \A u \in ThreadId : minValue <= current[u]
      /\ pc \in [ThreadId -> {"load", "while", "store", "compare", "add"}]
      /\ Compared /\ \A k \in Visited : minValue <= data[k]
  BY DEF IInv, AtomicInv
<1>5. /\ current' \in [ThreadId -> Int] /\ \A u \in ThreadId : minValue' <= current'[u]
      /\ pc' \in [ThreadId -> {"load", "while", "store", "compare", "add"}]
  BY <1>0, <1>3, <1>4
<1>6. Compared'
  <2> SUFFICES ASSUME NEW u \in ThreadId
               PROVE  IF Scanning(u)
                        THEN pc'[u] \in {"store", "compare", "add"} =>
                               minValue' <= data[position[u]]
                        ELSE pc'[u] = "load"
    BY <1>1, <1>2 DEF Compared, ThreadId
  <2>1. CASE u = t
    BY <1>0, <1>4, <2>1
  <2>2. CASE u # t
    BY <1>0, <1>3, <1>4, <2>2 DEF Compared
  <2> QED
    BY <2>1, <2>2
<1>7. \A k \in Visited' : minValue' <= data'[k]
  BY <1>0, <1>1, <1>2, <1>3, <1>4 DEF Visited
<1>8. AtomicInv'
  BY <1>0, <1>1, <1>5, <1>6, <1>7 DEF AtomicInv, Index, ThreadId
<1> QED
  BY <1>0, <1>1, <1>2, <1>8, MutexRests DEF IInv, Joined

\* A step that moves on: the element is not below the minimum.
LEMMA AtomicMoveKeepsInv ==
  ASSUME ScanAssumption, IInv, phase = "atomic",
         UNCHANGED <<phase, globalResult, minValue, past>>,
         NEW t \in ThreadId, Scanning(t), Advance(t),
         minValue <= data[position[t]],
         pc' = [pc EXCEPT ![t] = "load"],
         current' \in [ThreadId -> Int], \A u \in ThreadId : minValue <= current'[u]
  PROVE  IInv'
<1>1. /\ ScanInv' /\ data' = data /\ joined' = joined
      /\ position[t] \in Pending
      /\ Visited' = Visited \cup {position[t]}
      /\ \A u \in ThreadId \ {t} :
           (Scanning(u)' <=> Scanning(u)) /\ position'[u] = position[u]
  BY AdvanceKeeps DEF IInv
<1>2. /\ pc \in [ThreadId -> {"load", "while", "store", "compare", "add"}]
      /\ Compared /\ \A k \in Visited : minValue <= data[k]
  BY DEF IInv, AtomicInv
<1>3. Compared'
  <2> SUFFICES ASSUME NEW u \in ThreadId
               PROVE  IF Scanning(u)'
                        THEN pc'[u] \in {"store", "compare", "add"} =>
                               minValue <= data[position'[u]]
                        ELSE pc'[u] = "load"
    BY <1>1 DEF Compared, ThreadId
  <2>1. CASE u = t
    BY <1>2, <2>1
  <2>2. CASE u # t
    BY <1>1, <1>2, <2>2 DEF Compared
  <2> QED
    BY <2>1, <2>2
<1>4. \A k \in Visited' : minValue <= data[k]
  BY <1>1, <1>2
<1>5. pc' \in [ThreadId -> {"load", "while", "store", "compare", "add"}]
  BY <1>2
<1>6. AtomicInv'
  BY <1>1, <1>3, <1>4, <1>5 DEF IInv, AtomicInv, Index, ThreadId
<1> QED
  BY <1>1, <1>6, MutexRests DEF IInv, Joined

LEMMA ThreadStepKeepsInv ==
  ASSUME ScanAssumption, IInv, SearchWithAtomics, NEW t \in ThreadId,
         Atomic!ThreadStep(t)
  PROVE  IInv'
<1> USE ScanAssumption
<1>1. phase = "atomic" /\ UNCHANGED <<phase, globalResult>>
  BY DEF SearchWithAtomics
<1>2. /\ minValue \in {data[k] : k \in Index} \cup {INT_MAX}
      /\ past \subseteq Int /\ \A v \in past : minValue <= v
      /\ current \in [ThreadId -> Int] /\ \A u \in ThreadId : minValue <= current[u]
      /\ Compared
  BY <1>1 DEF IInv, AtomicInv
<1>3. Scanning(t)
  BY DEF Atomic!ThreadStep, Atomic!LoadMinimum, Atomic!CompareExchange,
         Atomic!StoreOne, Atomic!LeaveWhile, Atomic!Compare, Atomic!AddOne,
         Atomic!At, Atomic!Scanning, Scanning
<1>4. /\ minValue \in Int /\ position[t] \in Index /\ data[position[t]] \in Int
      /\ pc[t] \in {"store", "compare", "add"} => minValue <= data[position[t]]
  <2>1. /\ \A k \in Index : data[k] \in Int
        /\ INT_MAX \in Int
    BY DEF ScanAssumption, IInv, ScanInv, ScanTypeOK
  <2>2. position[t] \in Index
    BY <1>3 DEF ScanAssumption, IInv, ScanInv, ScanTypeOK, Scanning, Index
  <2>3. minValue \in Int /\ data[position[t]] \in Int
    BY <1>2, <2>1, <2>2
  <2>4. pc[t] \in {"store", "compare", "add"} => minValue <= data[position[t]]
    BY <1>2, <1>3 DEF Compared
  <2> QED
    BY <2>2, <2>3, <2>4
<1>5. CASE Atomic!LoadMinimum(t)
  <2>1. PICK v \in past : current' = [current EXCEPT ![t] = v]
    BY <1>5 DEF Atomic!LoadMinimum, Atomic!Load
  <2>2. /\ UNCHANGED <<scanVars, minValue, past>>
        /\ pc' = [pc EXCEPT ![t] = "while"]
    BY <1>5 DEF Atomic!LoadMinimum, Atomic!Goto, Atomic!scanVars, scanVars
  <2>3. Stay(t, "while", v)
    BY <1>1, <1>2, <1>4, <2>1, <2>2, KeptUnchanged DEF Stay
  <2> QED
    BY <1>1, <1>3, <2>3, AtomicStayKeepsInv
<1>6. CASE Atomic!CompareExchange(t)
  <2>1. UNCHANGED scanVars /\ data[position[t]] < current[t]
    BY <1>6 DEF Atomic!CompareExchange, Atomic!scanVars, scanVars, Atomic!Element
  <2>2. CASE /\ minValue = current[t] /\ minValue' = data[position[t]]
             /\ past' = past \cup {data[position[t]]}
             /\ current' = [current EXCEPT ![t] = data[position[t]]]
             /\ pc' = [pc EXCEPT ![t] = "store"]
    <3>1. minValue' \in {data[k] : k \in Index} \cup {INT_MAX}
      BY <1>4, <2>2
    <3>2. minValue' <= minValue /\ minValue' <= minValue'
      BY <1>4, <2>1, <2>2
    <3>3. past' \subseteq Int
      BY <1>2, <1>4, <2>2
    <3>4. \A v \in past' : minValue' <= v
      BY <1>2, <1>4, <2>2, <3>2
    <3>5. Stay(t, "store", data[position[t]])
      BY <1>1, <1>4, <2>1, <2>2, <3>1, <3>2, <3>3, <3>4 DEF Stay, Kept
    <3> QED
      BY <1>1, <1>3, <3>5, AtomicStayKeepsInv
  <2>3. CASE Atomic!Load(t) /\ UNCHANGED <<pc, minValue, past>>
    <3>1. PICK v \in past : current' = [current EXCEPT ![t] = v]
      BY <2>3 DEF Atomic!Load
    <3>2. pc[t] = "while" /\ pc' = [pc EXCEPT ![t] = "while"]
      BY <1>6, <2>3 DEF Atomic!CompareExchange, Atomic!At, IInv, AtomicInv
    <3>3. Kept
      BY <1>2, <1>4, <2>3, KeptUnchanged
    <3>4. v \in Int /\ minValue <= v
      BY <1>2
    <3>5. Stay(t, "while", v)
      BY <1>1, <1>4, <2>1, <2>3, <3>1, <3>2, <3>3, <3>4 DEF Stay, Kept
    <3> QED
      BY <1>1, <1>3, <3>5, AtomicStayKeepsInv
  <2> QED
    BY <1>6, <2>2, <2>3 DEF Atomic!CompareExchange, Atomic!Element, Atomic!Goto
<1>7. CASE Atomic!StoreOne(t) \/ Atomic!AddOne(t)
  <2>1. /\ Advance(t) /\ UNCHANGED <<minValue, past, current>>
        /\ pc[t] \in {"store", "add"} /\ pc' = [pc EXCEPT ![t] = "load"]
    BY <1>7 DEF Atomic!StoreOne, Atomic!AddOne, Atomic!At, Atomic!Goto,
                Atomic!Advance, Advance
  <2> QED
    BY <1>1, <1>2, <1>3, <1>4, <2>1, AtomicMoveKeepsInv
<1>8. CASE Atomic!LeaveWhile(t)
  <2>1. /\ UNCHANGED <<scanVars, minValue, past, current>>
        /\ data[position[t]] >= current[t] /\ pc' = [pc EXCEPT ![t] = "compare"]
    BY <1>8 DEF Atomic!LeaveWhile, Atomic!Goto, Atomic!Element, Atomic!scanVars,
                scanVars
  <2>2. minValue <= data[position[t]] /\ current[t] \in Int
    BY <1>2, <1>4, <2>1
  <2>3. current' = [current EXCEPT ![t] = current[t]]
    BY <1>2, <2>1
  <2>4. Kept /\ minValue <= current[t]
    BY <1>2, <1>4, <2>1, KeptUnchanged
  <2>5. Stay(t, "compare", current[t])
    BY <1>1, <1>4, <2>1, <2>2, <2>3, <2>4 DEF Stay, Kept
  <2> QED
    BY <1>1, <1>3, <2>5, AtomicStayKeepsInv
<1>9. CASE Atomic!Compare(t)
  <2>1. PICK v \in past : current' = [current EXCEPT ![t] = v]
    BY <1>9 DEF Atomic!Compare, Atomic!Load
  <2>2. pc[t] = "compare" /\ UNCHANGED <<minValue, past>>
    BY <1>9 DEF Atomic!Compare, Atomic!At
  <2>3. CASE pc' = [pc EXCEPT ![t] = "add"] /\ UNCHANGED scanVars
    <3>1. Stay(t, "add", v)
      BY <1>1, <1>2, <1>4, <2>1, <2>2, <2>3, KeptUnchanged DEF Stay
    <3> QED
      BY <1>1, <1>3, <3>1, AtomicStayKeepsInv
  <2>4. CASE pc' = [pc EXCEPT ![t] = "load"] /\ Advance(t)
    <3>1. current' \in [ThreadId -> Int] /\ \A u \in ThreadId : minValue <= current'[u]
      BY <1>2, <2>1
    <3> QED
      BY <1>1, <1>3, <1>4, <2>2, <2>4, <3>1, AtomicMoveKeepsInv
  <2> QED
    BY <1>9, <2>3, <2>4 DEF Atomic!Compare, Atomic!Goto, Atomic!scanVars, scanVars,
                            Atomic!Advance, Advance
<1> QED
  BY <1>5, <1>6, <1>7, <1>8, <1>9 DEF Atomic!ThreadStep

-----------------------------------------------------------------------------
LEMMA Invariant == Spec => []IInv
<1> USE ScanAssumption
<1>1. Init => IInv
  BY InitInv
<1>2. ASSUME IInv, [Next]_vars
      PROVE  IInv'
  <2>1. CASE UNCHANGED vars
    <3>1. /\ UNCHANGED <<data, threadIndex, blockStart, position, blockEnd, joined>>
          /\ UNCHANGED <<globalResult, minValue, past, pc, current, phase>>
      BY <2>1 DEF vars, scanVars, countVars
    <3>2. ScanInv' /\ Pending' = Pending /\ Visited' = Visited
      BY <1>2, <3>1 DEF IInv, ScanInv, ScanTypeOK, Blocks, Ascending, Visited, Pending
    <3>3. MutexInv'
      BY <1>2, <3>1, <3>2 DEF IInv, MutexInv, IsResult, Index
    <3>4. Compared' = Compared
      BY <3>1 DEF Compared, Scanning, ThreadId
    <3>5. AtomicInv'
      BY <1>2, <3>1, <3>2, <3>4 DEF IInv, AtomicInv, Index, ThreadId
    <3> QED
      BY <1>2, <3>1, <3>2, <3>3, <3>5 DEF IInv, Joined
  <2>2. CASE SearchWithMutex
    BY <1>2, <2>2, MutexStartKeepsInv, MutexVisitKeepsInv, MutexJoinKeepsInv
       DEF SearchWithMutex
  <2>3. CASE CallAtomic
    BY <1>2, <2>3, CallAtomicKeepsInv
  <2>4. CASE SearchWithAtomics
    BY <1>2, <2>4, AtomicStartKeepsInv, ThreadStepKeepsInv, AtomicJoinKeepsInv
       DEF SearchWithAtomics
  <2> QED
    BY <1>2, <2>1, <2>2, <2>3, <2>4 DEF Next, Finished
<1> QED
  BY <1>1, <1>2, PTL DEF Spec

-----------------------------------------------------------------------------
(***************************************************************************)
(* Types.  What the threads load are values minValue has had, and the      *)
(* count is bounded by the elements that have been visited: a thread that  *)
(* raises it moves on in the same step.                                    *)
(***************************************************************************)
ValuesInv ==
  /\ past \subseteq Value \cup {INT_MAX} /\ minValue \in past
  /\ \A t \in ThreadId : current[t] \in past
  /\ count \in Nat
  /\ count <= IF phase = "mutex" THEN 0 ELSE Cardinality(Visited)

LEMMA VisitedFinite ==
  ASSUME ScanAssumption
  PROVE  /\ IsFiniteSet(Visited) /\ Cardinality(Visited) \in 0..Size
         /\ \A k \in Index \ Visited : Cardinality(Visited \cup {k}) = Cardinality(Visited) + 1
<1>1. IsFiniteSet(Index) /\ Cardinality(Index) = Size
  BY FS_Interval, ScanAssumption DEF ScanAssumption, Index
<1>2. /\ IsFiniteSet(Visited) /\ Cardinality(Visited) \in Nat
      /\ Cardinality(Visited) <= Cardinality(Index)
  BY <1>1, FS_Subset, FS_CardinalityType DEF Visited
<1>3. \A k \in Index \ Visited : Cardinality(Visited \cup {k}) = Cardinality(Visited) + 1
  BY <1>2, FS_AddElement
<1> QED
  BY <1>1, <1>2, <1>3, ScanAssumption DEF ScanAssumption

\* Steps of a search that leave the set of visited elements as it is.
LEMMA ValuesStay ==
  ASSUME ValuesInv, phase = "atomic", phase' = phase, Visited' = Visited, count' = count,
         past' \subseteq Value \cup {INT_MAX}, past \subseteq past', minValue' \in past',
         \A t \in ThreadId : current'[t] \in past'
  PROVE  ValuesInv'
BY DEF ValuesInv, ThreadId

\* A thread that is done with its element.
LEMMA ValuesMove ==
  ASSUME ScanAssumption, IInv, ValuesInv, phase = "atomic",
         NEW t \in ThreadId, Scanning(t), Advance(t),
         UNCHANGED <<phase, minValue, past>>,
         \A u \in ThreadId : current'[u] \in past,
         count' \in {1, count, count + 1}
  PROVE  ValuesInv'
<1>1. position[t] \in Pending /\ Visited' = Visited \cup {position[t]}
  BY AdvanceKeeps DEF IInv
<1>2. position[t] \in Index \ Visited
  BY <1>1 DEF Visited, Pending
<1>3. /\ Cardinality(Visited) \in Nat
      /\ Cardinality(Visited') = Cardinality(Visited) + 1
  BY <1>1, <1>2, VisitedFinite, ScanAssumption DEF ScanAssumption
<1>4. count \in Nat /\ count <= Cardinality(Visited)
  BY DEF ValuesInv
<1>5. count' \in Nat /\ count' <= Cardinality(Visited')
  BY <1>3, <1>4
<1> QED
  BY <1>5 DEF ValuesInv, ThreadId

LEMMA ValuesThreadStep ==
  ASSUME ScanAssumption, IInv, ValuesInv, SearchWithAtomics, NEW t \in ThreadId,
         Atomic!ThreadStep(t)
  PROVE  ValuesInv'
<1> USE ScanAssumption
<1>1. /\ phase = "atomic" /\ UNCHANGED phase
      /\ past \subseteq Value \cup {INT_MAX} /\ minValue \in past
      /\ \A u \in ThreadId : current[u] \in past
      /\ current \in [ThreadId -> Int]
  BY DEF SearchWithAtomics, ValuesInv, IInv, AtomicInv
<1>2. Scanning(t)
  BY DEF Atomic!ThreadStep, Atomic!LoadMinimum, Atomic!CompareExchange,
         Atomic!StoreOne, Atomic!LeaveWhile, Atomic!Compare, Atomic!AddOne,
         Atomic!At, Atomic!Scanning, Scanning
<1>3. data[position[t]] \in Value
  <2>1. position[t] \in Index
    BY <1>2 DEF ScanAssumption, IInv, ScanInv, ScanTypeOK, Scanning, Index
  <2> QED
    BY <2>1 DEF IInv, ScanInv, ScanTypeOK
<1>4. ASSUME Atomic!Load(t)
      PROVE  \A u \in ThreadId : current'[u] \in past
  BY <1>1, <1>4 DEF Atomic!Load
<1>5. ASSUME UNCHANGED scanVars
      PROVE  Visited' = Visited
  BY <1>5 DEF scanVars, Visited, Pending, Index, ThreadId
<1>6. CASE Atomic!LoadMinimum(t)
  BY <1>1, <1>4, <1>5, <1>6, ValuesStay
     DEF Atomic!LoadMinimum, Atomic!scanVars, scanVars
<1>7. CASE Atomic!CompareExchange(t)
  <2>1. UNCHANGED scanVars /\ count' = count
    BY <1>7 DEF Atomic!CompareExchange, Atomic!scanVars, scanVars
  <2>2. CASE /\ minValue' = data[position[t]]
             /\ past' = past \cup {data[position[t]]}
             /\ current' = [current EXCEPT ![t] = data[position[t]]]
    <3>1. \A u \in ThreadId : current'[u] \in past'
      BY <1>1, <2>2
    <3> QED
      BY <1>1, <1>3, <1>5, <2>1, <2>2, <3>1, ValuesStay
  <2>3. CASE Atomic!Load(t) /\ UNCHANGED <<minValue, past>>
    BY <1>1, <1>4, <1>5, <2>1, <2>3, ValuesStay
  <2> QED
    BY <1>7, <2>2, <2>3 DEF Atomic!CompareExchange, Atomic!Element
<1>8. CASE Atomic!StoreOne(t) \/ Atomic!AddOne(t)
  <2>1. Advance(t) /\ UNCHANGED <<minValue, past, current>> /\ count' \in {1, count + 1}
    BY <1>8 DEF Atomic!StoreOne, Atomic!AddOne, Atomic!Advance, Advance
  <2> QED
    BY <1>1, <1>2, <2>1, ValuesMove
<1>9. CASE Atomic!LeaveWhile(t)
  BY <1>1, <1>5, <1>9, ValuesStay DEF Atomic!LeaveWhile, Atomic!scanVars, scanVars
<1>10. CASE Atomic!Compare(t)
  <2>1. /\ \A u \in ThreadId : current'[u] \in past
        /\ UNCHANGED <<minValue, past, count>>
    BY <1>4, <1>10 DEF Atomic!Compare
  <2>2. CASE UNCHANGED scanVars
    BY <1>1, <1>5, <2>1, <2>2, ValuesStay
  <2>3. CASE Advance(t)
    BY <1>1, <1>2, <2>1, <2>3, ValuesMove
  <2> QED
    BY <1>10, <2>2, <2>3 DEF Atomic!Compare, Atomic!Advance, Atomic!scanVars, Advance,
                             scanVars
<1> QED
  BY <1>6, <1>7, <1>8, <1>9, <1>10 DEF Atomic!ThreadStep

LEMMA ValuesInvariant == Spec => []ValuesInv
<1> USE ScanAssumption
<1>1. Init => ValuesInv
  <2> SUFFICES ASSUME Init PROVE ValuesInv
    OBVIOUS
  <2>1. /\ minValue = INT_MAX /\ past = {INT_MAX} /\ phase = "mutex" /\ count = 0
        /\ current = [t \in ThreadId |-> INT_MAX]
    BY DEF Init, Atomic!Init, Atomic!ThreadId, ThreadId
  <2> QED
    BY <2>1 DEF ValuesInv
<1>2. IInv /\ ValuesInv /\ [Next]_vars => ValuesInv'
  <2> SUFFICES ASSUME IInv, ValuesInv, [Next]_vars PROVE ValuesInv'
    OBVIOUS
  <2>1. CASE UNCHANGED vars
    <3>1. UNCHANGED <<minValue, count, past, current, phase>>
      BY <2>1 DEF vars, countVars
    <3>2. Visited' = Visited
      BY <2>1 DEF vars, scanVars, Visited, Pending, Index, ThreadId
    <3> QED
      BY <3>1, <3>2 DEF ValuesInv, ThreadId
  <2>2. CASE SearchWithMutex
    BY <2>2 DEF SearchWithMutex, countVars, ValuesInv, ThreadId
  <2>3. CASE CallAtomic
    <3>1. /\ phase = "mutex" /\ phase' = "atomic"
          /\ UNCHANGED <<minValue, count, past, current>>
      BY <2>3 DEF CallAtomic, countVars
    <3>2. count = 0
      BY <3>1 DEF ValuesInv
    <3>3. Cardinality(Visited') \in Nat
      <4>1. Visited' = {}
        BY <2>3, FreshScan DEF CallAtomic, ScanAgain, IInv, ScanInv, ScanTypeOK
      <4> QED
        BY <4>1, FS_EmptySet
    <3> QED
      BY <3>1, <3>2, <3>3 DEF ValuesInv, ThreadId
  <2>4. CASE SearchWithAtomics
    <3>1. phase = "atomic" /\ phase' = phase
      BY <2>4 DEF SearchWithAtomics
    <3>2. ASSUME Atomic!Start
          PROVE  ValuesInv'
      <4>1. StartThread /\ UNCHANGED <<minValue, count, past, current>>
        BY <3>2 DEF Atomic!Start, Atomic!StartThread, Atomic!Extra, Atomic!countVars,
                    StartThread, Extra
      <4>2. Visited' = Visited
        BY <4>1, StartThreadKeeps DEF IInv
      <4> QED
        BY <3>1, <4>1, <4>2 DEF ValuesInv, ThreadId
    <3>3. ASSUME Atomic!Join
          PROVE  ValuesInv'
      <4>1. JoinAll /\ UNCHANGED <<minValue, count, past, current>>
        BY <3>3 DEF Atomic!Join, Atomic!JoinAll, Atomic!Scanning, Atomic!ThreadId,
                    Atomic!countVars, JoinAll, Scanning, ThreadId
      <4>2. Visited' = Visited
        BY <4>1, JoinAllKeeps DEF IInv
      <4> QED
        BY <3>1, <4>1, <4>2 DEF ValuesInv, ThreadId
    <3> QED
      BY <2>4, <3>2, <3>3, ValuesThreadStep DEF SearchWithAtomics
  <2> QED
    BY <2>1, <2>2, <2>3, <2>4 DEF Next, Finished
<1> QED
  BY <1>1, <1>2, Invariant, PTL DEF Spec

(***************************************************************************)
(* Every variable of the two searches keeps its type; in particular no     *)
(* thread ever leaves its block, and neither count, that under the mutex   *)
(* or the racy one of the atomics, exceeds the number of elements.         *)
(***************************************************************************)
THEOREM TypeCorrect == Spec => []TypeOK
<1>1. IInv /\ ValuesInv => TypeOK
  <2> SUFFICES ASSUME IInv, ValuesInv PROVE TypeOK
    OBVIOUS
  <2>1. /\ Mutex!ScanTypeOK /\ Atomic!ScanTypeOK
    BY DEF IInv, ScanInv, ScanTypeOK, Mutex!ScanTypeOK, Atomic!ScanTypeOK, Index, ThreadId,
           Mutex!Index, Mutex!ThreadId, Atomic!Index, Atomic!ThreadId
  <2>2. globalResult.count \in 0..Size
    <3>1. PICK visited \in SUBSET Index : IsResult(globalResult, visited)
      BY DEF IInv, MutexInv, Visited
    <3>2. IsFiniteSet(Index) /\ Cardinality(Index) = Size
      BY FS_Interval, ScanAssumption DEF ScanAssumption, Index
    <3>3. {k \in visited : data[k] = globalResult.minValue} \subseteq Index
      OBVIOUS
    <3>4. globalResult.count <= Size
      BY <3>1, <3>2, <3>3, FS_Subset DEF IsResult
    <3> QED
      BY <3>4, ScanAssumption DEF IInv, MutexInv, ScanAssumption
  <2>3. globalResult \in [minValue: Value \cup {INT_MAX}, count: 0..Size]
    BY <2>2 DEF IInv, MutexInv
  <2>4. count \in 0..Size
    <3>1. /\ count \in Nat /\ Cardinality(Visited) \in 0..Size /\ Size \in Nat
          /\ count <= IF phase = "mutex" THEN 0 ELSE Cardinality(Visited)
      BY VisitedFinite, ScanAssumption DEF ValuesInv, ScanAssumption
    <3> QED
      BY <3>1
  <2>5. /\ minValue \in Value \cup {INT_MAX} /\ past \in SUBSET (Value \cup {INT_MAX})
        /\ pc \in [ThreadId -> {"load", "while", "store", "compare", "add"}]
        /\ current \in [ThreadId -> Value \cup {INT_MAX}]
    BY DEF IInv, AtomicInv, ValuesInv
  <2> QED
    BY <2>1, <2>3, <2>4, <2>5
       DEF TypeOK, Mutex!TypeOK, Atomic!TypeOK, Atomic!ThreadId, ThreadId, IInv, MutexInv
<1> QED
  BY <1>1, Invariant, ValuesInvariant, PTL

(***************************************************************************)
(* The loop that starts the threads gives every element to exactly one of  *)
(* them, whatever the size of the array and their number.                  *)
(***************************************************************************)
THEOREM BlocksDisjoint == Spec => []BlocksPartition
<1>1. IInv => BlocksPartition
  <2> SUFFICES ASSUME IInv PROVE BlocksPartition
    OBVIOUS
  <2>1. threadIndex = ThreadCount => blockStart = Size
    BY AllDealt, ScanAssumption DEF IInv
  <2>2. ASSUME NEW t \in ThreadId, NEW u \in ThreadId, t # u,
               Scanning(t), Scanning(u)
        PROVE  blockEnd[t] <= position[u] \/ blockEnd[u] <= position[t]
    <3>1. t \in Nat /\ u \in Nat
      BY ScanAssumption DEF ScanAssumption, ThreadId
    <3>2. t < u \/ u < t
      BY <2>2, <3>1
    <3> QED
      BY <2>2, <3>2 DEF IInv, ScanInv, Ascending, Scanning
  <2> QED
    BY <2>1, <2>2 DEF BlocksPartition
<1> QED
  BY <1>1, Invariant, PTL

(***************************************************************************)
(* Under the mutex the shared result is at every moment that of the        *)
(* elements visited so far.                                                *)
(***************************************************************************)
THEOREM ResultsOfVisited == Spec => []ResultOfVisited
<1>1. Mutex!Index = Index /\ Mutex!Pending = Pending
  BY DEF Mutex!Index, Mutex!Pending, Mutex!ThreadId, Index, Pending, ThreadId
<1>2. IInv => ResultOfVisited
  <2> SUFFICES ASSUME IInv, phase = "mutex" PROVE Mutex!ResultOfVisited
    BY DEF ResultOfVisited
  <2>1. IsResult(globalResult, Visited)
    BY DEF IInv, MutexInv
  <2>2. \A S : Mutex!Cardinality(S) = Cardinality(S)
    BY DEF Mutex!Cardinality, Cardinality
  <2>3. \A k \in Visited : globalResult.minValue <= data[k]
    BY <2>1 DEF IsResult
  <2>4. globalResult.count
          = Cardinality({k \in Visited : data[k] = globalResult.minValue})
    BY <2>1 DEF IsResult
  <2> QED
    BY <1>1, <2>2, <2>3, <2>4 DEF Visited, Mutex!ResultOfVisited
<1> QED
  BY <1>2, Invariant, PTL

\* What is compared in the end, read off the array itself.
MutexResultRight == joined \/ phase = "atomic" => IsResult(globalResult, Index)

AtomicMinimumRight ==
  phase = "atomic" /\ joined =>
    /\ minValue \in {data[k] : k \in Index}
    /\ \A k \in Index : minValue <= data[k]

(***************************************************************************)
(* The search under the mutex returns the least element and the number of  *)
(* its occurrences.                                                        *)
(***************************************************************************)
THEOREM MutexSearchCorrect == Spec => []MutexResultRight
<1>1. IInv => MutexResultRight
  BY DEF IInv, MutexInv, Joined, Visited, MutexResultRight
<1> QED
  BY <1>1, Invariant, PTL

(***************************************************************************)
(* The search with atomics returns the least element, however its threads  *)
(* interleave and whatever old values their loads return.                  *)
(***************************************************************************)
THEOREM AtomicMinimumCorrect == Spec => []AtomicMinimumRight
<1>1. IInv => AtomicMinimumRight
  <2> SUFFICES ASSUME IInv, phase = "atomic", joined
               PROVE  /\ minValue \in {data[k] : k \in Index}
                      /\ \A k \in Index : minValue <= data[k]
    BY DEF AtomicMinimumRight
  <2>1. /\ \A k \in Index : minValue <= data[k]
        /\ minValue \in {data[k] : k \in Index} \cup {INT_MAX}
    BY DEF IInv, AtomicInv, Joined, Visited
  <2>2. 0 \in Index /\ data[0] < INT_MAX /\ data[0] \in Int /\ INT_MAX \in Int
    <3>1. 0 \in Index
      BY ScanAssumption DEF ScanAssumption, Index
    <3>2. data[0] \in Value
      BY <3>1 DEF IInv, ScanInv, ScanTypeOK
    <3> QED
      BY <3>1, <3>2, ScanAssumption DEF ScanAssumption
  <2>3. minValue # INT_MAX
    BY <2>1, <2>2
  <2> QED
    BY <2>1, <2>3
<1> QED
  BY <1>1, Invariant, PTL

(***************************************************************************)
(* What main.cpp compares: the search under the mutex returns what the     *)
(* sequential one does, and the search with atomics at least the same      *)
(* minimum, for every array, every number of threads and every order of    *)
(* their steps.                                                            *)
(***************************************************************************)
THEOREM SearchesReturnTheSame == Spec => []SearchesAgree
<1>1. IInv /\ MutexResultRight /\ AtomicMinimumRight => SearchesAgree
  <2> SUFFICES ASSUME IInv, MutexResultRight, AtomicMinimumRight
               PROVE  SearchesAgree
    OBVIOUS
  <2>1. /\ data \in [Index -> Value] /\ 0 \in Index
        /\ globalResult \in ResultType
    BY ScanAssumption
       DEF ScanAssumption, Index, IInv, ScanInv, ScanTypeOK, MutexInv, ResultType
  <2>2. Sequential \in ResultType /\ IsResult(Sequential, Index)
    BY <2>1, SearchIsRight, ScanAssumption
  <2> HIDE DEF Sequential
  <2>3. joined \/ phase = "atomic" => globalResult = Sequential
    <3> SUFFICES ASSUME joined \/ phase = "atomic"
                 PROVE  globalResult = Sequential
      OBVIOUS
    <3>1. IsResult(globalResult, Index)
      BY DEF MutexResultRight
    <3>2. Index \in SUBSET Index /\ Index # {}
      BY <2>1
    <3> QED
      BY <2>1, <2>2, <3>1, <3>2, ResultUnique, ScanAssumption
  <2>4. phase = "atomic" /\ joined => minValue = Sequential.minValue
    <3> SUFFICES ASSUME phase = "atomic", joined
                 PROVE  minValue = Sequential.minValue
      OBVIOUS
    <3>1. PICK k \in Index : minValue = data[k]
      BY DEF AtomicMinimumRight
    <3>2. PICK j \in Index : Sequential.minValue = data[j]
      BY <2>1, <2>2 DEF IsResult
    <3>3. minValue <= data[j] /\ Sequential.minValue <= data[k]
      BY <2>2 DEF AtomicMinimumRight, IsResult
    <3>4. data[k] \in Int /\ data[j] \in Int
      BY <2>1, ScanAssumption DEF ScanAssumption
    <3> QED
      BY <3>1, <3>2, <3>3, <3>4
  <2> QED
    BY <2>3, <2>4 DEF SearchesAgree
<1> QED
  BY <1>1, Invariant, MutexSearchCorrect, AtomicMinimumCorrect, PTL
=============================================================================
