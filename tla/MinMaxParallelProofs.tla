------------------------ MODULE MinMaxParallelProofs ------------------------
(***************************************************************************)
(* Proofs about the parallel minimum and maximum, for every matrix, every  *)
(* number of threads and every answer of hardware_concurrency.             *)
(***************************************************************************)
EXTENDS MinMaxParallel, TLAPS

-----------------------------------------------------------------------------
(***************************************************************************)
(* Facts of arithmetic.                                                    *)
(***************************************************************************)
LEMMA Division ==
  ASSUME NEW a \in Nat, NEW b \in Nat \ {0}
  PROVE  /\ a \div b \in Nat
         /\ a % b \in 0..(b - 1)
         /\ a = (b * (a \div b)) + (a % b)
  OBVIOUS

LEMMA Product ==
  ASSUME NEW a \in Nat, NEW b \in Nat, NEW c \in Nat
  PROVE  /\ a * c \in Nat
         /\ a <= b => a * c <= b * c
         /\ a < b /\ c > 0 => a * c < b * c
         /\ (a + 1) * c = (a * c) + c
  OBVIOUS

-----------------------------------------------------------------------------
(***************************************************************************)
(* The inductive invariant.                                                *)
(***************************************************************************)
Dealing == pc \in {"start", "combine"}

\* The vectors exist during a parallel search only.
Shape ==
  /\ pc \in {"call", "start", "combine", "returned"} => calls # <<>>
  /\ Dealing => numThreads > 0 /\ DOMAIN index = ThreadId
  /\ ~Dealing => DOMAIN index = {}

\* What the first n threads have got of the remainder.
Spread(n) == IF n < rows % numThreads THEN n ELSE rows % numThreads

RowsDealt ==
  Dealing => currentRow = (i * (rows \div numThreads)) + Spread(i)

Blocks ==
  \A t \in DOMAIN index :
    /\ startIndex[t] <= index[t] /\ index[t] <= endIndex[t]
    /\ t >= i => startIndex[t] = 0 /\ endIndex[t] = 0

\* Every element of the rows that were dealt is in somebody's block.
Covered ==
  \A k \in Nat :
    Dealing /\ k < currentRow * Cols =>
      \E t \in DOMAIN index : startIndex[t] <= k /\ k < endIndex[t]

\* A local result bounds the elements that were compared ...
Bounding ==
  \A t \in DOMAIN index : \A k \in Cell :
    startIndex[t] <= k /\ k < index[t] =>
      localResults[t].min <= data[k] /\ data[k] <= localResults[t].max

\* ... and is made of elements, once there is one.
Attained ==
  \A t \in DOMAIN index :
    t < i /\ (startIndex[t] < index[t] \/ startIndex[t] = endIndex[t]) =>
      localResults[t].min \in Element /\ localResults[t].max \in Element

Joined ==
  pc = "combine" => i = numThreads /\ \A t \in DOMAIN index : index[t] = endIndex[t]

IInv == /\ TypeOK /\ Shape /\ RowsDealt /\ Blocks /\ Covered
        /\ Bounding /\ Attained /\ Joined /\ ParallelAgrees

-----------------------------------------------------------------------------
LEMMA InitInv ==
  ASSUME MatrixAssumption, CoresAssumption, Init
  PROVE  IInv
<1> USE MatrixAssumption, CoresAssumption DEF MatrixAssumption, CoresAssumption
<1>1. calls \in Seq(Nat) /\ calls # <<>> /\ cores \in Nat
  <2>1. CASE program = "lab_1"
    <3>1. cores \in Nat /\ calls = threadConfigs(cores)
      BY <2>1 DEF Init
    <3>2. cores \div 2 \in Nat
      BY <3>1, Division
    <3> DEFINE p == IF cores \div 2 = 0 THEN 10 ELSE cores \div 2
               l == IF cores = 0 THEN 16 ELSE cores
    <3>3. p \in Nat /\ l \in Nat
      BY <3>1, <3>2
    <3>4. p \div 2 \in Nat
      BY <3>3, Division
    <3>5. calls = <<p \div 2, p, l, l * 2, l * 4, l * 8, l * 16>>
      BY <3>1 DEF threadConfigs
    <3> QED
      <4> HIDE DEF p, l
      <4> QED
        BY <3>1, <3>3, <3>4, <3>5
  <2>2. CASE program = "lab_4"
    <3>1. cores = 0 /\ \E n \in 0..MaxRequested : calls = <<n>>
      BY <2>2 DEF Init
    <3>2. PICK n \in 0..MaxRequested : calls = <<n>>
      BY <3>1
    <3>3. n \in Nat
      OBVIOUS
    <3> QED
      BY <3>1, <3>2, <3>3
  <2> QED
    BY <2>1, <2>2 DEF Init
<1>2. /\ pc = "call" /\ numThreads = 0 /\ i = 0 /\ currentRow = 0
      /\ index = <<>> /\ startIndex = <<>> /\ endIndex = <<>>
      /\ localResults = <<>> /\ result = Zero
      /\ rows \in 1..MaxRows /\ data \in [Cell -> Value]
      /\ program \in {"lab_1", "lab_4"}
  BY DEF Init
<1>3. DOMAIN index = {}
  BY <1>2
<1>4. TypeOK
  BY <1>1, <1>2, <1>3 DEF TypeOK, LocalResult, Zero
<1> QED
  BY <1>1, <1>2, <1>3, <1>4
     DEF IInv, Shape, Dealing, RowsDealt, Blocks, Covered, Bounding, Attained,
         Joined, ParallelAgrees

-----------------------------------------------------------------------------
(***************************************************************************)
(* The row at which the next block ends.                                   *)
(***************************************************************************)
LEMMA NextEndRow ==
  ASSUME IInv, pc = "start", i < numThreads
  PROVE  /\ EndRow \in Nat /\ currentRow <= EndRow /\ EndRow <= rows
         /\ EndRow = ((i + 1) * (rows \div numThreads)) + Spread(i + 1)
<1> DEFINE q == rows \div numThreads
           r == rows % numThreads
<1>1. numThreads \in Nat \ {0} /\ rows \in Nat /\ i \in Nat /\ i + 1 <= numThreads
  BY DEF IInv, TypeOK, Shape, Dealing
<1>2. q \in Nat /\ r \in 0..(numThreads - 1) /\ rows = (numThreads * q) + r
  BY <1>1, Division
<1>3. /\ i * q \in Nat /\ (i + 1) * q = (i * q) + q
      /\ (i + 1) * q <= numThreads * q
  <2> HIDE DEF q, r
  <2> QED
    BY <1>1, <1>2, Product
<1>4. /\ currentRow = (i * q) + Spread(i)
      /\ Spread(i) = IF i < r THEN i ELSE r
      /\ Spread(i + 1) = IF i + 1 < r THEN i + 1 ELSE r
      /\ EndRow = currentRow + q + (IF i < r THEN 1 ELSE 0)
  BY DEF IInv, RowsDealt, Dealing, Spread, EndRow, Extra
<1> QED
  <2> HIDE DEF q, r
  <2>1. numThreads * q \in Nat /\ (i + 1) * q \in Nat
    BY <1>1, <1>2, Product
  <2>2. Spread(i) \in Nat /\ Spread(i + 1) <= r
    BY <1>1, <1>2, <1>4
  <2>3. EndRow = ((i + 1) * q) + Spread(i + 1)
    BY <1>1, <1>2, <1>3, <1>4, <2>1
  <2>4. EndRow \in Nat /\ currentRow <= EndRow /\ EndRow <= rows
    BY <1>1, <1>2, <1>3, <1>4, <2>1, <2>2, <2>3
  <2> QED
    BY <2>3, <2>4 DEF q

-----------------------------------------------------------------------------
(***************************************************************************)
(* Steps that leave no thread and no vector behind.                        *)
(***************************************************************************)
LEMMA NoThreadsLeft ==
  ASSUME TypeOK', DOMAIN index' = {}, ~Dealing', ParallelAgrees',
         pc' \in {"call", "returned"} => calls' # <<>>
  PROVE  IInv'
<1>1. pc' \notin {"start", "combine"}
  BY DEF Dealing
<1> QED
  BY <1>1 DEF IInv, Shape, Dealing, RowsDealt, Blocks, Covered, Bounding,
              Attained, Joined

LEMMA DivideByZeroKeepsInv ==
  ASSUME IInv, DivideByZero
  PROVE  IInv'
<1>1. TypeOK'
  BY DEF DivideByZero, At, IInv, TypeOK, Cell, matrixVars, threadVars
<1>2. DOMAIN index' = {} /\ ~Dealing' /\ ParallelAgrees'
  BY DEF DivideByZero, At, IInv, Shape, Dealing, ParallelAgrees, threadVars
<1> QED
  BY <1>1, <1>2, NoThreadsLeft DEF DivideByZero

LEMMA SearchSequentiallyKeepsInv ==
  ASSUME IInv, SearchSequentially
  PROVE  IInv'
<1>1. result' \in LocalResult /\ findMinMax(result')
  BY DEF SearchSequentially, LocalResult
<1>2. UNCHANGED <<program, rows, data, cores, calls, numThreads, i, currentRow,
                  index, startIndex, endIndex, localResults>>
  BY DEF SearchSequentially, At, matrixVars, threadVars
<1>3. TypeOK'
  BY <1>1, <1>2 DEF SearchSequentially, IInv, TypeOK, Cell, LocalResult
<1>4. ParallelAgrees'
  BY <1>1, <1>2 DEF ParallelAgrees, findMinMax, IsMinMax, Element, Cell
<1>5. DOMAIN index' = {} /\ ~Dealing' /\ calls' # <<>>
  BY <1>2 DEF SearchSequentially, At, IInv, Shape, Dealing
<1> QED
  BY <1>3, <1>4, <1>5, NoThreadsLeft

LEMMA NextCallKeepsInv ==
  ASSUME IInv, NextCall
  PROVE  IInv'
<1>1. calls' \in Seq(Nat) /\ (pc' \in {"call", "returned"} => calls' # <<>>)
  BY DEF NextCall, At, IInv, TypeOK, Shape
<1>2. UNCHANGED <<program, rows, data, cores, index, startIndex, endIndex,
                  localResults>>
  BY DEF NextCall, At, matrixVars, threadVars
<1>3. pc' \in {"finished", "call"}
  BY DEF NextCall
<1>4. TypeOK'
  <2>1. result' = Zero /\ numThreads' = 0 /\ i' = 0 /\ currentRow' = 0
    BY DEF NextCall
  <2>2. Zero \in LocalResult
    BY DEF Zero, LocalResult
  <2>3. 0 \in 0..rows /\ 0 \in 0..0
    BY DEF IInv, TypeOK
  <2>4. /\ UNCHANGED <<rows, data, index, startIndex, endIndex, localResults>>
        /\ UNCHANGED <<Cell, LocalResult>>
    BY <1>2 DEF Cell, LocalResult
  <2> QED
    BY <1>1, <1>2, <1>3, <2>1, <2>2, <2>3, <2>4 DEF IInv, TypeOK
<1>5. DOMAIN index' = {} /\ ~Dealing' /\ ParallelAgrees'
  BY <1>2, <1>3 DEF NextCall, At, IInv, Shape, Dealing, ParallelAgrees
<1> QED
  BY <1>1, <1>4, <1>5, NoThreadsLeft

LEMMA ThreadFailsKeepsInv ==
  ASSUME IInv, ThreadFails
  PROVE  IInv'
<1>1. /\ UNCHANGED <<program, rows, data, cores, calls, numThreads, i,
                     currentRow, result>>
      /\ pc' \in {"threw", "terminated"}
      /\ index' = <<>> /\ startIndex' = <<>> /\ endIndex' = <<>>
      /\ localResults' = <<>>
  BY DEF ThreadFails, At, matrixVars
<1>2. DOMAIN index' = {} /\ ~Dealing' /\ ParallelAgrees'
  BY <1>1 DEF Dealing, ParallelAgrees
<1>3. TypeOK'
  BY <1>1, <1>2 DEF IInv, TypeOK, Cell, LocalResult
<1> QED
  BY <1>1, <1>2, <1>3, NoThreadsLeft

-----------------------------------------------------------------------------
(***************************************************************************)
(* Entering the parallel search.                                           *)
(***************************************************************************)
LEMMA EnterParallelKeepsInv ==
  ASSUME IInv, EnterParallel
  PROVE  IInv'
<1>1. UNCHANGED <<program, rows, data, cores, calls, result>>
  BY DEF EnterParallel, At, matrixVars
<1>2. Head(calls) \in Nat /\ Head(calls) > 0 /\ calls # <<>>
  BY DEF EnterParallel, At, IInv, TypeOK, Shape
<1>3. numThreads' \in Nat \ {0}
  BY <1>2 DEF EnterParallel, Threads, IInv, TypeOK
<1>4. /\ index' = [t \in ThreadId' |-> 0] /\ DOMAIN index' = ThreadId'
      /\ startIndex' = [t \in ThreadId' |-> 0]
      /\ endIndex' = [t \in ThreadId' |-> 0]
      /\ localResults' = [t \in ThreadId' |-> Zero]
  BY DEF EnterParallel, ThreadId
<1>5. pc' = "start" /\ i' = 0 /\ currentRow' = 0
  BY DEF EnterParallel
<1>6. 0 \in 0..(rows * Cols) /\ 0 \in 0..rows /\ rows \in Nat
  BY Product, MatrixAssumption DEF MatrixAssumption, IInv, TypeOK
<1>7. Zero \in LocalResult
  BY DEF Zero, LocalResult
<1>8. TypeOK'
  BY <1>1, <1>3, <1>4, <1>5, <1>6, <1>7 DEF IInv, TypeOK, Cell, LocalResult
<1>9. Shape' /\ Blocks' /\ Joined' /\ ParallelAgrees'
  BY <1>1, <1>2, <1>3, <1>4, <1>5
     DEF Shape, Blocks, Joined, ParallelAgrees, Dealing, ThreadId
<1>10. RowsDealt'
  <2> DEFINE n == numThreads'
  <2>1. rows \div n \in Nat /\ rows % n \in 0..(n - 1)
    <3> HIDE DEF n
    <3> QED
      BY <1>3, <1>6, Division DEF n
  <2>2. 0 * (rows \div n) = 0
    BY <2>1
  <2>3. 0 = (0 * (rows \div n)) + (IF 0 < rows % n THEN 0 ELSE rows % n)
    BY <1>3, <2>1, <2>2
  <2> QED
    BY <1>1, <1>5, <2>3 DEF RowsDealt, Spread
<1>11. Covered'
  <2>1. currentRow' * Cols = 0
    BY <1>5, MatrixAssumption DEF MatrixAssumption
  <2> QED
    BY <2>1 DEF Covered
<1>12. Bounding'
  <2> SUFFICES ASSUME NEW t \in DOMAIN index', NEW k \in Cell',
                      startIndex'[t] <= k, k < index'[t]
               PROVE  FALSE
    BY DEF Bounding
  <2> QED
    BY <1>4 DEF Cell
<1>13. Attained'
  BY <1>3, <1>4, <1>5 DEF Attained, ThreadId
<1> QED
  BY <1>8, <1>9, <1>10, <1>11, <1>12, <1>13 DEF IInv

-----------------------------------------------------------------------------
(***************************************************************************)
(* Dealing out a block.                                                    *)
(***************************************************************************)
LEMMA BlockBounds ==
  ASSUME IInv, CutBlock
  PROVE  /\ i \in DOMAIN index /\ i \in Nat
         /\ currentRow * Cols \in 0..(rows * Cols)
         /\ EndRow * Cols \in 0..(rows * Cols)
         /\ currentRow * Cols <= EndRow * Cols
         /\ currentRow < EndRow => currentRow * Cols < EndRow * Cols
<1>1. pc = "start" /\ i < numThreads
  BY DEF CutBlock, At
<1>2. i \in DOMAIN index /\ i \in Nat /\ currentRow \in Nat /\ rows \in Nat
      /\ currentRow <= rows
  BY <1>1 DEF IInv, TypeOK, Shape, Dealing, ThreadId
<1>3. EndRow \in Nat /\ currentRow <= EndRow /\ EndRow <= rows
  BY <1>1, NextEndRow
<1>4. Cols \in Nat /\ Cols > 0
  BY MatrixAssumption DEF MatrixAssumption
<1>5. /\ currentRow * Cols \in Nat /\ EndRow * Cols \in Nat /\ rows * Cols \in Nat
      /\ currentRow * Cols <= EndRow * Cols /\ EndRow * Cols <= rows * Cols
      /\ currentRow < EndRow => currentRow * Cols < EndRow * Cols
  BY <1>2, <1>3, <1>4, Product
<1> QED
  BY <1>2, <1>5

\* What every step that cuts a block does to the threads' loops.
LEMMA CutBlockEffect ==
  ASSUME IInv, CutBlock
  PROVE  /\ UNCHANGED <<program, rows, data, cores, calls, pc, numThreads, result>>
         /\ pc = "start" /\ i < numThreads /\ i' = i + 1 /\ currentRow' = EndRow
         /\ DOMAIN index' = DOMAIN index
         /\ \A t \in DOMAIN index :
              /\ startIndex'[t] = IF t = i THEN currentRow * Cols ELSE startIndex[t]
              /\ index'[t] = IF t = i THEN currentRow * Cols ELSE index[t]
              /\ endIndex'[t] = IF t = i THEN EndRow * Cols ELSE endIndex[t]
  BY DEF CutBlock, At, matrixVars, IInv, TypeOK

LEMMA CutBlockKeepsLoops ==
  ASSUME IInv, CutBlock
  PROVE  /\ i' \in 0..numThreads' /\ currentRow' \in 0..rows'
         /\ index' \in [DOMAIN index' -> 0..(rows' * Cols)]
         /\ startIndex' \in [DOMAIN index' -> 0..(rows' * Cols)]
         /\ endIndex' \in [DOMAIN index' -> 0..(rows' * Cols)]
         /\ Shape' /\ RowsDealt' /\ Blocks' /\ Covered' /\ Joined' /\ ParallelAgrees'
<1>1. /\ UNCHANGED <<program, rows, data, cores, calls, pc, numThreads, result>>
      /\ pc = "start" /\ i < numThreads /\ i' = i + 1 /\ currentRow' = EndRow
      /\ DOMAIN index' = DOMAIN index
  BY CutBlockEffect
<1>2. \A t \in DOMAIN index :
        /\ startIndex'[t] = IF t = i THEN currentRow * Cols ELSE startIndex[t]
        /\ index'[t] = IF t = i THEN currentRow * Cols ELSE index[t]
        /\ endIndex'[t] = IF t = i THEN EndRow * Cols ELSE endIndex[t]
  BY CutBlockEffect
<1> DEFINE s == currentRow * Cols
           e == EndRow * Cols
<1>3. /\ i \in DOMAIN index /\ i \in Nat /\ s \in 0..(rows * Cols)
      /\ e \in 0..(rows * Cols) /\ s <= e
  BY BlockBounds
<1>4. /\ EndRow \in Nat /\ EndRow <= rows
      /\ EndRow = ((i + 1) * (rows \div numThreads)) + Spread(i + 1)
  BY <1>1, NextEndRow
<1>5. /\ index \in [DOMAIN index -> 0..(rows * Cols)]
      /\ startIndex \in [DOMAIN index -> 0..(rows * Cols)]
      /\ endIndex \in [DOMAIN index -> 0..(rows * Cols)]
      /\ numThreads \in Nat /\ rows \in Nat /\ DOMAIN index = ThreadId
  BY <1>1 DEF IInv, TypeOK, Shape, Dealing
<1>6. i' \in 0..numThreads' /\ currentRow' \in 0..rows'
  BY <1>1, <1>3, <1>4, <1>5
<1>7. /\ index' = [index EXCEPT ![i] = s]
      /\ startIndex' = [startIndex EXCEPT ![i] = s]
      /\ endIndex' = [endIndex EXCEPT ![i] = e]
  BY DEF CutBlock
<1>8. /\ index' \in [DOMAIN index' -> 0..(rows' * Cols)]
      /\ startIndex' \in [DOMAIN index' -> 0..(rows' * Cols)]
      /\ endIndex' \in [DOMAIN index' -> 0..(rows' * Cols)]
  <2> HIDE DEF s, e
  <2> QED
    BY <1>1, <1>3, <1>5, <1>7
<1>9. Shape' /\ Joined' /\ ParallelAgrees'
  BY <1>1 DEF IInv, Shape, Dealing, ThreadId, Joined, ParallelAgrees
<1>10. RowsDealt'
  BY <1>1, <1>4 DEF RowsDealt, Spread
<1>11. Blocks'
  <2> SUFFICES ASSUME NEW t \in DOMAIN index
               PROVE  /\ startIndex'[t] <= index'[t] /\ index'[t] <= endIndex'[t]
                      /\ t >= i' => startIndex'[t] = 0 /\ endIndex'[t] = 0
    BY <1>1 DEF Blocks
  <2>1. t \in Int
    BY <1>5 DEF ThreadId
  <2>2. /\ startIndex[t] <= index[t] /\ index[t] <= endIndex[t]
        /\ t >= i => startIndex[t] = 0 /\ endIndex[t] = 0
    BY DEF IInv, Blocks
  <2> HIDE DEF s, e
  <2>3. /\ startIndex'[t] = IF t = i THEN s ELSE startIndex[t]
        /\ index'[t] = IF t = i THEN s ELSE index[t]
        /\ endIndex'[t] = IF t = i THEN e ELSE endIndex[t]
    BY <1>2 DEF s, e
  <2> QED
    BY <1>1, <1>3, <2>1, <2>2, <2>3
<1>12. Covered'
  <2> SUFFICES ASSUME NEW k \in Nat, k < e
               PROVE  \E t \in DOMAIN index : startIndex'[t] <= k /\ k < endIndex'[t]
    BY <1>1 DEF Covered
  <2>1. CASE k < s
    <3>1. PICK t \in DOMAIN index : startIndex[t] <= k /\ k < endIndex[t]
      BY <1>1, <2>1 DEF IInv, Covered, Dealing
    <3>2. t # i
      BY <1>1, <1>3, <3>1 DEF IInv, Blocks
    <3> QED
      BY <1>2, <3>1, <3>2
  <2>2. CASE s <= k
    BY <1>2, <1>3, <2>2
  <2> QED
    BY <1>3, <2>1, <2>2
<1> QED
  BY <1>6, <1>8, <1>9, <1>10, <1>11, <1>12

LEMMA StartThreadKeepsInv ==
  ASSUME IInv, StartThread
  PROVE  IInv'
<1>1. CutBlock /\ currentRow < EndRow /\ localResults' = localResults
  BY DEF StartThread
<1>2. /\ UNCHANGED <<program, rows, data, cores, calls, pc, numThreads, result>>
      /\ i' = i + 1 /\ DOMAIN index' = DOMAIN index
      /\ \A t \in DOMAIN index :
           /\ startIndex'[t] = IF t = i THEN currentRow * Cols ELSE startIndex[t]
           /\ index'[t] = IF t = i THEN currentRow * Cols ELSE index[t]
           /\ endIndex'[t] = IF t = i THEN EndRow * Cols ELSE endIndex[t]
  BY <1>1, CutBlockEffect
<1>3. /\ i \in Nat /\ currentRow * Cols \in Nat
      /\ EndRow * Cols \in Nat /\ currentRow * Cols < EndRow * Cols
  BY <1>1, BlockBounds
<1>4. TypeOK'
  BY <1>1, <1>2, CutBlockKeepsLoops DEF IInv, TypeOK, Cell, LocalResult
<1>5. Bounding'
  <2> SUFFICES ASSUME NEW t \in DOMAIN index, NEW k \in Cell,
                      startIndex'[t] <= k, k < index'[t]
               PROVE  localResults[t].min <= data[k] /\ data[k] <= localResults[t].max
    BY <1>1, <1>2 DEF Bounding, Cell
  <2>1. t # i
    BY <1>2, <1>3 DEF Cell
  <2> QED
    BY <1>2, <2>1 DEF IInv, Bounding
<1>6. Attained'
  <2> SUFFICES ASSUME NEW t \in DOMAIN index, t < i',
                      startIndex'[t] < index'[t] \/ startIndex'[t] = endIndex'[t]
               PROVE  localResults[t].min \in Element /\ localResults[t].max \in Element
    BY <1>1, <1>2 DEF Attained, Element, Cell
  <2>1. t # i
    BY <1>2, <1>3
  <2>2. t \in Int
    BY <1>1, CutBlockEffect DEF IInv, Shape, Dealing, ThreadId
  <2>3. t < i
    BY <1>2, <1>3, <2>1, <2>2
  <2> QED
    BY <1>2, <2>1, <2>3 DEF IInv, Attained
<1> QED
  BY <1>1, <1>4, <1>5, <1>6, CutBlockKeepsLoops DEF IInv

LEMMA SkipThreadKeepsInv ==
  ASSUME IInv, SkipThread
  PROVE  IInv'
<1> DEFINE first == [min |-> data[0], max |-> data[0]]
<1>1. /\ CutBlock /\ currentRow = EndRow
      /\ localResults' = [localResults EXCEPT ![i] = first]
  BY DEF SkipThread
<1>2. /\ UNCHANGED <<program, rows, data, cores, calls, pc, numThreads, result>>
      /\ pc = "start" /\ i' = i + 1 /\ DOMAIN index' = DOMAIN index
      /\ \A t \in DOMAIN index :
           /\ startIndex'[t] = IF t = i THEN currentRow * Cols ELSE startIndex[t]
           /\ index'[t] = IF t = i THEN currentRow * Cols ELSE index[t]
           /\ endIndex'[t] = IF t = i THEN EndRow * Cols ELSE endIndex[t]
  BY <1>1, CutBlockEffect
<1>3. i \in DOMAIN index /\ i \in Nat /\ currentRow * Cols \in Nat
  BY <1>1, BlockBounds
<1>4. 0 \in Cell
  <2>1. rows \in Nat /\ 0 < rows /\ Cols \in Nat /\ 0 < Cols
    BY MatrixAssumption DEF MatrixAssumption, IInv, TypeOK
  <2>2. 0 * Cols < rows * Cols /\ rows * Cols \in Nat
    BY <2>1, Product
  <2> QED
    BY <2>1, <2>2 DEF Cell
<1>5. data[0] \in Element /\ data[0] \in Value
  BY <1>4 DEF Element, IInv, TypeOK
<1>6. localResults \in [DOMAIN index -> LocalResult] /\ first \in LocalResult
  BY <1>5 DEF IInv, TypeOK, LocalResult
<1>7. \A t \in DOMAIN index :
        localResults'[t] = IF t = i THEN first ELSE localResults[t]
  <2> HIDE DEF first
  <2> QED
    BY <1>1, <1>3, <1>6
<1>8. localResults' \in [DOMAIN index' -> LocalResult]
  <2> HIDE DEF first
  <2> QED
    BY <1>1, <1>2, <1>3, <1>6
<1>9. TypeOK'
  <2> HIDE DEF first
  <2> QED
    BY <1>1, <1>2, <1>8, CutBlockKeepsLoops DEF IInv, TypeOK, Cell, LocalResult
<1>10. Bounding'
  <2> SUFFICES ASSUME NEW t \in DOMAIN index, NEW k \in Cell,
                      startIndex'[t] <= k, k < index'[t]
               PROVE  localResults'[t].min <= data[k] /\ data[k] <= localResults'[t].max
    BY <1>2 DEF Bounding, Cell
  <2>1. t # i
    BY <1>2, <1>3 DEF Cell
  <2> QED
    BY <1>2, <1>7, <2>1 DEF IInv, Bounding
<1>11. Attained'
  <2> SUFFICES ASSUME NEW t \in DOMAIN index, t < i',
                      startIndex'[t] < index'[t] \/ startIndex'[t] = endIndex'[t]
               PROVE  localResults'[t].min \in Element /\ localResults'[t].max \in Element
    BY <1>2 DEF Attained, Element, Cell
  <2>1. CASE t = i
    BY <1>5, <1>7, <2>1
  <2>2. CASE t # i
    <3>1. t \in Int
      BY <1>2 DEF IInv, Shape, Dealing, ThreadId
    <3>2. t < i
      BY <1>2, <1>3, <2>2, <3>1
    <3> QED
      BY <1>2, <1>7, <2>2, <3>2 DEF IInv, Attained
  <2> QED
    BY <2>1, <2>2
<1> QED
  BY <1>1, <1>9, <1>10, <1>11, CutBlockKeepsLoops DEF IInv

-----------------------------------------------------------------------------
(***************************************************************************)
(* A thread compares an element.                                           *)
(***************************************************************************)
LEMMA ValuesAreIntegers ==
  /\ Value \subseteq Int
  /\ \A r \in LocalResult :
       /\ r.min \in Int /\ r.min \in Value \cup {0}
       /\ r.max \in Int /\ r.max \in Value \cup {0}
<1>1. Value \subseteq Int
  BY MatrixAssumption DEF MatrixAssumption
<1>2. ASSUME NEW r \in LocalResult
      PROVE  r.min \in Value \cup {0} /\ r.max \in Value \cup {0}
  BY DEF LocalResult
<1>3. \A v \in Value \cup {0} : v \in Int
  BY <1>1
<1> QED
  BY <1>1, <1>2, <1>3

LEMMA WidenBounds ==
  ASSUME NEW r \in LocalResult, NEW v \in Value
  PROVE  LET w == Widen(r, v)
         IN  /\ w \in LocalResult
             /\ w.min <= r.min /\ w.min <= v /\ w.min \in {r.min, v}
             /\ w.max >= r.max /\ w.max >= v /\ w.max \in {r.max, v}
<1> DEFINE w == Widen(r, v)
<1>1. v \in Int /\ r.min \in Int /\ r.max \in Int
  BY ValuesAreIntegers
<1>2. w.min = IF v < r.min THEN v ELSE r.min
  BY DEF Widen
<1>3. w.max = IF v > r.max THEN v ELSE r.max
  BY DEF Widen
<1>4. w = [min |-> w.min, max |-> w.max]
  BY DEF Widen
<1> HIDE DEF w
<1>5. w.min <= r.min /\ w.min <= v /\ w.min \in {r.min, v}
  BY <1>1, <1>2
<1>6. w.max >= r.max /\ w.max >= v /\ w.max \in {r.max, v}
  BY <1>1, <1>3
<1>7. w.min \in Value \cup {0} /\ w.max \in Value \cup {0}
  BY <1>5, <1>6, ValuesAreIntegers
<1>8. w \in LocalResult
  BY <1>4, <1>7 DEF LocalResult
<1> QED
  BY <1>5, <1>6, <1>8 DEF w

LEMMA CompareKeepsInv ==
  ASSUME IInv, NEW t \in DOMAIN index, Compare(t)
  PROVE  IInv'
<1> DEFINE v == data[index[t]]
           new == IF index[t] = startIndex[t] THEN [min |-> v, max |-> v]
                                              ELSE Widen(localResults[t], v)
<1>1. /\ UNCHANGED <<program, rows, data, cores, calls, pc, numThreads, i,
                     currentRow, result, startIndex, endIndex>>
      /\ index[t] < endIndex[t]
      /\ index' = [index EXCEPT ![t] = index[t] + 1]
      /\ localResults' = [localResults EXCEPT ![t] = new]
  BY DEF Compare, matrixVars, callerVars
<1>2. /\ index \in [DOMAIN index -> 0..(rows * Cols)]
      /\ startIndex \in [DOMAIN index -> 0..(rows * Cols)]
      /\ endIndex \in [DOMAIN index -> 0..(rows * Cols)]
      /\ localResults \in [DOMAIN index -> LocalResult]
      /\ rows * Cols \in Nat
      /\ data \in [Cell -> Value]
  <2>1. rows \in Nat /\ Cols \in Nat
    BY MatrixAssumption DEF MatrixAssumption, IInv, TypeOK
  <2>2. rows * Cols \in Nat
    BY <2>1, Product
  <2> QED
    BY <2>2 DEF IInv, TypeOK
<1>3. index[t] \in Nat /\ index[t] + 1 \in 0..(rows * Cols) /\ index[t] \in Cell
      /\ startIndex[t] \in Nat /\ endIndex[t] \in Nat
      /\ startIndex[t] <= index[t] /\ index[t] + 1 <= endIndex[t]
  BY <1>1, <1>2 DEF Cell, IInv, Blocks
<1>4. v \in Value /\ v \in Element
  BY <1>2, <1>3 DEF Element
<1>5. new \in LocalResult /\ new.min <= v /\ v <= new.max
  <2>1. CASE index[t] = startIndex[t]
    <3> HIDE DEF v
    <3>1. v \in Int
      BY <1>4, ValuesAreIntegers
    <3> QED
      BY <1>4, <2>1, <3>1 DEF LocalResult
  <2>2. CASE index[t] # startIndex[t]
    <3> HIDE DEF v
    <3>1. localResults[t] \in LocalResult
      BY <1>2
    <3>2. new = Widen(localResults[t], v)
      BY <2>2
    <3>3. new \in LocalResult /\ new.min <= v /\ new.max >= v
      <4> HIDE DEF new
      <4> QED
        BY <1>4, <3>1, <3>2, WidenBounds
    <3> QED
      <4> HIDE DEF new
      <4>1. new.max \in Int /\ v \in Int
        BY <1>4, <3>3, ValuesAreIntegers
      <4> QED
        BY <3>3, <4>1
  <2> QED
    BY <2>1, <2>2
<1>6. DOMAIN index' = DOMAIN index
  BY <1>1
<1>7. \A u \in DOMAIN index :
        /\ index'[u] = IF u = t THEN index[t] + 1 ELSE index[u]
        /\ localResults'[u] = IF u = t THEN new ELSE localResults[u]
  <2> HIDE DEF new
  <2> QED
    BY <1>1, <1>2
<1>8. TypeOK'
  <2> HIDE DEF new
  <2>1. index' \in [DOMAIN index' -> 0..(rows * Cols)]
    BY <1>1, <1>2, <1>3, <1>6
  <2>2. localResults' \in [DOMAIN index' -> LocalResult]
    BY <1>1, <1>2, <1>5, <1>6
  <2> QED
    BY <1>1, <1>6, <2>1, <2>2 DEF IInv, TypeOK, Cell, LocalResult
<1>9. Dealing /\ pc # "combine"
  <2>1. index[t] # endIndex[t]
    BY <1>1, <1>3
  <2> QED
    BY <2>1 DEF IInv, Shape, Joined
<1>10. Shape' /\ RowsDealt' /\ Joined' /\ ParallelAgrees'
  BY <1>1, <1>6, <1>9
     DEF IInv, Shape, Dealing, ThreadId, RowsDealt, Spread, Joined, ParallelAgrees
<1>11. Blocks'
  BY <1>1, <1>3, <1>6, <1>7 DEF IInv, Blocks
<1>12. Covered'
  BY <1>1, <1>6 DEF IInv, Covered, Dealing
<1>13. Bounding'
  <2> SUFFICES ASSUME NEW u \in DOMAIN index, NEW k \in Cell,
                      startIndex[u] <= k, k < index'[u]
               PROVE  localResults'[u].min <= data[k] /\ data[k] <= localResults'[u].max
    BY <1>1, <1>6 DEF Bounding, Cell
  <2>1. CASE u # t
    BY <1>7, <2>1 DEF IInv, Bounding
  <2>2. CASE u = t /\ k = index[t]
    <3> HIDE DEF new
    <3> QED
      BY <1>5, <1>7, <2>2
  <2>3. CASE u = t /\ k # index[t]
    <3>1. k \in Int /\ k < index[t] /\ startIndex[t] # index[t]
      BY <1>3, <1>7, <2>3 DEF Cell
    <3>2. localResults[t].min <= data[k] /\ data[k] <= localResults[t].max
      BY <2>3, <3>1 DEF IInv, Bounding
    <3>3. localResults[t] \in LocalResult /\ data[k] \in Value
      BY <1>2
    <3>4. new = Widen(localResults[t], v)
      BY <3>1
    <3> HIDE DEF new, v
    <3>5. /\ new \in LocalResult
          /\ new.min <= localResults[t].min /\ new.max >= localResults[t].max
      BY <1>4, <3>3, <3>4, WidenBounds
    <3>6. /\ new.min \in Int /\ new.max \in Int /\ data[k] \in Int
          /\ localResults[t].min \in Int /\ localResults[t].max \in Int
      BY <3>3, <3>5, ValuesAreIntegers
    <3>7. new.min <= data[k] /\ data[k] <= new.max
      BY <3>2, <3>5, <3>6
    <3> QED
      BY <1>7, <2>3, <3>7
  <2> QED
    BY <2>1, <2>2, <2>3
<1>14. Attained'
  <2> SUFFICES ASSUME NEW u \in DOMAIN index, u < i,
                      startIndex[u] < index'[u] \/ startIndex[u] = endIndex[u]
               PROVE  localResults'[u].min \in Element /\ localResults'[u].max \in Element
    BY <1>1, <1>6 DEF Attained, Element, Cell
  <2>1. CASE u # t
    BY <1>7, <2>1 DEF IInv, Attained
  <2>2. CASE u = t /\ index[t] = startIndex[t]
    BY <1>4, <1>7, <2>2
  <2>3. CASE u = t /\ index[t] # startIndex[t]
    <3>1. localResults[t].min \in Element /\ localResults[t].max \in Element
      BY <1>3, <2>3 DEF IInv, Attained
    <3>2. new = Widen(localResults[t], v) /\ localResults[t] \in LocalResult
      BY <1>2, <2>3
    <3> HIDE DEF new, v
    <3>3. new.min \in {localResults[t].min, v} /\ new.max \in {localResults[t].max, v}
      BY <1>4, <3>2, WidenBounds
    <3>4. new.min \in Element /\ new.max \in Element
      BY <1>4, <3>1, <3>3
    <3> QED
      BY <1>7, <2>3, <3>4
  <2> QED
    BY <2>1, <2>2, <2>3
<1> QED
  BY <1>8, <1>10, <1>11, <1>12, <1>13, <1>14 DEF IInv

-----------------------------------------------------------------------------
(***************************************************************************)
(* The join, and the results combined.                                     *)
(***************************************************************************)
LEMMA JoinKeepsInv ==
  ASSUME IInv, Join
  PROVE  IInv'
<1>1. /\ UNCHANGED <<program, rows, data, cores, calls, numThreads, i, currentRow,
                     result, index, startIndex, endIndex, localResults>>
      /\ pc = "start" /\ pc' = "combine" /\ i = numThreads
      /\ \A t \in ThreadId : index[t] = endIndex[t]
  BY DEF Join, At, matrixVars, threadVars
<1>2. TypeOK'
  BY <1>1 DEF IInv, TypeOK, Cell, LocalResult
<1>3. Shape' /\ RowsDealt' /\ Covered' /\ ParallelAgrees'
  BY <1>1 DEF IInv, Shape, Dealing, ThreadId, RowsDealt, Spread, Covered,
              ParallelAgrees
<1>4. Blocks' /\ Bounding' /\ Attained'
  BY <1>1 DEF IInv, Blocks, Bounding, Attained, Cell, Element
<1>5. Joined'
  BY <1>1 DEF IInv, Shape, Dealing, Joined
<1> QED
  BY <1>2, <1>3, <1>4, <1>5 DEF IInv

\* When the threads are joined every row has been dealt out and searched.
LEMMA AllRowsDealt ==
  ASSUME IInv, pc = "combine"
  PROVE  currentRow = rows
<1>1. numThreads \in Nat \ {0} /\ rows \in Nat /\ i = numThreads
  BY DEF IInv, TypeOK, Shape, Dealing, Joined
<1>2. /\ rows \div numThreads \in Nat
      /\ rows % numThreads \in 0..(numThreads - 1)
      /\ rows = (numThreads * (rows \div numThreads)) + (rows % numThreads)
  BY <1>1, Division
<1>3. Spread(i) = rows % numThreads
  BY <1>1, <1>2 DEF Spread
<1>4. currentRow = (i * (rows \div numThreads)) + Spread(i)
  BY DEF IInv, RowsDealt, Dealing
<1> QED
  BY <1>1, <1>2, <1>3, <1>4

LEMMA CombineKeepsInv ==
  ASSUME IInv, Combine
  PROVE  IInv'
<1> DEFINE minima == {localResults[t].min : t \in ThreadId}
           maxima == {localResults[t].max : t \in ThreadId}
<1>1. /\ UNCHANGED <<program, rows, data, cores, calls, numThreads, i, currentRow>>
      /\ pc = "combine" /\ pc' = "returned"
      /\ index' = <<>> /\ startIndex' = <<>> /\ endIndex' = <<>>
      /\ localResults' = <<>>
  BY DEF Combine, At, matrixVars
<1>2. PICK min \in minima, max \in maxima :
        result' = [min |-> min, max |-> max] /\ IsMinMax(result', minima, maxima)
  BY DEF Combine
<1>3. /\ DOMAIN index = ThreadId /\ i = numThreads /\ calls # <<>>
      /\ \A t \in ThreadId : index[t] = endIndex[t]
  BY <1>1 DEF IInv, Shape, Dealing, Joined
<1>4. /\ localResults \in [ThreadId -> LocalResult]
      /\ data \in [Cell -> Value] /\ rows \in Nat /\ numThreads \in Nat
      /\ startIndex \in [ThreadId -> 0..(rows * Cols)]
      /\ endIndex \in [ThreadId -> 0..(rows * Cols)]
  BY <1>3 DEF IInv, TypeOK
<1>5. \A t \in ThreadId :
        localResults[t].min \in Element /\ localResults[t].max \in Element
  <2> SUFFICES ASSUME NEW t \in ThreadId
               PROVE  localResults[t].min \in Element /\ localResults[t].max \in Element
    OBVIOUS
  <2>1. t < i
    BY <1>3, <1>4 DEF ThreadId
  <2>2. startIndex[t] <= index[t] /\ index[t] = endIndex[t]
    BY <1>3 DEF IInv, Blocks
  <2>3. startIndex[t] \in Int /\ endIndex[t] \in Int
    BY <1>4
  <2>4. startIndex[t] < index[t] \/ startIndex[t] = endIndex[t]
    BY <2>2, <2>3
  <2> QED
    BY <1>3, <2>1, <2>4 DEF IInv, Attained
<1>6. \A k \in Cell : \E t \in ThreadId :
        localResults[t].min <= data[k] /\ data[k] <= localResults[t].max
  <2> SUFFICES ASSUME NEW k \in Cell
               PROVE  \E t \in ThreadId :
                        localResults[t].min <= data[k] /\ data[k] <= localResults[t].max
    OBVIOUS
  <2>1. k \in Nat /\ k < currentRow * Cols
    <3>1. currentRow = rows
      BY <1>1, AllRowsDealt
    <3>2. rows * Cols \in Nat
      BY <1>4, Product, MatrixAssumption DEF MatrixAssumption
    <3> QED
      BY <3>1, <3>2 DEF Cell
  <2>2. PICK t \in ThreadId : startIndex[t] <= k /\ k < endIndex[t]
    BY <1>1, <1>3, <2>1 DEF IInv, Covered, Dealing
  <2> QED
    BY <1>3, <2>2 DEF IInv, Bounding
<1>7. /\ result'.min \in minima /\ \A v \in minima : result'.min <= v
      /\ result'.max \in maxima /\ \A v \in maxima : result'.max >= v
  BY <1>2 DEF IsMinMax
<1>8. result'.min \in Element /\ result'.max \in Element
  BY <1>5, <1>7
<1>9. Element \subseteq Value
  BY <1>4 DEF Element
<1>10. \A v \in Element : result'.min <= v /\ result'.max >= v
  <2> SUFFICES ASSUME NEW k \in Cell
               PROVE  result'.min <= data[k] /\ result'.max >= data[k]
    BY DEF Element
  <2>1. PICK t \in ThreadId :
          localResults[t].min <= data[k] /\ data[k] <= localResults[t].max
    BY <1>6
  <2>2. result'.min <= localResults[t].min /\ result'.max >= localResults[t].max
    BY <1>7
  <2>3. /\ result'.min \in Int /\ result'.max \in Int /\ data[k] \in Int
        /\ localResults[t].min \in Int /\ localResults[t].max \in Int
    BY <1>4, <1>8, <1>9, ValuesAreIntegers
  <2> QED
    BY <2>1, <2>2, <2>3
<1>11. Element' = Element
  BY <1>1 DEF Element, Cell
<1>12. ParallelAgrees'
  BY <1>8, <1>10, <1>11 DEF ParallelAgrees, findMinMax, IsMinMax
<1>13. result' \in LocalResult
  <2>1. result' = [min |-> result'.min, max |-> result'.max]
    BY <1>2
  <2> QED
    BY <1>8, <1>9, <2>1 DEF LocalResult
<1>14. DOMAIN index' = {} /\ ~Dealing'
  BY <1>1 DEF Dealing
<1>15. TypeOK'
  BY <1>1, <1>13, <1>14 DEF IInv, TypeOK, Cell, LocalResult
<1> QED
  BY <1>1, <1>3, <1>12, <1>14, <1>15, NoThreadsLeft

-----------------------------------------------------------------------------
LEMMA StepKeepsInv ==
  ASSUME IInv, [Next]_vars
  PROVE  IInv'
<1>1. CASE CallerStep
  BY <1>1, DivideByZeroKeepsInv, SearchSequentiallyKeepsInv, EnterParallelKeepsInv,
     StartThreadKeepsInv, SkipThreadKeepsInv, ThreadFailsKeepsInv, JoinKeepsInv,
     CombineKeepsInv, NextCallKeepsInv
     DEF CallerStep
<1>2. CASE WorkerStep
  BY <1>2, CompareKeepsInv DEF WorkerStep
<1>3. CASE UNCHANGED vars
  BY <1>3 DEF vars, matrixVars, callerVars, threadVars, IInv, TypeOK, LocalResult,
              Shape, Dealing, ThreadId, RowsDealt, Spread, Blocks, Covered,
              Bounding, Attained, Element, Cell, Joined, ParallelAgrees,
              findMinMax, IsMinMax
<1> QED
  BY <1>1, <1>2, <1>3 DEF Next, Finished

LEMMA ParallelInvariant == Spec => []IInv
<1>1. Init => IInv
  BY MatrixAssumption, CoresAssumption, InitInv
<1>2. IInv /\ [Next]_vars => IInv'
  BY StepKeepsInv
<1> QED
  BY <1>1, <1>2, PTL DEF Spec

(***************************************************************************)
(* The caller's and the threads' variables keep their types; in particular *)
(* no thread is sent beyond the end of the matrix, into whatever blocks    *)
(* its rows are cut.                                                       *)
(***************************************************************************)
THEOREM TypeCorrect == Spec => []TypeOK
<1>1. IInv => TypeOK
  BY DEF IInv
<1> QED
  BY <1>1, ParallelInvariant, PTL

(***************************************************************************)
(* Both programs return the minimum and the maximum of the matrix, for     *)
(* every matrix, every number of threads and every order in which the      *)
(* threads are done.                                                       *)
(***************************************************************************)
THEOREM ParallelSearchAgrees == Spec => []ParallelAgrees
<1>1. IInv => ParallelAgrees
  BY DEF IInv
<1> QED
  BY <1>1, ParallelInvariant, PTL
=============================================================================
