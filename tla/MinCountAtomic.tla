--------------------------- MODULE MinCountAtomic ---------------------------
(***************************************************************************)
(* findMinAndCountParallelAtomic of lab_2: the minimum and the count are   *)
(* two atomics that are updated one after the other, so every load,        *)
(* exchange, store and addition is a step.                                 *)
(*                                                                         *)
(* The loads are relaxed or acquire: a load may return an older value of   *)
(* minValue, though none older than its thread has seen.  The operations   *)
(* on count take effect in the order of the steps.                         *)
(***************************************************************************)
EXTENDS ArrayScan

VARIABLES
  minValue, count,    \* AtomicMinResult
  past,               \* the values minValue has had
  pc,                 \* where each thread is in the body of its loop
  current             \* the last value of minValue it has seen

countVars == <<minValue, count, past, pc, current>>
vars == <<scanVars, countVars>>

Init ==
  /\ ScanInit
  /\ minValue = INT_MAX
  /\ count = 0
  /\ past = {INT_MAX}
  /\ pc = [t \in ThreadId |-> "load"]
  /\ current = [t \in ThreadId |-> INT_MAX]

-----------------------------------------------------------------------------
At(t, label) == Scanning(t) /\ pc[t] = label
Goto(t, label) == pc' = [pc EXCEPT ![t] = label]
Element(t) == data[position[t]]

\* A load of minValue.
Load(t) ==
  \E v \in past : v <= current[t] /\ current' = [current EXCEPT ![t] = v]

LoadMinimum(t) ==
  /\ At(t, "load") /\ Load(t) /\ Goto(t, "while")
  /\ UNCHANGED <<scanVars, minValue, count, past>>

\* Mutant of CompareExchange: a plain store, with no comparison.
StoreBlindly(t) ==
  /\ At(t, "while") /\ Element(t) < current[t]
  /\ minValue' = Element(t)
  /\ past' = past \cup {Element(t)}
  /\ current' = [current EXCEPT ![t] = Element(t)]
  /\ Goto(t, "store")
  /\ UNCHANGED <<scanVars, count>>

\* compare_exchange_weak: it may fail although the values agree.
CompareExchange(t) ==
  /\ At(t, "while") /\ Element(t) < current[t]
  /\ \/ /\ minValue = current[t]
        /\ minValue' = Element(t)
        /\ past' = past \cup {Element(t)}
        /\ current' = [current EXCEPT ![t] = Element(t)]
        /\ Goto(t, "store")
     \/ Load(t) /\ UNCHANGED <<pc, minValue, past>>
  /\ UNCHANGED <<scanVars, count>>

StoreOne(t) ==
  /\ At(t, "store")
  /\ count' = 1
  /\ Goto(t, "load")
  /\ Advance(t)
  /\ UNCHANGED <<minValue, past, current>>

LeaveWhile(t) ==
  /\ At(t, "while") /\ Element(t) >= current[t] /\ Goto(t, "compare")
  /\ UNCHANGED <<scanVars, minValue, count, past, current>>

Compare(t) ==
  /\ At(t, "compare") /\ Load(t)
  /\ \/ Element(t) = current'[t] /\ Goto(t, "add") /\ UNCHANGED scanVars
     \/ Element(t) # current'[t] /\ Goto(t, "load") /\ Advance(t)
  /\ UNCHANGED <<minValue, count, past>>

AddOne(t) ==
  /\ At(t, "add")
  /\ count' = count + 1
  /\ Goto(t, "load")
  /\ Advance(t)
  /\ UNCHANGED <<minValue, past, current>>

ThreadStep(t) ==
  \/ LoadMinimum(t) \/ CompareExchange(t) \/ StoreOne(t) \/ LeaveWhile(t)
  \/ Compare(t) \/ AddOne(t)

Start == StartThread /\ UNCHANGED countVars
Join == JoinAll /\ UNCHANGED countVars

\* The caller has its result.
Finished == joined /\ UNCHANGED vars

Next ==
  \/ Start
  \/ \E t \in ThreadId : ThreadStep(t)
  \/ Join
  \/ Finished

Spec == Init /\ [][Next]_vars

-----------------------------------------------------------------------------
TypeOK ==
  /\ ScanTypeOK
  /\ minValue \in Value \cup {INT_MAX}
  /\ count \in 0..Size
  /\ past \in SUBSET (Value \cup {INT_MAX})
  /\ pc \in [ThreadId -> {"load", "while", "store", "compare", "add"}]
  /\ current \in [ThreadId -> Value \cup {INT_MAX}]
=============================================================================
