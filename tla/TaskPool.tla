------------------------------ MODULE TaskPool ------------------------------
(***************************************************************************)
(* What lab_3's thread pool promises its callers, without threads, locks   *)
(* or condition variables (thread_pool.h, the comments on the methods):    *)
(* every task goes once through                                            *)
(*                                                                         *)
(*     new -> rejected                                                     *)
(*     new -> queued -> discarded                                          *)
(*     new -> queued -> running -> finished | cancelled                    *)
(*                                                                         *)
(* tasks start in the order of their acceptance, at most Width of them run *)
(* at a time, and a task is rejected only when the line is full or the     *)
(* pool is closed, cancelled or discarded only by an immediate shutdown.   *)
(***************************************************************************)
EXTENDS Naturals, Sequences, FiniteSets

CONSTANTS Task, Capacity, Width

VARIABLES
  status,    \* the stage each task has reached
  line,      \* the queued tasks, the next to run first
  closed,    \* a shutdown has begun
  killed     \* an immediate shutdown has begun

poolVars == <<status, line, closed, killed>>

Init ==
  /\ status = [t \in Task |-> "new"]
  /\ line = <<>>
  /\ closed = FALSE
  /\ killed = FALSE

Move(t, from, to) ==
  status[t] = from /\ status' = [status EXCEPT ![t] = to]

Running == {t \in Task : status[t] = "running"}

Accept(t) ==
  /\ ~closed /\ Len(line) < Capacity
  /\ Move(t, "new", "queued")
  /\ line' = Append(line, t)
  /\ UNCHANGED <<closed, killed>>

Reject(t) ==
  /\ closed \/ Len(line) = Capacity
  /\ Move(t, "new", "rejected")
  /\ UNCHANGED <<line, closed, killed>>

Begin ==
  /\ line # <<>> /\ Cardinality(Running) < Width
  /\ Move(Head(line), "queued", "running")
  /\ line' = Tail(line)
  /\ UNCHANGED <<closed, killed>>

End(t) ==
  /\ Move(t, "running", "finished") \/ (killed /\ Move(t, "running", "cancelled"))
  /\ UNCHANGED <<line, closed, killed>>

Close ==
  /\ closed' = TRUE
  /\ UNCHANGED <<status, line, killed>>

Kill ==
  /\ killed' = TRUE
  /\ UNCHANGED <<status, line, closed>>

\* The immediate shutdown closes the pool and throws the line away.
Discard ==
  /\ killed
  /\ closed' = TRUE
  /\ line' = <<>>
  /\ status' = [t \in Task |->
                  IF status[t] = "queued" THEN "discarded" ELSE status[t]]
  /\ UNCHANGED killed

Next ==
  \/ \E t \in Task : Accept(t) \/ Reject(t) \/ End(t)
  \/ Begin
  \/ Close
  \/ Kill
  \/ Discard

Spec == Init /\ [][Next]_poolVars
=============================================================================
