------------------------ MODULE MinMaxServerProofs ------------------------
(***************************************************************************)
(* Proofs about the server of lab_4, for every set of clients, every set   *)
(* of matrices and any capacity of the channels.                           *)
(***************************************************************************)
EXTENDS MinMaxServer, SequenceTheorems, TLAPS

(***************************************************************************)
(* Every reply the server puts together is one of the protocol's, and what *)
(* a handler stores is a state the protocol names.                         *)
(***************************************************************************)
LEMMA RepliesAreReplies ==
  /\ \A code \in ErrorCode : ErrorReply(code) \in Reply
  /\ \A status \in StatusCode, result \in Matrix \cup {NoMatrix}, code \in ErrorCode :
        StatusReply(status, result, code) \in Reply
  /\ [type |-> "DATA_OK"] \in Reply
  /\ [type |-> "START_OK"] \in Reply
<1>1. \A code \in ErrorCode : ErrorReply(code) \in Reply
  BY DEF ErrorReply, Reply
<1>2. \A status \in StatusCode, result \in Matrix \cup {NoMatrix}, code \in ErrorCode :
        StatusReply(status, result, code) \in Reply
  BY DEF StatusReply, Reply
<1>3. [type |-> "DATA_OK"] \in Reply /\ [type |-> "START_OK"] \in Reply
  BY DEF Reply
<1> QED
  BY <1>1, <1>2, <1>3

(***************************************************************************)
(* Type correctness.  A handler that is about to send has a reply to send; *)
(* without that, nothing could be said of what reaches the channel.        *)
(***************************************************************************)
\* What a ClientState may hold.
ClientStates == [data: Matrix \cup {NoMatrix}, hasData: BOOLEAN, status: StatusCode,
                 error: ErrorCode, result: Matrix \cup {NoMatrix}]

OutboxFilled == \A c \in Client : pc[c] = "send" => outbox[c] \in Reply
TypeInv == TypeOK /\ OutboxFilled

\* What the commands and the worker do to a ClientState.
LEMMA ClientStateUpdates ==
  ASSUME NEW s \in ClientStates, NEW m \in Matrix \cup {NoMatrix}
  PROVE  /\ [s EXCEPT !.data = m, !.hasData = TRUE, !.status = "READY",
                      !.error = "NONE"] \in ClientStates
         /\ [s EXCEPT !.status = "RUNNING", !.error = "NONE"] \in ClientStates
         /\ [s EXCEPT !.result = m, !.status = "DONE", !.error = "NONE"] \in ClientStates
         /\ [s EXCEPT !.status = "ERROR", !.error = "INTERNAL"] \in ClientStates
<1>1. /\ {"READY", "RUNNING", "DONE", "ERROR"} \subseteq StatusCode
      /\ {"NONE", "INTERNAL"} \subseteq ErrorCode
  BY DEF StatusCode, ErrorCode
<1>2. /\ [s EXCEPT !.data = m, !.hasData = TRUE, !.status = "READY",
                   !.error = "NONE"] \in ClientStates
      /\ [s EXCEPT !.status = "RUNNING", !.error = "NONE"] \in ClientStates
  BY <1>1 DEF ClientStates
<1>3. /\ [s EXCEPT !.result = m, !.status = "DONE", !.error = "NONE"] \in ClientStates
      /\ [s EXCEPT !.status = "ERROR", !.error = "INTERNAL"] \in ClientStates
  BY <1>1 DEF ClientStates
<1> QED
  BY <1>2, <1>3

\* The changes of a handler that has chosen its reply.
LEMMA AnswerKeepsTypes ==
  ASSUME TypeInv,
         NEW c \in Client, NEW reply \in Reply, Answer(c, reply),
         state' \in [Client -> ClientStates],
         worker' \in [Client -> {"none", "computing", "returning", "exited"}],
         job' \in [Client -> Matrix \cup {NoMatrix}]
  PROVE  TypeInv'
<1>1. /\ up' \in BOOLEAN
      /\ peer' \in [Client -> {"away", "connected", "gone"}]
      /\ requests' \in [Client -> Seq(Request)]
      /\ replies' \in [Client -> Seq(Reply)]
  BY DEF TypeInv, TypeOK, Answer
<1>2. /\ pc' \in [Client -> {"none", "recv", "DATA", "START", "STATUS", "INVALID",
                           "join", "send", "cleanup", "closed"}]
      /\ payload' \in [Client -> Matrix \cup {NoMatrix}]
      /\ outbox' \in [Client -> Reply \cup {NoReply}]
  BY DEF TypeInv, TypeOK, Answer, Goto
<1>3. TypeOK'
  BY <1>1, <1>2 DEF TypeOK, ClientStates
<1>4. OutboxFilled'
  BY DEF TypeInv, TypeOK, OutboxFilled, Answer, Goto
<1> QED
  BY <1>3, <1>4 DEF TypeInv

\* A reply is all that changes.
LEMMA OnlyAnswerKeepsTypes ==
  ASSUME TypeInv, NEW c \in Client, NEW reply \in Reply, Answer(c, reply),
         UNCHANGED <<state, worker, job>>
  PROVE  TypeInv'
<1>1. /\ state' \in [Client -> ClientStates]
      /\ worker' \in [Client -> {"none", "computing", "returning", "exited"}]
      /\ job' \in [Client -> Matrix \cup {NoMatrix}]
  BY DEF TypeInv, TypeOK, ClientStates
<1> QED
  BY <1>1, AnswerKeepsTypes

\* The types and OutboxFilled together are inductive.
LEMMA TypeInvariant == Spec => []TypeInv
<1>1. Init => TypeInv
  BY EmptySeq, ServerAssumption
     DEF Init, TypeInv, OutboxFilled, TypeOK, StatusCode, ErrorCode, NoReply
<1>2. TypeInv /\ [Next]_serverVars => TypeInv'
  <2> SUFFICES ASSUME TypeInv, [Next]_serverVars PROVE TypeInv'
    OBVIOUS
  <2> USE DEF TypeInv, OutboxFilled, TypeOK
  <2>1. ASSUME NEW c \in Client, Connect(c) PROVE TypeInv'
    BY <2>1 DEF Connect, handlerVars
  <2>2. ASSUME NEW c \in Client, NEW request \in Request, Send(c, request)
        PROVE  TypeInv'
    <3>1. Append(requests[c], request) \in Seq(Request)
      BY AppendProperties
    <3> QED
      BY <2>2, <3>1 DEF Send, handlerVars
  <2>3. ASSUME NEW c \in Client, Receive(c) PROVE TypeInv'
    <3>1. Tail(replies[c]) \in Seq(Reply)
      BY <2>3, HeadTailProperties DEF Receive
    <3> QED
      BY <2>3, <3>1 DEF Receive, handlerVars
  <2>4. ASSUME NEW c \in Client, Hangup(c) PROVE TypeInv'
    <3>1. << >> \in Seq(Reply) /\ << >> \in Seq(Request)
      BY EmptySeq
    <3>2. requests' \in [Client -> Seq(Request)] /\ replies' \in [Client -> Seq(Reply)]
      BY <2>4, <3>1 DEF Hangup
    <3> QED
      BY <2>4, <3>2 DEF Hangup, handlerVars
  <2>5. CASE Terminate
    BY <2>5 DEF Terminate, handlerVars
  <2>20. ASSUME NEW c \in Client, AllocationFails(c) PROVE TypeInv'
    BY <2>5, <2>20 DEF AllocationFails
  <2>6. ASSUME NEW c \in Client, Accept(c) PROVE TypeInv'
    BY <2>5, <2>6 DEF Accept, Goto
  <2>7. ASSUME NEW c \in Client, RecvMessage(c) PROVE TypeInv'
    <3>1. /\ Head(requests[c]) \in Request
          /\ Tail(requests[c]) \in Seq(Request)
      BY <2>7, HeadTailProperties DEF RecvMessage
    <3>2. /\ Head(requests[c]).type \in {"DATA", "START", "STATUS", "INVALID", "GARBAGE"}
          /\ Head(requests[c]).type = "DATA" => Head(requests[c]).matrix \in Matrix
      BY <3>1 DEF Request
    <3> QED
      BY <2>7, <3>1, <3>2 DEF RecvMessage, Goto
  <2>8. ASSUME NEW c \in Client, RecvFails(c) PROVE TypeInv'
    BY <2>8 DEF RecvFails, Goto
  <2>9. ASSUME NEW c \in Client, SendReply(c) PROVE TypeInv'
    <3>1. Append(replies[c], outbox[c]) \in Seq(Reply)
      BY <2>9, AppendProperties DEF SendReply, At
    <3>2. replies' \in [Client -> Seq(Reply)]
      BY <2>9, <3>1 DEF SendReply
    <3>3. /\ outbox' = [outbox EXCEPT ![c] = NoReply]
          /\ UNCHANGED <<up, peer, requests, payload, state, worker, job>>
      BY <2>9 DEF SendReply
    <3>4. Goto(c, "recv") \/ Goto(c, "cleanup")
      BY <2>9 DEF SendReply
    <3>5. pc' \in [Client -> {"none", "recv", "DATA", "START", "STATUS", "INVALID",
                             "join", "send", "cleanup", "closed"}]
      BY <3>4 DEF Goto
    <3>6. outbox' \in [Client -> Reply \cup {NoReply}]
      BY <3>3
    <3>7. OutboxFilled'
      BY <3>3, <3>4 DEF Goto
    <3> QED
      BY <3>2, <3>3, <3>5, <3>6, <3>7
  <2>10. ASSUME NEW c \in Client, RejectInvalid(c) PROVE TypeInv'
    <3> HIDE DEF TypeInv, TypeOK, OutboxFilled
    <3>1. ErrorReply("INVALID_PAYLOAD") \in Reply
      BY RepliesAreReplies DEF ErrorCode
    <3> QED
      BY <2>10, <3>1, OnlyAnswerKeepsTypes DEF RejectInvalid
  <2>11. ASSUME NEW c \in Client, StoreData(c),
                UNCHANGED worker \/ worker' = [worker EXCEPT ![c] = "none"]
         PROVE  TypeInv'
    <3>1. state[c] \in ClientStates /\ payload[c] \in Matrix \cup {NoMatrix}
      BY DEF ClientStates
    <3>2. state' = [state EXCEPT ![c] =
                      [state[c] EXCEPT !.data = payload[c], !.hasData = TRUE,
                                       !.status = "READY", !.error = "NONE"]]
      BY <2>11 DEF StoreData
    <3>3. state' \in [Client -> ClientStates]
      BY <3>1, <3>2, ClientStateUpdates DEF ClientStates
    <3>4. /\ worker' \in [Client -> {"none", "computing", "returning", "exited"}]
          /\ job' \in [Client -> Matrix \cup {NoMatrix}]
      BY <2>11 DEF StoreData
    <3> HIDE DEF TypeInv, TypeOK, OutboxFilled
    <3>5. [type |-> "DATA_OK"] \in Reply
      BY RepliesAreReplies
    <3>6. Answer(c, [type |-> "DATA_OK"])
      BY <2>11 DEF StoreData
    <3> QED
      BY <3>3, <3>4, <3>5, <3>6, AnswerKeepsTypes
  <2>12. ASSUME NEW c \in Client, HandleData(c) PROVE TypeInv'
    <3>1. CASE StoreData(c) /\ UNCHANGED worker
      BY <3>1, <2>11
    <3>2. CASE Running(c) /\ Answer(c, ErrorReply("ALREADY_RUNNING"))
                 /\ UNCHANGED <<state, worker, job>>
      <4> HIDE DEF TypeInv, TypeOK, OutboxFilled
      <4>1. ErrorReply("ALREADY_RUNNING") \in Reply
        BY RepliesAreReplies DEF ErrorCode
      <4> QED
        BY <3>2, <4>1, OnlyAnswerKeepsTypes
    <3>3. CASE /\ Goto(c, "join")
               /\ UNCHANGED <<up, peer, requests, replies, payload, outbox,
                              state, worker, job>>
      BY <3>3 DEF Goto
    <3> QED
      BY <2>12, <3>1, <3>2, <3>3 DEF HandleData
  <2>13. ASSUME NEW c \in Client, JoinThenStore(c) PROVE TypeInv'
    BY <2>11, <2>13 DEF JoinThenStore
  <2>14. ASSUME NEW c \in Client, HandleStart(c) PROVE TypeInv'
    <3>1. ASSUME NEW code \in {"NO_DATA", "ALREADY_RUNNING"},
                 Answer(c, ErrorReply(code)), UNCHANGED <<state, worker, job>>
          PROVE  TypeInv'
      <4> HIDE DEF TypeInv, TypeOK, OutboxFilled
      <4>1. ErrorReply(code) \in Reply
        BY RepliesAreReplies DEF ErrorCode
      <4> QED
        BY <3>1, <4>1, OnlyAnswerKeepsTypes
    <3>2. ASSUME state' = [state EXCEPT ![c].status = "RUNNING", ![c].error = "NONE"],
                 worker' = [worker EXCEPT ![c] = "computing"],
                 job' = [job EXCEPT ![c] = state[c].data],
                 Answer(c, [type |-> "START_OK"])
          PROVE  TypeInv'
      <4>1. state[c] \in ClientStates /\ state[c].data \in Matrix \cup {NoMatrix}
        BY DEF ClientStates
      <4>2. state' = [state EXCEPT ![c] =
                        [state[c] EXCEPT !.status = "RUNNING", !.error = "NONE"]]
        BY <3>2
      <4>3. state' \in [Client -> ClientStates]
        BY <4>1, <4>2, ClientStateUpdates DEF ClientStates
      <4>4. /\ worker' \in [Client -> {"none", "computing", "returning", "exited"}]
            /\ job' \in [Client -> Matrix \cup {NoMatrix}]
        BY <3>2, <4>1
      <4> HIDE DEF TypeInv, TypeOK, OutboxFilled
      <4>5. [type |-> "START_OK"] \in Reply
        BY RepliesAreReplies
      <4> QED
        BY <3>2, <4>3, <4>4, <4>5, AnswerKeepsTypes
    <3> QED
      BY <2>5, <2>14, <3>1, <3>2 DEF HandleStart
  <2>15. ASSUME NEW c \in Client, HandleStatus(c) PROVE TypeInv'
    <3> DEFINE result == IF state[c].status = "DONE" THEN state[c].result ELSE NoMatrix
               reply == StatusReply(state[c].status, result, state[c].error)
    <3>1. reply \in Reply
      BY RepliesAreReplies
    <3>2. Answer(c, reply) /\ UNCHANGED <<state, worker, job>>
      BY <2>15 DEF HandleStatus
    <3> HIDE DEF reply, TypeInv, TypeOK, OutboxFilled
    <3> QED
      BY <3>1, <3>2, OnlyAnswerKeepsTypes
  <2>16. ASSUME NEW c \in Client, Cleanup(c) PROVE TypeInv'
    BY <2>16 DEF Cleanup, Goto
  <2>17. ASSUME NEW c \in Client, NEW new \in ClientStates, Finish(c, new)
         PROVE  TypeInv'
    <3>1. state' \in [Client -> ClientStates]
      BY <2>17 DEF Finish, ClientStates
    <3>2. worker' \in [Client -> {"none", "computing", "returning", "exited"}]
      BY <2>17 DEF Finish
    <3> QED
      BY <2>17, <3>1, <3>2 DEF Finish, ClientStates
  <2>18. ASSUME NEW c \in Client, WorkerStep(c) PROVE TypeInv'
    <3>0. state[c] \in ClientStates /\ job[c] \in Matrix \cup {NoMatrix}
      BY DEF ClientStates
    <3>1. CASE StoreResult(c)
      <4> HIDE DEF TypeInv, TypeOK, OutboxFilled
      <4> QED
        BY <3>0, <3>1, <2>17, ClientStateUpdates DEF StoreResult
    <3>2. CASE ComputationFails(c)
      <4> HIDE DEF TypeInv, TypeOK, OutboxFilled
      <4> QED
        BY <3>0, <3>2, <2>5, <2>17, ClientStateUpdates DEF ComputationFails
    <3>3. CASE Exit(c)
      BY <3>3 DEF Exit
    <3> QED
      BY <2>18, <3>1, <3>2, <3>3 DEF WorkerStep
  <2>19. CASE UNCHANGED serverVars
    BY <2>19 DEF serverVars
  <2> QED
    BY <2>1, <2>2, <2>3, <2>4, <2>6, <2>7, <2>8, <2>9, <2>10, <2>12, <2>13,
       <2>14, <2>15, <2>16, <2>18, <2>19, <2>20
       DEF Next, ClientStep, HandlerStep, Finished
<1> QED
  BY <1>1, <1>2, PTL DEF Spec

(***************************************************************************)
(* Whatever arrives, the handlers, the workers and the channels hold only  *)
(* what server.cpp and the protocol name; in particular no handler is ever *)
(* at a label that a malformed message chose.                              *)
(***************************************************************************)
THEOREM TypeCorrect == Spec => []TypeOK
<1>1. TypeInv => TypeOK
  BY DEF TypeInv
<1> QED
  BY <1>1, TypeInvariant, PTL

-----------------------------------------------------------------------------
(***************************************************************************)
(* What ties a connection's handler, its worker and its ClientState        *)
(* together.  NoJoinDeadlock and DoneMeansCurrent are not inductive: the   *)
(* first needs that a connection that is not RUNNING has no computing      *)
(* worker, and the second that the matrix does not change under one that   *)
(* computes.                                                               *)
(***************************************************************************)
ConnectionInv(c) ==
  /\ state[c].status = "RUNNING" <=> worker[c] = "computing"
  /\ worker[c] = "computing" => job[c] = state[c].data /\ state[c].hasData
  /\ state[c].status = "DONE" => state[c].result = state[c].data /\ state[c].hasData
  /\ pc[c] = "join" => worker[c] \in {"returning", "exited"}
  /\ pc[c] \in {"none", "closed"} => worker[c] = "none"

ServerInv == \A c \in Client : ConnectionInv(c)

\* All that ConnectionInv reads of the other connections.
OthersSame(c) ==
  \A d \in Client \ {c} : /\ pc'[d] = pc[d]
                          /\ state'[d] = state[d]
                          /\ worker'[d] = worker[d]
                          /\ job'[d] = job[d]

\* A step of one connection cannot disturb another.
LEMMA Locality ==
  ASSUME ServerInv, NEW c \in Client, OthersSame(c), ConnectionInv(c)'
  PROVE  ServerInv'
<1> SUFFICES ASSUME NEW d \in Client PROVE ConnectionInv(d)'
  BY DEF ServerInv
<1>1. CASE d = c
  BY <1>1
<1>2. CASE d # c
  BY <1>2 DEF OthersSame, ServerInv, ConnectionInv
<1> QED
  BY <1>1, <1>2

\* Handler steps that only move to another label.
LEMMA MoveKeepsInv ==
  ASSUME TypeOK, ServerInv, NEW c \in Client, NEW label, Goto(c, label),
         UNCHANGED <<state, worker, job>>,
         label = "join" => worker[c] \in {"returning", "exited"},
         label \notin {"none", "closed"}
  PROVE  ServerInv'
<1>1. pc' = [pc EXCEPT ![c] = label] /\ pc \in [Client -> {"none", "recv", "DATA",
         "START", "STATUS", "INVALID", "join", "send", "cleanup", "closed"}]
  BY DEF Goto, TypeOK
<1>2. OthersSame(c)
  BY <1>1 DEF OthersSame
<1>3. ConnectionInv(c)'
  BY <1>1 DEF ServerInv, ConnectionInv
<1> QED
  BY <1>2, <1>3, Locality

\* A command that only answers moves to the label "send".
LEMMA AnswerMoves ==
  ASSUME TypeOK, ServerInv, NEW c \in Client, NEW reply, Answer(c, reply),
         UNCHANGED <<state, worker, job>>
  PROVE  ServerInv'
<1>1. Goto(c, "send")
  BY DEF Answer
<1> QED
  BY <1>1, MoveKeepsInv

\* The end of handleDataCommand, once the last worker has been joined.
LEMMA StoreDataKeepsInv ==
  ASSUME TypeOK, ServerInv, NEW c \in Client, StoreData(c),
         worker' = [worker EXCEPT ![c] = "none"]
  PROVE  ServerInv'
<1>1. /\ pc' = [pc EXCEPT ![c] = "send"]
      /\ state' = [state EXCEPT ![c].data = payload[c], ![c].hasData = TRUE,
                                ![c].status = "READY", ![c].error = "NONE"]
      /\ job' = job
  BY DEF StoreData, Answer, Goto
<1>2. /\ pc \in [Client -> {"none", "recv", "DATA", "START", "STATUS", "INVALID",
                          "join", "send", "cleanup", "closed"}]
      /\ state \in [Client -> ClientStates]
      /\ worker \in [Client -> {"none", "computing", "returning", "exited"}]
  BY DEF TypeOK, ClientStates
<1>3. OthersSame(c)
  BY <1>1, <1>2 DEF OthersSame
<1>4. /\ pc'[c] = "send" /\ worker'[c] = "none" /\ state'[c].status = "READY"
  BY <1>1, <1>2 DEF ClientStates
<1>5. ConnectionInv(c)'
  BY <1>4 DEF ConnectionInv
<1> QED
  BY <1>3, <1>5, Locality

\* A worker that is done: what it leaves in the ClientState has another
\* status than RUNNING, and its result if the status is DONE.
LEMMA FinishKeepsInv ==
  ASSUME TypeOK, ServerInv, NEW c \in Client, NEW new \in ClientStates, Finish(c, new),
         new.status # "RUNNING",
         new.status = "DONE" => new.result = new.data /\ new.hasData
  PROVE  ServerInv'
<1>1. /\ worker[c] = "computing" /\ pc' = pc /\ job' = job
      /\ state' = [state EXCEPT ![c] = new]
      /\ worker' = [worker EXCEPT ![c] = "returning"]
  BY DEF Finish
<1>2. /\ state \in [Client -> ClientStates]
      /\ worker \in [Client -> {"none", "computing", "returning", "exited"}]
  BY DEF TypeOK, ClientStates
<1>3. OthersSame(c)
  BY <1>1, <1>2 DEF OthersSame
<1>4. state'[c] = new /\ worker'[c] = "returning"
  BY <1>1, <1>2
<1>5. ConnectionInv(c)'
  BY <1>1, <1>4 DEF ServerInv, ConnectionInv
<1> QED
  BY <1>3, <1>5, Locality

\* Every step of the server and of its clients keeps ConnectionInv.
LEMMA ServerInvariant == Spec => []ServerInv
<1>1. Init => ServerInv
  <2> SUFFICES ASSUME Init, NEW c \in Client PROVE ConnectionInv(c)
    BY DEF ServerInv
  <2>1. pc[c] = "none" /\ worker[c] = "none" /\ state[c].status = "IDLE"
    BY DEF Init
  <2> QED
    BY <2>1 DEF ConnectionInv
<1>2. TypeOK /\ ServerInv /\ [Next]_serverVars => ServerInv'
  <2> SUFFICES ASSUME TypeOK, ServerInv, [Next]_serverVars PROVE ServerInv'
    OBVIOUS
  <2>0. /\ pc \in [Client -> {"none", "recv", "DATA", "START", "STATUS", "INVALID",
                            "join", "send", "cleanup", "closed"}]
        /\ state \in [Client -> ClientStates]
        /\ worker \in [Client -> {"none", "computing", "returning", "exited"}]
        /\ job \in [Client -> Matrix \cup {NoMatrix}]
    BY DEF TypeOK, ClientStates
  <2>1. CASE UNCHANGED <<pc, state, worker, job>>
    BY <2>1 DEF ServerInv, ConnectionInv
  <2>2. ASSUME NEW c \in Client, ClientStep(c) PROVE ServerInv'
    BY <2>1, <2>2 DEF ClientStep, Connect, Send, Receive, Hangup, handlerVars
  <2>3. CASE Terminate
    BY <2>1, <2>3 DEF Terminate, handlerVars
  <2>4. ASSUME NEW c \in Client, Accept(c) PROVE ServerInv'
    BY <2>3, <2>4, MoveKeepsInv DEF Accept
  <2>17. ASSUME NEW c \in Client, AllocationFails(c) PROVE ServerInv'
    BY <2>3, <2>17 DEF AllocationFails
  <2>5. ASSUME NEW c \in Client, RecvMessage(c) PROVE ServerInv'
    <3>1. Head(requests[c]) \in Request
      BY <2>5, HeadTailProperties DEF RecvMessage, TypeOK
    <3>2. Head(requests[c]).type \in {"DATA", "START", "STATUS", "INVALID", "GARBAGE"}
      BY <3>1 DEF Request
    <3> DEFINE label == IF Head(requests[c]).type = "GARBAGE" THEN "cleanup"
                        ELSE Head(requests[c]).type
    <3>3. Goto(c, label) /\ UNCHANGED <<state, worker, job>>
      BY <2>5 DEF RecvMessage
    <3>4. label \notin {"join", "none", "closed"}
      BY <3>2
    <3> HIDE DEF label
    <3> QED
      BY <3>3, <3>4, MoveKeepsInv
  <2>6. ASSUME NEW c \in Client, RecvFails(c) PROVE ServerInv'
    BY <2>6, MoveKeepsInv DEF RecvFails
  <2>7. ASSUME NEW c \in Client, SendReply(c) PROVE ServerInv'
    <3>1. Goto(c, "recv") \/ Goto(c, "cleanup")
      BY <2>7 DEF SendReply
    <3>2. UNCHANGED <<state, worker, job>>
      BY <2>7 DEF SendReply
    <3> QED
      BY <3>1, <3>2, MoveKeepsInv
  <2>8. ASSUME NEW c \in Client, RejectInvalid(c) \/ HandleStatus(c) PROVE ServerInv'
    BY <2>8, AnswerMoves DEF RejectInvalid, HandleStatus
  <2>9. ASSUME NEW c \in Client, HandleData(c) PROVE ServerInv'
    <3>1. CASE Answer(c, ErrorReply("ALREADY_RUNNING")) /\ UNCHANGED <<state, worker, job>>
      BY <3>1, AnswerMoves
    <3>2. CASE /\ ~Running(c) /\ Joinable(c) /\ Goto(c, "join")
               /\ UNCHANGED <<state, worker, job>>
      <4>1. worker[c] \in {"returning", "exited"}
        BY <2>0, <3>2 DEF Running, Joinable, ServerInv, ConnectionInv
      <4> QED
        BY <3>2, <4>1, MoveKeepsInv
    <3>3. CASE ~Joinable(c) /\ StoreData(c) /\ UNCHANGED worker
      <4>1. worker' = [worker EXCEPT ![c] = "none"]
        BY <2>0, <3>3 DEF Joinable
      <4> QED
        BY <3>3, <4>1, StoreDataKeepsInv
    <3> QED
      BY <2>9, <3>1, <3>2, <3>3 DEF HandleData
  <2>10. ASSUME NEW c \in Client, JoinThenStore(c) PROVE ServerInv'
    BY <2>10, StoreDataKeepsInv DEF JoinThenStore
  <2>11. ASSUME NEW c \in Client, HandleStart(c) PROVE ServerInv'
    <3>1. ASSUME NEW reply, Answer(c, reply), UNCHANGED <<state, worker, job>>
          PROVE  ServerInv'
      BY <3>1, AnswerMoves
    <3>2. ASSUME state[c].hasData,
                 state' = [state EXCEPT ![c].status = "RUNNING", ![c].error = "NONE"],
                 worker' = [worker EXCEPT ![c] = "computing"],
                 job' = [job EXCEPT ![c] = state[c].data],
                 Answer(c, [type |-> "START_OK"])
          PROVE  ServerInv'
      <4>1. pc' = [pc EXCEPT ![c] = "send"]
        BY <3>2 DEF Answer, Goto
      <4>2. OthersSame(c)
        BY <2>0, <3>2, <4>1 DEF OthersSame
      <4>3. /\ pc'[c] = "send" /\ worker'[c] = "computing"
            /\ job'[c] = state[c].data
            /\ state'[c] = [state[c] EXCEPT !.status = "RUNNING", !.error = "NONE"]
        BY <2>0, <3>2, <4>1
      <4>4. /\ state'[c].status = "RUNNING" /\ state'[c].data = state[c].data
            /\ state'[c].hasData = state[c].hasData
        BY <2>0, <4>3 DEF ClientStates
      <4>5. ConnectionInv(c)'
        BY <3>2, <4>3, <4>4 DEF ConnectionInv
      <4> QED
        BY <4>2, <4>5, Locality
    <3> QED
      BY <2>3, <2>11, <3>1, <3>2 DEF HandleStart
  <2>12. ASSUME NEW c \in Client, Cleanup(c) PROVE ServerInv'
    <3>1. /\ worker[c] # "computing" /\ worker' = [worker EXCEPT ![c] = "none"]
          /\ pc' = [pc EXCEPT ![c] = "closed"] /\ state' = state /\ job' = job
      BY <2>12 DEF Cleanup, Goto
    <3>2. OthersSame(c)
      BY <2>0, <3>1 DEF OthersSame
    <3>3. worker'[c] = "none" /\ pc'[c] = "closed" /\ state[c].status # "RUNNING"
      BY <2>0, <3>1 DEF ServerInv, ConnectionInv
    <3>4. ConnectionInv(c)'
      BY <3>1, <3>3 DEF ServerInv, ConnectionInv
    <3> QED
      BY <3>2, <3>4, Locality
  <2>13. ASSUME NEW c \in Client, StoreResult(c) PROVE ServerInv'
    <3> DEFINE new == [state[c] EXCEPT !.result = job[c], !.status = "DONE",
                                       !.error = "NONE"]
    <3>1. state[c] \in ClientStates /\ job[c] \in Matrix \cup {NoMatrix}
      BY <2>0
    <3>2. new \in ClientStates
      BY <3>1, ClientStateUpdates
    <3>3. Finish(c, new) /\ worker[c] = "computing"
      BY <2>13 DEF StoreResult, Finish
    <3>4. job[c] = state[c].data /\ state[c].hasData
      BY <3>3 DEF ServerInv, ConnectionInv
    <3>5. new.status = "DONE" /\ new.result = new.data /\ new.hasData
      BY <3>1, <3>4 DEF ClientStates
    <3> HIDE DEF new
    <3> QED
      BY <3>2, <3>3, <3>5, FinishKeepsInv
  <2>14. ASSUME NEW c \in Client, ComputationFails(c) PROVE ServerInv'
    <3> DEFINE new == [state[c] EXCEPT !.status = "ERROR", !.error = "INTERNAL"]
    <3>1. state[c] \in ClientStates /\ job[c] \in Matrix \cup {NoMatrix}
      BY <2>0
    <3>2. new \in ClientStates
      BY <3>1, ClientStateUpdates
    <3>3. new.status = "ERROR"
      BY <3>1 DEF ClientStates
    <3>4. Finish(c, new) \/ Terminate
      BY <2>14 DEF ComputationFails
    <3> HIDE DEF new
    <3> QED
      BY <2>3, <3>2, <3>3, <3>4, FinishKeepsInv
  <2>15. ASSUME NEW c \in Client, Exit(c) PROVE ServerInv'
    <3>1. /\ worker[c] = "returning" /\ worker' = [worker EXCEPT ![c] = "exited"]
          /\ pc' = pc /\ state' = state /\ job' = job
      BY <2>15 DEF Exit
    <3>2. OthersSame(c) /\ worker'[c] = "exited"
      BY <2>0, <3>1 DEF OthersSame
    <3>3. ConnectionInv(c)'
      BY <3>1, <3>2 DEF ServerInv, ConnectionInv
    <3> QED
      BY <3>2, <3>3, Locality
  <2>16. CASE UNCHANGED serverVars
    BY <2>1, <2>16 DEF serverVars
  <2> QED
    BY <2>2, <2>4, <2>5, <2>6, <2>7, <2>8, <2>9, <2>10, <2>11, <2>12, <2>13,
       <2>14, <2>15, <2>16, <2>17
       DEF Next, HandlerStep, WorkerStep, Finished
<1> QED
  BY <1>1, <1>2, TypeCorrect, PTL DEF Spec

(***************************************************************************)
(* Whatever the clients send and in whatever order the threads run, the    *)
(* result a STATUS command reports as DONE is that of the last accepted    *)
(* matrix.                                                                 *)
(***************************************************************************)
THEOREM ResultsCurrent == Spec => []DoneMeansCurrent
<1>1. ServerInv => DoneMeansCurrent
  BY DEF ServerInv, ConnectionInv, DoneMeansCurrent
<1> QED
  BY <1>1, ServerInvariant, PTL

(***************************************************************************)
(* handleDataCommand joins with the mutex held; the worker it waits for    *)
(* has released that mutex for good.                                       *)
(***************************************************************************)
THEOREM JoinTerminates == Spec => []NoJoinDeadlock
<1>1. ServerInv => NoJoinDeadlock
  BY DEF ServerInv, ConnectionInv, NoJoinDeadlock
<1> QED
  BY <1>1, ServerInvariant, PTL

(***************************************************************************)
(* The status RUNNING and a computing worker go together.                  *)
(***************************************************************************)
THEOREM RunningIsWorker == Spec => []RunningMeansWorker
<1>1. ServerInv => RunningMeansWorker
  BY DEF ServerInv, ConnectionInv, RunningMeansWorker
<1> QED
  BY <1>1, ServerInvariant, PTL

(***************************************************************************)
(* handleClient returns, and destroys the ClientState, only when no worker *)
(* of its connection is left.                                              *)
(***************************************************************************)
THEOREM WorkersJoined == Spec => []NoOrphanWorker
<1>1. ServerInv => NoOrphanWorker
  BY DEF ServerInv, ConnectionInv, NoOrphanWorker
<1> QED
  BY <1>1, ServerInvariant, PTL
=============================================================================
