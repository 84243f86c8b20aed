--------------------------- MODULE MinMaxSession ---------------------------
(***************************************************************************)
(* The server of lab_4 with the clients the repository ships: client.cpp   *)
(* and go_client/main.go, which take the same steps.  Each client sends    *)
(* DATA, then START, waiting for the acknowledgement of each, and polls    *)
(* with STATUS until the computation is over.  A client is also the name   *)
(* of the matrix it generates.                                             *)
(***************************************************************************)
EXTENDS Naturals, Sequences

CONSTANTS Client, NoMatrix, MaxPending, ResourcesMayFail    \* see MinMaxServer

VARIABLES
  up, peer, requests, replies, pc, payload, outbox, state, worker, job,
  step,     \* where the main of each client is
  shown     \* the result it printed

serverVars == <<up, peer, requests, replies, pc, payload, outbox, state, worker, job>>
vars == <<serverVars, step, shown>>

Server == INSTANCE MinMaxServer WITH Matrix <- Client

ASSUME SessionAssumption == Server!ServerAssumption

Init ==
  /\ Server!Init
  /\ step = [c \in Client |-> "connect"]
  /\ shown = [c \in Client |-> NoMatrix]

Goto(c, label) == step' = [step EXCEPT ![c] = label]

\* The client reports what it has and goes on to closeSocket.
Over(c) == step[c] \in {"result", "error", "failed"}

-----------------------------------------------------------------------------
ConnectToServer(c) ==
  /\ step[c] = "connect" /\ Goto(c, "sendData")
  /\ Server!Connect(c)
  /\ UNCHANGED shown

\* sendMessage of the DATA, the START and each STATUS request.
SendRequest(c) ==
  /\ \/ /\ step[c] = "sendData" /\ Goto(c, "recvDataOk")
        /\ Server!Send(c, [type |-> "DATA", matrix |-> c])
     \/ /\ step[c] = "sendStart" /\ Goto(c, "recvStartOk")
        /\ Server!Send(c, [type |-> "START"])
     \/ /\ step[c] = "sendStatus" /\ Goto(c, "recvStatus")
        /\ Server!Send(c, [type |-> "STATUS"])
  /\ UNCHANGED shown

\* The reply that recvExpected waits for at each step.
Expected == [recvDataOk |-> "DATA_OK", recvStartOk |-> "START_OK",
             recvStatus |-> "STATUS_RESP"]

Receiving(c) == step[c] \in DOMAIN Expected

\* Mutant of AfterStatus: every status is taken for the last.
AfterStatusHasty(reply) == IF reply.status = "ERROR" THEN "error" ELSE "result"

\* Mutant of AfterStatus: an unfinished computation is started again.
AfterStatusRestart(reply) ==
  CASE reply.status = "DONE" -> "result"
    [] reply.status = "ERROR" -> "error"
    [] OTHER -> "sendStart"

\* The status decides whether the client polls again (after 100 ms).
AfterStatus(reply) ==
  CASE reply.status = "DONE" -> "result"
    [] reply.status = "ERROR" -> "error"
    [] OTHER -> "sendStatus"

\* recvExpected, and what main does with the reply.
ReceiveReply(c) ==
  /\ Receiving(c) /\ replies[c] # <<>>
  /\ LET reply == Head(replies[c])
         next == CASE reply.type # Expected[step[c]] -> "failed"
                   [] step[c] = "recvDataOk" -> "sendStart"
                   [] step[c] = "recvStartOk" -> "sendStatus"
                   [] OTHER -> AfterStatus(reply)
     IN  /\ Goto(c, next)
         /\ shown' = IF next = "result" THEN [shown EXCEPT ![c] = reply.result]
                                        ELSE shown
  /\ Server!Receive(c)

\* connect, sendMessage or recvMessage fails.
CallFails(c) ==
  /\ ~Over(c) /\ Goto(c, "failed")
  /\ UNCHANGED <<serverVars, shown>>

Close(c) ==
  /\ Over(c)
  /\ Server!Hangup(c)
  /\ UNCHANGED <<step, shown>>

ClientStep(c) ==
  \/ ConnectToServer(c) \/ SendRequest(c) \/ ReceiveReply(c) \/ Close(c)
  \/ ~up /\ CallFails(c)

ServerStep(c) ==
  /\ Server!HandlerStep(c) \/ Server!WorkerStep(c)
  /\ UNCHANGED <<step, shown>>

\* Every client has ended and, unless the process is gone, every handler.
Finished ==
  /\ \A c \in Client :
       /\ Over(c) /\ peer[c] # "connected"
       /\ up => pc[c] = "closed" \/ peer[c] = "away"
  /\ UNCHANGED vars

Next ==
  \/ \E c \in Client : ClientStep(c) \/ CallFails(c) \/ ServerStep(c)
  \/ Finished

Spec == Init /\ [][Next]_vars

(***************************************************************************)
(* Clients and handlers keep running; a connection owes no failure.  The   *)
(* worker's fairness is strong: its only obstacle is the mutex, which the  *)
(* handler takes for each STATUS and leaves free for the 100 ms between    *)
(* two of them.                                                            *)
(***************************************************************************)
Fairness ==
  \A c \in Client :
    /\ WF_vars(ClientStep(c))
    /\ WF_vars(Server!HandlerStep(c) /\ UNCHANGED <<step, shown>>)
    /\ SF_vars(Server!WorkerStep(c) /\ UNCHANGED <<step, shown>>)

FairSpec == Spec /\ Fairness

-----------------------------------------------------------------------------
(***************************************************************************)
(* A client that prints a result prints that of the matrix it generated,   *)
(* whatever the other clients do at the same time.                         *)
(***************************************************************************)
ShowsOwnResult ==
  \A c \in Client : step[c] = "result" <=> shown[c] = c

(***************************************************************************)
(* The client and the server agree on the protocol: the reply the client   *)
(* finds is the one it expects, there is never more than one under way,    *)
(* and none when it is the client's turn to speak.                         *)
(***************************************************************************)
RepliesAsExpected ==
  \A c \in Client :
    /\ Receiving(c) => Len(requests[c]) + Len(replies[c]) <= 1
    /\ replies[c] # <<>> /\ ~Over(c) =>
         Receiving(c) /\ Head(replies[c]).type = Expected[step[c]]

(***************************************************************************)
(* With these clients the worker of a connection is never overwritten      *)
(* while joinable, so they do not terminate the server: whenever it comes  *)
(* to a START the previous worker has been joined.                         *)
(***************************************************************************)
StartFindsNoWorker ==
  \A c \in Client : up /\ pc[c] = "START" => worker[c] = "none"

(***************************************************************************)
(* Every client is answered: it prints its result unless one of its calls  *)
(* fails or the computation has really failed for lack of threads.         *)
(***************************************************************************)
EveryClientAnswered ==
  \A c \in Client :
    <>(\/ step[c] \in {"result", "failed"}
       \/ step[c] = "error" /\ state[c].error = "INTERNAL")
=============================================================================
