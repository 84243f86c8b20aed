---------------------------- MODULE MinMaxServer ----------------------------
(***************************************************************************)
(* The server of lab_4 (server.cpp): one detached handler thread per       *)
(* connection and, between START and the end of the computation, one       *)
(* worker thread per connection.  Connections share nothing but the        *)
(* process: an uncaught exception, or a std::thread destroyed or           *)
(* overwritten while joinable, terminates it for all of them.              *)
(*                                                                         *)
(* Abstractions.  A matrix is a model value and stands for its own         *)
(* minimum and maximum, so a result is the matrix it was computed from     *)
(* (how it is found is not modelled here).  A message is what its          *)
(* receiver makes of it: "INVALID" is a payload or type that the server    *)
(* answers with ERR_INVALID_PAYLOAD, "GARBAGE" a header recvMessage        *)
(* refuses.  A connection is two FIFO channels.                            *)
(*                                                                         *)
(* The handlers of DATA, START and STATUS hold ClientState::mutex until    *)
(* sendMessage has returned, and handleDataCommand holds it while it joins *)
(* the previous worker.                                                    *)
(***************************************************************************)
EXTENDS Naturals, Sequences

CONSTANTS Client, Matrix, NoMatrix,
          MaxPending,      \* bound on the messages under way in a channel
          ResourcesMayFail \* whether threads and memory can be refused

ASSUME ServerAssumption ==
  NoMatrix \notin Matrix /\ MaxPending \in Nat /\ ResourcesMayFail \in BOOLEAN

VARIABLES
  up,         \* the server process has not been terminated
  peer,       \* the client's end of each connection
  requests,   \* client to server
  replies,    \* server to client
  pc,         \* where the handler thread of each connection is
  payload,    \* the matrix of the DATA message it handles
  outbox,     \* the reply it is sending
  state,      \* its ClientState (rows, cols and numThreads go with data)
  worker,     \* the thread of state.worker
  job         \* dataPtr, the worker's copy of the matrix

serverVars == <<up, peer, requests, replies, pc, payload, outbox, state, worker, job>>
handlerVars == <<pc, payload, outbox, state, worker, job>>

Request == [type: {"DATA"}, matrix: Matrix]
             \cup [type: {"START", "STATUS", "INVALID", "GARBAGE"}]
ErrorCode == {"NONE", "INVALID_PAYLOAD", "NO_DATA", "ALREADY_RUNNING", "INTERNAL"}
StatusCode == {"IDLE", "READY", "RUNNING", "DONE", "ERROR"}

\* result NoMatrix is the pair 0, 0 that stands for "no result".
StatusReply(status, result, error) ==
  [type |-> "STATUS_RESP", status |-> status, result |-> result, error |-> error]
ErrorReply(code) == [type |-> "ERROR", error |-> code]
NoReply == [type |-> "NONE"]
Reply == [type: {"DATA_OK", "START_OK"}]
           \cup [type: {"ERROR"}, error: ErrorCode]
           \cup [type: {"STATUS_RESP"}, status: StatusCode,
                 result: Matrix \cup {NoMatrix}, error: ErrorCode]

Init ==
  /\ up = TRUE
  /\ peer = [c \in Client |-> "away"]
  /\ requests = [c \in Client |-> <<>>]
  /\ replies = [c \in Client |-> <<>>]
  /\ pc = [c \in Client |-> "none"]
  /\ payload = [c \in Client |-> NoMatrix]
  /\ outbox = [c \in Client |-> NoReply]
  /\ state = [c \in Client |->
                [data |-> NoMatrix, hasData |-> FALSE, status |-> "IDLE",
                 error |-> "NONE", result |-> NoMatrix]]
  /\ worker = [c \in Client |-> "none"]
  /\ job = [c \in Client |-> NoMatrix]

-----------------------------------------------------------------------------
(***************************************************************************)
(* The connection as the client sees it.                                   *)
(***************************************************************************)
Connect(c) ==
  /\ up /\ peer[c] = "away"
  /\ peer' = [peer EXCEPT ![c] = "connected"]
  /\ UNCHANGED <<up, requests, replies, handlerVars>>

Send(c, request) ==
  /\ peer[c] = "connected" /\ Len(requests[c]) < MaxPending
  /\ requests' = [requests EXCEPT ![c] = Append(@, request)]
  /\ UNCHANGED <<up, peer, replies, handlerVars>>

Receive(c) ==
  /\ peer[c] = "connected" /\ replies[c] # <<>>
  /\ replies' = [replies EXCEPT ![c] = Tail(@)]
  /\ UNCHANGED <<up, peer, requests, handlerVars>>

\* The client closes, or the connection breaks and unread requests are lost.
Hangup(c) ==
  /\ peer[c] = "connected"
  /\ peer' = [peer EXCEPT ![c] = "gone"]
  /\ replies' = [replies EXCEPT ![c] = <<>>]
  /\ requests' = requests \/ requests' = [requests EXCEPT ![c] = <<>>]
  /\ UNCHANGED <<up, handlerVars>>

-----------------------------------------------------------------------------
(***************************************************************************)
(* The handler thread.                                                     *)
(***************************************************************************)
\* std::terminate: every thread of the process is gone.
Terminate == up' = FALSE /\ UNCHANGED <<peer, requests, replies, handlerVars>>

At(c, label) == up /\ pc[c] = label
Goto(c, label) == pc' = [pc EXCEPT ![c] = label]

\* The accept loop starts a handler thread.
Accept(c) ==
  /\ At(c, "none") /\ peer[c] # "away"
  /\ \/ /\ Goto(c, "recv")
        /\ UNCHANGED <<up, peer, requests, replies, payload, outbox, state,
                       worker, job>>
     \/ ResourcesMayFail /\ Terminate

\* Mutant of RecvMessage: the header is not validated.
RecvUnvalidated(c) ==
  /\ At(c, "recv")
  /\ requests[c] # <<>>
  /\ LET request == Head(requests[c])
     IN  /\ Goto(c, request.type)
         /\ payload' = [payload EXCEPT ![c] =
                          IF request.type = "DATA" THEN request.matrix ELSE @]
  /\ requests' = [requests EXCEPT ![c] = Tail(@)]
  /\ UNCHANGED <<up, peer, replies, outbox, state, worker, job>>

RecvMessage(c) ==
  /\ At(c, "recv")
  /\ requests[c] # <<>>
  /\ LET request == Head(requests[c])
     IN  /\ Goto(c, IF request.type = "GARBAGE" THEN "cleanup" ELSE request.type)
         /\ payload' = [payload EXCEPT ![c] =
                          IF request.type = "DATA" THEN request.matrix ELSE @]
  /\ requests' = [requests EXCEPT ![c] = Tail(@)]
  /\ UNCHANGED <<up, peer, replies, outbox, state, worker, job>>

\* Memory for a payload or a matrix is refused; nothing catches the exception.
AllocationFails(c) ==
  /\ ResourcesMayFail
  /\ \/ /\ At(c, "recv") /\ requests[c] # <<>>
        /\ Head(requests[c]).type \in {"DATA", "INVALID"}
     \/ At(c, "DATA")
  /\ Terminate

\* Mutant of RecvFails: the loop goes on after a failure.
RecvFailsOn(c) ==
  /\ At(c, "recv")
  /\ requests[c] = <<>> /\ peer[c] = "gone"
  /\ UNCHANGED serverVars

\* recv returns 0 or an error once the client is gone.
RecvFails(c) ==
  /\ At(c, "recv")
  /\ requests[c] = <<>> /\ peer[c] = "gone"
  /\ Goto(c, "cleanup")
  /\ UNCHANGED <<up, peer, requests, replies, payload, outbox, state, worker, job>>

\* The handler is about to call sendMessage.
Answer(c, reply) ==
  /\ Goto(c, "send")
  /\ outbox' = [outbox EXCEPT ![c] = reply]
  /\ payload' = [payload EXCEPT ![c] = NoMatrix]
  /\ UNCHANGED <<up, peer, requests, replies>>

\* sendMessage blocks while the channel is full; to a client that is gone
\* it fails, possibly not at once, and a failure ends the loop.
SendReply(c) ==
  /\ At(c, "send")
  /\ \/ /\ peer[c] = "connected" /\ Len(replies[c]) < MaxPending
        /\ replies' = [replies EXCEPT ![c] = Append(@, outbox[c])]
        /\ Goto(c, "recv")
     \/ /\ peer[c] = "gone"
        /\ Goto(c, "recv") \/ Goto(c, "cleanup")
        /\ UNCHANGED replies
  /\ outbox' = [outbox EXCEPT ![c] = NoReply]
  /\ UNCHANGED <<up, peer, requests, payload, state, worker, job>>

\* The only reply that is sent without the mutex.
LockedByHandler(c) ==
  \/ pc[c] = "join"
  \/ pc[c] = "send" /\ outbox[c] # ErrorReply("INVALID_PAYLOAD")

RejectInvalid(c) ==
  /\ At(c, "INVALID")
  /\ Answer(c, ErrorReply("INVALID_PAYLOAD"))
  /\ UNCHANGED <<state, worker, job>>

Running(c) == state[c].status = "RUNNING"
Joinable(c) == worker[c] # "none"

\* Mutant of StoreData: the status of the last computation stays.
StoreDataOnly(c) ==
  /\ state' = [state EXCEPT ![c].data = payload[c], ![c].hasData = TRUE]
  /\ Answer(c, [type |-> "DATA_OK"])
  /\ UNCHANGED job

\* The end of handleDataCommand.
StoreData(c) ==
  /\ state' = [state EXCEPT ![c].data = payload[c], ![c].hasData = TRUE,
                            ![c].status = "READY", ![c].error = "NONE"]
  /\ Answer(c, [type |-> "DATA_OK"])
  /\ UNCHANGED job

\* Mutant of HandleData: the status is not checked before the join.
HandleDataAnyway(c) ==
  /\ At(c, "DATA")
  /\ \/ /\ Joinable(c)
        /\ Goto(c, "join")
        /\ UNCHANGED <<up, peer, requests, replies, payload, outbox, state,
                       worker, job>>
     \/ ~Joinable(c) /\ StoreData(c) /\ UNCHANGED worker

\* handleDataCommand, up to the join of the previous worker.
HandleData(c) ==
  /\ At(c, "DATA")
  /\ \/ /\ Running(c)
        /\ Answer(c, ErrorReply("ALREADY_RUNNING"))
        /\ UNCHANGED <<state, worker, job>>
     \/ /\ ~Running(c) /\ Joinable(c)
        /\ Goto(c, "join")
        /\ UNCHANGED <<up, peer, requests, replies, payload, outbox, state,
                       worker, job>>
     \/ ~Running(c) /\ ~Joinable(c) /\ StoreData(c) /\ UNCHANGED worker

\* The join with the mutex held, and the rest of handleDataCommand.
JoinThenStore(c) ==
  /\ At(c, "join") /\ worker[c] = "exited"
  /\ worker' = [worker EXCEPT ![c] = "none"]
  /\ StoreData(c)

\* The assignment to state.worker terminates the process when the previous
\* worker was never joined, and so does a thread that cannot be created or a
\* copy of the matrix for which there is no memory.
HandleStart(c) ==
  /\ At(c, "START")
  /\ \/ /\ ~state[c].hasData
        /\ Answer(c, ErrorReply("NO_DATA"))
        /\ UNCHANGED <<state, worker, job>>
     \/ /\ state[c].hasData /\ Running(c)
        /\ Answer(c, ErrorReply("ALREADY_RUNNING"))
        /\ UNCHANGED <<state, worker, job>>
     \/ /\ state[c].hasData /\ ~Running(c) /\ ~Joinable(c)
        /\ state' = [state EXCEPT ![c].status = "RUNNING", ![c].error = "NONE"]
        /\ worker' = [worker EXCEPT ![c] = "computing"]
        /\ job' = [job EXCEPT ![c] = state[c].data]
        /\ Answer(c, [type |-> "START_OK"])
     \/ /\ state[c].hasData /\ ~Running(c)
        /\ Joinable(c) \/ ResourcesMayFail
        /\ Terminate

HandleStatus(c) ==
  /\ At(c, "STATUS")
  /\ LET s == state[c]
         result == IF s.status = "DONE" THEN s.result ELSE NoMatrix
     IN  Answer(c, StatusReply(s.status, result, s.error))
  /\ UNCHANGED <<state, worker, job>>

\* Mutant of Cleanup: the worker is not joined.
CleanupAtOnce(c) ==
  /\ At(c, "cleanup")
  /\ Goto(c, "closed")
  /\ UNCHANGED <<up, peer, requests, replies, payload, outbox, state, worker, job>>

\* After the loop: join the worker without the mutex, close the socket.
Cleanup(c) ==
  /\ At(c, "cleanup") /\ worker[c] \in {"none", "exited"}
  /\ worker' = [worker EXCEPT ![c] = "none"]
  /\ Goto(c, "closed")
  /\ UNCHANGED <<up, peer, requests, replies, payload, outbox, state, job>>

HandlerStep(c) ==
  \/ Accept(c) \/ RecvMessage(c) \/ AllocationFails(c) \/ RecvFails(c)
  \/ SendReply(c)
  \/ RejectInvalid(c) \/ HandleData(c) \/ JoinThenStore(c) \/ HandleStart(c)
  \/ HandleStatus(c) \/ Cleanup(c)

-----------------------------------------------------------------------------
(***************************************************************************)
(* The worker thread.                                                      *)
(***************************************************************************)
Finish(c, newState) ==
  /\ up /\ worker[c] = "computing" /\ ~LockedByHandler(c)
  /\ state' = [state EXCEPT ![c] = newState]
  /\ worker' = [worker EXCEPT ![c] = "returning"]
  /\ UNCHANGED <<up, peer, requests, replies, pc, payload, outbox, job>>

\* Mutant of StoreResult: the status is not updated.
StoreResultQuietly(c) == Finish(c, [state[c] EXCEPT !.result = job[c]])

StoreResult(c) ==
  Finish(c, [state[c] EXCEPT !.result = job[c], !.status = "DONE", !.error = "NONE"])

\* Mutant of ComputationFails: the caught exception is not recorded.
FailQuietly(c) ==
  /\ ResourcesMayFail
  /\ Finish(c, state[c]) \/ (up /\ worker[c] = "computing" /\ Terminate)

\* findMinMaxParallel could not create its threads.  If it fails with the
\* first one the exception is caught; later, unwinding destroys a vector of
\* joinable threads.
ComputationFails(c) ==
  /\ ResourcesMayFail
  /\ \/ Finish(c, [state[c] EXCEPT !.status = "ERROR", !.error = "INTERNAL"])
     \/ up /\ worker[c] = "computing" /\ Terminate

Exit(c) ==
  /\ up /\ worker[c] = "returning"
  /\ worker' = [worker EXCEPT ![c] = "exited"]
  /\ UNCHANGED <<up, peer, requests, replies, pc, payload, outbox, state, job>>

WorkerStep(c) == StoreResult(c) \/ ComputationFails(c) \/ Exit(c)

-----------------------------------------------------------------------------
(***************************************************************************)
(* The server under clients that may send any message at any time.         *)
(***************************************************************************)
ClientStep(c) ==
  \/ Connect(c)
  \/ \E request \in Request : Send(c, request)
  \/ Receive(c)
  \/ Hangup(c)

\* The process is gone, or every connection has come and gone.
Finished ==
  /\ ~up \/ \A c \in Client : pc[c] = "closed"
  /\ UNCHANGED serverVars

Next ==
  \/ \E c \in Client : ClientStep(c) \/ HandlerStep(c) \/ WorkerStep(c)
  \/ Finished

Spec == Init /\ [][Next]_serverVars

\* The operating system schedules every thread of the server.
ServerFairness ==
  \A c \in Client : WF_serverVars(HandlerStep(c)) /\ WF_serverVars(WorkerStep(c))

FairSpec == Spec /\ ServerFairness

-----------------------------------------------------------------------------
TypeOK ==
  /\ up \in BOOLEAN
  /\ peer \in [Client -> {"away", "connected", "gone"}]
  /\ requests \in [Client -> Seq(Request)]
  /\ replies \in [Client -> Seq(Reply)]
  /\ pc \in [Client -> {"none", "recv", "DATA", "START", "STATUS", "INVALID",
                        "join", "send", "cleanup", "closed"}]
  /\ payload \in [Client -> Matrix \cup {NoMatrix}]
  /\ outbox \in [Client -> Reply \cup {NoReply}]
  /\ state \in [Client -> [data: Matrix \cup {NoMatrix}, hasData: BOOLEAN,
                           status: StatusCode, error: ErrorCode,
                           result: Matrix \cup {NoMatrix}]]
  /\ worker \in [Client -> {"none", "computing", "returning", "exited"}]
  /\ job \in [Client -> Matrix \cup {NoMatrix}]

(***************************************************************************)
(* A result is never stale: whatever DATA, START and failures came before, *)
(* a DONE status goes with the minimum and maximum of the matrix that the  *)
(* connection sent last and the server accepted.                           *)
(***************************************************************************)
DoneMeansCurrent ==
  \A c \in Client :
    state[c].status = "DONE" => state[c].result = state[c].data /\ state[c].hasData

(***************************************************************************)
(* The join inside handleDataCommand cannot deadlock: while the handler    *)
(* waits for the worker with the mutex held, the worker has no use for it. *)
(***************************************************************************)
NoJoinDeadlock ==
  \A c \in Client : pc[c] = "join" => worker[c] \in {"returning", "exited"}

(***************************************************************************)
(* RUNNING means exactly that a worker is computing: ERR_ALREADY_RUNNING   *)
(* is never given for a computation that is over, and a finished one is    *)
(* never lost.                                                             *)
(***************************************************************************)
RunningMeansWorker ==
  \A c \in Client : state[c].status = "RUNNING" <=> worker[c] = "computing"

(***************************************************************************)
(* Whatever a client sends, no worker outlives its connection's handler,   *)
(* whose stack holds the ClientState it refers to.                         *)
(***************************************************************************)
NoOrphanWorker ==
  \A c \in Client : pc[c] \in {"none", "closed"} => worker[c] = "none"

(***************************************************************************)
(* lab_4/README.md: the server serves several clients at the same time.    *)
(* No sequence of messages of one client takes it away from the others.    *)
(***************************************************************************)
ServerStaysUp == up

(***************************************************************************)
(* When a client is gone its handler joins the worker, closes the socket   *)
(* and ends, unless the process is gone first.                             *)
(***************************************************************************)
ConnectionsReleased ==
  \A c \in Client : (peer[c] = "gone") ~> (pc[c] = "closed" \/ ~up)
=============================================================================
