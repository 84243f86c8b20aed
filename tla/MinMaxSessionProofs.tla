------------------------ MODULE MinMaxSessionProofs ------------------------
(***************************************************************************)
(* Proofs about the conversation of lab_4's clients with its server, for   *)
(* any number of clients and any capacity of the channels.                 *)
(*                                                                         *)
(* The clients of MinMaxSession are first shown to be clients of           *)
(* MinMaxServer, so that the theorems about the server hold here.          *)
(***************************************************************************)
EXTENDS MinMaxSession, TLAPS

Facts == INSTANCE MinMaxServerProofs WITH Matrix <- Client

-----------------------------------------------------------------------------
(***************************************************************************)
(* What the clients do is something the server is ready for.               *)
(***************************************************************************)
LEMMA SessionUsesServer == Spec => Server!Spec
<1>1. Init => Server!Init
  BY DEF Init
<1>2. [Next]_vars => [Server!Next]_Server!serverVars
  <2> SUFFICES ASSUME [Next]_vars PROVE [Server!Next]_Server!serverVars
    OBVIOUS
  <2>1. CASE UNCHANGED serverVars
    BY <2>1 DEF serverVars, Server!serverVars
  <2>2. ASSUME NEW c \in Client, ClientStep(c) \/ CallFails(c)
        PROVE  Server!ClientStep(c) \/ UNCHANGED serverVars
    <3>1. /\ [type |-> "DATA", matrix |-> c] \in Server!Request
          /\ [type |-> "START"] \in Server!Request
          /\ [type |-> "STATUS"] \in Server!Request
      BY DEF Server!Request
    <3>2. CASE SendRequest(c)
      BY <3>1, <3>2 DEF SendRequest, Server!ClientStep
    <3> QED
      BY <2>2, <3>2
         DEF ClientStep, CallFails, ConnectToServer, ReceiveReply, Close, Server!ClientStep
  <2>3. ASSUME NEW c \in Client, ServerStep(c)
        PROVE  Server!HandlerStep(c) \/ Server!WorkerStep(c)
    BY <2>3 DEF ServerStep
  <2> QED
    BY <2>1, <2>2, <2>3 DEF Next, Finished, vars, Server!Next
<1> QED
  BY <1>1, <1>2, PTL DEF Spec, Server!Spec

LEMMA ServerFacts ==
  /\ Spec => []Server!TypeOK
  /\ Spec => []Server!DoneMeansCurrent
<1>1. Facts!ServerAssumption
  BY SessionAssumption DEF Server!ServerAssumption, Facts!ServerAssumption
<1>2. Server!Spec => Facts!Spec
  <2>1. Server!Init => Facts!Init
    BY DEF Server!Init, Facts!Init, Server!NoReply, Facts!NoReply
  <2>2. [Server!Next]_Server!serverVars => [Facts!Next]_Facts!serverVars
    BY DEF Server!Next, Facts!Next, Server!serverVars, Facts!serverVars,
           Server!handlerVars, Facts!handlerVars, Server!ClientStep, Facts!ClientStep,
           Server!HandlerStep, Facts!HandlerStep, Server!WorkerStep, Facts!WorkerStep,
           Server!Finished, Facts!Finished, Server!Connect, Facts!Connect, Server!Send,
           Facts!Send, Server!Receive, Facts!Receive, Server!Hangup, Facts!Hangup,
           Server!Accept, Facts!Accept, Server!RecvMessage, Facts!RecvMessage,
           Server!RecvFails, Facts!RecvFails, Server!SendReply, Facts!SendReply,
           Server!AllocationFails, Facts!AllocationFails,
           Server!RejectInvalid, Facts!RejectInvalid, Server!HandleData, Facts!HandleData,
           Server!JoinThenStore, Facts!JoinThenStore, Server!HandleStart,
           Facts!HandleStart, Server!HandleStatus, Facts!HandleStatus, Server!Cleanup,
           Facts!Cleanup, Server!StoreResult, Facts!StoreResult, Server!ComputationFails,
           Facts!ComputationFails, Server!Exit, Facts!Exit, Server!Finish, Facts!Finish,
           Server!Terminate, Facts!Terminate, Server!Answer, Facts!Answer, Server!At,
           Facts!At, Server!Goto, Facts!Goto, Server!LockedByHandler,
           Facts!LockedByHandler, Server!Running, Facts!Running, Server!Joinable,
           Facts!Joinable, Server!StoreData, Facts!StoreData, Server!StatusReply,
           Facts!StatusReply, Server!ErrorReply, Facts!ErrorReply, Server!NoReply,
           Facts!NoReply, Server!Request, Facts!Request
  <2> QED
    BY <2>1, <2>2, PTL DEF Server!Spec, Facts!Spec
<1>3. Facts!Spec => []Facts!TypeOK /\ []Facts!DoneMeansCurrent
  BY <1>1, Facts!TypeCorrect, Facts!ResultsCurrent
<1>4. Facts!TypeOK => Server!TypeOK
  BY DEF Facts!TypeOK, Server!TypeOK, Facts!Request, Server!Request, Facts!Reply,
         Server!Reply, Facts!ErrorCode, Server!ErrorCode, Facts!StatusCode,
         Server!StatusCode, Facts!NoReply, Server!NoReply
<1>5. Facts!DoneMeansCurrent => Server!DoneMeansCurrent
  BY DEF Facts!DoneMeansCurrent, Server!DoneMeansCurrent
<1> QED
  BY <1>2, <1>3, <1>4, <1>5, SessionUsesServer, PTL

-----------------------------------------------------------------------------
(***************************************************************************)
(* The conversation.  A client and its handler exchange one message at a   *)
(* time: a request or its reply is in a channel, or the handler is busy    *)
(* with it, and never two of these; and which exchange it is tells how far *)
(* the ClientState has come.  The invariants of the runs follow from that, *)
(* and are not inductive without it: what a client that has failed left    *)
(* behind is still handled.                                                *)
(***************************************************************************)
Started(c) == state[c].status \in {"RUNNING", "DONE", "ERROR"}

Quiet(c) == requests[c] = <<>> /\ replies[c] = <<>> /\ pc[c] \in {"none", "recv"}

\* The client's request is under way, or its handler has it.
Asking(c, request) ==
  /\ replies[c] = <<>>
  /\ \/ requests[c] = <<request>> /\ pc[c] \in {"none", "recv"}
     \/ requests[c] = <<>> /\ pc[c] = request.type

\* The reply is being sent, or under way.
Telling(c, reply) ==
  /\ requests[c] = <<>>
  /\ \/ replies[c] = <<>> /\ pc[c] = "send" /\ outbox[c] = reply
     \/ replies[c] = <<reply>> /\ pc[c] = "recv"

DataExchange(c) ==
  \/ /\ Asking(c, [type |-> "DATA", matrix |-> c]) /\ state[c].status = "IDLE"
     /\ pc[c] = "DATA" => payload[c] = c
  \/ Telling(c, [type |-> "DATA_OK"]) /\ state[c].status = "READY"

StartExchange(c) ==
  \/ Asking(c, [type |-> "START"]) /\ state[c].status = "READY"
  \/ Telling(c, [type |-> "START_OK"]) /\ Started(c)

\* A status that says DONE comes with the result of the client's matrix.
OwnStatus(c, reply) ==
  /\ reply.type = "STATUS_RESP"
  /\ reply.status = "DONE" => reply.result = c

StatusExchange(c) ==
  /\ Started(c)
  /\ \/ Asking(c, [type |-> "STATUS"])
     \/ \E reply \in Server!Reply : OwnStatus(c, reply) /\ Telling(c, reply)

\* The handler has found that the client is gone.
Ended(c) ==
  /\ peer[c] = "gone" /\ pc[c] \in {"cleanup", "closed"}
  /\ requests[c] = <<>> /\ replies[c] = <<>>

Exchanging(c) ==
  Quiet(c) \/ DataExchange(c) \/ StartExchange(c) \/ StatusExchange(c) \/ Ended(c)

Conversation(c) ==
  /\ step[c] = "connect" => peer[c] = "away" /\ Quiet(c) /\ state[c].status = "IDLE"
  /\ step[c] = "sendData" => Quiet(c) /\ state[c].status = "IDLE"
  /\ step[c] = "recvDataOk" => DataExchange(c)
  /\ step[c] = "sendStart" => Quiet(c) /\ state[c].status = "READY"
  /\ step[c] = "recvStartOk" => StartExchange(c)
  /\ step[c] = "sendStatus" => Quiet(c) /\ Started(c)
  /\ step[c] = "recvStatus" => StatusExchange(c)
  /\ Exchanging(c)
  /\ ~Over(c) /\ step[c] # "connect" => peer[c] = "connected"
  /\ peer[c] = "gone" => replies[c] = <<>>

Label == {"connect", "sendData", "recvDataOk", "sendStart", "recvStartOk", "sendStatus",
          "recvStatus", "result", "error", "failed"}

\* Before START there is no worker, and after DATA its matrix is stored.
Progress(c) ==
  /\ state[c].status \in {"IDLE", "READY"} => worker[c] = "none"
  /\ state[c].status # "IDLE" => state[c].data = c /\ state[c].hasData

ClientInv(c) ==
  /\ step[c] \in Label
  /\ Conversation(c)
  /\ Progress(c)
  /\ shown[c] = IF step[c] = "result" THEN c ELSE NoMatrix

SessionInv ==
  /\ step \in [Client -> Label] /\ shown \in [Client -> Client \cup {NoMatrix}]
  /\ \A c \in Client : ClientInv(c)

\* What the types say of one connection.
Connections ==
  /\ peer \in [Client -> {"away", "connected", "gone"}]
  /\ requests \in [Client -> Seq(Server!Request)]
  /\ replies \in [Client -> Seq(Server!Reply)]
  /\ pc \in [Client -> {"none", "recv", "DATA", "START", "STATUS", "INVALID",
                        "join", "send", "cleanup", "closed"}]
  /\ payload \in [Client -> Client \cup {NoMatrix}]
  /\ outbox \in [Client -> Server!Reply \cup {Server!NoReply}]
  /\ state \in [Client -> [data: Client \cup {NoMatrix}, hasData: BOOLEAN,
                           status: {"IDLE", "READY", "RUNNING", "DONE", "ERROR"},
                           error: Server!ErrorCode, result: Client \cup {NoMatrix}]]
  /\ worker \in [Client -> {"none", "computing", "returning", "exited"}]
  /\ job \in [Client -> Client \cup {NoMatrix}]
  /\ step \in [Client -> Label] /\ shown \in [Client -> Client \cup {NoMatrix}]

LEMMA ConnectionTypes ==
  ASSUME Server!TypeOK, SessionInv
  PROVE  Connections
BY DEF Server!TypeOK, SessionInv, Connections, Server!StatusCode

\* A channel that holds one message at most.
LEMMA OneMessage ==
  /\ \A m : /\ Append(<<>>, m) = <<m>> /\ Head(<<m>>) = m /\ Tail(<<m>>) = <<>>
            /\ <<m>> # <<>> /\ Len(<<m>>) = 1
  /\ Len(<<>>) = 0
OBVIOUS

-----------------------------------------------------------------------------
(***************************************************************************)
(* A step of one connection leaves the others alone.                       *)
(***************************************************************************)
OthersSame(c) ==
  \A d \in Client \ {c} :
    /\ peer'[d] = peer[d] /\ requests'[d] = requests[d] /\ replies'[d] = replies[d]
    /\ pc'[d] = pc[d] /\ payload'[d] = payload[d] /\ outbox'[d] = outbox[d]
    /\ state'[d] = state[d] /\ worker'[d] = worker[d]
    /\ step'[d] = step[d] /\ shown'[d] = shown[d]

LEMMA SameInv ==
  ASSUME NEW d \in Client, ClientInv(d),
         peer'[d] = peer[d], requests'[d] = requests[d], replies'[d] = replies[d],
         pc'[d] = pc[d], payload'[d] = payload[d], outbox'[d] = outbox[d],
         state'[d] = state[d], worker'[d] = worker[d],
         step'[d] = step[d], shown'[d] = shown[d]
  PROVE  ClientInv(d)'
<1>1. Quiet(d)' <=> Quiet(d)
  BY DEF Quiet
<1>2. DataExchange(d)' <=> DataExchange(d)
  BY DEF DataExchange, Asking, Telling, Started
<1>3. StartExchange(d)' <=> StartExchange(d)
  BY DEF StartExchange, Asking, Telling, Started
<1>4. Started(d)' <=> Started(d)
  BY DEF Started
<1>5. StatusExchange(d)' <=> StatusExchange(d)
  BY <1>4 DEF StatusExchange, Asking, Telling, OwnStatus, Server!Reply, Server!StatusCode,
              Server!ErrorCode
<1>6. Ended(d)' <=> Ended(d)
  BY DEF Ended
<1>7. Conversation(d)'
  BY <1>1, <1>2, <1>3, <1>4, <1>5, <1>6 DEF ClientInv, Conversation, Exchanging, Over
<1> QED
  BY <1>7 DEF ClientInv, Progress

LEMMA Locality ==
  ASSUME SessionInv, NEW c \in Client, OthersSame(c), ClientInv(c)',
         step' \in [Client -> Label], shown' \in [Client -> Client \cup {NoMatrix}]
  PROVE  SessionInv'
<1> SUFFICES ASSUME NEW d \in Client PROVE ClientInv(d)'
  BY DEF SessionInv
<1>1. CASE d = c
  BY <1>1
<1>2. CASE d # c
  BY <1>2, SameInv DEF OthersSame, SessionInv
<1> QED
  BY <1>1, <1>2

-----------------------------------------------------------------------------
(***************************************************************************)
(* The clients' steps.                                                     *)
(***************************************************************************)
LEMMA ConnectKeepsInv ==
  ASSUME SessionInv, Connections, NEW c \in Client, ConnectToServer(c)
  PROVE  SessionInv'
<1>1. /\ step[c] = "connect" /\ step' = [step EXCEPT ![c] = "sendData"] /\ shown' = shown
      /\ peer' = [peer EXCEPT ![c] = "connected"]
      /\ UNCHANGED <<requests, replies, pc, payload, outbox, state, worker>>
  BY DEF ConnectToServer, Goto, Server!Connect, Server!handlerVars
<1>2. OthersSame(c) /\ step'[c] = "sendData" /\ peer'[c] = "connected"
  BY <1>1 DEF OthersSame, Connections
<1>3. Quiet(c)' /\ state'[c].status = "IDLE"
  BY <1>1 DEF SessionInv, ClientInv, Conversation, Quiet
<1>4. ClientInv(c)'
  BY <1>1, <1>2, <1>3
     DEF SessionInv, ClientInv, Conversation, Exchanging, Progress, Label, Over
<1>5. step' \in [Client -> Label] /\ shown' \in [Client -> Client \cup {NoMatrix}]
  BY <1>1 DEF SessionInv, Label
<1> QED
  BY <1>2, <1>4, <1>5, Locality

LEMMA SendKeepsInv ==
  ASSUME SessionInv, Connections, NEW c \in Client, SendRequest(c)
  PROVE  SessionInv'
<1> DEFINE Sends(request, after) ==
      /\ Quiet(c) /\ step' = [step EXCEPT ![c] = after]
      /\ requests' = [requests EXCEPT ![c] = Append(@, request)]
      /\ shown' = shown
      /\ UNCHANGED <<peer, replies, pc, payload, outbox, state, worker>>
<1>1. ASSUME NEW request, NEW after \in Label, Sends(request, after)
      PROVE  /\ OthersSame(c) /\ step'[c] = after /\ step' \in [Client -> Label]
             /\ Asking(c, request)' /\ pc'[c] \in {"none", "recv"}
             /\ UNCHANGED <<peer, state, worker, shown>>
  <2>1. requests'[c] = <<request>> /\ replies'[c] = <<>> /\ pc'[c] \in {"none", "recv"}
    <3>1. requests[c] = <<>> /\ replies[c] = <<>> /\ pc[c] \in {"none", "recv"}
      BY <1>1 DEF Quiet
    <3>2. requests'[c] = Append(requests[c], request)
      BY <1>1 DEF Connections
    <3> QED
      BY <1>1, <3>1, <3>2, OneMessage
  <2> QED
    BY <1>1, <2>1 DEF OthersSame, Connections, Asking
<1>2. CASE step[c] = "sendData"
  <2>1. Sends([type |-> "DATA", matrix |-> c], "recvDataOk") /\ state[c].status = "IDLE"
    BY <1>2 DEF SendRequest, Server!Send, Goto, Server!handlerVars, SessionInv, ClientInv,
                Conversation
  <2> HIDE DEF Sends
  <2>2. /\ OthersSame(c) /\ step'[c] = "recvDataOk" /\ step' \in [Client -> Label]
        /\ Asking(c, [type |-> "DATA", matrix |-> c])' /\ pc'[c] \in {"none", "recv"}
        /\ UNCHANGED <<peer, state, worker, shown>>
    BY <1>1, <2>1 DEF Label
  <2>3. DataExchange(c)'
    BY <2>1, <2>2 DEF DataExchange
  <2>4. ClientInv(c)'
    BY <1>2, <2>2, <2>3
       DEF SessionInv, ClientInv, Conversation, Exchanging, Progress, Label, Over
  <2> QED
    BY <2>2, <2>4, Locality DEF SessionInv
<1>3. CASE step[c] = "sendStart"
  <2>1. Sends([type |-> "START"], "recvStartOk") /\ state[c].status = "READY"
    BY <1>3 DEF SendRequest, Server!Send, Goto, Server!handlerVars, SessionInv, ClientInv,
                Conversation
  <2> HIDE DEF Sends
  <2>2. /\ OthersSame(c) /\ step'[c] = "recvStartOk" /\ step' \in [Client -> Label]
        /\ Asking(c, [type |-> "START"])' /\ pc'[c] \in {"none", "recv"}
        /\ UNCHANGED <<peer, state, worker, shown>>
    BY <1>1, <2>1 DEF Label
  <2>3. StartExchange(c)'
    BY <2>1, <2>2 DEF StartExchange
  <2>4. ClientInv(c)'
    BY <1>3, <2>2, <2>3
       DEF SessionInv, ClientInv, Conversation, Exchanging, Progress, Label, Over
  <2> QED
    BY <2>2, <2>4, Locality DEF SessionInv
<1>4. CASE step[c] = "sendStatus"
  <2>1. Sends([type |-> "STATUS"], "recvStatus") /\ Started(c)
    BY <1>4 DEF SendRequest, Server!Send, Goto, Server!handlerVars, SessionInv, ClientInv,
                Conversation
  <2> HIDE DEF Sends
  <2>2. /\ OthersSame(c) /\ step'[c] = "recvStatus" /\ step' \in [Client -> Label]
        /\ Asking(c, [type |-> "STATUS"])' /\ pc'[c] \in {"none", "recv"}
        /\ UNCHANGED <<peer, state, worker, shown>>
    BY <1>1, <2>1 DEF Label
  <2>3. StatusExchange(c)'
    BY <2>1, <2>2 DEF StatusExchange, Started
  <2>4. ClientInv(c)'
    BY <1>4, <2>2, <2>3
       DEF SessionInv, ClientInv, Conversation, Exchanging, Progress, Label, Over
  <2> QED
    BY <2>2, <2>4, Locality DEF SessionInv
<1> QED
  BY <1>2, <1>3, <1>4 DEF SendRequest

\* A client that waits finds the reply it waits for.
LEMMA ReplyIsExpected ==
  ASSUME SessionInv, NEW c \in Client, Receiving(c), replies[c] # <<>>
  PROVE  /\ replies[c] = <<Head(replies[c])>> /\ requests[c] = <<>> /\ pc[c] = "recv"
         /\ Head(replies[c]).type = Expected[step[c]]
         /\ step[c] = "recvDataOk" => state[c].status = "READY"
         /\ step[c] \in {"recvStartOk", "recvStatus"} => Started(c)
         /\ step[c] = "recvStatus" => OwnStatus(c, Head(replies[c]))
         /\ step[c] \in {"recvDataOk", "recvStartOk", "recvStatus"}
<1>1. /\ step[c] \in {"recvDataOk", "recvStartOk", "recvStatus"}
      /\ step[c] = "recvDataOk" => Expected[step[c]] = "DATA_OK"
      /\ step[c] = "recvStartOk" => Expected[step[c]] = "START_OK"
      /\ step[c] = "recvStatus" => Expected[step[c]] = "STATUS_RESP"
  BY DEF Receiving, Expected
<1>2. CASE step[c] = "recvDataOk"
  <2>1. Telling(c, [type |-> "DATA_OK"]) /\ state[c].status = "READY"
    BY <1>2 DEF SessionInv, ClientInv, Conversation, DataExchange, Asking
  <2>2. replies[c] = <<[type |-> "DATA_OK"]>> /\ pc[c] = "recv" /\ requests[c] = <<>>
    BY <2>1 DEF Telling
  <2>3. Head(replies[c]) = [type |-> "DATA_OK"]
    BY <2>2, OneMessage
  <2> QED
    BY <1>1, <1>2, <2>1, <2>2, <2>3
<1>3. CASE step[c] = "recvStartOk"
  <2>1. Telling(c, [type |-> "START_OK"]) /\ Started(c)
    BY <1>3 DEF SessionInv, ClientInv, Conversation, StartExchange, Asking
  <2>2. replies[c] = <<[type |-> "START_OK"]>> /\ pc[c] = "recv" /\ requests[c] = <<>>
    BY <2>1 DEF Telling
  <2>3. Head(replies[c]) = [type |-> "START_OK"]
    BY <2>2, OneMessage
  <2> QED
    BY <1>1, <1>3, <2>1, <2>2, <2>3
<1>4. CASE step[c] = "recvStatus"
  <2>1. Started(c) /\ \E reply \in Server!Reply : OwnStatus(c, reply) /\ Telling(c, reply)
    BY <1>4 DEF SessionInv, ClientInv, Conversation, StatusExchange, Asking
  <2>2. PICK reply \in Server!Reply : OwnStatus(c, reply) /\ Telling(c, reply)
    BY <2>1
  <2>3. replies[c] = <<reply>> /\ pc[c] = "recv" /\ requests[c] = <<>>
    BY <2>2 DEF Telling
  <2>4. Head(replies[c]) = reply
    BY <2>3, OneMessage
  <2> QED
    BY <1>1, <1>4, <2>1, <2>2, <2>3, <2>4 DEF OwnStatus
<1> QED
  BY <1>1, <1>2, <1>3, <1>4

LEMMA ReceiveKeepsInv ==
  ASSUME SessionInv, Connections, NEW c \in Client, ReceiveReply(c)
  PROVE  SessionInv'
<1> DEFINE reply == Head(replies[c])
           next == CASE reply.type # Expected[step[c]] -> "failed"
                     [] step[c] = "recvDataOk" -> "sendStart"
                     [] step[c] = "recvStartOk" -> "sendStatus"
                     [] OTHER -> AfterStatus(reply)
<1>1. /\ Receiving(c) /\ replies[c] # <<>>
      /\ step' = [step EXCEPT ![c] = next]
      /\ shown' = IF next = "result" THEN [shown EXCEPT ![c] = reply.result] ELSE shown
      /\ replies' = [replies EXCEPT ![c] = Tail(@)]
      /\ UNCHANGED <<peer, requests, pc, payload, outbox, state, worker>>
  BY DEF ReceiveReply, Goto, Server!Receive, Server!handlerVars
<1>2. /\ replies[c] = <<reply>> /\ requests[c] = <<>> /\ pc[c] = "recv"
      /\ reply.type = Expected[step[c]]
      /\ step[c] = "recvDataOk" => state[c].status = "READY"
      /\ step[c] \in {"recvStartOk", "recvStatus"} => Started(c)
      /\ step[c] = "recvStatus" => OwnStatus(c, reply)
      /\ step[c] \in {"recvDataOk", "recvStartOk", "recvStatus"}
  BY <1>1, ReplyIsExpected
<1>3. /\ step[c] = "recvDataOk" => next = "sendStart"
      /\ step[c] = "recvStartOk" => next = "sendStatus"
      /\ step[c] = "recvStatus" => next \in {"result", "error", "sendStatus"}
      /\ next = "result" => step[c] = "recvStatus" /\ reply.status = "DONE"
  BY <1>2 DEF AfterStatus
<1>4. next = "result" => reply.result = c
  BY <1>2, <1>3 DEF OwnStatus
<1> HIDE DEF next
<1>5. /\ next \in Label /\ step' \in [Client -> Label] /\ step'[c] = next
      /\ shown' \in [Client -> Client \cup {NoMatrix}]
      /\ shown'[c] = IF next = "result" THEN c ELSE NoMatrix
  <2>1. next \in Label
    BY <1>2, <1>3 DEF Label
  <2>2. shown[c] = NoMatrix
    BY <1>2 DEF SessionInv, ClientInv
  <2> HIDE DEF reply
  <2> QED
    BY <1>1, <1>4, <2>1, <2>2 DEF Connections
<1>6. Quiet(c)'
  <2>1. replies'[c] = Tail(replies[c])
    BY <1>1 DEF Connections
  <2>2. Tail(replies[c]) = <<>>
    <3> HIDE DEF reply
    <3> QED
      BY <1>2, OneMessage
  <2>3. replies'[c] = <<>>
    BY <2>1, <2>2
  <2> QED
    BY <1>1, <1>2, <2>3 DEF Quiet
<1>7. peer'[c] = "connected" /\ state' = state /\ worker' = worker
  BY <1>1, <1>2 DEF SessionInv, ClientInv, Conversation, Over
<1>8. ClientInv(c)'
  <2>1. Conversation(c)'
    BY <1>2, <1>3, <1>5, <1>6, <1>7 DEF Conversation, Exchanging, Started, Over
  <2> QED
    BY <1>5, <1>7, <2>1 DEF SessionInv, ClientInv, Progress
<1>9. OthersSame(c)
  BY <1>1 DEF OthersSame, Connections
<1> QED
  BY <1>5, <1>8, <1>9, Locality

LEMMA CallFailsKeepsInv ==
  ASSUME SessionInv, Connections, NEW c \in Client, CallFails(c)
  PROVE  SessionInv'
<1>1. /\ ~Over(c) /\ step' = [step EXCEPT ![c] = "failed"] /\ shown' = shown
      /\ UNCHANGED <<peer, requests, replies, pc, payload, outbox, state, worker>>
  BY DEF CallFails, Goto, serverVars
<1>2. /\ OthersSame(c) /\ step'[c] = "failed" /\ step' \in [Client -> Label]
      /\ shown'[c] = NoMatrix /\ step[c] # "result"
  BY <1>1 DEF OthersSame, Connections, Label, Over, SessionInv, ClientInv
<1>3. Exchanging(c)'
  <2>1. Exchanging(c)
    BY DEF SessionInv, ClientInv, Conversation
  <2> QED
    BY <1>1, <2>1 DEF Exchanging, Quiet, DataExchange, StartExchange, StatusExchange, Ended,
                      Asking, Telling, Started, OwnStatus, Server!Reply, Server!StatusCode,
                      Server!ErrorCode
<1>4. ClientInv(c)'
  BY <1>1, <1>2, <1>3 DEF SessionInv, ClientInv, Conversation, Progress, Label, Over
<1> QED
  BY <1>1, <1>2, <1>4, Locality DEF SessionInv

\* What is under way when the connection ends is lost, or still handled.
LEMMA CloseKeepsInv ==
  ASSUME SessionInv, Connections, NEW c \in Client, Close(c)
  PROVE  SessionInv'
<1>1. /\ Over(c) /\ peer' = [peer EXCEPT ![c] = "gone"]
      /\ replies' = [replies EXCEPT ![c] = <<>>]
      /\ requests' = requests \/ requests' = [requests EXCEPT ![c] = <<>>]
      /\ UNCHANGED <<pc, payload, outbox, state, worker, step, shown>>
  BY DEF Close, Server!Hangup, Server!handlerVars
<1>2. /\ OthersSame(c) /\ peer'[c] = "gone" /\ replies'[c] = <<>>
      /\ requests'[c] \in {requests[c], <<>>}
  BY <1>1 DEF OthersSame, Connections
<1>3. Exchanging(c)
  BY DEF SessionInv, ClientInv, Conversation
<1>4. Exchanging(c)'
  <2>1. CASE Quiet(c) \/ Ended(c)
    BY <1>1, <1>2, <2>1 DEF Quiet, Ended, Exchanging
  <2>2. ASSUME NEW request, Asking(c, request)
        PROVE  Asking(c, request)' \/ Quiet(c)'
    BY <1>1, <1>2, <2>2 DEF Asking, Quiet
  <2>3. ASSUME NEW reply, Telling(c, reply)
        PROVE  Telling(c, reply)' \/ Quiet(c)'
    BY <1>1, <1>2, <2>3 DEF Telling, Quiet
  <2>4. Started(c)' <=> Started(c)
    BY <1>1 DEF Started
  <2>5. CASE DataExchange(c)
    BY <1>1, <2>2, <2>3, <2>5 DEF DataExchange, Exchanging
  <2>6. CASE StartExchange(c)
    BY <1>1, <2>2, <2>3, <2>4, <2>6 DEF StartExchange, Exchanging
  <2>7. CASE StatusExchange(c)
    <3>1. CASE Asking(c, [type |-> "STATUS"])
      BY <2>2, <2>4, <2>7, <3>1 DEF StatusExchange, Exchanging
    <3>2. CASE \E reply \in Server!Reply : OwnStatus(c, reply) /\ Telling(c, reply)
      <4>1. PICK reply \in Server!Reply : OwnStatus(c, reply) /\ Telling(c, reply)
        BY <3>2
      <4>2. reply \in Server!Reply' /\ OwnStatus(c, reply)'
        BY <4>1 DEF Server!Reply, Server!StatusCode, Server!ErrorCode, OwnStatus
      <4> QED
        BY <2>3, <2>4, <2>7, <4>1, <4>2 DEF StatusExchange, Exchanging
    <3> QED
      BY <2>7, <3>1, <3>2 DEF StatusExchange
  <2> QED
    BY <1>3, <2>1, <2>5, <2>6, <2>7 DEF Exchanging
<1>5. ClientInv(c)'
  BY <1>1, <1>2, <1>4 DEF SessionInv, ClientInv, Conversation, Progress, Label, Over
<1> QED
  BY <1>1, <1>2, <1>5, Locality DEF SessionInv

-----------------------------------------------------------------------------
(***************************************************************************)
(* The handler's and the worker's steps.                                   *)
(***************************************************************************)
\* Where the handler is tells which exchange it is in.
LEMMA HandlerTells ==
  ASSUME SessionInv, NEW c \in Client
  PROVE  /\ pc[c] \notin {"join", "INVALID"}
         /\ pc[c] \in {"DATA", "START", "STATUS", "send", "cleanup", "closed"} =>
              requests[c] = <<>> /\ replies[c] = <<>>
         /\ pc[c] = "DATA" => state[c].status = "IDLE" /\ payload[c] = c
         /\ pc[c] = "START" => state[c].status = "READY"
         /\ pc[c] = "STATUS" => Started(c)
         /\ pc[c] = "send" =>
              \/ outbox[c] = [type |-> "DATA_OK"] /\ state[c].status = "READY"
              \/ outbox[c] = [type |-> "START_OK"] /\ Started(c)
              \/ outbox[c] \in Server!Reply /\ OwnStatus(c, outbox[c]) /\ Started(c)
         /\ requests[c] # <<>> =>
              /\ replies[c] = <<>>
              /\ \/ /\ requests[c] = <<[type |-> "DATA", matrix |-> c]>>
                    /\ state[c].status = "IDLE"
                 \/ requests[c] = <<[type |-> "START"]>> /\ state[c].status = "READY"
                 \/ requests[c] = <<[type |-> "STATUS"]>> /\ Started(c)
         /\ pc[c] \in {"cleanup", "closed"} => peer[c] = "gone"
<1>0. Exchanging(c)
  BY DEF SessionInv, ClientInv, Conversation
<1>1. CASE Quiet(c) \/ Ended(c)
  BY <1>1 DEF Quiet, Ended
<1>2. CASE DataExchange(c)
  BY <1>2 DEF DataExchange, Asking, Telling
<1>3. CASE StartExchange(c)
  BY <1>3 DEF StartExchange, Asking, Telling
<1>4. CASE StatusExchange(c)
  BY <1>4 DEF StatusExchange, Asking, Telling
<1> QED
  BY <1>0, <1>1, <1>2, <1>3, <1>4 DEF Exchanging

\* A step of the server goes on with the exchange it finds, unless the client
\* is gone: then it may only end it.
GoesOn(c) ==
  /\ Quiet(c) => Quiet(c)' /\ (Started(c) => Started(c)')
                 /\ (~Started(c) => state'[c].status = state[c].status)
  /\ DataExchange(c) => DataExchange(c)'
  /\ StartExchange(c) => StartExchange(c)'
  /\ StatusExchange(c) => StatusExchange(c)'
  /\ Ended(c) => Ended(c)'

LEMMA ServerKeepsInv ==
  ASSUME SessionInv, NEW c \in Client, OthersSame(c), UNCHANGED <<peer, step, shown>>,
         Progress(c)',
         \/ GoesOn(c) /\ (peer[c] = "gone" => replies'[c] = <<>>)
         \/ peer[c] = "gone" /\ Exchanging(c)' /\ replies'[c] = <<>>
  PROVE  SessionInv'
<1>1. ClientInv(c)
  BY DEF SessionInv
<1>2. CASE peer[c] = "gone" /\ Exchanging(c)' /\ replies'[c] = <<>>
  <2>1. Over(c)
    BY <1>1, <1>2 DEF ClientInv, Conversation
  <2>2. Conversation(c)'
    BY <1>2, <2>1 DEF Conversation, Over
  <2> QED
    BY <1>1, <2>2, Locality DEF ClientInv, SessionInv
<1>3. CASE GoesOn(c) /\ (peer[c] = "gone" => replies'[c] = <<>>)
  <2>1. Exchanging(c)'
    BY <1>1, <1>3 DEF ClientInv, Conversation, Exchanging, GoesOn
  <2>2. Conversation(c)'
    BY <1>1, <1>3, <2>1 DEF ClientInv, Conversation, GoesOn, Over, Started
  <2> QED
    BY <1>1, <2>2, Locality DEF ClientInv, SessionInv
<1> QED
  BY <1>2, <1>3

\* Nothing of the connection changes.
LEMMA StutterKeepsInv ==
  ASSUME SessionInv, UNCHANGED vars
  PROVE  SessionInv'
<1>1. UNCHANGED <<peer, requests, replies, pc, payload, outbox, state, worker, step, shown>>
  BY DEF vars, serverVars
<1>2. ASSUME NEW d \in Client PROVE ClientInv(d)'
  BY <1>1, SameInv DEF SessionInv
<1> QED
  BY <1>1, <1>2 DEF SessionInv

LEMMA TerminateKeepsInv ==
  ASSUME SessionInv, Server!Terminate, UNCHANGED <<step, shown>>
  PROVE  SessionInv'
<1>1. UNCHANGED <<peer, requests, replies, pc, payload, outbox, state, worker, step, shown>>
  BY DEF Server!Terminate, Server!handlerVars
<1>2. ASSUME NEW d \in Client PROVE ClientInv(d)'
  BY <1>1, SameInv DEF SessionInv
<1> QED
  BY <1>1, <1>2 DEF SessionInv

LEMMA AcceptKeepsInv ==
  ASSUME SessionInv, Connections, NEW c \in Client, Server!Accept(c),
         UNCHANGED <<step, shown>>
  PROVE  SessionInv'
<1>1. CASE Server!Terminate
  BY <1>1, TerminateKeepsInv
<1>2. CASE /\ Server!Goto(c, "recv") /\ pc[c] = "none"
           /\ UNCHANGED <<peer, requests, replies, payload, outbox, state, worker>>
  <2>1. pc' = [pc EXCEPT ![c] = "recv"]
    BY <1>2 DEF Server!Goto
  <2>2. OthersSame(c) /\ pc'[c] = "recv"
    BY <1>2, <2>1 DEF OthersSame, Connections
  <2>3. GoesOn(c)
    BY <1>2, <2>2
       DEF GoesOn, Quiet, DataExchange, StartExchange, StatusExchange, Ended, Asking,
           Telling, Started, OwnStatus
  <2>4. Progress(c)' /\ (peer[c] = "gone" => replies'[c] = <<>>)
    BY <1>2 DEF SessionInv, ClientInv, Conversation, Progress
  <2> QED
    BY <1>2, <2>2, <2>3, <2>4, ServerKeepsInv
<1> QED
  BY <1>1, <1>2 DEF Server!Accept, Server!At

LEMMA RecvMessageKeepsInv ==
  ASSUME SessionInv, Connections, NEW c \in Client, Server!RecvMessage(c),
         UNCHANGED <<step, shown>>
  PROVE  SessionInv'
<1>0. PICK request : request = Head(requests[c])
  OBVIOUS
<1>1. /\ pc[c] = "recv" /\ requests[c] # <<>>
      /\ pc' = [pc EXCEPT ![c] = IF request.type = "GARBAGE" THEN "cleanup"
                                                             ELSE request.type]
      /\ payload' = [payload EXCEPT ![c] = IF request.type = "DATA" THEN request.matrix
                                                                    ELSE @]
      /\ requests' = [requests EXCEPT ![c] = Tail(@)]
      /\ UNCHANGED <<peer, replies, outbox, state, worker>>
  BY <1>0 DEF Server!RecvMessage, Server!At, Server!Goto
<1>2. /\ replies[c] = <<>>
      /\ \/ /\ requests[c] = <<[type |-> "DATA", matrix |-> c]>>
            /\ state[c].status = "IDLE"
         \/ requests[c] = <<[type |-> "START"]>> /\ state[c].status = "READY"
         \/ requests[c] = <<[type |-> "STATUS"]>> /\ Started(c)
  BY <1>1, HandlerTells
<1>3. requests'[c] = <<>> /\ requests[c] = <<request>>
  <2>1. requests'[c] = Tail(requests[c])
    BY <1>1 DEF Connections
  <2>2. \E m : requests[c] = <<m>>
    BY <1>2
  <2> QED
    BY <1>0, <2>1, <2>2, OneMessage
<1>4. \/ request = [type |-> "DATA", matrix |-> c] /\ state[c].status = "IDLE"
      \/ request = [type |-> "START"] /\ state[c].status = "READY"
      \/ request = [type |-> "STATUS"] /\ Started(c)
  BY <1>0, <1>2, OneMessage
<1>5. /\ pc'[c] = request.type /\ request.type \in {"DATA", "START", "STATUS"}
      /\ request.type = "DATA" => payload'[c] = c
  BY <1>1, <1>4 DEF Connections
<1>6. OthersSame(c)
  BY <1>1 DEF OthersSame, Connections
<1>7. Asking(c, request)' /\ replies'[c] = <<>>
  BY <1>1, <1>2, <1>3, <1>5 DEF Asking
<1>8. GoesOn(c)
  <2>1. ~Quiet(c) /\ ~Ended(c)
    BY <1>1 DEF Quiet, Ended
  <2>2. DataExchange(c) => DataExchange(c)'
    <3>1. DataExchange(c) => state[c].status = "IDLE"
      BY <1>1 DEF DataExchange, Telling
    <3>2. DataExchange(c) => request = [type |-> "DATA", matrix |-> c]
      BY <1>4, <3>1 DEF Started
    <3> QED
      BY <1>1, <1>5, <1>7, <3>1, <3>2 DEF DataExchange
  <2>3. StartExchange(c) => StartExchange(c)'
    <3>1. StartExchange(c) => state[c].status = "READY"
      BY <1>1 DEF StartExchange, Telling
    <3>2. StartExchange(c) => request = [type |-> "START"]
      BY <1>4, <3>1 DEF Started
    <3> QED
      BY <1>1, <1>7, <3>1, <3>2 DEF StartExchange
  <2>4. StatusExchange(c) => StatusExchange(c)'
    <3>1. StatusExchange(c) => request = [type |-> "STATUS"] /\ Started(c)
      BY <1>4 DEF StatusExchange, Started
    <3> QED
      BY <1>1, <1>7, <3>1 DEF StatusExchange, Started
  <2> QED
    BY <2>1, <2>2, <2>3, <2>4 DEF GoesOn
<1>9. Progress(c)'
  BY <1>1 DEF SessionInv, ClientInv, Progress
<1> QED
  BY <1>1, <1>6, <1>7, <1>8, <1>9, ServerKeepsInv

LEMMA RecvFailsKeepsInv ==
  ASSUME SessionInv, Connections, NEW c \in Client, Server!RecvFails(c),
         UNCHANGED <<step, shown>>
  PROVE  SessionInv'
<1>1. /\ requests[c] = <<>> /\ peer[c] = "gone" /\ pc' = [pc EXCEPT ![c] = "cleanup"]
      /\ UNCHANGED <<peer, requests, replies, payload, outbox, state, worker>>
  BY DEF Server!RecvFails, Server!Goto
<1>2. OthersSame(c) /\ pc'[c] = "cleanup"
  BY <1>1 DEF OthersSame, Connections
<1>3. replies'[c] = <<>> /\ Progress(c)'
  BY <1>1 DEF SessionInv, ClientInv, Conversation, Progress
<1>4. Exchanging(c)'
  BY <1>1, <1>2, <1>3 DEF Exchanging, Ended
<1> QED
  BY <1>1, <1>2, <1>3, <1>4, ServerKeepsInv

LEMMA SendReplyKeepsInv ==
  ASSUME SessionInv, Connections, NEW c \in Client, Server!SendReply(c),
         UNCHANGED <<step, shown>>
  PROVE  SessionInv'
<1>1. /\ pc[c] = "send" /\ UNCHANGED <<peer, requests, payload, state, worker>>
      /\ outbox' = [outbox EXCEPT ![c] = Server!NoReply]
  BY DEF Server!SendReply, Server!At
<1>2. /\ requests[c] = <<>> /\ replies[c] = <<>>
      /\ \/ outbox[c] = [type |-> "DATA_OK"] /\ state[c].status = "READY"
         \/ outbox[c] = [type |-> "START_OK"] /\ Started(c)
         \/ outbox[c] \in Server!Reply /\ OwnStatus(c, outbox[c]) /\ Started(c)
  BY <1>1, HandlerTells
<1>3. Progress(c)'
  BY <1>1 DEF SessionInv, ClientInv, Progress
<1>4. CASE /\ peer[c] = "connected" /\ replies' = [replies EXCEPT ![c] = Append(@, outbox[c])]
           /\ pc' = [pc EXCEPT ![c] = "recv"]
  <2>1. OthersSame(c) /\ pc'[c] = "recv"
    BY <1>1, <1>4 DEF OthersSame, Connections
  <2>2. replies'[c] = <<outbox[c]>> /\ requests'[c] = <<>>
    <3>1. replies'[c] = Append(replies[c], outbox[c])
      BY <1>4 DEF Connections
    <3> QED
      BY <1>1, <1>2, <3>1, OneMessage
  <2>3. ASSUME NEW reply, Telling(c, reply)
        PROVE  Telling(c, reply)'
    BY <1>1, <2>1, <2>2, <2>3 DEF Telling
  <2>4. \A request : Asking(c, request) => request.type = "send"
    BY <1>1 DEF Asking
  <2>5. state' = state /\ (Started(c)' <=> Started(c))
    BY <1>1 DEF Started
  <2>6. GoesOn(c)
    <3>1. ~Quiet(c) /\ ~Ended(c)
      BY <1>1 DEF Quiet, Ended
    <3>2. DataExchange(c) => DataExchange(c)'
      BY <2>3, <2>4, <2>5 DEF DataExchange
    <3>3. StartExchange(c) => StartExchange(c)'
      BY <2>3, <2>4, <2>5 DEF StartExchange
    <3>4. StatusExchange(c) => StatusExchange(c)'
      <4> SUFFICES ASSUME StatusExchange(c)
                   PROVE  StatusExchange(c)'
        OBVIOUS
      <4>1. PICK reply \in Server!Reply : OwnStatus(c, reply) /\ Telling(c, reply)
        BY <2>4 DEF StatusExchange
      <4>2. reply \in Server!Reply' /\ OwnStatus(c, reply)'
        BY <4>1 DEF Server!Reply, Server!StatusCode, Server!ErrorCode, OwnStatus
      <4> QED
        BY <2>3, <2>5, <4>1, <4>2 DEF StatusExchange
    <3> QED
      BY <3>1, <3>2, <3>3, <3>4 DEF GoesOn
  <2> QED
    BY <1>1, <1>3, <1>4, <2>1, <2>6, ServerKeepsInv
<1>5. CASE /\ peer[c] = "gone" /\ replies' = replies
           /\ \/ pc' = [pc EXCEPT ![c] = "recv"]
              \/ pc' = [pc EXCEPT ![c] = "cleanup"]
  <2>1. OthersSame(c) /\ pc'[c] \in {"recv", "cleanup"}
    BY <1>1, <1>5 DEF OthersSame, Connections
  <2>2. Exchanging(c)' /\ replies'[c] = <<>>
    BY <1>1, <1>2, <1>5, <2>1 DEF Exchanging, Quiet, Ended
  <2> QED
    BY <1>1, <1>3, <1>5, <2>1, <2>2, ServerKeepsInv
<1> QED
  BY <1>4, <1>5 DEF Server!SendReply, Server!Goto

\* The handler has chosen its reply.
LEMMA AnswerKeepsInv ==
  ASSUME SessionInv, Connections, NEW c \in Client, NEW reply,
         pc[c] \in {"DATA", "START", "STATUS"},
         Server!Answer(c, reply), UNCHANGED <<step, shown>>,
         \A d \in Client \ {c} : state'[d] = state[d] /\ worker'[d] = worker[d],
         Progress(c)',
         \/ pc[c] = "DATA" /\ reply = [type |-> "DATA_OK"] /\ state'[c].status = "READY"
         \/ pc[c] = "START" /\ reply = [type |-> "START_OK"] /\ Started(c)'
         \/ pc[c] = "STATUS" /\ reply \in Server!Reply /\ OwnStatus(c, reply) /\ Started(c)'
  PROVE  SessionInv'
<1>1. /\ pc' = [pc EXCEPT ![c] = "send"] /\ outbox' = [outbox EXCEPT ![c] = reply]
      /\ payload' = [payload EXCEPT ![c] = NoMatrix]
      /\ UNCHANGED <<peer, requests, replies>>
  BY DEF Server!Answer, Server!Goto
<1>2. OthersSame(c) /\ pc'[c] = "send" /\ outbox'[c] = reply
  BY <1>1 DEF OthersSame, Connections
<1>3. requests[c] = <<>> /\ replies[c] = <<>>
  BY HandlerTells
<1>4. Telling(c, reply)'
  BY <1>1, <1>2, <1>3 DEF Telling
<1>5. GoesOn(c)
  <2>1. ~Quiet(c) /\ ~Ended(c)
    BY DEF Quiet, Ended
  <2>2. DataExchange(c) => DataExchange(c)'
    <3>1. DataExchange(c) => pc[c] = "DATA"
      BY <1>3, OneMessage DEF DataExchange, Asking, Telling
    <3> QED
      BY <1>4, <3>1 DEF DataExchange
  <2>3. StartExchange(c) => StartExchange(c)'
    <3>1. StartExchange(c) => pc[c] = "START"
      BY <1>3, OneMessage DEF StartExchange, Asking, Telling
    <3> QED
      BY <1>4, <3>1 DEF StartExchange
  <2>4. StatusExchange(c) => StatusExchange(c)'
    <3> SUFFICES ASSUME StatusExchange(c)
                 PROVE  StatusExchange(c)'
      OBVIOUS
    <3>1. pc[c] = "STATUS"
      BY <1>3, OneMessage DEF StatusExchange, Asking, Telling
    <3>2. reply \in Server!Reply' /\ OwnStatus(c, reply)'
      BY <3>1 DEF Server!Reply, Server!StatusCode, Server!ErrorCode, OwnStatus
    <3> QED
      BY <1>4, <3>1, <3>2 DEF StatusExchange
  <2> QED
    BY <2>1, <2>2, <2>3, <2>4 DEF GoesOn
<1> QED
  BY <1>1, <1>2, <1>3, <1>5, ServerKeepsInv

\* The first DATA is stored at once: there is no worker to wait for.
LEMMA HandleDataKeepsInv ==
  ASSUME SessionInv, Connections, NEW c \in Client, Server!HandleData(c),
         UNCHANGED <<step, shown>>
  PROVE  SessionInv'
<1>1. pc[c] = "DATA"
  BY DEF Server!HandleData, Server!At
<1>2. state[c].status = "IDLE" /\ payload[c] = c /\ worker[c] = "none"
  BY <1>1, HandlerTells DEF SessionInv, ClientInv, Progress
<1>3. Server!StoreData(c) /\ worker' = worker
  BY <1>2 DEF Server!HandleData, Server!Running, Server!Joinable
<1>0. PICK reply : reply = [type |-> "DATA_OK"]
  OBVIOUS
<1>4. state' = [state EXCEPT ![c].data = payload[c], ![c].hasData = TRUE,
                             ![c].status = "READY", ![c].error = "NONE"]
  BY <1>3 DEF Server!StoreData
<1>5. /\ state'[c].data = c /\ state'[c].hasData
      /\ \A d \in Client \ {c} : state'[d] = state[d] /\ worker'[d] = worker[d]
  BY <1>2, <1>3, <1>4 DEF Connections
<1>6. state'[c].status = "READY"
  BY <1>4 DEF Connections
<1>7. Progress(c)'
  BY <1>2, <1>3, <1>5, <1>6 DEF Progress
<1>8. Server!Answer(c, reply)
  BY <1>0, <1>3 DEF Server!StoreData
<1> QED
  BY <1>0, <1>1, <1>5, <1>6, <1>7, <1>8, AnswerKeepsInv

LEMMA HandleStartKeepsInv ==
  ASSUME SessionInv, Connections, NEW c \in Client, Server!HandleStart(c),
         UNCHANGED <<step, shown>>
  PROVE  SessionInv'
<1>1. pc[c] = "START"
  BY DEF Server!HandleStart, Server!At
<1>2. state[c].status = "READY" /\ state[c].data = c /\ state[c].hasData
  BY <1>1, HandlerTells DEF SessionInv, ClientInv, Progress
<1>3. \/ /\ state' = [state EXCEPT ![c].status = "RUNNING", ![c].error = "NONE"]
         /\ worker' = [worker EXCEPT ![c] = "computing"]
         /\ Server!Answer(c, [type |-> "START_OK"])
      \/ Server!Terminate
  BY <1>2 DEF Server!HandleStart, Server!Running
<1>4. CASE Server!Terminate
  BY <1>4, TerminateKeepsInv
<1>5. CASE /\ state' = [state EXCEPT ![c].status = "RUNNING", ![c].error = "NONE"]
           /\ worker' = [worker EXCEPT ![c] = "computing"]
           /\ Server!Answer(c, [type |-> "START_OK"])
  <2>1. /\ state'[c].status = "RUNNING" /\ state'[c].data = c /\ state'[c].hasData
        /\ \A d \in Client \ {c} : state'[d] = state[d] /\ worker'[d] = worker[d]
    BY <1>2, <1>5 DEF Connections
  <2>2. Progress(c)' /\ Started(c)'
    BY <2>1 DEF Progress, Started
  <2>3. PICK reply : reply = [type |-> "START_OK"]
    OBVIOUS
  <2>4. Server!Answer(c, reply)
    BY <1>5, <2>3
  <2> QED
    BY <1>1, <2>1, <2>2, <2>3, <2>4, AnswerKeepsInv
<1> QED
  BY <1>3, <1>4, <1>5

LEMMA HandleStatusKeepsInv ==
  ASSUME SessionInv, Connections, Server!DoneMeansCurrent,
         NEW c \in Client, Server!HandleStatus(c), UNCHANGED <<step, shown>>
  PROVE  SessionInv'
<1>1. PICK reply : reply = Server!StatusReply(state[c].status,
                             IF state[c].status = "DONE" THEN state[c].result ELSE NoMatrix,
                             state[c].error)
  OBVIOUS
<1>2. pc[c] = "STATUS" /\ Server!Answer(c, reply) /\ UNCHANGED <<state, worker, job>>
  BY <1>1 DEF Server!HandleStatus, Server!At
<1>3. Started(c) /\ state[c].data = c
  BY <1>2, HandlerTells DEF SessionInv, ClientInv, Progress, Started
<1>4. reply \in Server!Reply
  <2>1. state[c] \in [data: Client \cup {NoMatrix}, hasData: BOOLEAN,
                      status: {"IDLE", "READY", "RUNNING", "DONE", "ERROR"},
                      error: Server!ErrorCode, result: Client \cup {NoMatrix}]
    BY DEF Connections
  <2> QED
    BY <1>1, <2>1 DEF Server!StatusReply, Server!Reply, Server!StatusCode
<1>5. OwnStatus(c, reply)
  <2>1. state[c].status = "DONE" => state[c].result = c
    BY <1>3 DEF Server!DoneMeansCurrent
  <2>2. reply.type = "STATUS_RESP" /\ reply.status = state[c].status
        /\ reply.result = IF state[c].status = "DONE" THEN state[c].result ELSE NoMatrix
    BY <1>1 DEF Server!StatusReply
  <2> QED
    BY <2>1, <2>2 DEF OwnStatus
<1>6. Progress(c)' /\ Started(c)'
  BY <1>2, <1>3 DEF SessionInv, ClientInv, Progress, Started
<1> QED
  BY <1>2, <1>4, <1>5, <1>6, AnswerKeepsInv

LEMMA CleanupKeepsInv ==
  ASSUME SessionInv, Connections, NEW c \in Client, Server!Cleanup(c),
         UNCHANGED <<step, shown>>
  PROVE  SessionInv'
<1>1. /\ pc[c] = "cleanup" /\ pc' = [pc EXCEPT ![c] = "closed"]
      /\ worker' = [worker EXCEPT ![c] = "none"]
      /\ UNCHANGED <<peer, requests, replies, payload, outbox, state>>
  BY DEF Server!Cleanup, Server!At, Server!Goto
<1>2. OthersSame(c) /\ pc'[c] = "closed" /\ worker'[c] = "none"
  BY <1>1 DEF OthersSame, Connections
<1>3. requests[c] = <<>> /\ replies[c] = <<>> /\ peer[c] = "gone"
  BY <1>1, HandlerTells
<1>4. Exchanging(c)'
  BY <1>1, <1>2, <1>3 DEF Exchanging, Ended
<1>5. Progress(c)'
  BY <1>1, <1>2 DEF SessionInv, ClientInv, Progress
<1> QED
  BY <1>1, <1>2, <1>3, <1>4, <1>5, ServerKeepsInv

LEMMA HandlerKeepsInv ==
  ASSUME SessionInv, Connections, Server!DoneMeansCurrent,
         NEW c \in Client, Server!HandlerStep(c), UNCHANGED <<step, shown>>
  PROVE  SessionInv'
<1>1. ~Server!RejectInvalid(c) /\ ~Server!JoinThenStore(c)
  BY HandlerTells DEF Server!RejectInvalid, Server!JoinThenStore, Server!At
<1>2. CASE Server!AllocationFails(c)
  BY <1>2, TerminateKeepsInv DEF Server!AllocationFails
<1> QED
  BY <1>1, <1>2, AcceptKeepsInv, RecvMessageKeepsInv, RecvFailsKeepsInv, SendReplyKeepsInv,
     HandleDataKeepsInv, HandleStartKeepsInv, HandleStatusKeepsInv, CleanupKeepsInv
     DEF Server!HandlerStep

\* The worker changes what a STATUS finds, and nothing else.
LEMMA WorkerKeepsInv ==
  ASSUME SessionInv, Connections, NEW c \in Client, Server!WorkerStep(c),
         UNCHANGED <<step, shown>>
  PROVE  SessionInv'
<1> DEFINE Works(newState, newWorker) ==
      /\ worker[c] # "none" /\ state' = newState /\ worker' = newWorker
      /\ UNCHANGED <<peer, requests, replies, pc, payload, outbox>>
<1>1. ASSUME worker[c] # "none",
             UNCHANGED <<peer, requests, replies, pc, payload, outbox>>,
             \A d \in Client \ {c} : state'[d] = state[d] /\ worker'[d] = worker[d],
             state'[c].data = state[c].data, state'[c].hasData = state[c].hasData,
             state'[c].status \in {state[c].status, "DONE", "ERROR"}
      PROVE  SessionInv'
  <2>1. Started(c) /\ state[c].data = c /\ state[c].hasData
    BY <1>1 DEF SessionInv, ClientInv, Progress, Connections, Started
  <2>2. Started(c)' /\ Progress(c)'
    BY <1>1, <2>1 DEF Started, Progress
  <2>3. OthersSame(c)
    BY <1>1 DEF OthersSame
  <2>4. GoesOn(c)
    <3>1. Quiet(c)' <=> Quiet(c)
      BY <1>1 DEF Quiet
    <3>2. Ended(c)' <=> Ended(c)
      BY <1>1 DEF Ended
    <3>3. DataExchange(c) => FALSE
      BY <2>1 DEF DataExchange, Started
    <3>4. StartExchange(c) => StartExchange(c)'
      BY <1>1, <2>1, <2>2 DEF StartExchange, Asking, Telling, Started
    <3>5. StatusExchange(c) => StatusExchange(c)'
      BY <1>1, <2>2
         DEF StatusExchange, Asking, Telling, OwnStatus, Server!Reply, Server!StatusCode,
             Server!ErrorCode
    <3> QED
      BY <2>1, <2>2, <3>1, <3>2, <3>3, <3>4, <3>5 DEF GoesOn
  <2>5. peer[c] = "gone" => replies'[c] = <<>>
    BY <1>1 DEF SessionInv, ClientInv, Conversation
  <2> QED
    BY <1>1, <2>2, <2>3, <2>4, <2>5, ServerKeepsInv
<1>2. CASE Server!StoreResult(c)
  <2>1. /\ worker[c] = "computing" /\ worker' = [worker EXCEPT ![c] = "returning"]
        /\ state' = [state EXCEPT ![c] = [state[c] EXCEPT !.result = job[c],
                                                 !.status = "DONE", !.error = "NONE"]]
        /\ UNCHANGED <<peer, requests, replies, pc, payload, outbox>>
    BY <1>2 DEF Server!StoreResult, Server!Finish
  <2> QED
    BY <1>1, <2>1 DEF Connections
<1>3. CASE Server!ComputationFails(c)
  <2>1. CASE Server!Terminate
    BY <2>1, TerminateKeepsInv
  <2>2. CASE Server!Finish(c, [state[c] EXCEPT !.status = "ERROR", !.error = "INTERNAL"])
    <3>1. /\ worker[c] = "computing" /\ worker' = [worker EXCEPT ![c] = "returning"]
          /\ state' = [state EXCEPT ![c] = [state[c] EXCEPT !.status = "ERROR",
                                                   !.error = "INTERNAL"]]
          /\ UNCHANGED <<peer, requests, replies, pc, payload, outbox>>
      BY <2>2 DEF Server!Finish
    <3> QED
      BY <1>1, <3>1 DEF Connections
  <2> QED
    BY <1>3, <2>1, <2>2 DEF Server!ComputationFails
<1>4. CASE Server!Exit(c)
  <2>1. /\ worker[c] = "returning" /\ worker' = [worker EXCEPT ![c] = "exited"]
        /\ UNCHANGED <<peer, requests, replies, pc, payload, outbox, state>>
    BY <1>4 DEF Server!Exit
  <2> QED
    BY <1>1, <2>1 DEF Connections
<1> QED
  BY <1>2, <1>3, <1>4 DEF Server!WorkerStep

-----------------------------------------------------------------------------
LEMMA SessionInvariant == Spec => []SessionInv
<1>1. Init => SessionInv
  <2> SUFFICES ASSUME Init PROVE SessionInv
    OBVIOUS
  <2>1. step \in [Client -> Label] /\ shown \in [Client -> Client \cup {NoMatrix}]
    BY DEF Init, Label
  <2>2. ASSUME NEW c \in Client PROVE ClientInv(c)
    <3>1. /\ step[c] = "connect" /\ shown[c] = NoMatrix /\ peer[c] = "away"
          /\ requests[c] = <<>> /\ replies[c] = <<>> /\ pc[c] = "none"
          /\ worker[c] = "none" /\ state[c].status = "IDLE"
      BY DEF Init, Server!Init
    <3> QED
      BY <3>1 DEF ClientInv, Conversation, Exchanging, Quiet, Progress, Label, Over
  <2> QED
    BY <2>1, <2>2 DEF SessionInv
<1>2. Server!TypeOK /\ Server!DoneMeansCurrent /\ SessionInv /\ [Next]_vars => SessionInv'
  <2> SUFFICES ASSUME Server!TypeOK, Server!DoneMeansCurrent, SessionInv, [Next]_vars
               PROVE  SessionInv'
    OBVIOUS
  <2>1. Connections
    BY ConnectionTypes
  <2>2. CASE UNCHANGED vars
    BY <2>2, StutterKeepsInv
  <2>3. ASSUME NEW c \in Client, ClientStep(c) \/ CallFails(c)
        PROVE  SessionInv'
    BY <2>1, <2>3, ConnectKeepsInv, SendKeepsInv, ReceiveKeepsInv, CallFailsKeepsInv,
       CloseKeepsInv DEF ClientStep
  <2>4. ASSUME NEW c \in Client, ServerStep(c)
        PROVE  SessionInv'
    BY <2>1, <2>4, HandlerKeepsInv, WorkerKeepsInv DEF ServerStep
  <2> QED
    BY <2>2, <2>3, <2>4 DEF Next, Finished
<1> QED
  BY <1>1, <1>2, ServerFacts, PTL DEF Spec

(***************************************************************************)
(* A client that prints a result prints that of the matrix it generated,   *)
(* whatever the other clients do and however the computations and the      *)
(* polling interleave.                                                     *)
(***************************************************************************)
THEOREM ResultsAreOwn == Spec => []ShowsOwnResult
<1>1. SessionInv => ShowsOwnResult
  BY SessionAssumption
     DEF SessionInv, ClientInv, ShowsOwnResult, Server!ServerAssumption
<1> QED
  BY <1>1, SessionInvariant, PTL

(***************************************************************************)
(* Requests and replies keep in step: a client finds no reply but the one  *)
(* it waits for, and there is never a second message under way.            *)
(***************************************************************************)
THEOREM ProtocolRespected == Spec => []RepliesAsExpected
<1>1. SessionInv => RepliesAsExpected
  <2> SUFFICES ASSUME SessionInv, NEW c \in Client
               PROVE  /\ Receiving(c) => Len(requests[c]) + Len(replies[c]) <= 1
                      /\ replies[c] # <<>> /\ ~Over(c) =>
                           Receiving(c) /\ Head(replies[c]).type = Expected[step[c]]
    BY DEF RepliesAsExpected
  <2>1. Exchanging(c) /\ step[c] \in Label /\ Conversation(c)
    BY DEF SessionInv, ClientInv, Conversation
  <2>2. \/ requests[c] = <<>> /\ replies[c] = <<>>
        \/ requests[c] = <<>> /\ \E reply : replies[c] = <<reply>>
        \/ replies[c] = <<>> /\ \E request : requests[c] = <<request>>
    BY <2>1 DEF Exchanging, Quiet, DataExchange, StartExchange, StatusExchange, Ended,
                Asking, Telling
  <2>3. Len(requests[c]) + Len(replies[c]) <= 1
    <3> DEFINE m == Len(requests[c])
               n == Len(replies[c])
    <3>1. m \in {0, 1} /\ n \in {0, 1} /\ (m = 0 \/ n = 0)
      BY <2>2, OneMessage
    <3> HIDE DEF m, n
    <3>2. m + n <= 1
      BY <3>1
    <3> QED
      BY <3>2 DEF m, n
  <2>4. ASSUME replies[c] # <<>>, ~Over(c)
        PROVE  Receiving(c)
    <3>1. ~Quiet(c)
      BY <2>4 DEF Quiet
    <3>2. step[c] \in {"recvDataOk", "recvStartOk", "recvStatus"}
      BY <2>1, <2>4, <3>1 DEF Label, Over, Conversation
    <3> QED
      BY <3>2 DEF Receiving, Expected
  <2> QED
    BY <2>3, <2>4, ReplyIsExpected
<1> QED
  BY <1>1, SessionInvariant, PTL

(***************************************************************************)
(* A START of these clients never meets a joinable worker: the assignment  *)
(* to state.worker in handleStartCommand does not terminate the server.    *)
(***************************************************************************)
THEOREM StartsAreSafe == Spec => []StartFindsNoWorker
<1>1. SessionInv => StartFindsNoWorker
  BY HandlerTells DEF SessionInv, ClientInv, Progress, StartFindsNoWorker
<1> QED
  BY <1>1, SessionInvariant, PTL

(***************************************************************************)
(* Hence, while threads can be created and memory is to be had, the        *)
(* clients of the repository never take the server down, for any number of *)
(* them (with other clients it can be: see ServerStaysUp).                 *)
(***************************************************************************)
THEOREM OwnClientsAreHarmless ==
  ASSUME ResourcesMayFail = FALSE
  PROVE  Spec => []Server!ServerStaysUp
<1>1. Init => up
  BY DEF Init, Server!Init
<1>2. SessionInv /\ up /\ [Next]_vars => up'
  <2> SUFFICES ASSUME SessionInv, up, [Next]_vars PROVE up'
    OBVIOUS
  <2>1. CASE UNCHANGED vars
    BY <2>1 DEF vars, serverVars
  <2>2. ASSUME NEW c \in Client, ClientStep(c) \/ CallFails(c)
        PROVE  up'
    BY <2>2 DEF ClientStep, CallFails, serverVars, ConnectToServer, SendRequest, ReceiveReply,
                Close, Server!Connect, Server!Send, Server!Receive, Server!Hangup
  <2>3. ASSUME NEW c \in Client, Server!WorkerStep(c)
        PROVE  up'
    BY <2>3 DEF Server!WorkerStep, Server!StoreResult, Server!ComputationFails, Server!Exit,
                Server!Finish
  <2>4. ASSUME NEW c \in Client, Server!HandleStart(c)
        PROVE  up'
    <3>1. worker[c] = "none"
      BY <2>4, HandlerTells
         DEF Server!HandleStart, Server!At, SessionInv, ClientInv, Progress
    <3> QED
      BY <2>4, <3>1 DEF Server!HandleStart, Server!Joinable, Server!Answer
  <2>5. ASSUME NEW c \in Client, Server!HandlerStep(c)
        PROVE  up'
    BY <2>4, <2>5
       DEF Server!HandlerStep, Server!Accept, Server!RecvMessage, Server!RecvFails,
           Server!SendReply, Server!RejectInvalid, Server!HandleData, Server!JoinThenStore,
           Server!AllocationFails, Server!HandleStatus, Server!Cleanup, Server!StoreData, Server!Answer
  <2> QED
    BY <2>1, <2>2, <2>3, <2>5 DEF Next, ServerStep, Finished
<1> QED
  BY <1>1, <1>2, SessionInvariant, PTL DEF Spec, Server!ServerStaysUp
=============================================================================
