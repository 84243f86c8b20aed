---------------------------- MODULE MessageStream ----------------------------
(***************************************************************************)
(* Framing of messages over a TCP connection of lab_4, in one direction:   *)
(* sendMessage, recvMessage, sendAll and recvAll of protocol.h and their   *)
(* counterparts in go_client/main.go.  A message is a header and a payload *)
(* of units, a unit standing for a few bytes; send and recv handle as many *)
(* of them as they like, at least one; the connection may break at any     *)
(* moment and lose what is under way.                                      *)
(***************************************************************************)
EXTENDS Naturals, Sequences

CONSTANTS Message, Length,    \* the messages and the units of their payloads
          HeaderSize,         \* sizeof(MessageHeader)
          MaxPayload,         \* kMaxPayloadBytes
          WireCapacity,       \* what the connection can hold
          MaxSent             \* bound on the messages that are sent

ASSUME MessageAssumption ==
  /\ Length \in [Message -> Nat]
  /\ HeaderSize \in Nat \ {0} /\ MaxPayload \in Nat
  /\ WireCapacity \in Nat \ {0} /\ MaxSent \in Nat

VARIABLES
  connected,
  oneBuffer,        \* the sender is the Go client
  buffers,          \* what sendMessage still has to pass to sendAll
  wire,             \* the units under way
  header, partial,  \* recvMessage: the header it has, the units of its recvAll
  failed,           \* the ends whose last call has failed
  sent, received    \* the history of the calls

senderVars == <<oneBuffer, buffers, sent>>
receiverVars == <<header, partial, received>>
vars == <<connected, senderVars, wire, receiverVars, failed>>

\* <<m, k>> is the k-th unit of the message m.
Unit == UNION {{m} \X (1..(HeaderSize + Length[m])) : m \in Message}

Header(m) == [k \in 1..HeaderSize |-> <<m, k>>]
Payload(m) == [k \in 1..Length[m] |-> <<m, HeaderSize + k>>]
Encoding(m) == Header(m) \o Payload(m)

Init ==
  /\ connected = TRUE
  /\ oneBuffer \in BOOLEAN
  /\ buffers = <<>> /\ wire = <<>> /\ header = <<>> /\ partial = <<>>
  /\ failed = {}
  /\ sent = <<>> /\ received = <<>>

-----------------------------------------------------------------------------
\* sendMessage: C++ sends the header and a payload that is not empty one
\* after the other, Go sends both at once.
SendMessage(m) ==
  /\ buffers = <<>> /\ "sender" \notin failed /\ Len(sent) < MaxSent
  /\ buffers' = IF oneBuffer \/ Length[m] = 0
                  THEN <<Encoding(m)>> ELSE <<Header(m), Payload(m)>>
  /\ sent' = Append(sent, Encoding(m))
  /\ UNCHANGED <<connected, oneBuffer, wire, receiverVars, failed>>

\* What is left after send has taken the first n units.
Rest(n) ==
  IF n = Len(Head(buffers)) THEN Tail(buffers)
  ELSE <<SubSeq(Head(buffers), n + 1, Len(Head(buffers)))>> \o Tail(buffers)

\* One send of sendAll: it takes what there is room for, and goes nowhere
\* when the connection is broken.
SendSome ==
  /\ buffers # <<>>
  /\ \E n \in 1..Len(Head(buffers)) :
       /\ buffers' = Rest(n)
       /\ \/ /\ connected /\ Len(wire) + n <= WireCapacity
             /\ wire' = wire \o SubSeq(Head(buffers), 1, n)
          \/ ~connected /\ UNCHANGED wire
  /\ UNCHANGED <<connected, oneBuffer, sent, receiverVars, failed>>

\* send fails, and so does sendMessage.
SendFails ==
  /\ buffers # <<>> /\ ~connected
  /\ buffers' = <<>> /\ failed' = failed \cup {"sender"}
  /\ UNCHANGED <<connected, oneBuffer, sent, wire, receiverVars>>

-----------------------------------------------------------------------------
\* The size recvMessage passes to recvAll: a header, then a payload.
Announced == CHOOSE m \in Message : header = Header(m)
Wanted == IF header = <<>> THEN HeaderSize ELSE Length[Announced]

\* Mutant of Complete: the first recv is taken for the whole.
CompleteAtOnce == partial # <<>>

\* recvAll has everything it was asked for.
Complete == Len(partial) = Wanted

\* Mutant of RecvSome: recv is given more room than is wanted.
RecvAnything ==
  /\ "receiver" \notin failed /\ ~Complete
  /\ \E n \in 1..Len(wire) :
       /\ partial' = partial \o SubSeq(wire, 1, n)
       /\ wire' = SubSeq(wire, n + 1, Len(wire))
  /\ UNCHANGED <<connected, senderVars, header, received, failed>>

\* One recv of recvAll.
RecvSome ==
  /\ "receiver" \notin failed /\ ~Complete
  /\ \E n \in 1..Len(wire) :
       /\ Len(partial) + n <= Wanted
       /\ partial' = partial \o SubSeq(wire, 1, n)
       /\ wire' = SubSeq(wire, n + 1, Len(wire))
  /\ UNCHANGED <<connected, senderVars, header, received, failed>>

\* recvMessage returns the message.
Return(units) ==
  received' = Append(received, units) /\ header' = <<>> /\ partial' = <<>>

\* Magic number, version and length are right.
Valid(m) == partial = Header(m) /\ Length[m] <= MaxPayload

ParseHeader ==
  /\ "receiver" \notin failed /\ header = <<>> /\ Complete
  /\ \E m \in Message :
       /\ Valid(m)
       /\ \/ Length[m] = 0 /\ Return(partial)
          \/ /\ Length[m] > 0
             /\ header' = partial /\ partial' = <<>> /\ UNCHANGED received
  /\ UNCHANGED <<connected, senderVars, wire, failed>>

ReturnPayload ==
  /\ "receiver" \notin failed /\ header # <<>> /\ Complete
  /\ Return(header \o partial)
  /\ UNCHANGED <<connected, senderVars, wire, failed>>

\* recvMessage returns false: recv fails, or the header is refused.
RecvFails ==
  /\ "receiver" \notin failed
  /\ \/ ~Complete /\ wire = <<>> /\ ~connected
     \/ header = <<>> /\ Complete /\ ~\E m \in Message : Valid(m)
  /\ failed' = failed \cup {"receiver"}
  /\ UNCHANGED <<connected, senderVars, wire, receiverVars>>

\* The network fails, or an end closes the socket.
Break ==
  /\ connected /\ connected' = FALSE
  /\ \E n \in 0..Len(wire) : wire' = SubSeq(wire, 1, n)
  /\ UNCHANGED <<senderVars, receiverVars, failed>>

-----------------------------------------------------------------------------
SenderCall == SendSome \/ SendFails
ReceiverCall == RecvSome \/ ParseHeader \/ ReturnPayload \/ RecvFails

\* Nothing is left to do.
Finished ==
  /\ ~ENABLED (SenderCall \/ ReceiverCall)
  /\ UNCHANGED vars

Next ==
  \/ \E m \in Message : SendMessage(m)
  \/ SenderCall \/ ReceiverCall \/ Break
  \/ Finished

Spec == Init /\ [][Next]_vars

(***************************************************************************)
(* A call that can go on does, the receiver calls recvMessage again, and   *)
(* an end whose call has failed closes the socket; nobody has to send, and *)
(* the network owes no failure.                                            *)
(***************************************************************************)
FairSpec ==
  /\ Spec
  /\ WF_vars(SenderCall) /\ WF_vars(ReceiverCall)
  /\ WF_vars(failed # {} /\ Break)

-----------------------------------------------------------------------------
TypeOK ==
  /\ connected \in BOOLEAN /\ oneBuffer \in BOOLEAN
  /\ buffers \in Seq(Seq(Unit)) /\ Len(buffers) <= 2
  /\ wire \in Seq(Unit) /\ Len(wire) <= WireCapacity
  /\ header \in {Header(m) : m \in Message} \cup {<<>>}
  /\ partial \in Seq(Unit) /\ Len(partial) <= Wanted
  /\ failed \in SUBSET {"sender", "receiver"}
  /\ sent \in Seq({Encoding(m) : m \in Message})
  /\ received \in Seq(Seq(Unit))

Channel ==
  INSTANCE MessageChannel
    WITH Message <- {Encoding(m) : m \in Message},
         TooLong <- {Encoding(m) : m \in {n \in Message : Length[n] > MaxPayload}},
         sending <- buffers # <<>>, broken <- ~connected

(***************************************************************************)
(* protocol.h keeps the promise of MessageChannel: however the bytes are   *)
(* split and wherever the connection breaks, no message is received in     *)
(* part, twice or out of order, no boundary between two messages is lost,  *)
(* while the connection holds all that is sent arrives, and no sender is   *)
(* kept waiting by a receiver that has given up.                           *)
(***************************************************************************)
KeepsMessages == Channel!FairSpec
=============================================================================
