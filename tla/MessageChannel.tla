--------------------------- MODULE MessageChannel ---------------------------
(***************************************************************************)
(* What sendMessage and recvMessage of lab_4 (protocol.h) promise to the   *)
(* two ends of a connection, for one direction, with no bytes in it: every *)
(* message is received whole, once, and in the order of the calls, and     *)
(* unless the connection breaks it is received.  A message that is too     *)
(* long is never received, and nothing after it.  Every call of            *)
(* sendMessage returns.  This is what MinMaxServer takes its channels for. *)
(***************************************************************************)
EXTENDS Naturals, Sequences

CONSTANTS Message,
          TooLong     \* the messages that are longer than kMaxPayloadBytes

VARIABLES sent,       \* the messages sendMessage was called with
          sending,    \* a call of sendMessage is under way
          received,   \* the messages recvMessage has returned
          broken      \* the connection is gone

channelVars == <<sent, sending, received, broken>>

Init == sent = <<>> /\ sending = FALSE /\ received = <<>> /\ broken = FALSE

\* sendMessage is called, and returns.
Send ==
  /\ ~sending /\ sending' = TRUE
  /\ \E m \in Message : sent' = Append(sent, m)
  /\ UNCHANGED <<received, broken>>

Return == sending /\ sending' = FALSE /\ UNCHANGED <<sent, received, broken>>

\* recvMessage returns the next message.
Deliver ==
  /\ Len(received) < Len(sent)
  /\ LET next == sent[Len(received) + 1]
     IN  next \notin TooLong /\ received' = Append(received, next)
  /\ UNCHANGED <<sent, sending, broken>>

Break == ~broken /\ broken' = TRUE /\ UNCHANGED <<sent, sending, received>>

Next == Send \/ Return \/ Deliver \/ Break

Spec == Init /\ [][Next]_channelVars

\* A broken connection delivers nothing, but it keeps no sender either.
FairSpec ==
  /\ Spec
  /\ WF_channelVars(Return) /\ WF_channelVars(~broken /\ Deliver)
=============================================================================
