------------------------ MODULE MessageStreamProofs ------------------------
(***************************************************************************)
(* Proofs about the framing of lab_4's messages, for any messages and      *)
(* lengths, any size of the header and any capacity of the connection:     *)
(* however send and recv split the units and wherever the connection       *)
(* breaks, the messages that are received are the messages that were sent. *)
(***************************************************************************)
EXTENDS MessageStream, SequenceTheorems, TLAPS

(***************************************************************************)
(* The sequence s is the part of bytes that follows the first p units.     *)
(***************************************************************************)
At(bytes, p, s) ==
  /\ p + Len(s) <= Len(bytes)
  /\ \A j \in 1..Len(s) : s[j] = bytes[p + j]

LEMMA EmptyAt ==
  ASSUME NEW S, NEW bytes \in Seq(S), NEW p \in 0..Len(bytes)
  PROVE  At(bytes, p, <<>>)
BY DEF At

LEMMA SplitAt ==
  ASSUME NEW S, NEW bytes \in Seq(S), NEW p \in Nat, NEW s \in Seq(S), At(bytes, p, s),
         NEW n \in 0..Len(s)
  PROVE  /\ SubSeq(s, 1, n) \in Seq(S) /\ Len(SubSeq(s, 1, n)) = n
         /\ SubSeq(s, n + 1, Len(s)) \in Seq(S)
         /\ Len(SubSeq(s, n + 1, Len(s))) = Len(s) - n
         /\ At(bytes, p, SubSeq(s, 1, n))
         /\ At(bytes, p + n, SubSeq(s, n + 1, Len(s)))
<1> DEFINE first == SubSeq(s, 1, n)
           rest == SubSeq(s, n + 1, Len(s))
<1>1. /\ first \in Seq(S) /\ Len(first) = n
      /\ \A i \in 1..n : first[i] = s[i]
  <2>1. \A i \in 1..n : s[i] \in S
    BY ElementOfSeq
  <2> QED
    BY <2>1, SubSeqProperties
<1>2. /\ rest \in Seq(S) /\ Len(rest) = Len(s) - n
      /\ \A i \in 1..(Len(s) - n) : rest[i] = s[n + i]
  <2>1. \A i \in (n + 1)..Len(s) : s[i] \in S
    BY ElementOfSeq
  <2>2. /\ rest \in Seq(S)
        /\ Len(rest) = IF n + 1 <= Len(s) THEN Len(s) - (n + 1) + 1 ELSE 0
        /\ \A i \in 1..(Len(s) - (n + 1) + 1) : rest[i] = s[(n + 1) + i - 1]
    BY <2>1, SubSeqProperties
  <2> HIDE DEF rest
  <2> QED
    BY <2>2
<1> HIDE DEF first, rest
<1>3. At(bytes, p, first)
  BY <1>1 DEF At
<1>4. At(bytes, p + n, rest)
  <2>1. \A j \in 1..Len(rest) : rest[j] = bytes[(p + n) + j]
    <3> SUFFICES ASSUME NEW j \in 1..Len(rest) PROVE rest[j] = bytes[(p + n) + j]
      OBVIOUS
    <3>1. rest[j] = s[n + j] /\ n + j \in 1..Len(s)
      BY <1>2
    <3>2. s[n + j] = bytes[p + (n + j)]
      BY <3>1 DEF At
    <3> QED
      BY <3>1, <3>2
  <2> QED
    BY <1>2, <2>1 DEF At
<1> QED
  BY <1>1, <1>2, <1>3, <1>4 DEF first, rest

LEMMA JoinAt ==
  ASSUME NEW S, NEW bytes \in Seq(S), NEW p \in Nat, NEW s \in Seq(S), NEW t \in Seq(S),
         At(bytes, p, s), At(bytes, p + Len(s), t)
  PROVE  /\ s \o t \in Seq(S) /\ Len(s \o t) = Len(s) + Len(t)
         /\ At(bytes, p, s \o t)
<1> DEFINE joined == s \o t
<1>1. /\ joined \in Seq(S) /\ Len(joined) = Len(s) + Len(t)
      /\ \A i \in 1..(Len(s) + Len(t)) :
           joined[i] = IF i <= Len(s) THEN s[i] ELSE t[i - Len(s)]
  BY ConcatProperties
<1> HIDE DEF joined
<1>2. ASSUME NEW j \in 1..Len(joined)
      PROVE  joined[j] = bytes[p + j]
  <2>1. CASE j <= Len(s)
    <3>1. joined[j] = s[j] /\ j \in 1..Len(s)
      BY <1>1, <2>1
    <3>2. s[j] = bytes[p + j]
      BY <3>1 DEF At
    <3> QED
      BY <3>1, <3>2
  <2>2. CASE j > Len(s)
    <3>1. joined[j] = t[j - Len(s)] /\ j - Len(s) \in 1..Len(t)
      BY <1>1, <2>2
    <3>2. t[j - Len(s)] = bytes[(p + Len(s)) + (j - Len(s))]
      BY <3>1 DEF At
    <3> QED
      BY <3>1, <3>2
  <2> QED
    BY <1>1, <2>1, <2>2
<1> QED
  BY <1>1, <1>2 DEF At, joined

LEMMA GrowAt ==
  ASSUME NEW S, NEW bytes \in Seq(S), NEW more \in Seq(S)
  PROVE  /\ bytes \o more \in Seq(S) /\ Len(bytes \o more) = Len(bytes) + Len(more)
         /\ \A p \in Nat, s \in Seq(S) : At(bytes, p, s) => At(bytes \o more, p, s)
         /\ At(bytes \o more, Len(bytes), more)
<1> DEFINE longer == bytes \o more
<1>1. /\ longer \in Seq(S) /\ Len(longer) = Len(bytes) + Len(more)
      /\ \A i \in 1..(Len(bytes) + Len(more)) :
           longer[i] = IF i <= Len(bytes) THEN bytes[i] ELSE more[i - Len(bytes)]
  BY ConcatProperties
<1> HIDE DEF longer
<1>2. ASSUME NEW p \in Nat, NEW s \in Seq(S), At(bytes, p, s)
      PROVE  At(longer, p, s)
  <2>1. ASSUME NEW j \in 1..Len(s)
        PROVE  s[j] = longer[p + j]
    <3>1. p + j \in 1..Len(bytes) /\ s[j] = bytes[p + j]
      BY <1>2 DEF At
    <3> QED
      BY <1>1, <3>1
  <2> QED
    BY <1>1, <1>2, <2>1 DEF At
<1>3. At(longer, Len(bytes), more)
  <2>1. ASSUME NEW j \in 1..Len(more)
        PROVE  more[j] = longer[Len(bytes) + j]
    <3>1. PICK i \in 1..(Len(bytes) + Len(more)) : i = Len(bytes) + j
      OBVIOUS
    <3>2. ~(i <= Len(bytes)) /\ i - Len(bytes) = j
      BY <3>1
    <3>3. longer[i] = more[i - Len(bytes)]
      BY <1>1, <3>2
    <3> QED
      BY <3>1, <3>2, <3>3
  <2> QED
    BY <1>1, <2>1 DEF At
<1> QED
  BY <1>1, <1>2, <1>3 DEF longer

LEMMA SameAt ==
  ASSUME NEW S, NEW bytes \in Seq(S), NEW p \in Nat, NEW s \in Seq(S), NEW t \in Seq(S),
         At(bytes, p, s), At(bytes, p, t), Len(s) = Len(t)
  PROVE  s = t
<1>1. /\ s \in [1..Len(s) -> S] /\ t \in [1..Len(t) -> S]
  BY LenProperties
<1>2. \A j \in 1..Len(s) : s[j] = t[j]
  BY DEF At
<1> QED
  BY <1>1, <1>2

-----------------------------------------------------------------------------
(***************************************************************************)
(* A message is encoded by its header and its payload, and both tell which *)
(* message it is by their first unit.                                      *)
(***************************************************************************)
LEMMA UnitsOf ==
  ASSUME NEW m \in Message, NEW k \in 1..(HeaderSize + Length[m])
  PROVE  <<m, k>> \in Unit
BY DEF Unit

LEMMA Encodings ==
  ASSUME NEW m \in Message
  PROVE  /\ Length[m] \in Nat
         /\ Header(m) \in Seq(Unit) /\ Len(Header(m)) = HeaderSize
         /\ Payload(m) \in Seq(Unit) /\ Len(Payload(m)) = Length[m]
         /\ Encoding(m) \in Seq(Unit) /\ Len(Encoding(m)) = HeaderSize + Length[m]
         /\ Header(m) # <<>> /\ Header(m)[1] = <<m, 1>>
         /\ Encoding(m) # <<>> /\ Encoding(m)[1] = <<m, 1>>
<1>1. Length[m] \in Nat /\ HeaderSize \in Nat /\ HeaderSize >= 1
  BY MessageAssumption DEF MessageAssumption
<1>2. Header(m) \in Seq(Unit) /\ Len(Header(m)) = HeaderSize /\ Header(m)[1] = <<m, 1>>
  <2>1. \A k \in 1..HeaderSize : <<m, k>> \in Unit
    BY <1>1, UnitsOf
  <2> QED
    BY <1>1, <2>1 DEF Header
<1>3. Payload(m) \in Seq(Unit) /\ Len(Payload(m)) = Length[m]
  <2>1. \A k \in 1..Length[m] : <<m, HeaderSize + k>> \in Unit
    BY <1>1, UnitsOf
  <2> QED
    BY <1>1, <2>1 DEF Payload
<1>4. /\ Encoding(m) \in Seq(Unit) /\ Len(Encoding(m)) = HeaderSize + Length[m]
      /\ Encoding(m)[1] = <<m, 1>>
  <2>1. /\ Encoding(m) \in Seq(Unit)
        /\ Len(Encoding(m)) = Len(Header(m)) + Len(Payload(m))
        /\ \A i \in 1..(Len(Header(m)) + Len(Payload(m))) :
             Encoding(m)[i] = IF i <= Len(Header(m)) THEN Header(m)[i]
                              ELSE Payload(m)[i - Len(Header(m))]
    BY <1>2, <1>3, ConcatProperties DEF Encoding
  <2> QED
    BY <1>1, <1>2, <1>3, <2>1
<1>5. Header(m) # <<>> /\ Encoding(m) # <<>>
  BY <1>1, <1>2, <1>4
<1> QED
  BY <1>1, <1>2, <1>3, <1>4, <1>5

LEMMA HeadersDiffer ==
  ASSUME NEW m \in Message, NEW n \in Message,
         Header(m) = Header(n) \/ Encoding(m) = Encoding(n)
  PROVE  m = n
<1>1. <<m, 1>> = <<n, 1>>
  BY Encodings
<1> QED
  BY <1>1

LEMMA HeaderTells ==
  ASSUME NEW m \in Message, header = Header(m)
  PROVE  Announced = m /\ Wanted = Length[m]
<1>1. Announced = m
  BY HeadersDiffer DEF Announced
<1> QED
  BY <1>1, Encodings DEF Wanted

\* What the types say, without the bounds.
Streams ==
  /\ buffers \in Seq(Seq(Unit)) /\ Len(buffers) \in {0, 1, 2}
  /\ wire \in Seq(Unit) /\ partial \in Seq(Unit) /\ header \in Seq(Unit)
  /\ header # <<>> => \E m \in Message : header = Header(m)
  /\ sent \in Seq({Encoding(m) : m \in Message})
  /\ received \in Seq(Seq(Unit))

LEMMA TypesOfStreams == TypeOK => Streams
<1> SUFFICES ASSUME TypeOK PROVE Streams
  OBVIOUS
<1>1. header \in Seq(Unit)
  <2>1. CASE header = <<>>
    BY <2>1
  <2>2. CASE header # <<>>
    <3>1. PICK m \in Message : header = Header(m)
      BY <2>2 DEF TypeOK
    <3> QED
      BY <3>1, Encodings
  <2> QED
    BY <2>1, <2>2
<1>2. Len(buffers) \in {0, 1, 2}
  <2>1. PICK n \in Nat : n = Len(buffers)
    BY LenProperties DEF TypeOK
  <2>2. n <= 2
    BY <2>1 DEF TypeOK
  <2> QED
    BY <2>1, <2>2
<1> QED
  BY <1>1, <1>2 DEF TypeOK, Streams

LEMMA WantedIsNat ==
  ASSUME header \in {Header(m) : m \in Message} \cup {<<>>}
  PROVE  Wanted \in Nat
<1>1. CASE header = <<>>
  BY <1>1, MessageAssumption DEF MessageAssumption, Wanted
<1>2. CASE header # <<>>
  <2>1. PICK m \in Message : header = Header(m)
    BY <1>2
  <2> QED
    BY <2>1, HeaderTells, Encodings
<1> QED
  BY <1>1, <1>2

LEMMA StepCases ==
  ASSUME [Next]_vars
  PROVE  \/ \E m \in Message : SendMessage(m)
         \/ SendSome \/ SendFails \/ RecvSome \/ ParseHeader \/ ReturnPayload
         \/ RecvFails \/ Break \/ UNCHANGED vars
BY DEF Next, SenderCall, ReceiverCall, Finished

LEMMA SecondOfTwo ==
  ASSUME NEW S, NEW s \in Seq(S), s # <<>>
  PROVE  Len(s) = 2 => Tail(s)[1] = s[2]
OBVIOUS

(***************************************************************************)
(* sendAll passes on the first n units of the first buffer.                *)
(***************************************************************************)
LEMMA RestIsSmaller ==
  ASSUME Streams, buffers # <<>>, NEW n \in 1..Len(Head(buffers))
  PROVE  /\ Head(buffers) = buffers[1] /\ Head(buffers) \in Seq(Unit)
         /\ Rest(n) \in Seq(Seq(Unit)) /\ Len(Rest(n)) <= Len(buffers)
         /\ n = Len(Head(buffers)) => Rest(n) = Tail(buffers)
         /\ n # Len(Head(buffers)) =>
              /\ Len(Rest(n)) = Len(buffers)
              /\ Rest(n)[1] = SubSeq(Head(buffers), n + 1, Len(Head(buffers)))
              /\ Len(buffers) = 2 => Rest(n)[2] = buffers[2]
         /\ Len(Tail(buffers)) = Len(buffers) - 1
         /\ Len(buffers) = 2 => Tail(buffers)[1] = buffers[2]
<1>1. /\ Head(buffers) = buffers[1] /\ Head(buffers) \in Seq(Unit)
      /\ Tail(buffers) \in Seq(Seq(Unit)) /\ Len(Tail(buffers)) = Len(buffers) - 1
      /\ Len(buffers) = 2 => Tail(buffers)[1] = buffers[2]
  <2>1. PICK list \in Seq(Seq(Unit)) : list = buffers
    BY DEF Streams
  <2>2. list # <<>>
    BY <2>1
  <2>3. Head(list) = list[1] /\ Head(list) \in Seq(Unit)
    BY <2>2
  <2>4. Tail(list) \in Seq(Seq(Unit)) /\ Len(Tail(list)) = Len(list) - 1
    BY <2>2
  <2>5. Len(list) = 2 => Tail(list)[1] = list[2]
    BY <2>2, SecondOfTwo
  <2> QED
    BY <2>1, <2>3, <2>4, <2>5
<1> DEFINE rest == SubSeq(Head(buffers), n + 1, Len(Head(buffers)))
<1>2. rest \in Seq(Unit)
  <2>1. \A i \in (n + 1)..Len(Head(buffers)) : Head(buffers)[i] \in Unit
    BY <1>1, ElementOfSeq
  <2> QED
    BY <1>1, <2>1, SubSeqProperties
<1> HIDE DEF rest
<1>3. CASE n = Len(Head(buffers))
  BY <1>1, <1>3 DEF Rest, Streams
<1>4. CASE n # Len(Head(buffers))
  <2>1. Rest(n) = <<rest>> \o Tail(buffers)
    BY <1>4 DEF Rest, rest
  <2>2. <<rest>> \in Seq(Seq(Unit)) /\ Len(<<rest>>) = 1 /\ <<rest>>[1] = rest
    BY <1>2
  <2>3. /\ Rest(n) \in Seq(Seq(Unit)) /\ Len(Rest(n)) = 1 + Len(Tail(buffers))
        /\ \A i \in 1..(1 + Len(Tail(buffers))) :
             Rest(n)[i] = IF i <= 1 THEN <<rest>>[i] ELSE Tail(buffers)[i - 1]
    BY <1>1, <2>1, <2>2, ConcatProperties
  <2>4. Rest(n)[1] = rest /\ (Len(buffers) = 2 => Rest(n)[2] = Tail(buffers)[1])
    <3>1. Len(Tail(buffers)) \in Nat
      BY <1>1, LenProperties
    <3> QED
      BY <1>1, <2>2, <2>3, <3>1
  <2>5. Len(buffers) \in {1, 2}
    <3>1. Len(buffers) # 0
      BY DEF Streams
    <3> QED
      BY <3>1 DEF Streams
  <2>6. Len(Rest(n)) = Len(buffers)
    BY <1>1, <2>3, <2>5
  <2>7. Rest(n)[1] = SubSeq(Head(buffers), n + 1, Len(Head(buffers)))
    BY <2>4 DEF rest
  <2>8. Len(buffers) = 2 => Rest(n)[2] = buffers[2]
    BY <1>1, <2>4
  <2>9. Len(Rest(n)) <= Len(buffers)
    BY <2>5, <2>6
  <2> QED
    BY <1>1, <1>4, <2>3, <2>6, <2>7, <2>8, <2>9
<1> QED
  BY <1>3, <1>4

LEMMA TakeFirst ==
  ASSUME NEW s \in Seq(Unit), NEW n \in 1..Len(s)
  PROVE  /\ SubSeq(s, 1, n) \in Seq(Unit) /\ Len(SubSeq(s, 1, n)) = n
         /\ SubSeq(s, n + 1, Len(s)) \in Seq(Unit)
         /\ Len(SubSeq(s, n + 1, Len(s))) = Len(s) - n
<1>1. At(s, 0, s)
  BY DEF At
<1> QED
  BY <1>1, SplitAt

-----------------------------------------------------------------------------
LEMMA TypeInit == Init => TypeOK
<1> SUFFICES ASSUME Init PROVE TypeOK
  OBVIOUS
<1>1. header = <<>> /\ Wanted \in Nat
  BY WantedIsNat DEF Init
<1> QED
  BY <1>1, MessageAssumption DEF MessageAssumption, Init, TypeOK

LEMMA TypeStep == TypeOK /\ [Next]_vars => TypeOK'
<1> SUFFICES ASSUME TypeOK, [Next]_vars PROVE TypeOK'
  OBVIOUS
<1>0. Streams /\ Wanted \in Nat
  BY TypesOfStreams, WantedIsNat DEF TypeOK
<1>1. ASSUME NEW m \in Message, SendMessage(m)
      PROVE  TypeOK'
  <2>1. buffers' \in Seq(Seq(Unit)) /\ Len(buffers') <= 2
    <3>1. CASE buffers' = <<Encoding(m)>>
      BY <3>1, Encodings
    <3>2. CASE buffers' = <<Header(m), Payload(m)>>
      BY <3>2, Encodings
    <3> QED
      BY <1>1, <3>1, <3>2 DEF SendMessage
  <2>2. sent' \in Seq({Encoding(k) : k \in Message})
    <3>1. sent \in Seq({Encoding(k) : k \in Message})
      BY DEF TypeOK
    <3>2. sent' = Append(sent, Encoding(m)) /\ Encoding(m) \in {Encoding(k) : k \in Message}
      BY <1>1 DEF SendMessage
    <3> QED
      BY <3>1, <3>2, AppendProperties
  <2>3. Wanted' = Wanted
    BY <1>1 DEF SendMessage, receiverVars, Wanted, Announced
  <2> QED
    BY <1>1, <2>1, <2>2, <2>3 DEF SendMessage, receiverVars, TypeOK
<1>2. CASE SendSome
  <2>1. PICK n \in 1..Len(Head(buffers)) :
          /\ buffers # <<>> /\ buffers' = Rest(n)
          /\ \/ /\ Len(wire) + n <= WireCapacity
                /\ wire' = wire \o SubSeq(Head(buffers), 1, n)
             \/ wire' = wire
    BY <1>2 DEF SendSome
  <2>2. /\ Head(buffers) \in Seq(Unit) /\ Rest(n) \in Seq(Seq(Unit))
        /\ Len(Rest(n)) <= Len(buffers) /\ Len(buffers) \in Nat
    BY <1>0, <2>1, RestIsSmaller DEF Streams
  <2>3. buffers' \in Seq(Seq(Unit)) /\ Len(buffers') <= 2
    <3>1. Len(Rest(n)) \in Nat /\ Len(buffers) <= 2
      BY <2>2, LenProperties DEF TypeOK
    <3> QED
      BY <2>1, <2>2, <3>1
  <2>4. wire' \in Seq(Unit) /\ Len(wire') <= WireCapacity
    <3> DEFINE piece == SubSeq(Head(buffers), 1, n)
    <3>1. piece \in Seq(Unit) /\ Len(piece) = n
      BY <2>2, TakeFirst
    <3> HIDE DEF piece
    <3>2. wire \o piece \in Seq(Unit) /\ Len(wire \o piece) = Len(wire) + Len(piece)
      BY <3>1, ConcatProperties DEF TypeOK
    <3> QED
      BY <2>1, <3>1, <3>2 DEF piece, TypeOK
  <2>5. Wanted' = Wanted
    BY <1>2 DEF SendSome, receiverVars, Wanted, Announced
  <2> QED
    BY <1>2, <2>3, <2>4, <2>5 DEF SendSome, receiverVars, TypeOK
<1>3. CASE SendFails
  <2>1. Wanted' = Wanted
    BY <1>3 DEF SendFails, receiverVars, Wanted, Announced
  <2> QED
    BY <1>3, <2>1 DEF SendFails, receiverVars, TypeOK
<1>4. CASE RecvSome
  <2>1. PICK n \in 1..Len(wire) :
          /\ Len(partial) + n <= Wanted
          /\ partial' = partial \o SubSeq(wire, 1, n)
          /\ wire' = SubSeq(wire, n + 1, Len(wire))
    BY <1>4 DEF RecvSome
  <2>2. /\ SubSeq(wire, 1, n) \in Seq(Unit) /\ Len(SubSeq(wire, 1, n)) = n
        /\ wire' \in Seq(Unit) /\ Len(wire') = Len(wire) - n
    BY <1>0, <2>1, TakeFirst DEF Streams
  <2>3. partial' \in Seq(Unit) /\ Len(partial') = Len(partial) + n
    BY <2>1, <2>2, ConcatProperties DEF TypeOK
  <2>4. Len(wire') <= WireCapacity
    <3>1. Len(wire) \in Nat
      BY <1>0, LenProperties DEF Streams
    <3> QED
      BY <2>2, <3>1, MessageAssumption DEF MessageAssumption, TypeOK
  <2>5. Wanted' = Wanted
    BY <1>4 DEF RecvSome, Wanted, Announced
  <2> QED
    BY <1>4, <2>1, <2>2, <2>3, <2>4, <2>5 DEF RecvSome, senderVars, TypeOK
<1>5. CASE ParseHeader
  <2>1. PICK m \in Message :
          /\ Valid(m)
          /\ \/ Return(partial)
             \/ header' = partial /\ partial' = <<>> /\ UNCHANGED received
    BY <1>5 DEF ParseHeader
  <2>2. header' \in {Header(k) : k \in Message} \cup {<<>>} /\ partial' = <<>>
    BY <2>1 DEF Valid, Return
  <2>3. Wanted' \in Nat
    <3>1. CASE header' = <<>>
      BY <3>1, MessageAssumption DEF MessageAssumption, Wanted
    <3>2. CASE header' # <<>>
      <4>1. PICK k \in Message : header' = Header(k)
        BY <2>2, <3>2
      <4>2. Announced' = k
        BY <4>1, HeadersDiffer DEF Announced
      <4> QED
        BY <3>2, <4>2, Encodings DEF Wanted
    <3> QED
      BY <3>1, <3>2
  <2>4. received' \in Seq(Seq(Unit))
    <3>1. Append(received, partial) \in Seq(Seq(Unit))
      BY <1>0, AppendProperties DEF Streams
    <3> QED
      BY <1>0, <2>1, <3>1 DEF Return, Streams
  <2> QED
    BY <1>5, <2>2, <2>3, <2>4 DEF ParseHeader, senderVars, TypeOK
<1>6. CASE ReturnPayload
  <2>1. received' \in Seq(Seq(Unit)) /\ header' = <<>> /\ partial' = <<>>
    <3>1. header \o partial \in Seq(Unit)
      BY <1>0, ConcatProperties DEF Streams
    <3>2. Append(received, header \o partial) \in Seq(Seq(Unit))
      BY <1>0, <3>1, AppendProperties DEF Streams
    <3> QED
      BY <1>6, <3>2 DEF ReturnPayload, Return
  <2>2. Wanted' \in Nat
    BY <2>1, MessageAssumption DEF MessageAssumption, Wanted
  <2> QED
    BY <1>6, <2>1, <2>2 DEF ReturnPayload, senderVars, TypeOK
<1>7. CASE RecvFails
  <2>1. Wanted' = Wanted
    BY <1>7 DEF RecvFails, receiverVars, Wanted, Announced
  <2> QED
    BY <1>7, <2>1 DEF RecvFails, senderVars, receiverVars, TypeOK
<1>8. CASE Break
  <2>1. PICK n \in 0..Len(wire) : wire' = SubSeq(wire, 1, n)
    BY <1>8 DEF Break
  <2>2. wire' \in Seq(Unit) /\ Len(wire') = n
    <3>1. At(wire, 0, wire)
      BY <1>0 DEF At, Streams
    <3> QED
      BY <1>0, <2>1, <3>1, SplitAt DEF Streams
  <2>3. Len(wire') <= WireCapacity
    <3>1. Len(wire) \in Nat
      BY <1>0, LenProperties DEF Streams
    <3> QED
      BY <2>2, <3>1, MessageAssumption DEF MessageAssumption, TypeOK
  <2>4. Wanted' = Wanted
    BY <1>8 DEF Break, receiverVars, Wanted, Announced
  <2> QED
    BY <1>8, <2>2, <2>3, <2>4 DEF Break, senderVars, receiverVars, TypeOK
<1>9. CASE UNCHANGED vars
  <2>1. Wanted' = Wanted
    BY <1>9 DEF vars, receiverVars, Wanted, Announced
  <2> QED
    BY <1>9, <2>1 DEF vars, senderVars, receiverVars, TypeOK
<1> QED
  BY <1>1, <1>2, <1>3, <1>4, <1>5, <1>6, <1>7, <1>8, <1>9, StepCases

(***************************************************************************)
(* The buffers hold units of messages, the connection never more than it   *)
(* has room for, and recvAll never more than it was asked for: the end of  *)
(* a message and the start of the next are not read together.              *)
(***************************************************************************)
THEOREM TypeCorrect == Spec => []TypeOK
  BY TypeInit, TypeStep, PTL DEF Spec

-----------------------------------------------------------------------------
(***************************************************************************)
(* All the units of the messages that were sent, one after the other, are  *)
(* a sequence of bytes in which each message has its place; the i-th one   *)
(* follows the first starts[i - 1] units.  What was received ends where a  *)
(* message ends; then follow, with nothing between them and nothing        *)
(* missing, the header and the units the receiver has, what is under way,  *)
(* and, as long as the connection holds, what is left in the buffers.      *)
(***************************************************************************)
Cut(starts, bytes) ==
  /\ starts \in [0..Len(sent) -> Nat] /\ starts[0] = 0
  /\ bytes \in Seq(Unit) /\ Len(bytes) = starts[Len(sent)]
  /\ \A i \in 1..Len(sent) :
       /\ starts[i] = starts[i - 1] + Len(sent[i])
       /\ At(bytes, starts[i - 1], sent[i])

\* What is left in the buffers ends the bytes.
ToBeSent(bytes, p) ==
  \/ Len(buffers) = 0 /\ p = Len(bytes)
  \/ /\ Len(buffers) = 1 /\ At(bytes, p, buffers[1])
     /\ p + Len(buffers[1]) = Len(bytes)
  \/ /\ Len(buffers) = 2 /\ At(bytes, p, buffers[1])
     /\ At(bytes, p + Len(buffers[1]), buffers[2])
     /\ p + Len(buffers[1]) + Len(buffers[2]) = Len(bytes)

\* The header follows the first p units, the receiver's part the first q,
\* what is under way the first r, and what is left the first s.
UnderWay(bytes, p, q, r, s) ==
  /\ q = p + Len(header) /\ r = q + Len(partial) /\ s = r + Len(wire)
  /\ At(bytes, p, header) /\ At(bytes, q, partial) /\ At(bytes, r, wire)
  /\ connected => ToBeSent(bytes, s)

Flow ==
  \E starts \in [0..Len(sent) -> Nat], bytes \in Seq(Unit), p, q, r, s \in Nat :
    Cut(starts, bytes) /\ p = starts[Len(received)] /\ UnderWay(bytes, p, q, r, s)

\* The messages that were received are the first that were sent.
Delivered ==
  /\ Len(received) <= Len(sent)
  /\ \A i \in 1..Len(received) : received[i] = sent[i]

\* recvAll is called for no payload that is too long.
Accepted ==
  \A m \in Message : header = Header(m) => Length[m] <= MaxPayload

StreamInv == Flow /\ Delivered /\ Accepted

LEMMA AddsUp ==
  ASSUME NEW a \in Nat, NEW b \in Nat, NEW c \in Nat
  PROVE  (a + b) + c = a + (b + c)
OBVIOUS

LEMMA FirstAt ==
  ASSUME NEW bytes \in Seq(Unit), NEW p \in Nat, NEW s \in Seq(Unit), At(bytes, p, s),
         Len(s) >= 1
  PROVE  p + 1 <= Len(bytes) /\ s[1] = bytes[p + 1]
BY DEF At

LEMMA Lengths ==
  ASSUME Streams
  PROVE  /\ Len(received) \in Nat /\ Len(sent) \in Nat /\ Len(header) \in Nat
         /\ Len(partial) \in Nat /\ Len(wire) \in Nat
BY DEF Streams

(***************************************************************************)
(* Units that follow what was received, and look like a whole message, are *)
(* the next message.                                                       *)
(***************************************************************************)
LEMMA NextMessage ==
  ASSUME Streams, Delivered, NEW starts, NEW bytes, Cut(starts, bytes),
         NEW m \in Message, NEW whole \in Seq(Unit),
         NEW r \in Nat, r = Len(received), At(bytes, starts[r], whole),
         whole[1] = <<m, 1>>, Len(whole) = Len(Encoding(m))
  PROVE  /\ r < Len(sent) /\ sent[r + 1] = whole /\ whole = Encoding(m)
         /\ starts[r + 1] = starts[r] + Len(whole)
<1>0. Len(whole) = HeaderSize + Length[m]
  BY Encodings
<1>1. /\ r \in 0..Len(sent) /\ Len(sent) \in Nat /\ starts[r] \in Nat
      /\ HeaderSize \in Nat /\ HeaderSize >= 1 /\ Length[m] \in Nat
  <2>1. r \in 0..Len(sent) /\ Len(sent) \in Nat
    BY Lengths DEF Delivered
  <2>2. starts[r] \in Nat
    BY <2>1 DEF Cut
  <2>3. HeaderSize \in Nat /\ HeaderSize >= 1 /\ Length[m] \in Nat
    BY MessageAssumption DEF MessageAssumption
  <2> QED
    BY <2>1, <2>2, <2>3
<1>2. starts[r] + 1 <= Len(bytes) /\ whole[1] = bytes[starts[r] + 1]
  <2>1. bytes \in Seq(Unit) /\ Len(whole) >= 1
    BY <1>0, <1>1 DEF Cut
  <2> QED
    BY <1>1, <2>1, FirstAt
<1>3. r < Len(sent)
  BY <1>1, <1>2 DEF Cut
<1>4. PICK n \in Message : sent[r + 1] = Encoding(n)
  BY <1>1, <1>3, ElementOfSeq DEF Streams
<1>5. starts[r + 1] = starts[r] + Len(sent[r + 1]) /\ At(bytes, starts[r], sent[r + 1])
  <2>1. PICK i \in 1..Len(sent) : i = r + 1
    BY <1>1, <1>3
  <2>2. i - 1 = r
    BY <1>1, <2>1
  <2>3. starts[i] = starts[i - 1] + Len(sent[i]) /\ At(bytes, starts[i - 1], sent[i])
    BY DEF Cut
  <2> QED
    BY <2>1, <2>2, <2>3
<1>6. sent[r + 1] \in Seq(Unit) /\ Len(sent[r + 1]) = HeaderSize + Length[n]
      /\ sent[r + 1][1] = <<n, 1>> /\ Length[n] \in Nat
  BY <1>4, Encodings
<1>7. sent[r + 1][1] = bytes[starts[r] + 1]
  <2>1. PICK next \in Seq(Unit) : next = sent[r + 1]
    BY <1>6
  <2>2. Len(next) >= 1 /\ At(bytes, starts[r], next)
    BY <1>1, <1>5, <1>6, <2>1
  <2>3. bytes \in Seq(Unit)
    BY DEF Cut
  <2>4. next[1] = bytes[starts[r] + 1]
    BY <1>1, <2>2, <2>3, FirstAt
  <2> QED
    BY <2>1, <2>4
<1>8. m = n
  BY <1>2, <1>6, <1>7
<1>9. sent[r + 1] = whole
  BY <1>0, <1>1, <1>5, <1>6, <1>8, SameAt DEF Cut
<1> QED
  BY <1>3, <1>4, <1>5, <1>8, <1>9

LEMMA FlowIsKept ==
  ASSUME NEW starts \in [0..Len(sent) -> Nat], NEW bytes \in Seq(Unit),
         Cut(starts, bytes), UNCHANGED <<sent, received>>,
         NEW q \in Nat, NEW r \in Nat, NEW s \in Nat,
         starts[Len(received)] \in Nat,
         UnderWay(bytes, starts[Len(received)], q, r, s)', StreamInv, Accepted'
  PROVE  StreamInv'
<1>1. Flow'
  BY DEF Flow, Cut
<1>2. Delivered'
  BY DEF StreamInv, Delivered
<1> QED
  BY <1>1, <1>2 DEF StreamInv

LEMMA StreamInit == Init => StreamInv
<1> SUFFICES ASSUME Init PROVE StreamInv
  OBVIOUS
<1> DEFINE starts == [i \in 0..0 |-> 0]
<1>1. Len(sent) = 0 /\ Len(received) = 0 /\ Len(buffers) = 0
  BY DEF Init
<1>2. Cut(starts, <<>>) /\ starts \in [0..Len(sent) -> Nat] /\ starts[0] = 0
  BY <1>1 DEF Cut
<1>3. UnderWay(<<>>, 0, 0, 0, 0)
  BY <1>1 DEF Init, UnderWay, ToBeSent, At
<1>4. Delivered
  BY <1>1 DEF Delivered
<1>5. Accepted
  BY Encodings DEF Accepted, Init
<1>6. Flow
  <2>1. <<>> \in Seq(Unit) /\ starts[Len(received)] = 0
    BY <1>1, <1>2
  <2> HIDE DEF starts
  <2> QED
    BY <1>2, <1>3, <2>1 DEF Flow
<1> QED
  BY <1>4, <1>5, <1>6 DEF StreamInv

LEMMA PartsAt ==
  ASSUME NEW bytes \in Seq(Unit), NEW p \in Nat, NEW s \in Seq(Unit), NEW t \in Seq(Unit),
         At(bytes, p, s \o t)
  PROVE  At(bytes, p, s) /\ At(bytes, p + Len(s), t)
<1> DEFINE joined == s \o t
<1>1. /\ joined \in Seq(Unit) /\ Len(joined) = Len(s) + Len(t)
      /\ \A i \in 1..(Len(s) + Len(t)) :
           joined[i] = IF i <= Len(s) THEN s[i] ELSE t[i - Len(s)]
  BY ConcatProperties
<1>2. At(bytes, p, joined) /\ Len(s) \in Nat /\ Len(t) \in Nat
  OBVIOUS
<1> HIDE DEF joined
<1>3. ASSUME NEW j \in 1..Len(s)
      PROVE  s[j] = bytes[p + j]
  <2>1. j \in 1..(Len(s) + Len(t)) /\ j <= Len(s)
    BY <1>2
  <2>2. joined[j] = s[j]
    BY <1>1, <2>1
  <2>3. joined[j] = bytes[p + j]
    BY <1>1, <1>2, <2>1 DEF At
  <2> QED
    BY <2>2, <2>3
<1>4. ASSUME NEW j \in 1..Len(t)
      PROVE  t[j] = bytes[(p + Len(s)) + j]
  <2>1. PICK i \in 1..(Len(s) + Len(t)) : i = Len(s) + j
    BY <1>2
  <2>2. ~(i <= Len(s)) /\ i - Len(s) = j
    BY <1>2, <2>1
  <2>3. joined[i] = t[j]
    BY <1>1, <2>2
  <2>4. joined[i] = bytes[p + i]
    BY <1>1, <1>2 DEF At
  <2>5. p + i = (p + Len(s)) + j
    BY <1>2, <2>1
  <2> QED
    BY <2>3, <2>4, <2>5
<1>5. (p + Len(s)) + Len(t) <= Len(bytes)
  BY <1>1, <1>2 DEF At
<1>6. p + Len(s) <= Len(bytes)
  <2>1. PICK n \in Nat : n = Len(bytes)
    OBVIOUS
  <2> QED
    BY <1>2, <1>5, <2>1
<1> QED
  BY <1>2, <1>3, <1>4, <1>5, <1>6 DEF At

LEMMA SendMessageKeeps ==
  ASSUME Streams, StreamInv, NEW m \in Message, SendMessage(m)
  PROVE  StreamInv'
<1>0. PICK starts \in [0..Len(sent) -> Nat], bytes \in Seq(Unit), p, q, r, s \in Nat :
        Cut(starts, bytes) /\ p = starts[Len(received)] /\ UnderWay(bytes, p, q, r, s)
  BY DEF StreamInv, Flow
<1>1. PICK n \in Nat : n = Len(sent)
  BY Lengths
<1>2. PICK units \in Seq(Unit) : units = Encoding(m)
  BY Encodings
<1>3. /\ buffers = <<>> /\ sent' = Append(sent, units)
      /\ buffers' = <<units>> \/ buffers' = <<Header(m), Payload(m)>>
      /\ UNCHANGED <<connected, wire, header, partial, received>>
  BY <1>2 DEF SendMessage, receiverVars
<1>4. /\ Len(sent') = n + 1 /\ sent'[n + 1] = units
      /\ \A i \in 1..n : sent'[i] = sent[i]
  <2>1. units \in {Encoding(k) : k \in Message}
    BY <1>2
  <2> QED
    BY <1>1, <1>3, <2>1, AppendProperties DEF Streams
<1>5. PICK longer \in Seq(Unit) :
        /\ Len(longer) = Len(bytes) + Len(units)
        /\ \A k \in Nat, part \in Seq(Unit) : At(bytes, k, part) => At(longer, k, part)
        /\ At(longer, Len(bytes), units)
  BY GrowAt
<1>6. PICK next \in [0..(n + 1) -> Nat] :
        /\ next[n + 1] = starts[n] + Len(units)
        /\ \A i \in 0..n : next[i] = starts[i]
  <2> DEFINE f == [i \in 0..(n + 1) |-> IF i <= n THEN starts[i] ELSE starts[n] + Len(units)]
  <2>1. starts \in [0..n -> Nat] /\ Len(units) \in Nat
    BY <1>1
  <2>2. f \in [0..(n + 1) -> Nat]
    BY <2>1
  <2>3. f[n + 1] = starts[n] + Len(units) /\ \A i \in 0..n : f[i] = starts[i]
    OBVIOUS
  <2> HIDE DEF f
  <2> QED
    BY <2>2, <2>3
<1>7. Cut(next, longer)'
  <2>1. next[0] = 0 /\ Len(longer) = next[n + 1]
    BY <1>0, <1>1, <1>5, <1>6 DEF Cut
  <2>2. ASSUME NEW i \in 1..(n + 1)
        PROVE  next[i] = next[i - 1] + Len(sent'[i]) /\ At(longer, next[i - 1], sent'[i])
    <3>1. CASE i = n + 1
      <4>1. i - 1 = n /\ next[n] = starts[n] /\ starts[n] = Len(bytes)
        BY <1>0, <1>1, <1>6, <3>1 DEF Cut
      <4>2. sent'[i] = units /\ next[i] = starts[n] + Len(units)
        BY <1>4, <1>6, <3>1
      <4>3. next[i - 1] = Len(bytes)
        BY <4>1
      <4> QED
        BY <1>5, <4>1, <4>2, <4>3
    <3>2. CASE i \in 1..n
      <4>1. i - 1 \in 0..n /\ i \in 0..n
        BY <3>2
      <4>2. sent'[i] = sent[i] /\ next[i] = starts[i] /\ next[i - 1] = starts[i - 1]
        BY <1>4, <1>6, <3>2, <4>1
      <4>3. starts[i] = starts[i - 1] + Len(sent[i]) /\ At(bytes, starts[i - 1], sent[i])
        BY <1>0, <1>1, <3>2 DEF Cut
      <4>4. sent[i] \in Seq(Unit)
        <5>1. \E k \in Message : sent[i] = Encoding(k)
          BY <1>1, <3>2, ElementOfSeq DEF Streams
        <5> QED
          BY <5>1, Encodings
      <4>5. starts[i - 1] \in Nat
        BY <1>1, <4>1
      <4>6. At(longer, starts[i - 1], sent[i])
        BY <1>5, <4>3, <4>4, <4>5
      <4> QED
        BY <4>2, <4>3, <4>6
    <3> QED
      BY <3>1, <3>2
  <2> QED
    BY <1>4, <2>1, <2>2 DEF Cut
<1>8. UnderWay(longer, p, q, r, s)'
  <2>1. At(longer, p, header) /\ At(longer, q, partial) /\ At(longer, r, wire)
    BY <1>0, <1>5 DEF UnderWay, Streams
  <2>2. ASSUME connected
        PROVE  ToBeSent(longer, s)'
    <3>1. s = Len(bytes)
      BY <1>0, <1>3, <2>2 DEF UnderWay, ToBeSent
    <3>2. At(longer, s, units) /\ s + Len(units) = Len(longer)
      BY <1>5, <3>1
    <3>3. CASE buffers' = <<units>>
      <4>1. Len(buffers') = 1 /\ buffers'[1] = units
        BY <3>3
      <4> QED
        BY <3>2, <4>1 DEF ToBeSent
    <3>4. CASE buffers' = <<Header(m), Payload(m)>>
      <4>1. Len(buffers') = 2 /\ buffers'[1] = Header(m) /\ buffers'[2] = Payload(m)
        BY <3>4
      <4>2. At(longer, s, Header(m)) /\ At(longer, s + Len(Header(m)), Payload(m))
        BY <1>2, <3>2, Encodings, PartsAt DEF Encoding
      <4>3. Len(units) = Len(Header(m)) + Len(Payload(m))
        BY <1>2, Encodings
      <4>4. s + Len(Header(m)) + Len(Payload(m)) = Len(longer)
        <5>1. Len(Header(m)) \in Nat /\ Len(Payload(m)) \in Nat
          BY Encodings, LenProperties
        <5> QED
          BY <3>2, <4>3, <5>1
      <4> QED
        BY <4>1, <4>2, <4>4 DEF ToBeSent
    <3> QED
      BY <1>3, <3>3, <3>4
  <2> QED
    BY <1>0, <1>3, <2>1, <2>2 DEF UnderWay
<1>9. next[Len(received')] = p
  <2>1. Len(received) \in 0..n
    BY <1>1, Lengths DEF StreamInv, Delivered
  <2> QED
    BY <1>0, <1>3, <1>6, <2>1
<1>10. Flow'
  BY <1>4, <1>7, <1>8, <1>9 DEF Flow
<1>11. Delivered'
  <2>1. Len(received) \in 0..n /\ \A i \in 1..Len(received) : received[i] = sent[i]
    <3>1. Delivered /\ Len(received) \in Nat
      BY Lengths DEF StreamInv
    <3>2. Len(received) <= n /\ \A i \in 1..Len(received) : received[i] = sent[i]
      BY <1>1, <3>1 DEF Delivered
    <3> QED
      BY <3>1, <3>2
  <2>2. \A i \in 1..Len(received) : sent'[i] = sent[i]
    BY <1>4, <2>1
  <2> QED
    BY <1>3, <1>4, <2>1, <2>2 DEF Delivered
<1>12. Accepted'
  BY <1>3 DEF StreamInv, Accepted
<1> QED
  BY <1>10, <1>11, <1>12 DEF StreamInv

\* The first n elements of s, the others, and two sequences as one.
Front(s, n) == SubSeq(s, 1, n)
Back(s, n) == SubSeq(s, n + 1, Len(s))
Joined(s, t) == s \o t

LEMMA SplitUnits ==
  ASSUME NEW bytes \in Seq(Unit), NEW p \in Nat, NEW s \in Seq(Unit), At(bytes, p, s),
         NEW n \in 0..Len(s)
  PROVE  /\ Front(s, n) \in Seq(Unit) /\ Back(s, n) \in Seq(Unit)
         /\ Len(Front(s, n)) = n /\ Len(Back(s, n)) = Len(s) - n
         /\ At(bytes, p, Front(s, n)) /\ At(bytes, p + n, Back(s, n))
BY SplitAt DEF Front, Back

LEMMA JoinUnits ==
  ASSUME NEW bytes \in Seq(Unit), NEW p \in Nat, NEW s \in Seq(Unit), NEW t \in Seq(Unit),
         At(bytes, p, s), NEW q \in Nat, q = p + Len(s), At(bytes, q, t)
  PROVE  /\ Joined(s, t) \in Seq(Unit) /\ Len(Joined(s, t)) = Len(s) + Len(t)
         /\ At(bytes, p, Joined(s, t))
BY JoinAt DEF Joined

LEMMA SendSomeKeeps ==
  ASSUME Streams, StreamInv, SendSome
  PROVE  StreamInv'
<1>0. PICK starts \in [0..Len(sent) -> Nat], bytes \in Seq(Unit), p, q, r, s \in Nat :
        Cut(starts, bytes) /\ p = starts[Len(received)] /\ UnderWay(bytes, p, q, r, s)
  BY DEF StreamInv, Flow
<1>1. PICK n \in 1..Len(Head(buffers)) :
        /\ buffers # <<>> /\ buffers' = Rest(n)
        /\ \/ connected /\ wire' = wire \o SubSeq(Head(buffers), 1, n)
           \/ ~connected /\ wire' = wire
  BY DEF SendSome
<1>2. UNCHANGED <<connected, sent, header, partial, received>>
  BY DEF SendSome, receiverVars
<1>3. PICK first \in Seq(Unit) : first = Head(buffers) /\ first = buffers[1]
  BY <1>1, RestIsSmaller
<1>4. Accepted'
  BY <1>2 DEF StreamInv, Accepted
<1>5. CASE ~connected
  <2>1. UnderWay(bytes, p, q, r, s)'
    BY <1>0, <1>1, <1>2, <1>5 DEF UnderWay
  <2> QED
    BY <1>0, <1>2, <1>4, <2>1, FlowIsKept
<1>6. CASE connected
  <2>1. ToBeSent(bytes, s) /\ Len(buffers) \in {1, 2} /\ At(bytes, s, first)
    <3>1. Len(buffers) \in {1, 2}
      BY <1>1 DEF Streams
    <3>2. ToBeSent(bytes, s)
      BY <1>0, <1>6 DEF UnderWay
    <3>3. At(bytes, s, buffers[1])
      BY <3>1, <3>2 DEF ToBeSent
    <3> QED
      BY <1>3, <3>1, <3>2, <3>3
  <2>2. PICK piece \in Seq(Unit), rest \in Seq(Unit) :
          /\ piece = Front(first, n) /\ rest = Back(first, n)
          /\ Len(piece) = n /\ Len(rest) = Len(first) - n
          /\ At(bytes, s, piece) /\ At(bytes, s + n, rest)
    <3>1. n \in 0..Len(first)
      BY <1>3
    <3>2. /\ Front(first, n) \in Seq(Unit) /\ Back(first, n) \in Seq(Unit)
          /\ Len(Front(first, n)) = n /\ Len(Back(first, n)) = Len(first) - n
          /\ At(bytes, s, Front(first, n)) /\ At(bytes, s + n, Back(first, n))
      BY <2>1, <3>1, SplitUnits
    <3> QED
      BY <3>2
  <2>3. PICK longer \in Seq(Unit) :
          /\ longer = wire \o piece /\ Len(longer) = Len(wire) + n /\ At(bytes, r, longer)
    <3>1. At(bytes, r, wire) /\ s = r + Len(wire) /\ wire \in Seq(Unit)
      BY <1>0 DEF UnderWay, Streams
    <3>2. At(bytes, s, piece)
      BY <2>2
    <3>3. /\ Joined(wire, piece) \in Seq(Unit) /\ At(bytes, r, Joined(wire, piece))
          /\ Len(Joined(wire, piece)) = Len(wire) + Len(piece)
      BY <3>1, <3>2, JoinUnits
    <3>4. Len(piece) = n
      BY <2>2
    <3> QED
      BY <3>3, <3>4 DEF Joined
  <2>4. wire' = longer
    BY <1>1, <1>3, <1>6, <2>2, <2>3 DEF Front
  <2>5. PICK t \in Nat : t = s + n
    OBVIOUS
  <2>6. t = r + Len(longer)
    <3>1. PICK w \in Nat : w = Len(wire)
      BY Lengths
    <3>2. s = r + w /\ Len(longer) = w + n
      BY <1>0, <2>3, <3>1 DEF UnderWay
    <3>3. n \in Nat
      BY <1>3
    <3> QED
      BY <2>5, <3>2, <3>3
  <2>7. ToBeSent(bytes, t)'
    <3>1. CASE n = Len(first)
      <4>1. /\ Len(buffers') = Len(buffers) - 1
            /\ Len(buffers) = 2 => buffers'[1] = buffers[2]
        BY <1>1, <1>3, <3>1, RestIsSmaller
      <4>2. CASE Len(buffers) = 1
        BY <1>3, <2>1, <2>5, <3>1, <4>1, <4>2 DEF ToBeSent
      <4>3. CASE Len(buffers) = 2
        BY <1>3, <2>1, <2>5, <3>1, <4>1, <4>3 DEF ToBeSent
      <4> QED
        BY <2>1, <4>2, <4>3
    <3>2. CASE n # Len(first)
      <4>1. /\ Len(buffers') = Len(buffers) /\ buffers'[1] = rest
            /\ Len(buffers) = 2 => buffers'[2] = buffers[2]
        BY <1>1, <1>3, <2>2, <3>2, RestIsSmaller DEF Back
      <4>2. t + Len(rest) = s + Len(first) /\ At(bytes, t, rest)
        <5>1. PICK w \in Nat : w = Len(first)
          OBVIOUS
        <5>2. n \in Nat /\ Len(rest) = w - n
          BY <1>3, <2>2, <5>1
        <5>3. (s + n) + (w - n) = s + w
          BY <5>1, <5>2
        <5> QED
          BY <2>2, <2>5, <5>1, <5>2, <5>3
      <4>3. CASE Len(buffers) = 1
        BY <1>3, <2>1, <4>1, <4>2, <4>3 DEF ToBeSent
      <4>4. CASE Len(buffers) = 2
        BY <1>3, <2>1, <4>1, <4>2, <4>4 DEF ToBeSent
      <4> QED
        BY <2>1, <4>3, <4>4
    <3> QED
      BY <3>1, <3>2
  <2>8. UnderWay(bytes, p, q, r, t)'
    BY <1>0, <1>2, <2>3, <2>4, <2>6, <2>7 DEF UnderWay
  <2> QED
    BY <1>0, <1>2, <1>4, <2>8, FlowIsKept
<1> QED
  BY <1>5, <1>6

LEMMA RecvSomeKeeps ==
  ASSUME Streams, StreamInv, RecvSome
  PROVE  StreamInv'
<1>0. PICK starts \in [0..Len(sent) -> Nat], bytes \in Seq(Unit), p, q, r, s \in Nat :
        Cut(starts, bytes) /\ p = starts[Len(received)] /\ UnderWay(bytes, p, q, r, s)
  BY DEF StreamInv, Flow
<1>1. PICK n \in 1..Len(wire) :
        /\ partial' = partial \o SubSeq(wire, 1, n)
        /\ wire' = SubSeq(wire, n + 1, Len(wire))
  BY DEF RecvSome
<1>2. UNCHANGED <<connected, sent, buffers, header, received>>
  BY DEF RecvSome, senderVars
<1>3. Accepted'
  BY <1>2 DEF StreamInv, Accepted
<1>4. PICK w \in Nat, k \in Nat : w = Len(wire) /\ k = Len(partial)
  BY Lengths
<1>5. PICK piece \in Seq(Unit) :
        /\ piece = SubSeq(wire, 1, n) /\ Len(piece) = n /\ At(bytes, r, piece)
        /\ Len(wire') = w - n /\ At(bytes, r + n, wire')
  <2>1. n \in 0..Len(wire)
    BY <1>4
  <2>2. At(bytes, r, wire) /\ wire \in Seq(Unit)
    BY <1>0 DEF UnderWay, Streams
  <2>3. /\ Front(wire, n) \in Seq(Unit)
        /\ Len(Front(wire, n)) = n /\ Len(Back(wire, n)) = Len(wire) - n
        /\ At(bytes, r, Front(wire, n)) /\ At(bytes, r + n, Back(wire, n))
    BY <2>1, <2>2, SplitUnits
  <2>4. wire' = Back(wire, n)
    BY <1>1 DEF Back
  <2> QED
    BY <1>4, <2>3, <2>4 DEF Front
<1>6. Len(partial') = k + n /\ At(bytes, q, partial')
  <2>1. At(bytes, q, partial) /\ r = q + Len(partial) /\ partial \in Seq(Unit)
    BY <1>0 DEF UnderWay, Streams
  <2>2. /\ Len(Joined(partial, piece)) = Len(partial) + Len(piece)
        /\ At(bytes, q, Joined(partial, piece))
    <3>1. At(bytes, r, piece)
      BY <1>5
    <3> QED
      BY <2>1, <3>1, JoinUnits
  <2>3. partial' = Joined(partial, piece)
    BY <1>1, <1>5 DEF Joined
  <2> QED
    BY <1>4, <1>5, <2>2, <2>3
<1>7. PICK t \in Nat : t = r + n /\ t = q + Len(partial') /\ s = t + Len(wire')
  <2>1. n \in Nat /\ r = q + k /\ s = r + w
    BY <1>0, <1>4 DEF UnderWay
  <2>2. r + n = q + (k + n) /\ s = (r + n) + (w - n)
    BY <2>1
  <2> QED
    BY <1>5, <1>6, <2>1, <2>2
<1>8. UnderWay(bytes, p, q, t, s)'
  BY <1>0, <1>2, <1>5, <1>6, <1>7 DEF UnderWay, ToBeSent
<1> QED
  BY <1>0, <1>2, <1>3, <1>8, FlowIsKept

\* Nothing but what is under way, or left to be sent, is lost.
LEMMA LossKeeps ==
  ASSUME Streams, StreamInv, Break \/ SendFails
  PROVE  StreamInv'
<1>0. PICK starts \in [0..Len(sent) -> Nat], bytes \in Seq(Unit), p, q, r, s \in Nat :
        Cut(starts, bytes) /\ p = starts[Len(received)] /\ UnderWay(bytes, p, q, r, s)
  BY DEF StreamInv, Flow
<1>1. UNCHANGED <<sent, header, partial, received>> /\ ~connected'
  BY DEF Break, SendFails, senderVars, receiverVars
<1>2. Accepted'
  BY <1>1 DEF StreamInv, Accepted
<1>3. PICK n \in 0..Len(wire) : Len(wire') = n /\ At(bytes, r, wire')
  <2>1. CASE Break
    <3>1. PICK n \in 0..Len(wire) : wire' = SubSeq(wire, 1, n)
      BY <2>1 DEF Break
    <3>2. wire' = Front(wire, n)
      BY <3>1 DEF Front
    <3>3. At(bytes, r, wire) /\ wire \in Seq(Unit)
      BY <1>0 DEF UnderWay, Streams
    <3>4. Len(wire') = n /\ At(bytes, r, wire')
      BY <3>2, <3>3, SplitUnits
    <3> QED
      BY <3>4
  <2>2. CASE SendFails
    <3>1. Len(wire) \in 0..Len(wire)
      BY Lengths
    <3> QED
      BY <1>0, <2>2, <3>1 DEF SendFails, UnderWay
  <2> QED
    BY <2>1, <2>2
<1>4. PICK t \in Nat : t = r + n
  BY Lengths
<1>5. UnderWay(bytes, p, q, r, t)'
  BY <1>0, <1>1, <1>3, <1>4 DEF UnderWay
<1> QED
  BY <1>0, <1>1, <1>2, <1>5, FlowIsKept

LEMMA StutterKeeps ==
  ASSUME StreamInv, UNCHANGED <<connected, buffers, wire, header, partial, sent, received>>
  PROVE  StreamInv'
<1>0. PICK starts \in [0..Len(sent) -> Nat], bytes \in Seq(Unit), p, q, r, s \in Nat :
        Cut(starts, bytes) /\ p = starts[Len(received)] /\ UnderWay(bytes, p, q, r, s)
  BY DEF StreamInv, Flow
<1>1. UnderWay(bytes, p, q, r, s)'
  BY <1>0 DEF UnderWay, ToBeSent
<1>2. Accepted'
  BY DEF StreamInv, Accepted
<1> QED
  BY <1>0, <1>1, <1>2, FlowIsKept

(***************************************************************************)
(* recvMessage returns the next of the messages that were sent.            *)
(***************************************************************************)
LEMMA ReturnKeeps ==
  ASSUME Streams, StreamInv, NEW m \in Message, Length[m] <= MaxPayload,
         NEW whole \in Seq(Unit), Return(whole),
         whole[1] = <<m, 1>>, Len(whole) = Len(Encoding(m)),
         Len(whole) = Len(header) + Len(partial),
         NEW starts \in [0..Len(sent) -> Nat], NEW bytes \in Seq(Unit),
         NEW p \in Nat, NEW q \in Nat, NEW r \in Nat, NEW s \in Nat,
         Cut(starts, bytes), p = starts[Len(received)], UnderWay(bytes, p, q, r, s),
         At(bytes, p, whole), UNCHANGED <<connected, buffers, wire, sent>>
  PROVE  /\ StreamInv'
         /\ Len(received) < Len(sent) /\ sent[Len(received) + 1] = Encoding(m)
         /\ received' = Append(received, Encoding(m))
<1>1. PICK n \in Nat : n = Len(received)
  BY Lengths
<1>2. /\ n < Len(sent) /\ sent[n + 1] = whole /\ whole = Encoding(m)
      /\ starts[n + 1] = starts[n] + Len(whole)
  <2>1. Delivered /\ At(bytes, starts[n], whole)
    BY <1>1 DEF StreamInv
  <2>2. Streams /\ Cut(starts, bytes) /\ n = Len(received)
    BY <1>1
  <2> QED
    BY ONLY <2>1, <2>2, NextMessage, n \in Nat, m \in Message, whole \in Seq(Unit),
            whole[1] = <<m, 1>>, Len(whole) = Len(Encoding(m))
<1>3. received' = Append(received, whole) /\ header' = <<>> /\ partial' = <<>>
  BY DEF Return
<1>4. /\ Len(received') = n + 1 /\ received'[n + 1] = whole
      /\ \A i \in 1..n : received'[i] = received[i]
  BY <1>1, <1>3, AppendProperties DEF Streams
<1>5. Delivered'
  <2>1. Len(sent) \in Nat
    BY Lengths
  <2>2. n + 1 <= Len(sent)
    BY <1>2, <2>1
  <2>3. \A i \in 1..n : received[i] = sent[i]
    BY <1>1 DEF StreamInv, Delivered
  <2>4. ASSUME NEW i \in 1..(n + 1)
        PROVE  received'[i] = sent[i]
    <3>1. CASE i = n + 1
      BY <1>2, <1>4, <3>1
    <3>2. CASE i \in 1..n
      BY <1>4, <2>3, <3>2
    <3> QED
      BY <3>1, <3>2
  <2> QED
    BY <1>4, <2>2, <2>4 DEF Delivered
<1>6. Accepted'
  BY <1>3, Encodings DEF Accepted
<1>7. UnderWay(bytes, r, r, r, s)'
  <2>1. Len(header') = 0 /\ Len(partial') = 0
    BY <1>3
  <2>2. r <= Len(bytes)
    <3>1. r + Len(wire) <= Len(bytes) /\ Len(wire) \in Nat
      BY Lengths DEF UnderWay, At
    <3>2. Len(bytes) \in Nat
      OBVIOUS
    <3> QED
      BY <3>1, <3>2
  <2>3. At(bytes, r, header') /\ At(bytes, r, partial')
    BY <1>3, <2>2, EmptyAt
  <2>4. s = r + Len(wire) /\ At(bytes, r, wire) /\ (connected => ToBeSent(bytes, s))
    BY DEF UnderWay
  <2>5. (connected => ToBeSent(bytes, s))'
    BY <2>4 DEF ToBeSent
  <2> QED
    BY <2>1, <2>3, <2>4, <2>5 DEF UnderWay
<1>8. starts[Len(received')] = r
  <2>1. PICK h \in Nat, k \in Nat : h = Len(header) /\ k = Len(partial)
    BY Lengths
  <2>2. r = p + (h + k)
    <3>1. q = p + h /\ r = q + k
      BY <2>1 DEF UnderWay
    <3>2. (p + h) + k = p + (h + k)
      BY AddsUp
    <3> QED
      BY <3>1, <3>2
  <2> QED
    BY <1>1, <1>2, <1>4, <2>1, <2>2
<1>9. Flow'
  BY <1>7, <1>8 DEF Flow, Cut
<1> QED
  BY <1>1, <1>2, <1>3, <1>5, <1>6, <1>9 DEF StreamInv

LEMMA EmptyHeader ==
  ASSUME Streams, header = <<>>
  PROVE  Len(header) = 0 /\ Len(partial) \in Nat /\ Len(header) + Len(partial) = Len(partial)
BY Lengths

\* A header that announces no payload is the whole message.
LEMMA ParseHeaderKeeps ==
  ASSUME Streams, StreamInv, ParseHeader
  PROVE  /\ StreamInv'
         /\ \/ received' = received
            \/ \E m \in Message :
                 /\ Length[m] <= MaxPayload
                 /\ Len(received) < Len(sent) /\ sent[Len(received) + 1] = Encoding(m)
                 /\ received' = Append(received, Encoding(m))
<1>0. PICK starts \in [0..Len(sent) -> Nat], bytes \in Seq(Unit), p, q, r, s \in Nat :
        Cut(starts, bytes) /\ p = starts[Len(received)] /\ UnderWay(bytes, p, q, r, s)
  BY DEF StreamInv, Flow
<1>1. PICK m \in Message :
        /\ partial = Header(m) /\ Length[m] <= MaxPayload
        /\ \/ Length[m] = 0 /\ Return(partial)
           \/ header' = partial /\ partial' = <<>> /\ UNCHANGED received
  BY DEF ParseHeader, Valid
<1>2. header = <<>> /\ UNCHANGED <<connected, buffers, wire, sent>>
  BY DEF ParseHeader, senderVars
<1>3. At(bytes, p, partial) /\ p = q /\ r = p + Len(partial)
  BY <1>0, <1>2, EmptyHeader DEF UnderWay
<1>4. CASE Length[m] = 0 /\ Return(partial)
  <2>1. partial \in Seq(Unit) /\ partial[1] = <<m, 1>> /\ Len(partial) = HeaderSize
    BY <1>1, Encodings
  <2>2. Len(partial) = Len(Encoding(m))
    BY <1>4, <2>1, Encodings, MessageAssumption DEF MessageAssumption
  <2>3. Len(partial) = Len(header) + Len(partial)
    BY <1>2, EmptyHeader
  <2>4. Return(partial)
    BY <1>4
  <2>5. /\ StreamInv'
        /\ Len(received) < Len(sent) /\ sent[Len(received) + 1] = Encoding(m)
        /\ received' = Append(received, Encoding(m))
    BY <1>0, <1>1, <1>2, <1>3, <2>1, <2>2, <2>3, <2>4, ReturnKeeps
  <2> QED
    BY <1>1, <2>5
<1>5. CASE header' = partial /\ partial' = <<>> /\ UNCHANGED received
  <2>1. Accepted'
    BY <1>1, <1>5, HeadersDiffer DEF Accepted
  <2>2. UnderWay(bytes, p, r, r, s)'
    <3>1. At(bytes, r, partial')
      <4>1. r <= Len(bytes)
        BY <1>3 DEF At
      <4> QED
        BY <1>5, <4>1, EmptyAt
    <3>2. r = r + Len(partial')
      BY <1>5
    <3>3. s = r + Len(wire) /\ At(bytes, r, wire) /\ (connected => ToBeSent(bytes, s))
      BY <1>0 DEF UnderWay
    <3>4. (connected => ToBeSent(bytes, s))'
      BY <1>2, <3>3 DEF ToBeSent
    <3> QED
      BY <1>2, <1>3, <1>5, <3>1, <3>2, <3>3, <3>4 DEF UnderWay
  <2> QED
    BY <1>0, <1>2, <1>5, <2>1, <2>2, FlowIsKept
<1> QED
  BY <1>1, <1>4, <1>5

LEMMA ReturnPayloadKeeps ==
  ASSUME Streams, StreamInv, ReturnPayload
  PROVE  /\ StreamInv'
         /\ \E m \in Message :
              /\ Length[m] <= MaxPayload
              /\ Len(received) < Len(sent) /\ sent[Len(received) + 1] = Encoding(m)
              /\ received' = Append(received, Encoding(m))
<1>0. PICK starts \in [0..Len(sent) -> Nat], bytes \in Seq(Unit), p, q, r, s \in Nat :
        Cut(starts, bytes) /\ p = starts[Len(received)] /\ UnderWay(bytes, p, q, r, s)
  BY DEF StreamInv, Flow
<1>1. /\ header # <<>> /\ Len(partial) = Wanted /\ Return(header \o partial)
      /\ UNCHANGED <<connected, buffers, wire, sent>>
  BY DEF ReturnPayload, Complete, senderVars
<1>2. PICK m \in Message : header = Header(m)
  BY <1>1 DEF Streams
<1>3. Length[m] <= MaxPayload /\ Len(partial) = Length[m] /\ Len(header) = HeaderSize
  BY <1>1, <1>2, HeaderTells, Encodings DEF StreamInv, Accepted
<1>4. PICK whole \in Seq(Unit) :
        /\ whole = header \o partial /\ Len(whole) = Len(header) + Len(partial)
        /\ At(bytes, p, whole)
  <2>1. At(bytes, p, header) /\ q = p + Len(header) /\ At(bytes, q, partial)
        /\ header \in Seq(Unit) /\ partial \in Seq(Unit)
    BY <1>0 DEF UnderWay, Streams
  <2>2. /\ Joined(header, partial) \in Seq(Unit) /\ At(bytes, p, Joined(header, partial))
        /\ Len(Joined(header, partial)) = Len(header) + Len(partial)
    BY <2>1, JoinUnits
  <2> QED
    BY <2>2 DEF Joined
<1>5. whole[1] = <<m, 1>>
  <2>1. header[1] = <<m, 1>> /\ Len(header) >= 1
    <3>1. Header(m)[1] = <<m, 1>>
      BY Encodings
    <3>2. HeaderSize >= 1
      BY MessageAssumption DEF MessageAssumption
    <3> QED
      BY <1>2, <1>3, <3>1, <3>2
  <2>2. At(bytes, p, header)
    BY <1>0 DEF UnderWay
  <2>3. header[1] = bytes[p + 1]
    BY <2>1, <2>2, FirstAt DEF Streams
  <2>4. Len(whole) >= 1
    BY <1>4, <2>1, Lengths
  <2>5. whole[1] = bytes[p + 1]
    BY <1>4, <2>4, FirstAt
  <2> QED
    BY <2>1, <2>3, <2>5
<1>6. Return(whole)
  BY <1>1, <1>4
<1>7. Len(whole) = Len(Encoding(m))
  BY <1>3, <1>4, Encodings
<1>8. Len(whole) = Len(header) + Len(partial) /\ At(bytes, p, whole)
  BY <1>4
<1> QED
  BY <1>0, <1>1, <1>3, <1>5, <1>6, <1>7, <1>8, ReturnKeeps

LEMMA StreamStep ==
  ASSUME TypeOK, StreamInv, [Next]_vars
  PROVE  StreamInv'
<1>1. Streams
  BY TypesOfStreams
<1>2. CASE RecvFails \/ UNCHANGED vars
  <2>1. UNCHANGED <<connected, buffers, wire, header, partial, sent, received>>
    BY <1>2 DEF RecvFails, vars, senderVars, receiverVars
  <2> QED
    BY <2>1, StutterKeeps
<1> QED
  BY <1>1, <1>2, StepCases, SendMessageKeeps, SendSomeKeeps, RecvSomeKeeps, LossKeeps,
     ParseHeaderKeeps, ReturnPayloadKeeps

LEMMA StreamInvariant == Spec => [](TypeOK /\ StreamInv)
<1>1. TypeOK /\ StreamInv /\ [Next]_vars => (TypeOK /\ StreamInv)'
  BY TypeStep, StreamStep
<1> QED
  BY <1>1, TypeInit, StreamInit, PTL DEF Spec

(***************************************************************************)
(* Whatever the calls of send and recv take, and wherever the connection   *)
(* breaks, the messages recvMessage has returned are the first of those    *)
(* that sendMessage was called with: none in part, none twice, none left   *)
(* out and none out of order.                                              *)
(***************************************************************************)
THEOREM MessagesArriveInOrder == Spec => []Delivered
<1>1. StreamInv => Delivered
  BY DEF StreamInv
<1> QED
  BY <1>1, StreamInvariant, PTL

-----------------------------------------------------------------------------
(***************************************************************************)
(* Every step of the framing is a step of MessageChannel or none of its    *)
(* business.                                                               *)
(***************************************************************************)
LEMMA DeliverMaps ==
  ASSUME NEW m \in Message, Length[m] <= MaxPayload,
         Len(received) < Len(sent), sent[Len(received) + 1] = Encoding(m),
         received' = Append(received, Encoding(m)), UNCHANGED <<sent, buffers, connected>>
  PROVE  Channel!Deliver
<1>1. Encoding(m) \notin {Encoding(k) : k \in {n \in Message : Length[n] > MaxPayload}}
  <2> SUFFICES ASSUME NEW k \in Message, Length[k] > MaxPayload, Encoding(m) = Encoding(k)
               PROVE  FALSE
    OBVIOUS
  <2>1. m = k
    BY HeadersDiffer
  <2>2. Length[m] \in Nat /\ MaxPayload \in Nat
    BY MessageAssumption DEF MessageAssumption
  <2> QED
    BY <2>1, <2>2
<1> QED
  BY <1>1 DEF Channel!Deliver

LEMMA StepMaps ==
  ASSUME TypeOK, StreamInv, [Next]_vars
  PROVE  [Channel!Next]_Channel!channelVars
<1>0. Streams
  BY TypesOfStreams
<1>1. ASSUME NEW m \in Message, SendMessage(m)
      PROVE  Channel!Send
  <2>1. buffers = <<>> /\ buffers' # <<>>
    BY <1>1 DEF SendMessage
  <2> QED
    BY <1>1, <2>1 DEF SendMessage, receiverVars, Channel!Send
<1>2. CASE SendSome \/ SendFails
  <2>1. buffers # <<>> /\ UNCHANGED <<sent, received, connected>>
    BY <1>2 DEF SendSome, SendFails, receiverVars
  <2> QED
    BY <2>1 DEF Channel!Next, Channel!Return, Channel!channelVars
<1>3. CASE RecvSome \/ RecvFails \/ UNCHANGED vars
  BY <1>3 DEF RecvSome, RecvFails, vars, senderVars, receiverVars, Channel!channelVars
<1>4. CASE ParseHeader
  <2>1. UNCHANGED <<sent, buffers, connected>>
    BY <1>4 DEF ParseHeader, senderVars
  <2>2. CASE received' = received
    BY <2>1, <2>2 DEF Channel!channelVars
  <2>3. CASE \E m \in Message :
               /\ Length[m] <= MaxPayload
               /\ Len(received) < Len(sent) /\ sent[Len(received) + 1] = Encoding(m)
               /\ received' = Append(received, Encoding(m))
    BY <2>1, <2>3, DeliverMaps DEF Channel!Next
  <2> QED
    BY <1>0, <1>4, <2>2, <2>3, ParseHeaderKeeps
<1>5. CASE ReturnPayload
  <2>1. UNCHANGED <<sent, buffers, connected>>
    BY <1>5 DEF ReturnPayload, senderVars
  <2> QED
    BY <1>0, <1>5, <2>1, ReturnPayloadKeeps, DeliverMaps DEF Channel!Next
<1>6. CASE Break
  BY <1>6 DEF Break, senderVars, receiverVars, Channel!Next, Channel!Break
<1> QED
  BY <1>1, <1>2, <1>3, <1>4, <1>5, <1>6, StepCases DEF Channel!Next

(***************************************************************************)
(* sendMessage and recvMessage implement MessageChannel, the channel that  *)
(* the server of lab_4 is modelled with: the safety half of KeepsMessages, *)
(* for all messages and sizes.                                             *)
(***************************************************************************)
THEOREM FramingImplementsChannel == Spec => Channel!Spec
<1>1. Init => Channel!Init
  BY DEF Init, Channel!Init
<1>2. TypeOK /\ StreamInv /\ [Next]_vars => [Channel!Next]_Channel!channelVars
  BY StepMaps
<1> QED
  BY <1>1, <1>2, StreamInvariant, PTL DEF Spec, Channel!Spec
=============================================================================
