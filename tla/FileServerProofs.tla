-------------------------- MODULE FileServerProofs --------------------------
(***************************************************************************)
(* Proofs about the file server of lab_5, for every set of connections and *)
(* paths, every size of the files and every limit of the table.            *)
(***************************************************************************)
EXTENDS FileServer, TLAPS

\* The table: no file twice, no more than MaxCached.
Table ==
  /\ \A i, j \in DOMAIN cache : cache[i] = cache[j] => i = j
  /\ Len(cache) <= MaxCached

\* Before it has found its file a thread has sent nothing.
Silent(c) ==
  pc[c] \in {"none", "recv", "lookup"} => status[c] = "none"

Fresh(c) ==
  pc[c] \in {"none", "recv", "lookup", "header", "rewind"} => body[c] = <<>>

\* A thread that transfers a file has announced it, and an announced file
\* stays in the table.
Announced(c) ==
  /\ pc[c] \in {"header", "rewind", "read", "send"} => status[c] = "200"
  /\ pc[c] = "reply" => status[c] # "200"
  /\ status[c] = "200" => Cached(target[c])

\* The first n pieces of a file.
FirstPieces(b, n) == Len(b) = n /\ \A k \in 1..n : b[k] = k - 1

\* The pointer is where the transfer is, as long as nobody else moves it; a
\* piece that was read and not sent is the next one.
InStep(c) ==
  c \notin disturbed =>
    /\ pc[c] = "read" => /\ FirstPieces(body[c], pointer[target[c]])
                         /\ pointer[target[c]] <= Pieces[target[c]]
    /\ pc[c] = "send" => /\ FirstPieces(body[c], buffer[c])
                         /\ pointer[target[c]] = buffer[c] + 1
                         /\ pointer[target[c]] <= Pieces[target[c]]

Intact(c) ==
  c \notin disturbed /\ Served(c) => FirstPieces(body[c], Pieces[target[c]])

ConnectionInv(c) ==
  Silent(c) /\ Fresh(c) /\ Announced(c) /\ InStep(c) /\ Intact(c)

IInv == TypeOK /\ Table /\ \A c \in Connection : ConnectionInv(c)

-----------------------------------------------------------------------------
LEMMA InitInv ==
  ASSUME FileAssumption, Init
  PROVE  IInv
<1>1. TypeOK
  BY DEF Init, TypeOK
<1>2. Table
  BY FileAssumption DEF Init, Table, FileAssumption
<1>3. ASSUME NEW c \in Connection
      PROVE  ConnectionInv(c)
  BY <1>3 DEF Init, ConnectionInv, Silent, Fresh, Announced, InStep, Intact, Served
<1> QED
  BY <1>1, <1>2, <1>3 DEF IInv

-----------------------------------------------------------------------------
(***************************************************************************)
(* What a step of one thread does to the connection of another: at most,   *)
(* it enters a file in the table, or moves the file pointer.               *)
(***************************************************************************)
LEMMA OthersKeep ==
  ASSUME IInv, NEW d \in Connection,
         pc'[d] = pc[d], target'[d] = target[d], status'[d] = status[d],
         buffer'[d] = buffer[d], body'[d] = body[d], broken'[d] = broken[d],
         \A path : Cached(path) => Cached(path)',
         disturbed \subseteq disturbed',
         \/ pointer'[target[d]] = pointer[target[d]]
         \/ pc[d] \in {"read", "send"} => d \in disturbed'
  PROVE  ConnectionInv(d)'
<1>1. ConnectionInv(d)
  BY DEF IInv
<1>2. Silent(d)' /\ Fresh(d)'
  BY <1>1 DEF ConnectionInv, Silent, Fresh
<1>3. Announced(d)'
  BY <1>1 DEF ConnectionInv, Announced
<1>4. InStep(d)'
  BY <1>1 DEF ConnectionInv, InStep, FirstPieces
<1>5. Intact(d)'
  BY <1>1 DEF ConnectionInv, Intact, Served, FirstPieces
<1> QED
  BY <1>2, <1>3, <1>4, <1>5 DEF ConnectionInv

\* A file that is announced is one that exists.
LEMMA AnnouncedExists ==
  ASSUME IInv, NEW c \in Connection, status[c] = "200"
  PROVE  target[c] \in Existing
<1>1. PICK k \in DOMAIN cache : cache[k] = target[c]
  BY DEF IInv, ConnectionInv, Announced, Cached
<1> QED
  BY <1>1 DEF IInv, TypeOK

-----------------------------------------------------------------------------
(***************************************************************************)
(* The steps, one by one.                                                  *)
(***************************************************************************)
\* A step of a client is of no concern to the server's data.
LEMMA ClientKeepsInv ==
  ASSUME IInv, NEW c \in Connection, ClientReads(c) \/ ClientLeaves(c)
  PROVE  IInv'
<1>1. UNCHANGED <<cache, pointer, pc, target, status, buffer, body, broken,
                  disturbed>>
  BY DEF ClientReads, ClientLeaves
<1>2. TypeOK'
  BY <1>1 DEF ClientReads, ClientLeaves, IInv, TypeOK
<1>3. Table' /\ \A path : Cached(path) => Cached(path)'
  BY <1>1 DEF IInv, Table, Cached
<1>4. ASSUME NEW d \in Connection
      PROVE  ConnectionInv(d)'
  BY <1>1, <1>3, <1>4, OthersKeep
<1> QED
  BY <1>2, <1>3, <1>4 DEF IInv

LEMMA AcceptKeepsInv ==
  ASSUME IInv, NEW c \in Connection, Accept(c)
  PROVE  IInv'
<1>1. /\ UNCHANGED <<cache, pointer, target, status, buffer, body, broken,
                     disturbed>>
      /\ pc[c] = "none" /\ pc'[c] \in {"recv", "closed"}
      /\ \A d \in Connection : d # c => pc'[d] = pc[d]
  BY DEF Accept, HangUp, Goto, IInv, TypeOK
<1>2. TypeOK'
  <2>1. /\ pc' \in [Connection -> {"none", "recv", "lookup", "header", "rewind",
                                   "read", "send", "reply", "close", "closed"}]
        /\ peer' \in [Connection -> {"room", "full", "gone"}]
    BY DEF Accept, HangUp, Goto, IInv, TypeOK
  <2> QED
    BY <1>1, <2>1 DEF IInv, TypeOK
<1>3. Table' /\ \A path : Cached(path) => Cached(path)'
  BY <1>1 DEF IInv, Table, Cached
<1>4. ConnectionInv(c)'
  BY <1>1, <1>3 DEF IInv, ConnectionInv, Silent, Fresh, Announced, InStep,
                    Intact, Served
<1>5. ASSUME NEW d \in Connection, d # c
      PROVE  ConnectionInv(d)'
  BY <1>1, <1>3, <1>5, OthersKeep
<1> QED
  BY <1>2, <1>3, <1>4, <1>5 DEF IInv

LEMMA RecvGetKeepsInv ==
  ASSUME IInv, NEW c \in Connection, RecvGet(c)
  PROVE  IInv'
<1>1. /\ UNCHANGED <<cache, pointer, status, buffer, body, broken, disturbed>>
      /\ pc[c] = "recv" /\ pc'[c] = "lookup" /\ target'[c] \in Path
      /\ \A d \in Connection : d # c => pc'[d] = pc[d] /\ target'[d] = target[d]
  BY DEF RecvGet, Goto, IInv, TypeOK
<1>2. TypeOK'
  BY <1>1 DEF RecvGet, Goto, IInv, TypeOK
<1>3. Table' /\ \A path : Cached(path) => Cached(path)'
  BY <1>1 DEF IInv, Table, Cached
<1>4. ConnectionInv(c)'
  BY <1>1 DEF IInv, ConnectionInv, Silent, Fresh, Announced, InStep, Intact, Served
<1>5. ASSUME NEW d \in Connection, d # c
      PROVE  ConnectionInv(d)'
  BY <1>1, <1>3, <1>5, OthersKeep
<1> QED
  BY <1>2, <1>3, <1>4, <1>5 DEF IInv

LEMMA RecvOtherKeepsInv ==
  ASSUME IInv, NEW c \in Connection, RecvOther(c)
  PROVE  IInv'
<1>1. /\ UNCHANGED <<cache, pointer, target, buffer, body, broken, disturbed>>
      /\ pc[c] = "recv" /\ pc'[c] \in {"reply", "close"}
      /\ status'[c] \in {"none", "405", "404"}
      /\ \A d \in Connection : d # c => pc'[d] = pc[d] /\ status'[d] = status[d]
  BY DEF RecvOther, Respond, Goto, IInv, TypeOK, ConnectionInv, Silent
<1>2. TypeOK'
  <2>1. pc' \in [Connection -> {"none", "recv", "lookup", "header", "rewind",
                                "read", "send", "reply", "close", "closed"}]
    BY DEF RecvOther, Respond, Goto, IInv, TypeOK
  <2>2. status' \in [Connection -> {"none", "200", "404", "405"}] /\ peer' = peer
    BY DEF RecvOther, Respond, IInv, TypeOK
  <2> QED
    BY <1>1, <2>1, <2>2 DEF IInv, TypeOK
<1>3. Table' /\ \A path : Cached(path) => Cached(path)'
  BY <1>1 DEF IInv, Table, Cached
<1>4. ConnectionInv(c)'
  BY <1>1 DEF IInv, ConnectionInv, Silent, Fresh, Announced, InStep, Intact, Served
<1>5. ASSUME NEW d \in Connection, d # c
      PROVE  ConnectionInv(d)'
  BY <1>1, <1>3, <1>5, OthersKeep
<1> QED
  BY <1>2, <1>3, <1>4, <1>5 DEF IInv

\* The table after get_file_cache.
LEMMA TableKept ==
  ASSUME IInv, NEW c \in Connection, GetFileCache(c)
  PROVE  /\ cache' \in Seq(Existing) /\ Table'
         /\ \A path : Cached(path) => Cached(path)'
         /\ status'[c] = "200" => Cached(target[c])'
<1>1. cache \in Seq(Existing) /\ Table /\ status \in [Connection -> {"none", "200", "404", "405"}]
  BY DEF IInv, TypeOK
<1>2. CASE UNCHANGED cache
  <2>1. status'[c] = "200" => Cached(target[c])
    <3>1. ~(cache' = Append(cache, target[c]))
      BY <1>1, <1>2
    <3> QED
      BY <1>1, <3>1 DEF GetFileCache, Respond
  <2>2. Table' /\ target' = target
    BY <1>1, <1>2 DEF Table, GetFileCache
  <2>3. \A path : Cached(path)' = Cached(path)
    BY <1>2 DEF Cached
  <2> QED
    BY <1>1, <1>2, <2>1, <2>2, <2>3
<1>3. CASE /\ ~Cached(target[c]) /\ Len(cache) < MaxCached
           /\ target[c] \in Existing /\ cache' = Append(cache, target[c])
  <2>1. /\ cache' \in Seq(Existing) /\ Len(cache') = Len(cache) + 1
        /\ cache'[Len(cache) + 1] = target[c]
        /\ \A k \in 1..Len(cache) : cache'[k] = cache[k]
        /\ DOMAIN cache = 1..Len(cache) /\ DOMAIN cache' = 1..(Len(cache) + 1)
        /\ Len(cache) \in Nat
    BY <1>1, <1>3
  <2>2. \A k \in 1..Len(cache) : cache[k] # target[c]
    BY <1>3, <2>1 DEF Cached
  <2>3. Table'
    BY <1>1, <1>3, <2>1, <2>2, FileAssumption DEF Table, FileAssumption
  <2>4. ASSUME NEW path, Cached(path)
        PROVE  Cached(path)'
    BY <2>1, <2>4 DEF Cached
  <2>5. Cached(target[c])'
    <3>1. target'= target
      BY DEF GetFileCache
    <3> QED
      BY <2>1, <3>1 DEF Cached
  <2> QED
    BY <2>1, <2>3, <2>4, <2>5
<1> QED
  BY <1>2, <1>3 DEF GetFileCache

LEMMA GetFileCacheKeepsInv ==
  ASSUME IInv, NEW c \in Connection, GetFileCache(c)
  PROVE  IInv'
<1>1. /\ UNCHANGED <<pointer, target, buffer, body, peer, broken, disturbed>>
      /\ pc[c] = "lookup"
      /\ \/ pc'[c] = "header" /\ status'[c] = "200"
         \/ pc'[c] = "reply" /\ status'[c] = "404"
      /\ \A d \in Connection : d # c => pc'[d] = pc[d] /\ status'[d] = status[d]
  BY DEF GetFileCache, Respond, Goto, IInv, TypeOK
<1>2. TypeOK'
  <2>1. /\ pc' \in [Connection -> {"none", "recv", "lookup", "header", "rewind",
                                   "read", "send", "reply", "close", "closed"}]
        /\ status' \in [Connection -> {"none", "200", "404", "405"}]
    BY DEF GetFileCache, Respond, Goto, IInv, TypeOK
  <2> QED
    BY <1>1, <2>1, TableKept DEF IInv, TypeOK
<1>3. ConnectionInv(c)'
  BY <1>1, TableKept DEF IInv, ConnectionInv, Silent, Fresh, Announced, InStep,
                         Intact, Served
<1>4. ASSUME NEW d \in Connection, d # c
      PROVE  ConnectionInv(d)'
  BY <1>1, <1>4, TableKept, OthersKeep
<1> QED
  BY <1>2, <1>3, <1>4, TableKept DEF IInv

\* What a send changes, whether it returns or fails.
LEMMA SendChanges ==
  ASSUME IInv, NEW c \in Connection, Sent(c) \/ SendFails(c)
  PROVE  /\ peer' \in [Connection -> {"room", "full", "gone"}]
         /\ broken' \in [Connection -> BOOLEAN]
         /\ \A d \in Connection : d # c => broken'[d] = broken[d]
         /\ SendFails(c) => broken'[c]
BY DEF Sent, SendFails, IInv, TypeOK

LEMMA SendHeaderKeepsInv ==
  ASSUME IInv, NEW c \in Connection, SendHeader(c) \/ SendResponse(c)
  PROVE  IInv'
<1>1. /\ UNCHANGED <<cache, pointer, target, status, buffer, body, disturbed>>
      /\ \/ pc[c] = "header" /\ pc'[c] = "rewind"
         \/ pc[c] = "reply" /\ pc'[c] = "close"
      /\ \A d \in Connection : d # c => pc'[d] = pc[d] /\ broken'[d] = broken[d]
  BY SendChanges DEF SendHeader, SendResponse, Goto, IInv, TypeOK
<1>2. TypeOK'
  <2>1. pc' \in [Connection -> {"none", "recv", "lookup", "header", "rewind",
                                "read", "send", "reply", "close", "closed"}]
    BY DEF SendHeader, SendResponse, Goto, IInv, TypeOK
  <2>2. /\ peer' \in [Connection -> {"room", "full", "gone"}]
        /\ broken' \in [Connection -> BOOLEAN]
    BY SendChanges DEF SendHeader, SendResponse
  <2> QED
    BY <1>1, <2>1, <2>2 DEF IInv, TypeOK
<1>3. Table' /\ \A path : Cached(path) => Cached(path)'
  BY <1>1 DEF IInv, Table, Cached
<1>4. ConnectionInv(c)'
  BY <1>1, <1>3 DEF IInv, ConnectionInv, Silent, Fresh, Announced, InStep,
                    Intact, Served
<1>5. ASSUME NEW d \in Connection, d # c
      PROVE  ConnectionInv(d)'
  BY <1>1, <1>3, <1>5, OthersKeep
<1> QED
  BY <1>2, <1>3, <1>4, <1>5 DEF IInv

LEMMA RewindKeepsInv ==
  ASSUME FileAssumption, IInv, NEW c \in Connection, Rewind(c)
  PROVE  IInv'
<1>1. /\ UNCHANGED <<cache, target, status, buffer, body, peer, broken>>
      /\ pc[c] = "rewind" /\ pc'[c] = "read"
      /\ \A d \in Connection : d # c => pc'[d] = pc[d]
  BY DEF Rewind, Goto, IInv, TypeOK
<1>2. status[c] = "200" /\ target[c] \in Existing /\ body[c] = <<>>
  BY <1>1, AnnouncedExists DEF IInv, ConnectionInv, Announced, Fresh
<1>3. /\ pointer'[target[c]] = 0
      /\ \A f \in Existing : f # target[c] => pointer'[f] = pointer[f]
      /\ disturbed \subseteq disturbed'
      /\ \A d \in Connection :
           d # c /\ pc[d] \in {"read", "send"} /\ target[d] = target[c]
             => d \in disturbed'
  BY <1>2 DEF Rewind, Disturb, IInv, TypeOK
<1>4. TypeOK'
  BY <1>1, <1>2 DEF Rewind, Goto, Disturb, IInv, TypeOK
<1>5. Table' /\ \A path : Cached(path) => Cached(path)'
  BY <1>1 DEF IInv, Table, Cached
<1>6. ConnectionInv(c)'
  <2>1. Pieces[target[c]] \in Nat
    BY <1>2, FileAssumption DEF FileAssumption
  <2>2. InStep(c)'
    BY <1>1, <1>2, <1>3, <2>1 DEF InStep, FirstPieces
  <2> QED
    BY <1>1, <1>2, <1>5, <2>2 DEF IInv, ConnectionInv, Silent, Fresh, Announced,
                                  Intact, Served
<1>7. ASSUME NEW d \in Connection, d # c
      PROVE  ConnectionInv(d)'
  <2>1. pc[d] \in {"read", "send"} => target[d] \in Existing
    BY AnnouncedExists DEF IInv, ConnectionInv, Announced
  <2>2. CASE pc[d] \in {"read", "send"}
    BY <1>1, <1>3, <1>5, <1>7, <2>1, <2>2, OthersKeep
  <2>3. CASE pc[d] \notin {"read", "send"}
    BY <1>1, <1>3, <1>5, <1>7, <2>3, OthersKeep
  <2> QED
    BY <2>2, <2>3
<1> QED
  BY <1>4, <1>5, <1>6, <1>7 DEF IInv

LEMMA ReadPieceKeepsInv ==
  ASSUME FileAssumption, IInv, NEW c \in Connection, ReadPiece(c)
  PROVE  IInv'
<1>1. /\ UNCHANGED <<cache, target, status, body, peer, broken>>
      /\ pc[c] = "read" /\ pc'[c] = "send"
      /\ buffer'[c] = pointer[target[c]]
      /\ \A d \in Connection : d # c => pc'[d] = pc[d] /\ buffer'[d] = buffer[d]
  BY DEF ReadPiece, Goto, IInv, TypeOK
<1>2. status[c] = "200" /\ target[c] \in Existing
  BY <1>1, AnnouncedExists DEF IInv, ConnectionInv, Announced
<1>3. /\ pointer'[target[c]] = pointer[target[c]] + 1
      /\ \A f \in Existing : f # target[c] => pointer'[f] = pointer[f]
      /\ disturbed \subseteq disturbed'
      /\ c \notin disturbed' => c \notin disturbed
      /\ \A d \in Connection :
           d # c /\ pc[d] \in {"read", "send"} /\ target[d] = target[c]
             => d \in disturbed'
  BY <1>2 DEF ReadPiece, Disturb, IInv, TypeOK
<1>4. TypeOK'
  <2>1. pointer' \in [Existing -> Nat] /\ pointer[target[c]] \in Nat
    BY <1>2 DEF ReadPiece, IInv, TypeOK
  <2>2. /\ pc' \in [Connection -> {"none", "recv", "lookup", "header", "rewind",
                                   "read", "send", "reply", "close", "closed"}]
        /\ buffer' \in [Connection -> Nat]
        /\ disturbed' \in SUBSET Connection
    BY <2>1 DEF ReadPiece, Goto, Disturb, IInv, TypeOK
  <2> QED
    BY <1>1, <2>1, <2>2 DEF IInv, TypeOK
<1>5. Table' /\ \A path : Cached(path) => Cached(path)'
  BY <1>1 DEF IInv, Table, Cached
<1>6. ConnectionInv(c)'
  <2>1. Pieces[target[c]] \in Nat /\ pointer[target[c]] \in Nat
    BY <1>2, FileAssumption DEF FileAssumption, IInv, TypeOK
  <2>2. pointer[target[c]] + 1 <= Pieces[target[c]]
    BY <2>1 DEF ReadPiece, AtEnd
  <2>3. c \notin disturbed' => FirstPieces(body[c], pointer[target[c]])
    BY <1>1, <1>3 DEF IInv, ConnectionInv, InStep
  <2>4. InStep(c)'
    BY <1>1, <1>3, <2>2, <2>3 DEF InStep, FirstPieces
  <2> QED
    BY <1>1, <1>2, <1>5, <2>4 DEF IInv, ConnectionInv, Silent, Fresh, Announced,
                                  Intact, Served
<1>7. ASSUME NEW d \in Connection, d # c
      PROVE  ConnectionInv(d)'
  <2>1. pc[d] \in {"read", "send"} => target[d] \in Existing
    BY AnnouncedExists DEF IInv, ConnectionInv, Announced
  <2>2. CASE pc[d] \in {"read", "send"}
    BY <1>1, <1>3, <1>5, <1>7, <2>1, <2>2, OthersKeep
  <2>3. CASE pc[d] \notin {"read", "send"}
    BY <1>1, <1>3, <1>5, <1>7, <2>3, OthersKeep
  <2> QED
    BY <2>2, <2>3
<1> QED
  BY <1>4, <1>5, <1>6, <1>7 DEF IInv

LEMMA SendPieceKeepsInv ==
  ASSUME IInv, NEW c \in Connection, SendPiece(c)
  PROVE  IInv'
<1>1. /\ UNCHANGED <<cache, pointer, target, status, buffer, disturbed>>
      /\ pc[c] = "send"
      /\ \/ pc'[c] = "read" /\ body'[c] = Append(body[c], buffer[c])
         \/ pc'[c] = "close" /\ broken'[c]
      /\ \A d \in Connection :
           d # c => pc'[d] = pc[d] /\ body'[d] = body[d] /\ broken'[d] = broken[d]
  BY SendChanges DEF SendPiece, Goto, IInv, TypeOK
<1>2. status[c] = "200"
  BY <1>1 DEF IInv, ConnectionInv, Announced
<1>3. TypeOK'
  <2>1. body' \in [Connection -> Seq(Nat)]
    <3>1. body \in [Connection -> Seq(Nat)] /\ Append(body[c], buffer[c]) \in Seq(Nat)
      BY DEF IInv, TypeOK
    <3>2. \/ body' = body
          \/ body' = [body EXCEPT ![c] = Append(body[c], buffer[c])]
      BY DEF SendPiece
    <3> QED
      BY <3>1, <3>2
  <2>2. pc' \in [Connection -> {"none", "recv", "lookup", "header", "rewind",
                                "read", "send", "reply", "close", "closed"}]
    BY DEF SendPiece, Goto, IInv, TypeOK
  <2>3. /\ peer' \in [Connection -> {"room", "full", "gone"}]
        /\ broken' \in [Connection -> BOOLEAN]
    BY SendChanges DEF SendPiece
  <2> QED
    BY <1>1, <2>1, <2>2, <2>3 DEF IInv, TypeOK
<1>4. Table' /\ \A path : Cached(path) => Cached(path)'
  BY <1>1 DEF IInv, Table, Cached
<1>5. ConnectionInv(c)'
  <2>1. ASSUME pc'[c] = "read", c \notin disturbed
        PROVE  /\ FirstPieces(body'[c], buffer[c] + 1)
               /\ pointer[target[c]] = buffer[c] + 1
               /\ pointer[target[c]] <= Pieces[target[c]]
    <3> DEFINE p == buffer[c]
    <3>1. p \in Nat /\ body[c] \in Seq(Nat) /\ body'[c] = Append(body[c], p)
      BY <1>1, <2>1 DEF IInv, TypeOK
    <3>2. /\ Len(body[c]) = p /\ \A k \in 1..p : body[c][k] = k - 1
          /\ pointer[target[c]] = p + 1
          /\ pointer[target[c]] <= Pieces[target[c]]
      BY <1>1, <2>1 DEF IInv, ConnectionInv, InStep, FirstPieces
    <3> HIDE DEF p
    <3>3. ASSUME NEW k \in 1..(p + 1)
          PROVE  Append(body[c], p)[k] = k - 1
      <4>1. CASE k = p + 1
        BY <3>1, <3>2, <4>1
      <4>2. CASE k \in 1..p
        BY <3>1, <3>2, <4>2
      <4>3. k = p + 1 \/ k \in 1..p
        BY <3>1, <3>3
      <4> QED
        BY <4>1, <4>2, <4>3
    <3>4. Len(Append(body[c], p)) = p + 1
      BY <3>1, <3>2
    <3> QED
      BY <3>1, <3>2, <3>3, <3>4 DEF FirstPieces, p
  <2>2. InStep(c)'
    BY <1>1, <2>1 DEF InStep, FirstPieces
  <2> QED
    BY <1>1, <1>2, <1>4, <2>2 DEF IInv, ConnectionInv, Silent, Fresh, Announced,
                                  Intact, Served
<1>6. ASSUME NEW d \in Connection, d # c
      PROVE  ConnectionInv(d)'
  BY <1>1, <1>4, <1>6, OthersKeep
<1> QED
  BY <1>3, <1>4, <1>5, <1>6 DEF IInv

LEMMA EndOfFileKeepsInv ==
  ASSUME FileAssumption, IInv, NEW c \in Connection, EndOfFile(c)
  PROVE  IInv'
<1>1. /\ UNCHANGED <<cache, pointer, target, status, buffer, body, broken,
                     disturbed>>
      /\ pc[c] = "read" /\ pc'[c] = "close"
      /\ \A d \in Connection : d # c => pc'[d] = pc[d]
  BY DEF EndOfFile, Goto, IInv, TypeOK
<1>2. TypeOK'
  BY <1>1 DEF EndOfFile, Goto, IInv, TypeOK
<1>3. Table' /\ \A path : Cached(path) => Cached(path)'
  BY <1>1 DEF IInv, Table, Cached
<1>4. Intact(c)'
  <2> SUFFICES ASSUME c \notin disturbed
               PROVE  FirstPieces(body[c], Pieces[target[c]])
    BY <1>1 DEF Intact, FirstPieces
  <2>1. target[c] \in Existing
    BY <1>1, AnnouncedExists DEF IInv, ConnectionInv, Announced
  <2>2. Pieces[target[c]] \in Nat /\ pointer[target[c]] \in Nat
    BY <2>1, FileAssumption DEF FileAssumption, IInv, TypeOK
  <2>3. /\ FirstPieces(body[c], pointer[target[c]])
        /\ pointer[target[c]] <= Pieces[target[c]]
    BY <1>1 DEF IInv, ConnectionInv, InStep
  <2>4. Pieces[target[c]] - Len(body[c]) = 0 \/ pointer[target[c]] >= Pieces[target[c]]
    BY DEF EndOfFile, Remaining, AtEnd
  <2>5. Len(body[c]) = pointer[target[c]]
    BY <2>3 DEF FirstPieces
  <2>6. pointer[target[c]] = Pieces[target[c]]
    BY <2>2, <2>3, <2>4, <2>5
  <2> QED
    BY <2>3, <2>6
<1>5. ConnectionInv(c)'
  BY <1>1, <1>3, <1>4 DEF IInv, ConnectionInv, Silent, Fresh, Announced, InStep
<1>6. ASSUME NEW d \in Connection, d # c
      PROVE  ConnectionInv(d)'
  BY <1>1, <1>3, <1>6, OthersKeep
<1> QED
  BY <1>2, <1>3, <1>5, <1>6 DEF IInv

LEMMA CloseKeepsInv ==
  ASSUME IInv, NEW c \in Connection, Close(c)
  PROVE  IInv'
<1>1. /\ UNCHANGED <<cache, pointer, target, status, buffer, body, broken,
                     disturbed>>
      /\ pc[c] = "close" /\ pc'[c] = "closed"
      /\ \A d \in Connection : d # c => pc'[d] = pc[d]
  BY DEF Close, HangUp, Goto, IInv, TypeOK
<1>2. TypeOK'
  BY <1>1 DEF Close, HangUp, Goto, IInv, TypeOK
<1>3. Table' /\ \A path : Cached(path) => Cached(path)'
  BY <1>1 DEF IInv, Table, Cached
<1>4. ConnectionInv(c)'
  BY <1>1, <1>3 DEF IInv, ConnectionInv, Silent, Fresh, Announced, InStep,
                    Intact, Served, FirstPieces
<1>5. ASSUME NEW d \in Connection, d # c
      PROVE  ConnectionInv(d)'
  BY <1>1, <1>3, <1>5, OthersKeep
<1> QED
  BY <1>2, <1>3, <1>4, <1>5 DEF IInv

-----------------------------------------------------------------------------
LEMMA NextKeepsInv ==
  ASSUME FileAssumption, IInv, [Next]_vars
  PROVE  IInv'
<1>1. CASE UNCHANGED vars
  BY <1>1 DEF IInv, TypeOK, Table, ConnectionInv, Silent, Fresh, Announced,
              InStep, Intact, Served, FirstPieces, Cached, vars
<1>2. ASSUME NEW c \in Connection,
             \/ ClientReads(c) \/ ClientLeaves(c)
             \/ Accept(c) \/ RecvGet(c) \/ RecvOther(c)
      PROVE  IInv'
  BY <1>2, ClientKeepsInv, AcceptKeepsInv, RecvGetKeepsInv, RecvOtherKeepsInv
<1>3. ASSUME NEW c \in Connection, HandleClient(c)
      PROVE  IInv'
  BY <1>3, FileAssumption, RecvGetKeepsInv, RecvOtherKeepsInv,
     GetFileCacheKeepsInv, SendHeaderKeepsInv, RewindKeepsInv, ReadPieceKeepsInv,
     SendPieceKeepsInv, EndOfFileKeepsInv, CloseKeepsInv
     DEF HandleClient
<1> QED
  BY <1>1, <1>2, <1>3 DEF Next, Finished

LEMMA Invariant == Spec => []IInv
<1>1. Init => IInv
  BY InitInv, FileAssumption
<1>2. IInv /\ [Next]_vars => IInv'
  BY NextKeepsInv, FileAssumption
<1> QED
  BY <1>1, <1>2, PTL DEF Spec

(***************************************************************************)
(* The server is well-typed: in particular only files that exist are in    *)
(* the table.                                                              *)
(***************************************************************************)
THEOREM TypeCorrect == Spec => []TypeOK
<1>1. IInv => TypeOK
  BY DEF IInv
<1> QED
  BY <1>1, Invariant, PTL

(***************************************************************************)
(* get_file_cache opens a path once, however many requests race for it,    *)
(* keeps the table within its limit, and no thread uses a file that is not *)
(* in it.                                                                  *)
(***************************************************************************)
THEOREM HandlesUnique == Spec => []OneHandlePerPath
<1>1. IInv => OneHandlePerPath
  BY DEF IInv, Table, ConnectionInv, Announced, OneHandlePerPath
<1> QED
  BY <1>1, Invariant, PTL

(***************************************************************************)
(* A request whose file pointer no other thread moves is sent the file,    *)
(* whole and in order, wherever earlier requests have left the pointer.    *)
(***************************************************************************)
THEOREM BodiesIntact == Spec => []BodyIntactIfUndisturbed
<1>1. IInv => BodyIntactIfUndisturbed
  <2> SUFFICES ASSUME IInv, NEW c \in Connection \ disturbed, Served(c)
               PROVE  body[c] = WholeFile(c)
    BY DEF BodyIntactIfUndisturbed
  <2>1. FirstPieces(body[c], Pieces[target[c]]) /\ body[c] \in Seq(Nat)
    BY DEF IInv, TypeOK, ConnectionInv, Intact
  <2> DEFINE n == Pieces[target[c]]
  <2>2. Len(body[c]) = n /\ \A k \in 1..n : body[c][k] = k - 1
    BY <2>1 DEF FirstPieces
  <2>3. body[c] = [k \in 1..n |-> body[c][k]]
    BY <2>1, <2>2
  <2> QED
    BY <2>2, <2>3 DEF WholeFile
<1> QED
  BY <1>1, Invariant, PTL

(***************************************************************************)
(* Entries stay, so a file that was served once is never refused for a     *)
(* full table.                                                             *)
(***************************************************************************)
THEOREM PagesStay == Spec => ServedForEver
<1>1. ASSUME IInv, [Next]_vars
      PROVE  [\A c \in Connection :
                (pc[c] = "lookup" /\ status'[c] = "404") =>
                   \A d \in Connection : status[d] = "200" => target[d] # target[c]]_vars
  <2> SUFFICES ASSUME Next, NEW c \in Connection, NEW d \in Connection,
                      pc[c] = "lookup", status'[c] = "404", status[d] = "200"
               PROVE  target[d] # target[c]
    BY <1>1
  <2>1. Cached(target[d]) /\ status[c] = "none"
    BY <1>1 DEF IInv, ConnectionInv, Announced, Silent
  <2>2. GetFileCache(c)
    <3>1. PICK e \in Connection :
            \/ ClientReads(e) \/ ClientLeaves(e)
            \/ Accept(e) \/ RecvGet(e) \/ RecvOther(e) \/ HandleClient(e)
      BY <2>1 DEF Next, Finished, vars
    <3>2. status'[c] # status[c]
      BY <2>1
    <3>3. GetFileCache(e) \/ RecvOther(e)
      BY <3>1, <3>2 DEF ClientReads, ClientLeaves, Accept, RecvGet, HandleClient,
                        SendHeader, SendResponse, Rewind, ReadPiece, SendPiece,
                        EndOfFile, Close
    <3>4. e = c
      BY <1>1, <3>2, <3>3 DEF GetFileCache, RecvOther, Respond, IInv, TypeOK
    <3> QED
      BY <3>3, <3>4 DEF RecvOther
  <2>3. ~Cached(target[c])
    BY <1>1, <2>2 DEF GetFileCache, Respond, IInv, TypeOK
  <2> QED
    BY <2>1, <2>3
<1> QED
  BY <1>1, Invariant, PTL DEF Spec, ServedForEver
=============================================================================
