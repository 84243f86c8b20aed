----------------------------- MODULE FileServer -----------------------------
(***************************************************************************)
(* The static file server of lab_5 (server.cpp, cache.cpp): one thread per *)
(* connection, which serves one request and closes, over a table of open   *)
(* files that is filled under a critical section and never emptied.  The   *)
(* entry of a file holds ONE handle, with its file pointer, that all the   *)
(* threads serving the file move.                                          *)
(*                                                                         *)
(* A file is as many pieces as reads of BUFFER_SIZE bytes are needed; what *)
(* a body contains is the sequence of the pieces sent, by their position.  *)
(* A path is the string the table is searched for: two spellings of the    *)
(* name of a file are two paths.                                           *)
(*                                                                         *)
(* A call of send returns when what it sends has found room on the         *)
(* connection, or when the connection is broken: there is no time limit,   *)
(* so a client that stays connected and does not read blocks its thread.   *)
(***************************************************************************)
EXTENDS Naturals, Sequences, FiniteSets

CONSTANTS Connection,
          Path,            \* the paths that are requested
          Existing,        \* those at which a file can be opened
          Pieces,          \* the size of each file
          MaxCached        \* MAX_CACHED_FILES

ASSUME FileAssumption ==
  /\ Existing \subseteq Path /\ IsFiniteSet(Connection)
  /\ Pieces \in [Existing -> Nat]
  /\ MaxCached \in Nat

VARIABLES
  cache,      \* the paths in the table, in the order of their insertion
  pointer,    \* the file pointer of each open handle
  pc,         \* where the thread of each connection is
  target,     \* the path it serves
  status,     \* the status line it has chosen
  buffer,     \* the piece it has read last
  body,       \* what it has sent of the file
  peer,       \* the client: there is room for a send, it is full, or it is gone
  broken,     \* a send has failed
  disturbed   \* history: a thread has moved the pointer these read with

vars == <<cache, pointer, pc, target, status, buffer, body, peer, broken,
          disturbed>>

NoPath == "none"

Init ==
  /\ cache = <<>>
  /\ pointer = [f \in Existing |-> 0]
  /\ pc = [c \in Connection |-> "none"]
  /\ target = [c \in Connection |-> NoPath]
  /\ status = [c \in Connection |-> "none"]
  /\ buffer = [c \in Connection |-> 0]
  /\ body = [c \in Connection |-> <<>>]
  /\ peer \in [Connection -> {"room", "full"}]
  /\ broken = [c \in Connection |-> FALSE]
  /\ disturbed = {}

-----------------------------------------------------------------------------
(***************************************************************************)
(* The client, who owes nothing: it reads when it likes, if ever, and may  *)
(* leave at any time.                                                      *)
(***************************************************************************)
ClientReads(c) ==
  /\ peer[c] = "full" /\ peer' = [peer EXCEPT ![c] = "room"]
  /\ UNCHANGED <<cache, pointer, pc, target, status, buffer, body, broken,
                 disturbed>>

ClientLeaves(c) ==
  /\ peer[c] # "gone" /\ peer' = [peer EXCEPT ![c] = "gone"]
  /\ UNCHANGED <<cache, pointer, pc, target, status, buffer, body, broken,
                 disturbed>>

-----------------------------------------------------------------------------
(***************************************************************************)
(* The thread of a connection.                                             *)
(***************************************************************************)
Goto(c, label) == pc' = [pc EXCEPT ![c] = label]

\* The response is chosen and the thread goes on.
Respond(c, code, label) ==
  /\ status' = [status EXCEPT ![c] = code]
  /\ Goto(c, label)

\* send returns: what is sent has found room, perhaps the last there was, or
\* has gone to a client that left and whose reset has not arrived.
Sent(c) ==
  /\ peer[c] # "full" /\ ~broken[c]
  /\ \/ /\ peer[c] = "room"
        /\ \E left \in {"room", "full"} : peer' = [peer EXCEPT ![c] = left]
     \/ peer[c] = "gone" /\ UNCHANGED peer
  /\ UNCHANGED broken

\* send fails: only a connection whose client has gone is broken.
SendFails(c) ==
  /\ peer[c] = "gone" /\ UNCHANGED peer
  /\ broken' = [broken EXCEPT ![c] = TRUE]

HangUp(c) == Goto(c, "closed") /\ peer' = [peer EXCEPT ![c] = "gone"]

\* accept; the connection is closed at once if no thread can be started.
Accept(c) ==
  /\ pc[c] = "none"
  /\ (Goto(c, "recv") /\ UNCHANGED peer) \/ HangUp(c)
  /\ UNCHANGED <<cache, pointer, target, status, buffer, body, broken, disturbed>>

\* A GET request whose path has no "..".
RecvGet(c) ==
  /\ pc[c] = "recv" /\ Goto(c, "lookup")
  /\ \E path \in Path : target' = [target EXCEPT ![c] = path]
  /\ UNCHANGED <<cache, pointer, status, buffer, body, peer, broken, disturbed>>

\* Nothing received or no request line; another method; a path with "..".
RecvOther(c) ==
  /\ pc[c] = "recv"
  /\ \/ Goto(c, "close") /\ UNCHANGED status
     \/ \E code \in {"405", "404"} : Respond(c, code, "reply")
  /\ UNCHANGED <<cache, pointer, target, buffer, body, peer, broken, disturbed>>

Cached(path) == \E i \in DOMAIN cache : cache[i] = path

\* Mutant of GetFileCache: a full table is refused before the search.
GetUnlessFull(c) ==
  /\ pc[c] = "lookup"
  /\ \/ /\ Len(cache) < MaxCached /\ target[c] \in Existing
        /\ cache' = IF Cached(target[c]) THEN cache ELSE Append(cache, target[c])
        /\ Respond(c, "200", "header")
     \/ /\ Len(cache) >= MaxCached \/ target[c] \notin Existing
        /\ Respond(c, "404", "reply") /\ UNCHANGED cache
  /\ UNCHANGED <<pointer, target, buffer, body, peer, broken, disturbed>>

\* Mutant of GetFileCache: the limit is one too high.
GetBeyondLimit(c) ==
  /\ pc[c] = "lookup"
  /\ IF Cached(target[c]) \/ (Len(cache) <= MaxCached /\ target[c] \in Existing)
       THEN /\ cache' = IF Cached(target[c]) THEN cache ELSE Append(cache, target[c])
            /\ Respond(c, "200", "header")
       ELSE Respond(c, "404", "reply") /\ UNCHANGED cache
  /\ UNCHANGED <<pointer, target, buffer, body, peer, broken, disturbed>>

\* Mutant of GetFileCache: it is not checked that the file could be opened.
GetUnopened(c) ==
  /\ pc[c] = "lookup"
  /\ Respond(c, "200", "header")
  /\ cache' = IF Cached(target[c]) THEN cache ELSE Append(cache, target[c])
  /\ UNCHANGED <<pointer, target, buffer, body, peer, broken, disturbed>>

\* get_file_cache, one critical section.  A path that is not in the table is
\* refused when the table is full, and when its file cannot be opened: there
\* is none, or it fails this time.
GetFileCache(c) ==
  /\ pc[c] = "lookup"
  /\ \/ /\ Cached(target[c])
        /\ Respond(c, "200", "header") /\ UNCHANGED cache
     \/ /\ ~Cached(target[c])
        /\ Len(cache) < MaxCached /\ target[c] \in Existing
        /\ cache' = Append(cache, target[c]) /\ Respond(c, "200", "header")
     \/ /\ ~Cached(target[c])
        /\ Respond(c, "404", "reply") /\ UNCHANGED cache
  /\ UNCHANGED <<pointer, target, buffer, body, peer, broken, disturbed>>

\* The header of a file; the code does not look at what send returns.
SendHeader(c) ==
  /\ pc[c] = "header" /\ Goto(c, "rewind")
  /\ Sent(c) \/ SendFails(c)
  /\ UNCHANGED <<cache, pointer, target, status, buffer, body, disturbed>>

\* A 404 or 405 response, whose one or two sends are not looked at either.
SendResponse(c) ==
  /\ pc[c] = "reply" /\ Goto(c, "close")
  /\ Sent(c) \/ SendFails(c)
  /\ UNCHANGED <<cache, pointer, target, status, buffer, body, disturbed>>

\* The other threads that transfer the file have its pointer moved.
Disturb(c) ==
  disturbed' = disturbed \cup
    {d \in Connection \ {c} : pc[d] \in {"read", "send"} /\ target[d] = target[c]}

\* Mutant of Rewind: the file pointer stays where the last request left it.
RewindNot(c) ==
  /\ pc[c] = "rewind" /\ Goto(c, "read")
  /\ UNCHANGED <<cache, pointer, target, status, buffer, body, peer, broken,
                 disturbed>>

\* SetFilePointerEx on the shared handle.
Rewind(c) ==
  /\ pc[c] = "rewind" /\ Goto(c, "read")
  /\ pointer' = [pointer EXCEPT ![target[c]] = 0]
  /\ Disturb(c)
  /\ UNCHANGED <<cache, target, status, buffer, body, peer, broken>>

Remaining(c) == Pieces[target[c]] - Len(body[c])
AtEnd(c) == pointer[target[c]] >= Pieces[target[c]]

\* ReadFile, which moves the shared pointer.
ReadPiece(c) ==
  /\ pc[c] = "read" /\ Remaining(c) > 0 /\ ~AtEnd(c)
  /\ Goto(c, "send")
  /\ buffer' = [buffer EXCEPT ![c] = pointer[target[c]]]
  /\ pointer' = [pointer EXCEPT ![target[c]] = @ + 1]
  /\ Disturb(c)
  /\ UNCHANGED <<cache, target, status, body, peer, broken>>

\* The send of what was read; the transfer ends if it fails.
SendPiece(c) ==
  /\ pc[c] = "send"
  /\ \/ /\ Sent(c) /\ Goto(c, "read")
        /\ body' = [body EXCEPT ![c] = Append(@, buffer[c])]
     \/ SendFails(c) /\ Goto(c, "close") /\ UNCHANGED body
  /\ UNCHANGED <<cache, pointer, target, status, buffer, disturbed>>

\* Mutant of EndOfFile: a read of no bytes is tried again.
EndOfFileRetries(c) ==
  /\ pc[c] = "read" /\ (Remaining(c) = 0 \/ AtEnd(c))
  /\ IF Remaining(c) = 0 THEN Goto(c, "close") ELSE UNCHANGED pc
  /\ UNCHANGED <<cache, pointer, target, status, buffer, body, peer, broken,
                 disturbed>>

\* Everything is sent, or ReadFile returns no bytes.
EndOfFile(c) ==
  /\ pc[c] = "read" /\ (Remaining(c) = 0 \/ AtEnd(c))
  /\ Goto(c, "close")
  /\ UNCHANGED <<cache, pointer, target, status, buffer, body, peer, broken,
                 disturbed>>

Close(c) ==
  /\ pc[c] = "close" /\ HangUp(c)
  /\ UNCHANGED <<cache, pointer, target, status, buffer, body, broken, disturbed>>

\* What the thread does by itself.  recv has no time limit: it returns when
\* the client sends, which it need not do, or has gone.
HandleClient(c) ==
  \/ peer[c] = "gone" /\ (RecvGet(c) \/ RecvOther(c))
  \/ GetFileCache(c) \/ SendHeader(c) \/ SendResponse(c)
  \/ Rewind(c) \/ ReadPiece(c) \/ SendPiece(c) \/ EndOfFile(c)
  \/ Close(c)

Finished == (\A c \in Connection : pc[c] = "closed") /\ UNCHANGED vars

Next ==
  \/ \E c \in Connection :
       \/ ClientReads(c) \/ ClientLeaves(c)
       \/ Accept(c) \/ RecvGet(c) \/ RecvOther(c) \/ HandleClient(c)
  \/ Finished

Spec == Init /\ [][Next]_vars

\* A thread that can go on does.  Nothing is assumed of a client, and so a
\* thread in recv or send may stay there for ever.
Fairness == \A c \in Connection : WF_vars(HandleClient(c))
FairSpec == Spec /\ Fairness

-----------------------------------------------------------------------------
TypeOK ==
  /\ cache \in Seq(Existing)
  /\ pointer \in [Existing -> Nat]
  /\ pc \in [Connection -> {"none", "recv", "lookup", "header", "rewind",
                            "read", "send", "reply", "close", "closed"}]
  /\ target \in [Connection -> Path \cup {NoPath}]
  /\ status \in [Connection -> {"none", "200", "404", "405"}]
  /\ buffer \in [Connection -> Nat]
  /\ body \in [Connection -> Seq(Nat)]
  /\ peer \in [Connection -> {"room", "full", "gone"}]
  /\ broken \in [Connection -> BOOLEAN]
  /\ disturbed \in SUBSET Connection

\* What the header announces for the connection.
WholeFile(c) == [i \in 1..Pieces[target[c]] |-> i - 1]

Served(c) == pc[c] \in {"close", "closed"} /\ status[c] = "200" /\ ~broken[c]

(***************************************************************************)
(* send_file_response announces Content-Length: file_size.  A client that  *)
(* stays connected is sent exactly the file: every piece, once, in order.  *)
(***************************************************************************)
BodyIntact == \A c \in Connection : Served(c) => body[c] = WholeFile(c)

(***************************************************************************)
(* That holds at least of the requests during whose transfer no other      *)
(* thread moves the pointer of the same file: earlier requests for the     *)
(* file, broken off at any piece, and transfers of other files do no harm. *)
(***************************************************************************)
BodyIntactIfUndisturbed ==
  \A c \in Connection \ disturbed : Served(c) => body[c] = WholeFile(c)

(***************************************************************************)
(* However many requests race to open a file, it is entered in the table   *)
(* once for each path, the table stays within its bounds, and a thread     *)
(* uses no handle that is not in it.                                       *)
(***************************************************************************)
OneHandlePerPath ==
  /\ \A i, j \in DOMAIN cache : cache[i] = cache[j] => i = j
  /\ Len(cache) <= MaxCached
  /\ \A c \in Connection :
       pc[c] \in {"header", "rewind", "read", "send"} => Cached(target[c])

(***************************************************************************)
(* A file that was served once is served for ever: its entry stays, and no *)
(* later request for it is answered 404, however full the table gets.      *)
(***************************************************************************)
ServedForEver ==
  [][\A c \in Connection :
       (pc[c] = "lookup" /\ status'[c] = "404") =>
          \A d \in Connection : status[d] = "200" => target[d] # target[c]]_vars

(***************************************************************************)
(* A thread that has its request, or whose client has gone, closes the     *)
(* connection, unless its own client stays and does not read: neither      *)
(* other threads that move the file pointer under it nor clients of other  *)
(* connections that do not read keep it from doing so.                     *)
(***************************************************************************)
RequestsEnd ==
  \A c \in Connection :
    []<>(peer[c] # "full") =>
      (pc[c] = "lookup" \/ (pc[c] # "none" /\ peer[c] = "gone")) ~> pc[c] = "closed"
=============================================================================
