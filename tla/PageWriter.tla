------------------------------ MODULE PageWriter ------------------------------
(****************************************************************************)
(* The program that answers a dynamic request, writing its page piece by    *)
(* piece: write_data in a thread of the server, or the main of cgi_hello in *)
(* a child.  Its descriptor shares O_NONBLOCK with the server's             *)
(* (server.cpp:75), so that no write waits for the client.                  *)
(****************************************************************************)
EXTENDS Integers, Sequences

CONSTANTS
  Kinds,   \* "thread" (hello.cpp) or "child" (cgi_hello.cpp)
  Pieces,  \* calls of write, or lines put into cout
  Size,    \* bytes of a piece
  Room     \* bytes the socket holds for a client that does not read

ASSUME WriterAssumption ==
  /\ Kinds \subseteq {"thread", "child"}
  /\ {Pieces, Size, Room} \subseteq Nat \ {0}

VARIABLES
  kind,    \* which of them writes
  next,    \* the piece to be written next
  bad,     \* cout's badbit
  socket,  \* the bytes (by their place in the page) that wait in the socket
  got,     \* those the client has read
  client,  \* "here", or "gone" after a reset
  writer   \* "writing"; "closed" in the end; "killed" by SIGPIPE

vars == <<kind, next, bad, socket, got, client, writer>>

Page   == [i \in 1..(Pieces * Size) |-> i]
Stream == got \o socket

(* Mutant: all of it, whatever the room.                                    *)
TakenAll(n, k) == [i \in 1..Size |-> (n - 1) * Size + i]

(* Mutant: a piece is taken whole or not at all.                            *)
TakenWhole(n, k) == IF k < Size THEN <<>> ELSE [i \in 1..Size |-> (n - 1) * Size + i]

(* What write takes of piece n when there is room for k bytes.              *)
Taken(n, k) == [i \in 1..(IF k < Size THEN k ELSE Size) |-> (n - 1) * Size + i]

Free == Room - Len(socket)

Init ==
  /\ kind \in Kinds /\ next = 1 /\ bad = FALSE
  /\ socket = <<>> /\ got = <<>>
  /\ client = "here" /\ writer = "writing"

Working == writer = "writing" /\ next <= Pieces

(* Mutant: a piece that was not taken whole is written again.               *)
WriteAgain ==
  /\ Working /\ kind = "thread" /\ client = "here"
  /\ socket' = socket \o Taken(next, Free)
  /\ next' = IF Free < Size THEN next ELSE next + 1
  /\ UNCHANGED <<kind, bad, got, client, writer>>

(* write_data ignores what write returns: the rest of the piece is lost.    *)
Write ==
  /\ Working /\ kind = "thread" /\ client = "here"
  /\ socket' = socket \o Taken(next, Free)
  /\ next' = next + 1
  /\ UNCHANGED <<kind, bad, got, client, writer>>

(* Mutant: a failed flush does not stop the stream.                         *)
PutOn ==
  /\ Working /\ kind = "child" /\ client = "here"
  /\ socket' = socket \o Taken(next, Free)
  /\ next' = next + 1
  /\ UNCHANGED <<kind, bad, got, client, writer>>

(* endl flushes every line; a flush that fails drops the rest of the line   *)
(* and sets badbit, after which lines go nowhere.                           *)
Put ==
  /\ Working /\ kind = "child"
  /\ next' = next + 1
  /\ IF bad THEN UNCHANGED <<socket, bad>>
     ELSE /\ client = "here"
          /\ socket' = socket \o Taken(next, Free)
          /\ bad' = (Free < Size)
  /\ UNCHANGED <<kind, got, client, writer>>

(* A write to a reset connection reports the reset, which both programs     *)
(* take like any other failure ...                                          *)
Lost ==
  /\ Working /\ client = "gone" /\ ~bad
  /\ next' = next + 1 /\ bad' = (kind = "child")
  /\ UNCHANGED <<kind, socket, got, client, writer>>

(* ... or raises the signal, which keeps its default action.                *)
Sigpipe ==
  /\ Working /\ client = "gone" /\ ~bad
  /\ writer' = "killed"
  /\ UNCHANGED <<kind, next, bad, socket, got, client>>

(* close, or the end of the child.                                         *)
Close ==
  /\ writer = "writing" /\ next > Pieces
  /\ writer' = "closed"
  /\ UNCHANGED <<kind, next, bad, socket, got, client>>

Read ==
  /\ client = "here"
  /\ \E k \in 1..Len(socket) :
       /\ got' = got \o SubSeq(socket, 1, k)
       /\ socket' = SubSeq(socket, k + 1, Len(socket))
  /\ UNCHANGED <<kind, next, bad, client, writer>>

Reset ==
  /\ client = "here"
  /\ client' = "gone" /\ socket' = <<>>
  /\ UNCHANGED <<kind, next, bad, got, writer>>

Program == Write \/ Put \/ Lost \/ Sigpipe \/ Close
Next == Program \/ Read \/ Reset
Spec == Init /\ [][Next]_vars

(* The kernel runs the writer; the client may never read.                   *)
FairSpec == Spec /\ WF_vars(Program)

-----------------------------------------------------------------------------
(* The variables have their types, and the socket holds what it can.        *)
TypeOK ==
  /\ kind \in Kinds /\ next \in 1..(Pieces + 1) /\ bad \in BOOLEAN
  /\ socket \in Seq(1..(Pieces * Size)) /\ Len(socket) <= Room
  /\ got \in Seq(1..(Pieces * Size))
  /\ client \in {"here", "gone"}
  /\ writer \in {"writing", "closed", "killed"}

(* However slowly the client reads, each byte of the page comes at most     *)
(* once and in order, though a thread may leave holes.                      *)
OnceInOrder ==
  \A i, j \in DOMAIN Stream : i < j => Stream[i] < Stream[j]

(* What a child writes has no holes: it is the beginning of the page, where *)
(* a thread's page may go on after a loss.                                  *)
ChildWritesPrefix ==
  kind = "child" => Stream = SubSeq(Page, 1, Len(Stream))

(* What the socket can hold is safe: of a client that stays, as much of the *)
(* page's beginning arrives, or all that was written, whenever it reads.    *)
BeginsWhole ==
  LET written == (next - 1) * Size
      safe    == IF written < Room THEN written ELSE Room
  IN  client = "here" => /\ Len(Stream) >= safe
                         /\ SubSeq(Stream, 1, safe) = SubSeq(Page, 1, safe)

(* No client can hold a writer: it ends although nobody reads, and the      *)
(* number of its socket is free again.                                      *)
WriterEnds == <>(writer # "writing")
=============================================================================
