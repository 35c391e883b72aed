----------------------------- MODULE ServedProofs -----------------------------
(****************************************************************************)
(* What each callback changes, member by member, and two properties that    *)
(* follow for any requests in any segments: a finished proxy has output     *)
(* that will bring about its deletion, and on epoll every live connection   *)
(* is watched.  Then what is true of a connection until its client sends a  *)
(* second segment.                                                          *)
(****************************************************************************)
EXTENDS EventedServerProofs

(* A step of connection c leaves the others alone, and every number that    *)
(* is neither free nor c's.                                                 *)
OthersKept(c) ==
  \A d \in Conn \ {c} :
    proxy'[d] = proxy[d] /\ link'[d] = link[d] /\ job'[d] = job[d]

Mine(s, n, c) == s.desc[n] = Free \/ s.desc[n].conn = c

OnlyMine(c) ==
  \A n \in Fd : os'.desc[n] = os.desc[n] \/ (Mine(os, n, c) /\ Mine(os', n, c))

(* Nothing is opened for c.                                                 *)
NoNewFile(c) == \A n \in Fd : IsFileOf(os', n, c) => os'.desc[n] = os.desc[n]

(* The members of a proxy from which nothing was read, and of a deleted one.*)
Blank(p) == p.out = <<>> /\ ~p.finished /\ p.first /\ p.input = <<>>

(* What the invariant says of a live connection.                            *)
LEMMA LiveFacts ==
  ASSUME Inv
  PROVE  /\ os \in Table /\ proxy \in [Conn -> Proxy] /\ link \in [Conn -> Link]
         /\ job \in [Conn -> Job]
         /\ \A c \in Conn : /\ proxy[c] \in Proxy /\ link[c] \in Link /\ job[c] \in Job
                            /\ Live(c) => /\ proxy[c].fd \in Fd
                                          /\ os.desc[proxy[c].fd] = Sock(c)
                                          /\ job[c].state = "none"
  BY DEF Inv, TypeOK, SocketOwned, Bookkeeping, Live

(* ~ClientProxy closes the socket and nothing else.                         *)
LEMMA DestroyEffect ==
  ASSUME proxy \in [Conn -> Proxy], NEW s \in Table, NEW c \in Conn, NEW p \in Proxy,
         Destroy(s, c, p)
  PROVE  /\ proxy'[c].obj = "deleted" /\ proxy'[c].loads = p.loads
         /\ Blank(proxy'[c]) /\ proxy'[c].lost = p.out
         /\ \A d \in Conn \ {c} : proxy'[d] = proxy[d]
         /\ \A m \in Fd : os'.desc[m] = IF m = p.fd THEN Free ELSE s.desc[m]
  <1>1. /\ proxy' = [proxy EXCEPT ![c] = Deleted(p)]
        /\ os' = Release(s, c, p)
    BY DEF Destroy
  <1>2. /\ Deleted(p).obj = "deleted" /\ Deleted(p).loads = p.loads /\ Blank(Deleted(p))
        /\ Deleted(p).lost = p.out
    BY DEF Deleted, NoProxy, Blank
  <1> DEFINE t1 == Close(s, p.fd)
             t2 == EventDel(t1, BufEvent(p.fd, c))
             t3 == EventDel(t2, FileEvent(p.loader, c, p.loads))
  <1>3. t1 \in Table /\ \A m \in Fd : t1.desc[m] = IF m = p.fd THEN Free ELSE s.desc[m]
    BY CloseFacts
  <1>4. t2 \in Table /\ t2.desc = t1.desc
    BY <1>3, EventDelFacts
  <1>5. t3.desc = t2.desc
    BY <1>4, EventDelFacts
  <1>6. os' = t3
    BY <1>1 DEF Release
  <1> HIDE DEF t1, t2, t3
  <1> QED
    BY <1>1, <1>2, <1>3, <1>4, <1>5, <1>6

(* A step that takes away at most c's own socket.                           *)
LEMMA SocketClosed ==
  ASSUME Inv, NEW c \in Conn, Live(c), NEW n, n = proxy[c].fd,
         \A m \in Fd : os'.desc[m] = IF m = n THEN Free ELSE os.desc[m]
  PROVE  OnlyMine(c) /\ NoNewFile(c)
  <1>1. os.desc[n] = Sock(c)
    BY LiveFacts
  <1> QED
    BY <1>1 DEF OnlyMine, NoNewFile, Mine, IsFileOf, Sock, Free

(* accept_callback.                                                         *)
LEMMA AcceptEffect ==
  ASSUME Inv, NEW c \in Conn, AcceptCallback(c)
  PROVE  /\ OthersKept(c) /\ OnlyMine(c) /\ NoNewFile(c)
         /\ proxy[c].obj = "none" /\ link' = link /\ job' = job /\ server' = server
         /\ proxy'[c].obj = "live" /\ proxy'[c].loads = 0 /\ Blank(proxy'[c])
  <1>1. PICK n \in LowestFree(os) :
          /\ os' = EventAdd(Assign(os, n, Sock(c)), BufEvent(n, c))
          /\ proxy' = [proxy EXCEPT ![c] = NewProxy(n)]
    BY DEF AcceptCallback
  <1>2. n \in Fd /\ os.desc[n] = Free
    BY DEF LowestFree, IsFree
  <1>3. /\ NewProxy(n).obj = "live" /\ NewProxy(n).loads = 0 /\ Blank(NewProxy(n))
    BY DEF NewProxy, NoProxy, Blank
  <1> DEFINE a == Assign(os, n, Sock(c))
  <1>4. a \in Table /\ \A m \in Fd : a.desc[m] = IF m = n THEN Sock(c) ELSE os.desc[m]
    BY LiveFacts, DescKinds, AssignFacts
  <1>5. BufEvent(n, c) \in Event
    BY <1>2 DEF BufEvent, Event
  <1> HIDE DEF a
  <1>6. EventAdd(a, BufEvent(n, c)).desc = a.desc
    BY <1>4, <1>5, EventAddFacts
  <1>7. \A m \in Fd : os'.desc[m] = IF m = n THEN Sock(c) ELSE os.desc[m]
    BY <1>1, <1>4, <1>6 DEF a
  <1>8. OnlyMine(c) /\ NoNewFile(c)
    BY <1>2, <1>7 DEF OnlyMine, NoNewFile, Mine, IsFileOf, Sock
  <1> QED
    BY <1>1, <1>3, <1>8, LiveFacts DEF AcceptCallback, OthersKept

(* client_error_callback.                                                   *)
LEMMA ErrorEffect ==
  ASSUME Inv, NEW c \in Conn, ErrorCallback(c)
  PROVE  /\ OthersKept(c) /\ OnlyMine(c) /\ NoNewFile(c)
         /\ Live(c) /\ link[c].peer \in {"fin", "gone"}
         /\ link' = link /\ job' = job /\ server' = server
         /\ proxy'[c].obj = "deleted" /\ proxy'[c].loads = proxy[c].loads
         /\ Blank(proxy'[c])
  <1>1. /\ Live(c) /\ link[c].peer \in {"fin", "gone"} /\ Destroy(os, c, proxy[c])
        /\ link' = link /\ job' = job /\ server' = server
    BY DEF ErrorCallback, Polled
  <1>2. OnlyMine(c) /\ NoNewFile(c)
    BY <1>1, LiveFacts, DestroyEffect, SocketClosed
  <1> QED
    BY <1>1, <1>2, LiveFacts, DestroyEffect DEF OthersKept

(* client_write_callback, and the writes before it.                         *)
LEMMA WriteEffect ==
  ASSUME Inv, NEW c \in Conn, WriteCallback(c)
  PROVE  /\ OthersKept(c) /\ OnlyMine(c) /\ NoNewFile(c)
         /\ Live(c) /\ job' = job /\ server' = server
         /\ link'[c].peer = link[c].peer /\ link'[c].segs = link[c].segs
         /\ link'[c].said = link[c].said /\ link'[c].sock = link[c].sock
         /\ link'[c].size = link[c].size
         /\ proxy'[c].loads = proxy[c].loads
         /\ \E k \in 1..Len(proxy[c].out) :
              /\ link'[c].stream = link[c].stream \o SubSeq(proxy[c].out, 1, k)
              /\ \/ /\ proxy[c].finished /\ k = Len(proxy[c].out)
                    /\ proxy'[c].obj = "deleted" /\ Blank(proxy'[c])
                    /\ proxy'[c].lost = <<>>
                 \/ /\ proxy[c].finished => k < Len(proxy[c].out)
                    /\ Live(c)' /\ os' = os
                    /\ proxy'[c].out = SubSeq(proxy[c].out, k + 1, Len(proxy[c].out))
                    /\ proxy'[c].finished = proxy[c].finished
                    /\ proxy'[c].first = proxy[c].first
                    /\ proxy'[c].input = proxy[c].input
                    /\ proxy'[c].loader = proxy[c].loader
  <1>1. /\ os \in Table /\ proxy \in [Conn -> Proxy] /\ link \in [Conn -> Link]
        /\ proxy[c] \in Proxy /\ link[c] \in Link
        /\ Live(c) /\ job' = job /\ server' = server
    BY LiveFacts DEF WriteCallback
  <1>2. proxy[c].out \in Seq(Item) /\ Len(proxy[c].out) \in Nat
    BY <1>1, LenProperties DEF Proxy
  <1>3. PICK k \in 1..Len(proxy[c].out) :
          LET p == [proxy[c] EXCEPT !.out = SubSeq(@, k + 1, Len(@))]
          IN  /\ link' = [link EXCEPT ![c].stream = @ \o SubSeq(proxy[c].out, 1, k)]
              /\ IF k = Len(proxy[c].out) THEN Drained(c, p)
                 ELSE os' = os /\ proxy' = [proxy EXCEPT ![c] = p]
    BY DEF WriteCallback
  <1> DEFINE rest == SubSeq(proxy[c].out, k + 1, Len(proxy[c].out))
             str == link[c].stream \o SubSeq(proxy[c].out, 1, k)
             p == [proxy[c] EXCEPT !.out = rest]
             l == [link[c] EXCEPT !.stream = str]
  <1>4. rest \in Seq(Item)
    <2>1. \A m \in (k + 1)..Len(proxy[c].out) : proxy[c].out[m] \in Item
      BY <1>2, LenProperties
    <2> QED
      BY <1>2, <2>1, SubSeqProperties
  <1>5. link' = [link EXCEPT ![c] = l]
    BY <1>3
  <1>6. IF k = Len(proxy[c].out) THEN Drained(c, p)
        ELSE os' = os /\ proxy' = [proxy EXCEPT ![c] = p]
    BY <1>3
  <1> HIDE DEF rest, str
  <1>7. /\ p \in Proxy /\ p.obj = "live" /\ p.out = rest /\ p.finished = proxy[c].finished
        /\ p.first = proxy[c].first /\ p.input = proxy[c].input
        /\ p.loader = proxy[c].loader /\ p.loads = proxy[c].loads /\ p.fd = proxy[c].fd
    BY <1>1, <1>4 DEF Proxy, Live
  <1>8. /\ l.stream = str /\ l.peer = link[c].peer /\ l.segs = link[c].segs
        /\ l.said = link[c].said /\ l.sock = link[c].sock /\ l.size = link[c].size
    BY <1>1 DEF Link
  <1> HIDE DEF p, l
  <1>9. /\ link'[c] = l /\ \A d \in Conn \ {c} : link'[d] = link[d]
    BY <1>1, <1>5
  <1>10. CASE k = Len(proxy[c].out) /\ proxy[c].finished
    <2>1. Destroy(os, c, p)
      BY <1>6, <1>7, <1>10 DEF Drained
    <2>2. OnlyMine(c) /\ NoNewFile(c)
      BY <1>1, <1>7, <2>1, DestroyEffect, SocketClosed
    <2>3. /\ proxy'[c].obj = "deleted" /\ proxy'[c].loads = proxy[c].loads /\ Blank(proxy'[c])
          /\ proxy'[c].lost = rest
          /\ \A d \in Conn \ {c} : proxy'[d] = proxy[d]
      BY <1>1, <1>7, <2>1, DestroyEffect
    <2>4. OthersKept(c)
      BY <1>1, <1>9, <2>3 DEF OthersKept
    <2>5. link'[c].stream = link[c].stream \o SubSeq(proxy[c].out, 1, k)
      BY <1>8, <1>9 DEF str
    <2>6. rest = <<>>
      BY <1>2, <1>10 DEF rest
    <2> QED
      BY <1>1, <1>8, <1>9, <1>10, <2>2, <2>3, <2>4, <2>5, <2>6
  <1>11. CASE ~(k = Len(proxy[c].out) /\ proxy[c].finished)
    <2>1. os' = os /\ proxy' = [proxy EXCEPT ![c] = p]
      BY <1>6, <1>7, <1>11 DEF Drained
    <2>2. OnlyMine(c) /\ NoNewFile(c)
      BY <2>1 DEF OnlyMine, NoNewFile
    <2>3. proxy'[c] = p /\ \A d \in Conn \ {c} : proxy'[d] = proxy[d]
      BY <1>1, <2>1
    <2>4. proxy[c].finished => k < Len(proxy[c].out)
      BY <1>2, <1>11
    <2> QED
      BY <1>1, <1>7, <1>8, <1>9, <2>1, <2>2, <2>3, <2>4 DEF OthersKept, Live, str, rest
  <1> QED
    BY <1>10, <1>11

(* The loader of c read k of the left bytes of its file.                    *)
BlockRead(c, left, k) ==
  /\ os.desc[proxy[c].loader] = File(c, left)
  /\ proxy[c].loads <= 1 => left > 0
  /\ left > 0 => k > 0
  /\ k <= left
  /\ proxy'[c].out = proxy[c].out \o Heading(proxy[c])
                      \o (IF k > 0 THEN <<Chunk(link[c].size - left + k)>> ELSE <<>>)
  /\ \/ /\ k = left /\ proxy'[c].finished
        /\ \A m \in Fd : os'.desc[m] = IF m = proxy[c].loader THEN Free ELSE os.desc[m]
     \/ /\ proxy'[c].finished = proxy[c].finished
        /\ \A m \in Fd : os'.desc[m] = IF m = proxy[c].loader THEN File(c, left - k)
                                        ELSE os.desc[m]

(* file_write_callback, for a connection that loaded one file at most.      *)
LEMMA FileWriteEffect ==
  ASSUME Inv, NEW e \in os.reg, FileWriteCallback(e), NEW c, c = e.conn
  PROVE  /\ c \in Conn /\ OthersKept(c) /\ OnlyMine(c)
         /\ Live(c) /\ link' = link /\ job' = job /\ server' = server
         /\ IsFileOf(os, proxy[c].loader, c)
         /\ proxy'[c].obj = "live" /\ proxy'[c].loads = proxy[c].loads
         /\ proxy'[c].loader = proxy[c].loader /\ proxy'[c].first = FALSE
         /\ proxy[c].loads > 0
         /\ \E left, k \in Nat : BlockRead(c, left, k)
  <1> DEFINE p == proxy[c]
             left == os.desc[p.loader].left
             k == Smaller(Block, left)
             s == ReadFile(c, p.loader, k)
             upto == link[c].size - left + k
             fin == p.finished \/ ~CanRead(s, p.loader)
             out == p.out \o Heading(p) \o (IF k > 0 THEN <<Chunk(upto)>> ELSE <<>>)
             q == [p EXCEPT !.first = FALSE, !.finished = fin, !.out = out]
  <1>1. /\ os \in Table /\ proxy \in [Conn -> Proxy] /\ link \in [Conn -> Link]
        /\ c \in Conn /\ p \in Proxy /\ e.fd \in Fd /\ e.id \in Nat
    BY LiveFacts, RegTyped
  <1>2. /\ Live(c) /\ IsFileOf(os, p.loader, c) /\ os' = s
        /\ proxy' = [proxy EXCEPT ![c] = q]
        /\ UNCHANGED <<link, job, server>> /\ FileReadable(e)
    BY DEF FileWriteCallback
  <1>3. p.loader \in Fd /\ os.desc[p.loader] = File(c, left) /\ left \in Nat
    <2>1. p.loader \in Fd /\ os.desc[p.loader] \in Desc /\ os.desc[p.loader].what = "file"
          /\ os.desc[p.loader].conn = c
      BY <1>1, <1>2 DEF IsFileOf, Table
    <2>2. os.desc[p.loader] \in [what : {"file"}, conn : Conn, left : Nat]
      BY <2>1 DEF Desc, Free
    <2> QED
      BY <2>1, <2>2 DEF File
  <1>4. Block \in Nat \ {0}
    BY ServerAssumption
  <1>5. k \in Nat /\ k <= left /\ (left > 0 => k > 0) /\ (k < Block => k = left) /\ left - k \in Nat
    <2>1. ASSUME NEW a \in Nat, NEW b \in Nat \ {0}, NEW x, x = Smaller(b, a)
          PROVE  x \in Nat /\ x <= a /\ (a > 0 => x > 0) /\ (x < b => x = a) /\ a - x \in Nat
      BY <2>1 DEF Smaller
    <2> HIDE DEF left
    <2> QED
      BY <1>3, <1>4, <2>1
  <1>6. p.loads > 0 /\ (p.loads <= 1 => left > 0)
    <2>1. e.id > 0 /\ os.desc[e.fd].left > 0 /\ e.id <= p.loads /\ p.loads \in Nat
      BY <1>1, <1>2 DEF FileReadable, Inv, Bookkeeping, Proxy
    <2>2. p.loads <= 1 => e.fd = p.loader
      BY <2>1 DEF Inv, EventsOwned
    <2> QED
      BY <1>1, <2>1, <2>2
  <1>7. s = IF k < Block THEN Close(os, p.loader) ELSE Assign(os, p.loader, File(c, left - k))
    BY DEF ReadFile
  <1> HIDE DEF k, s, left, upto
  <1>8. \A m \in Fd : s.desc[m] = IF m = p.loader
                                  THEN IF k < Block THEN Free ELSE File(c, left - k)
                                  ELSE os.desc[m]
    BY <1>1, <1>5, <1>7, CloseFacts, AssignFacts, DescKinds
  <1>9. CanRead(s, p.loader) <=> ~(k < Block)
    BY <1>3, <1>8, DescDistinct DEF CanRead, IsFree
  <1> HIDE DEF out, fin
  <1>10. /\ q.obj = "live" /\ q.loads = p.loads /\ q.loader = p.loader /\ q.first = FALSE
         /\ q.finished = fin /\ q.out = out
    BY <1>1, <1>2 DEF Proxy, Live
  <1> HIDE DEF q
  <1>11. proxy'[c] = q /\ \A d \in Conn \ {c} : proxy'[d] = proxy[d]
    BY <1>1, <1>2
  <1>12. OthersKept(c)
    BY <1>2, <1>11 DEF OthersKept
  <1>13. OnlyMine(c)
    BY <1>2, <1>3, <1>8 DEF OnlyMine, Mine, File, Free
  <1>14. CASE k < Block
    <2>1. fin = TRUE
      BY <1>9, <1>14 DEF fin
    <2>2. \A m \in Fd : os'.desc[m] = IF m = proxy[c].loader THEN Free ELSE os.desc[m]
      BY <1>2, <1>8, <1>14
    <2> QED
      BY <1>1, <1>2, <1>3, <1>5, <1>6, <1>10, <1>11, <1>12, <1>13, <1>14, <2>1, <2>2 DEF out, upto, BlockRead
  <1>15. CASE ~(k < Block)
    <2>1. fin = p.finished
      BY <1>9, <1>15, <1>1 DEF fin, Proxy
    <2>2. \A m \in Fd : os'.desc[m] = IF m = proxy[c].loader THEN File(c, left - k) ELSE os.desc[m]
      BY <1>2, <1>8, <1>15
    <2>3. proxy'[c].finished = proxy[c].finished
      BY <1>10, <1>11, <2>1
    <2> QED
      BY <1>1, <1>2, <1>3, <1>5, <1>6, <1>10, <1>11, <1>12, <1>13, <2>2, <2>3 DEF out, upto, BlockRead
  <1> QED
    BY <1>14, <1>15

-----------------------------------------------------------------------------
(* client_read_callback, by the outcomes of the line it takes.              *)

Refuses(c, line) ==
  /\ line \in DOMAIN Refusal
  /\ Live(c)' /\ proxy'[c].finished
  /\ proxy'[c].loads = proxy[c].loads /\ proxy'[c].first = proxy[c].first
  /\ proxy'[c].out = proxy[c].out \o <<Status(Refusal[line]), Text("reason")>>
  /\ os' = os /\ job' = job /\ server' = server

Opens(c, line) ==
  /\ line \in {"static", "unreadable"}
  /\ job' = job /\ server' = server
  /\ proxy'[c].loads = proxy[c].loads + 1
  /\ \/ proxy[c].finished /\ proxy'[c].obj = "deleted" /\ Blank(proxy'[c])
     \/ /\ ~proxy[c].finished /\ ~proxy'[c].finished /\ Live(c)'
        /\ proxy'[c].out = proxy[c].out /\ proxy'[c].first = proxy[c].first
        /\ \/ /\ line = "static" /\ proxy'[c].loader \in Fd
              /\ \A m \in Fd : os'.desc[m] = IF m = proxy'[c].loader
                                             THEN File(c, link[c].size) ELSE os.desc[m]
           \/ /\ proxy'[c].loader = NoFd
              /\ \A m \in Fd : os'.desc[m] = os.desc[m]

Starts(c, line) ==
  /\ line \in {"dynamic", "broken"}
  /\ NoNewFile(c) /\ server' = server
  /\ proxy'[c].obj = "deleted" /\ Blank(proxy'[c]) /\ proxy'[c].loads = proxy[c].loads
  /\ job'[c].state \in {"running", "refused"}
  /\ job'[c].state = "running" =>
       job'[c].ok = (line = "dynamic") /\ (Mode = "cgi" => c \in job'[c].held)
  /\ job'[c].held \subseteq job[c].held \cup {d \in Conn : \E n \in Fd : os.desc[n] = Sock(d)}
  /\ \/ proxy'[c].lost = proxy[c].out
     \/ /\ job'[c].state = "refused"
        /\ proxy'[c].lost = proxy[c].out \o <<Status(500), Text("reason")>>

TakesDown(line) ==
  /\ line \in Lethal /\ server' # "up"
  /\ os' = os /\ proxy' = proxy /\ job' = job

Outcome(c, line) ==
  Refuses(c, line) \/ Opens(c, line) \/ Starts(c, line) \/ TakesDown(line)

(* r is the copy p that a callback holds, with the refusal queued.          *)
RefusalOf(p, r) ==
  /\ r \in Proxy /\ r.fd = p.fd /\ r.loads = p.loads
  /\ r.out = p.out \o <<Status(500), Text("reason")>>

LEMMA RefusalQueued ==
  ASSUME NEW c \in Conn, NEW p, SameProxy(p, c)
  PROVE  RefusalOf(p, BadRequest(p, 500))
  <1>1. p \in Proxy /\ p.fd = proxy[c].fd /\ p.loads = proxy[c].loads
    BY DEF SameProxy
  <1>2. SameProxy(BadRequest(p, 500), c)
    BY RefusedProxy
  <1> DEFINE o == p.out \o <<Status(500), Text("reason")>>
  <1>3. BadRequest(p, 500) = [p EXCEPT !.finished = TRUE, !.out = o]
    BY DEF BadRequest
  <1> HIDE DEF o
  <1>4. BadRequest(p, 500).out = o
    BY <1>1, <1>3 DEF Proxy
  <1> QED
    BY <1>1, <1>2, <1>4 DEF o, SameProxy, RefusalOf

(* bad_request.                                                             *)
LEMMA RefusesEffect ==
  ASSUME Inv, NEW c \in Conn, Live(c), NEW p, SameProxy(p, c),
         p.out = proxy[c].out, p.first = proxy[c].first,
         NEW line \in DOMAIN Refusal,
         proxy' = [proxy EXCEPT ![c] = BadRequest(p, Refusal[line])],
         os' = os, job' = job, server' = server
  PROVE  /\ Refuses(c, line) /\ OnlyMine(c)
         /\ \A d \in Conn \ {c} : proxy'[d] = proxy[d]
  <1> DEFINE add == <<Status(Refusal[line]), Text("reason")>>
             q == [p EXCEPT !.finished = TRUE, !.out = @ \o add]
  <1>1. q = BadRequest(p, Refusal[line])
    BY DEF BadRequest
  <1>2. p \in Proxy /\ p.obj = "live" /\ p.loads = proxy[c].loads
    BY DEF SameProxy, Live
  <1> HIDE DEF add
  <1>3. /\ q.finished = TRUE /\ q.out = p.out \o add /\ q.obj = "live"
        /\ q.loads = p.loads /\ q.first = p.first
    BY <1>2 DEF Proxy
  <1> HIDE DEF q
  <1>4. proxy'[c] = q /\ \A d \in Conn \ {c} : proxy'[d] = proxy[d]
    BY <1>1, LiveFacts
  <1>5. OnlyMine(c)
    BY DEF OnlyMine
  <1> QED
    BY <1>2, <1>3, <1>4, <1>5 DEF Refuses, Live, add

(* load_static_content, and the can_close test.                             *)
LEMMA OpensEffect ==
  ASSUME Inv, NEW c \in Conn, Live(c), NEW p, SameProxy(p, c),
         p.out = proxy[c].out, p.first = proxy[c].first, p.finished = proxy[c].finished,
         NEW line \in {"static", "unreadable"},
         NEW n, n = NoFd \/ (line = "static" /\ n \in Fd /\ os.desc[n] = Free),
         LoadStatic(c, p, n), job' = job, server' = server
  PROVE  /\ Opens(c, line) /\ OnlyMine(c)
         /\ \A d \in Conn \ {c} : proxy'[d] = proxy[d]
  <1> DEFINE a == Assign(os, n, File(c, link[c].size))
             e == FileEvent(n, c, p.loads + 1)
             s == EventAdd(a, e)
             q == [p EXCEPT !.loader = n, !.loads = @ + 1]
  <1>1. /\ os \in Table /\ proxy \in [Conn -> Proxy] /\ link[c] \in Link
        /\ link[c].size \in Nat /\ os.desc[proxy[c].fd] = Sock(c) /\ proxy[c].fd \in Fd
        /\ p \in Proxy /\ p.loads \in Nat /\ p.obj = "live" /\ p.fd = proxy[c].fd
        /\ p.loads = proxy[c].loads /\ p.finished \in BOOLEAN
    BY LiveFacts DEF Link, SameProxy, Proxy, Live
  <1>2. /\ a \in Table
        /\ \A m \in Fd : a.desc[m] = IF m = n THEN File(c, link[c].size) ELSE os.desc[m]
    BY <1>1, DescKinds, AssignFacts
  <1>3. e.fd \in Fd => e \in Event
    BY <1>1 DEF FileEvent, Event
  <1> HIDE DEF a, e
  <1>4. s \in Table /\ s.desc = a.desc
    BY <1>2, <1>3, EventAddFacts
  <1>5. IF q.finished THEN Destroy(s, c, q)
        ELSE os' = s /\ proxy' = [proxy EXCEPT ![c] = q]
    BY DEF LoadStatic, a, e
  <1> HIDE DEF s
  <1>6. /\ q \in Proxy /\ q.obj = "live" /\ q.loads = p.loads + 1 /\ q.loader = n
        /\ q.fd = p.fd /\ q.out = p.out /\ q.first = p.first /\ q.finished = p.finished
    <2>1. n \in Fd \cup {0, NoFd}
      OBVIOUS
    <2>2. /\ q \in Proxy /\ q.obj = p.obj /\ q.fd = p.fd /\ q.loader = n
          /\ q.loads = p.loads + 1
      BY <1>1, <2>1, LoadedFacts
    <2>3. q.out = p.out /\ q.first = p.first /\ q.finished = p.finished
      BY <1>1 DEF Proxy
    <2> QED
      BY <1>1, <2>2, <2>3
  <1> HIDE DEF q
  <1>7. NoFd \notin Fd /\ \A m \in Fd : m = n => os.desc[m] = Free
    BY NotNumbers
  <1>8. CASE p.finished
    <2>1. Destroy(s, c, q)
      BY <1>5, <1>6, <1>8
    <2>2. /\ proxy'[c].obj = "deleted" /\ proxy'[c].loads = p.loads + 1 /\ Blank(proxy'[c])
          /\ \A d \in Conn \ {c} : proxy'[d] = proxy[d]
          /\ \A m \in Fd : os'.desc[m] = IF m = p.fd THEN Free ELSE s.desc[m]
      BY <1>1, <1>4, <1>6, <2>1, DestroyEffect
    <2>3. OnlyMine(c)
      BY <1>1, <1>2, <1>4, <1>7, <2>2 DEF OnlyMine, Mine, Sock, File
    <2>4. Opens(c, line)
      BY <1>1, <1>8, <2>2 DEF Opens
    <2> QED
      BY <2>2, <2>3, <2>4
  <1>9. CASE ~p.finished
    <2>1. os' = s /\ proxy' = [proxy EXCEPT ![c] = q]
      BY <1>5, <1>6, <1>9
    <2>2. proxy'[c] = q /\ \A d \in Conn \ {c} : proxy'[d] = proxy[d]
      BY <1>1, <2>1
    <2>3. OnlyMine(c)
      BY <1>2, <1>4, <1>7, <2>1 DEF OnlyMine, Mine, File
    <2>4. \A m \in Fd : os'.desc[m] = IF m = n THEN File(c, link[c].size) ELSE os.desc[m]
      BY <1>2, <1>4, <2>1
    <2>5. Opens(c, line)
      BY <1>1, <1>6, <1>7, <1>9, <2>2, <2>4 DEF Opens, Live
    <2> QED
      BY <2>2, <2>3, <2>5
  <1> QED
    BY <1>1, <1>8, <1>9

(* The CGI child, or a fork that failed.                                    *)
LEMMA StartsCgi ==
  ASSUME Inv, NEW c \in Conn, Live(c), NEW p, SameProxy(p, c), p.out = proxy[c].out,
         NEW line \in {"dynamic", "broken"}, Mode = "cgi", LoadCgi(c, p, line = "dynamic")
  PROVE  /\ Starts(c, line) /\ OnlyMine(c)
         /\ \A d \in Conn \ {c} : proxy'[d] = proxy[d] /\ job'[d] = job[d]
  <1>1. /\ os \in Table /\ proxy \in [Conn -> Proxy] /\ job \in [Conn -> Job] /\ job[c] \in Job
        /\ p \in Proxy /\ p.fd = proxy[c].fd /\ p.loads = proxy[c].loads
        /\ os.desc[proxy[c].fd] = Sock(c) /\ proxy[c].fd \in Fd
    BY LiveFacts DEF SameProxy
  <1> DEFINE held == {d \in Conn : \E n \in Fd : os.desc[n] = Sock(d)}
             j == [state |-> "running", ok |-> line = "dynamic", fd |-> 0, held |-> held]
             k == [job[c] EXCEPT !.state = "refused"]
             r == BadRequest(p, 500)
  <1>2. \/ Destroy(os, c, p) /\ job' = [job EXCEPT ![c] = j] /\ server' = server
        \/ Destroy(os, c, r) /\ job' = [job EXCEPT ![c] = k] /\ server' = server
    BY DEF LoadCgi
  <1>3. j.state = "running" /\ j.ok = (line = "dynamic") /\ j.held = held /\ c \in held
    BY <1>1
  <1>4. k.state = "refused" /\ k.held = job[c].held
    BY <1>1 DEF Job
  <1>o. RefusalOf(p, r)
    BY RefusalQueued, Zenon
  <1> HIDE DEF j, k, r
  <1>5. /\ r \in Proxy /\ r.fd = p.fd /\ r.loads = p.loads
        /\ r.out = p.out \o <<Status(500), Text("reason")>>
    BY <1>o DEF RefusalOf
  <1>6. ASSUME NEW q \in {p, r}, Destroy(os, c, q)
        PROVE  /\ proxy'[c].obj = "deleted" /\ proxy'[c].loads = p.loads
               /\ Blank(proxy'[c]) /\ proxy'[c].lost = q.out
               /\ \A d \in Conn \ {c} : proxy'[d] = proxy[d]
               /\ OnlyMine(c) /\ NoNewFile(c)
    <2>1. q \in Proxy /\ q.fd = proxy[c].fd /\ q.loads = p.loads
      BY <1>1, <1>5
    <2> QED
      BY <1>1, <1>6, <2>1, DestroyEffect, SocketClosed
  <1>7. CASE Destroy(os, c, p) /\ job' = [job EXCEPT ![c] = j] /\ server' = server
    <2>1. job'[c] = j /\ \A d \in Conn \ {c} : job'[d] = job[d]
      BY <1>1, <1>7
    <2>2. Starts(c, line)
      BY <1>1, <1>3, <1>6, <1>7, <2>1 DEF Starts
    <2> QED
      BY <1>6, <1>7, <2>1, <2>2
  <1>8. CASE Destroy(os, c, r) /\ job' = [job EXCEPT ![c] = k] /\ server' = server
    <2>1. job'[c] = k /\ \A d \in Conn \ {c} : job'[d] = job[d]
      BY <1>1, <1>8
    <2>2. proxy'[c].lost = proxy[c].out \o <<Status(500), Text("reason")>>
      BY <1>5, <1>6, <1>8
    <2>3. Starts(c, line)
      BY <1>1, <1>4, <1>6, <1>8, <2>1, <2>2 DEF Starts
    <2> QED
      BY <1>6, <1>8, <2>1, <2>3
  <1> QED
    BY <1>2, <1>7, <1>8

(* The library's thread, one that could not be started, or a library that   *)
(* declines.                                                                *)
LEMMA StartsSo ==
  ASSUME Inv, NEW c \in Conn, Live(c), NEW p, SameProxy(p, c), p.out = proxy[c].out,
         Mode = "so", LoadSo(c, p, TRUE)
  PROVE  /\ Starts(c, "dynamic") /\ OnlyMine(c)
         /\ \A d \in Conn \ {c} : proxy'[d] = proxy[d] /\ job'[d] = job[d]
  <1>1. /\ os \in Table /\ proxy \in [Conn -> Proxy] /\ job \in [Conn -> Job]
        /\ p \in Proxy /\ p.fd = proxy[c].fd /\ p.loads = proxy[c].loads
        /\ os.desc[proxy[c].fd] = Sock(c) /\ proxy[c].fd \in Fd
    BY LiveFacts DEF SameProxy
  <1> DEFINE r == BadRequest(p, 500)
             jobIs(n, st) == job' = [job EXCEPT ![c] = [NoJob EXCEPT !.state = st, !.fd = n]]
  <1>o. RefusalOf(p, r)
    BY RefusalQueued, Zenon
  <1>3. \E n \in Allocated(os) :
          \/ /\ Destroy(Assign(os, n, Dup(c)), c, p)
             /\ \E st \in {"running", "refused"} : jobIs(n, st)
          \/ Destroy(Assign(os, n, Dup(c)), c, r) /\ jobIs(n, "refused")
    BY DEF LoadSo
  <1>4. server' = server
    BY DEF LoadSo
  <1> HIDE DEF r, jobIs
  <1>2. /\ r \in Proxy /\ r.fd = p.fd /\ r.loads = p.loads
        /\ r.out = p.out \o <<Status(500), Text("reason")>>
    BY <1>o DEF RefusalOf
  <1>5. PICK n \in Allocated(os), st \in {"running", "refused"}, q \in {p, r} :
          /\ Destroy(Assign(os, n, Dup(c)), c, q) /\ jobIs(n, st)
          /\ q = r => st = "refused" \/ q = p
    BY <1>3
  <1>6. q \in Proxy /\ q.fd = proxy[c].fd /\ q.loads = p.loads
    BY <1>1, <1>2
  <1> DEFINE s == Assign(os, n, Dup(c))
  <1>7. s \in Table /\ \A m \in Fd : s.desc[m] = IF m = n THEN Dup(c) ELSE os.desc[m]
    BY <1>1, DescKinds, AssignFacts
  <1>8. \A m \in Fd : m = n => os.desc[m] = Free
    BY <1>1, AllocatedFree, NotNumbers
  <1> HIDE DEF s
  <1>9. /\ proxy'[c].obj = "deleted" /\ proxy'[c].loads = p.loads
        /\ Blank(proxy'[c]) /\ proxy'[c].lost = q.out
        /\ \A d \in Conn \ {c} : proxy'[d] = proxy[d]
        /\ \A m \in Fd : os'.desc[m] = IF m = p.fd THEN Free ELSE s.desc[m]
    BY <1>1, <1>5, <1>6, <1>7, DestroyEffect DEF s
  <1>10. OnlyMine(c) /\ NoNewFile(c)
    BY <1>1, <1>7, <1>8, <1>9 DEF OnlyMine, NoNewFile, Mine, Sock, Dup, Free, IsFileOf
  <1> DEFINE j == [NoJob EXCEPT !.state = st, !.fd = n]
  <1>11. j.state = st /\ j.ok = TRUE /\ j.held = {}
    BY DEF NoJob
  <1>12. job' = [job EXCEPT ![c] = j]
    BY <1>5 DEF jobIs
  <1> HIDE DEF j
  <1>13. job'[c] = j /\ \A d \in Conn \ {c} : job'[d] = job[d]
    BY <1>1, <1>12
  <1>14. \/ proxy'[c].lost = proxy[c].out
         \/ /\ job'[c].state = "refused"
            /\ proxy'[c].lost = proxy[c].out \o <<Status(500), Text("reason")>>
    <2>1. q = p \/ (q = r /\ st = "refused")
      BY <1>5
    <2>2. proxy'[c].lost = q.out /\ job'[c].state = st
      BY <1>9, <1>11, <1>13
    <2>3. CASE q = p
      BY <2>2, <2>3
    <2>4. CASE q = r /\ st = "refused"
      <3>1. r.out = proxy[c].out \o <<Status(500), Text("reason")>>
        BY <1>2
      <3> QED
        BY <2>2, <2>4, <3>1
    <2> QED
      BY <2>1, <2>3, <2>4
  <1>15. Starts(c, "dynamic")
    BY <1>1, <1>4, <1>9, <1>10, <1>11, <1>13, <1>14 DEF Starts
  <1> QED
    BY <1>9, <1>10, <1>13, <1>15

LEMMA ReadEffect ==
  ASSUME Inv, NEW c \in Conn, ReadCallback(c)
  PROVE  /\ OthersKept(c) /\ OnlyMine(c) /\ Live(c)
         /\ link[c].sock # <<>> /\ link'[c].sock = <<>>
         /\ link'[c].peer = link[c].peer /\ link'[c].segs = link[c].segs
         /\ link'[c].said = link[c].said /\ link'[c].stream = link[c].stream
         /\ link'[c].size = link[c].size
         /\ \E i \in Taken(proxy[c].input \o link[c].sock) :
              Outcome(c, FirstLine(proxy[c].input \o link[c].sock, i))
  <1>1. /\ os \in Table /\ proxy \in [Conn -> Proxy] /\ link \in [Conn -> Link]
        /\ job \in [Conn -> Job]
        /\ proxy[c] \in Proxy /\ link[c] \in Link /\ Live(c)
    BY LiveFacts DEF ReadCallback, Polled
  <1> DEFINE in == proxy[c].input \o link[c].sock
             l == [link[c] EXCEPT !.sock = <<>>]
  <1>2. in \in Seq(Line)
    BY <1>1, ConcatProperties DEF Proxy, Link
  <1>3. link[c].sock # <<>> /\ link' = [link EXCEPT ![c] = l]
    BY DEF ReadCallback
  <1>4. /\ l.sock = <<>> /\ l.peer = link[c].peer /\ l.segs = link[c].segs
        /\ l.said = link[c].said /\ l.stream = link[c].stream /\ l.size = link[c].size
    BY <1>1 DEF Link
  <1>5. PICK i \in Taken(in) :
          LET line == FirstLine(in, i)
              p    == [proxy[c] EXCEPT !.input = SubSeq(in, i + 1, Len(in))]
          IN  \/ /\ line \in DOMAIN Refusal
                 /\ proxy' = [proxy EXCEPT ![c] = BadRequest(p, Refusal[line])]
                 /\ UNCHANGED <<os, job, server>>
              \/ /\ line \in DOMAIN Fatal
                 /\ server' = Fatal[line]
                 /\ UNCHANGED <<os, proxy, job>>
              \/ /\ line = "static"
                 /\ \E n \in Allocated(os) : LoadStatic(c, p, n)
                 /\ UNCHANGED <<job, server>>
              \/ /\ line = "unreadable"
                 /\ LoadStatic(c, p, NoFd)
                 /\ UNCHANGED <<job, server>>
              \/ /\ line \in {"dynamic", "broken"}
                 /\ Mode = "cgi"
                 /\ LoadCgi(c, p, line = "dynamic")
              \/ /\ line \in {"dynamic", "broken"}
                 /\ Mode = "so"
                 /\ LoadSo(c, p, line = "dynamic")
    BY DEF ReadCallback
  <1> DEFINE line == FirstLine(in, i)
             rest == SubSeq(in, i + 1, Len(in))
             p    == [proxy[c] EXCEPT !.input = rest]
  <1>6. SameProxy(p, c)
    BY <1>1, <1>2, InputTaken
  <1>7. p.out = proxy[c].out /\ p.first = proxy[c].first /\ p.finished = proxy[c].finished
    BY <1>1 DEF Proxy
  <1> HIDE DEF in, line, p, l
  <1>8. /\ OnlyMine(c) /\ Outcome(c, line)
        /\ \A d \in Conn \ {c} : proxy'[d] = proxy[d] /\ job'[d] = job[d]
    <2>1. CASE line \in DOMAIN Refusal /\ proxy' = [proxy EXCEPT ![c] = BadRequest(p, Refusal[line])]
               /\ UNCHANGED <<os, job, server>>
      BY <1>1, <1>6, <1>7, <2>1, RefusesEffect DEF Outcome
    <2>2. ASSUME line \in {"static", "unreadable"}, UNCHANGED <<job, server>>,
                 NEW n, n = NoFd \/ (line = "static" /\ n \in Allocated(os)), LoadStatic(c, p, n)
          PROVE  /\ OnlyMine(c) /\ Outcome(c, line)
                 /\ \A d \in Conn \ {c} : proxy'[d] = proxy[d] /\ job'[d] = job[d]
      <3>1. n = NoFd \/ (line = "static" /\ n \in Fd /\ os.desc[n] = Free)
        BY <1>1, <2>2, AllocatedFree
      <3> QED
        BY <1>1, <1>6, <1>7, <2>2, <3>1, OpensEffect DEF Outcome
    <2>3. CASE line \in {"dynamic", "broken"} /\ Mode = "cgi" /\ LoadCgi(c, p, line = "dynamic")
      BY <1>1, <1>6, <1>7, <2>3, StartsCgi DEF Outcome
    <2>4. CASE line = "dynamic" /\ Mode = "so" /\ LoadSo(c, p, line = "dynamic")
      <3>1. LoadSo(c, p, TRUE)
        BY <2>4
      <3> QED
        BY <1>1, <1>6, <1>7, <2>4, <3>1, StartsSo DEF Outcome
    <2>5. ASSUME line \in Lethal, UNCHANGED <<os, proxy, job>>, server' # "up"
          PROVE  /\ OnlyMine(c) /\ Outcome(c, line)
                 /\ \A d \in Conn \ {c} : proxy'[d] = proxy[d] /\ job'[d] = job[d]
      BY <2>5 DEF Outcome, TakesDown, OnlyMine
    <2>6. CASE line = "broken" /\ Mode = "so" /\ LoadSo(c, p, line = "dynamic")
      <3>1. UNCHANGED <<os, proxy, job>> /\ server' # "up" /\ line \in Lethal
        BY <2>6 DEF LoadSo, Lethal
      <3> QED
        BY <2>5, <3>1
    <2>7. CASE line \in DOMAIN Fatal /\ server' = Fatal[line] /\ UNCHANGED <<os, proxy, job>>
      <3>1. line \in Lethal /\ Fatal[line] # "up"
        BY <2>7 DEF Lethal, Fatal
      <3> QED
        BY <2>5, <2>7, <3>1
    <2> QED
      BY <1>5, <2>1, <2>2, <2>3, <2>4, <2>6, <2>7 DEF line, p
  <1>9. link'[c] = l /\ \A d \in Conn \ {c} : link'[d] = link[d]
    BY <1>1, <1>3
  <1> QED
    BY <1>1, <1>3, <1>4, <1>8, <1>9 DEF OthersKept, in, line

-----------------------------------------------------------------------------
(* The gateway programs and the clients.                                    *)

(* What a program writes reaches its own client only.                       *)
LEMMA OwnReceiver ==
  ASSUME Inv, NEW c \in Conn, job[c].state = "running", NEW d \in Receivers(c)
  PROVE  d = c
  <1>1. CASE Mode = "cgi"
    BY <1>1 DEF Receivers
  <1>2. CASE Mode # "cgi"
    <2>1. /\ job[c].fd \in Fd /\ os.desc[job[c].fd] = Dup(c)
          /\ os.desc[job[c].fd] \in {Sock(d), Dup(d)}
      BY <1>2 DEF Receivers, Inv, DupOwned
    <2> QED
      BY <2>1 DEF Sock, Dup
  <1> QED
    BY <1>1, <1>2

LEMMA JobWriteEffect ==
  ASSUME Inv, NEW c \in Conn, JobWrite(c)
  PROVE  /\ OthersKept(c) /\ os' = os /\ proxy' = proxy
         /\ job[c].state = "running" /\ job'[c].state = "written"
         /\ job'[c].held = job[c].held
         /\ link'[c].peer = link[c].peer /\ link'[c].segs = link[c].segs
         /\ link'[c].said = link[c].said /\ link'[c].sock = link[c].sock
         /\ link'[c].size = link[c].size
         /\ \/ link'[c].stream = link[c].stream
            \/ \E r \in Result(c) : link'[c].stream = Append(link[c].stream, r)
  <1>1. link \in [Conn -> Link] /\ link[c] \in Link /\ job \in [Conn -> Job] /\ job[c] \in Job
    BY LiveFacts
  <1> DEFINE j == [job[c] EXCEPT !.state = "written"]
  <1>2. /\ job[c].state = "running" /\ os' = os /\ proxy' = proxy
        /\ job' = [job EXCEPT ![c] = j]
    BY DEF JobWrite
  <1>3. j.state = "written" /\ j.held = job[c].held
    BY <1>1 DEF Job
  <1> HIDE DEF j
  <1>4. job'[c] = j /\ \A d \in Conn \ {c} : job'[d] = job[d]
    BY <1>1, <1>2
  <1>5. CASE link' = link
    BY <1>2, <1>3, <1>4, <1>5 DEF OthersKept
  <1>6. CASE \E d \in Receivers(c), r \in Result(c) :
               link' = [link EXCEPT ![d].stream = Append(@, r)]
    <2>1. PICK r \in Result(c) : link' = [link EXCEPT ![c].stream = Append(@, r)]
      BY <1>2, <1>6, OwnReceiver
    <2> DEFINE str == Append(link[c].stream, r)
               l == [link[c] EXCEPT !.stream = str]
    <2>2. link' = [link EXCEPT ![c] = l]
      BY <2>1
    <2> HIDE DEF str
    <2>3. /\ l.stream = str /\ l.peer = link[c].peer /\ l.segs = link[c].segs
          /\ l.said = link[c].said /\ l.sock = link[c].sock /\ l.size = link[c].size
      BY <1>1 DEF Link
    <2> HIDE DEF l
    <2>4. link'[c] = l /\ \A d \in Conn \ {c} : link'[d] = link[d]
      BY <1>1, <2>2
    <2>5. \E q \in Result(c) : link'[c].stream = Append(link[c].stream, q)
      BY <2>3, <2>4 DEF str
    <2> QED
      BY <1>2, <1>3, <1>4, <2>3, <2>4, <2>5 DEF OthersKept
  <1> QED
    BY <1>5, <1>6 DEF JobWrite

LEMMA JobExitEffect ==
  ASSUME Inv, NEW c \in Conn, JobExit(c)
  PROVE  /\ OthersKept(c) /\ OnlyMine(c) /\ NoNewFile(c)
         /\ proxy' = proxy /\ link' = link /\ server' = server
         /\ os' = Close(os, job[c].fd)
         /\ job[c].state \in {"running", "written"} /\ job'[c].state = "exited"
         /\ job'[c].held = {}
  <1>1. os \in Table /\ job \in [Conn -> Job] /\ job[c] \in Job
    BY LiveFacts
  <1> DEFINE j == [job[c] EXCEPT !.state = "exited", !.held = {}]
  <1>2. /\ job[c].state \in {"running", "written"} /\ os' = Close(os, job[c].fd)
        /\ job' = [job EXCEPT ![c] = j]
        /\ proxy' = proxy /\ link' = link /\ server' = server
    BY DEF JobExit
  <1>3. j.state = "exited" /\ j.held = {}
    BY <1>1 DEF Job
  <1> HIDE DEF j
  <1>4. job'[c] = j /\ \A d \in Conn \ {c} : job'[d] = job[d]
    BY <1>1, <1>2
  <1>5. \A m \in Fd : os'.desc[m] = IF m = job[c].fd THEN Free ELSE os.desc[m]
    BY <1>1, <1>2, CloseFacts
  <1>6. \A m \in Fd : m = job[c].fd => os.desc[m] = Dup(c)
    BY <1>2 DEF Inv, DupOwned
  <1>7. OnlyMine(c) /\ NoNewFile(c)
    BY <1>5, <1>6 DEF OnlyMine, NoNewFile, Mine, IsFileOf, Dup, Free
  <1> QED
    BY <1>2, <1>3, <1>4, <1>7 DEF OthersKept

LEMMA ClientEffect ==
  ASSUME Inv, NEW c \in Conn, Connect(c) \/ Send(c) \/ Leave(c)
  PROVE  /\ OthersKept(c) /\ UNCHANGED <<os, proxy, job, server>>
         /\ link'[c].segs = link[c].segs /\ link'[c].stream = link[c].stream
         /\ link'[c].size = link[c].size
         /\ \/ /\ link[c].peer = "new" /\ link'[c].peer = "open"
               /\ link'[c].said = link[c].said /\ link'[c].sock = link[c].sock
            \/ /\ link[c].peer = "open" /\ link'[c].peer = "open"
               /\ link[c].said < Len(link[c].segs) /\ link'[c].said = link[c].said + 1
               /\ link'[c].sock = link[c].sock \o link[c].segs[link[c].said + 1]
            \/ /\ link[c].peer = "open" /\ link'[c].peer \in {"fin", "gone"}
               /\ link'[c].said = link[c].said /\ link'[c].sock = link[c].sock
  <1>1. link \in [Conn -> Link] /\ link[c] \in Link
    BY LiveFacts
  <1>2. UNCHANGED <<os, proxy, job, server>>
    BY DEF Connect, Send, Leave
  <1>3. ASSUME NEW how \in {"open", "fin", "gone"}, link' = [link EXCEPT ![c].peer = how]
        PROVE  /\ OthersKept(c) /\ link'[c].peer = how
               /\ link'[c].segs = link[c].segs /\ link'[c].stream = link[c].stream
               /\ link'[c].size = link[c].size
               /\ link'[c].said = link[c].said /\ link'[c].sock = link[c].sock
    BY <1>1, <1>2, <1>3 DEF OthersKept, Link
  <1>4. CASE Connect(c)
    <2>1. PICK how \in {"open", "fin", "gone"} :
            how = "open" /\ link' = [link EXCEPT ![c].peer = how]
      BY <1>4 DEF Connect
    <2>2. link[c].peer = "new"
      BY <1>4 DEF Connect
    <2>3. /\ OthersKept(c) /\ link'[c].peer = how
          /\ link'[c].segs = link[c].segs /\ link'[c].stream = link[c].stream
          /\ link'[c].size = link[c].size
          /\ link'[c].said = link[c].said /\ link'[c].sock = link[c].sock
      BY <1>3, <2>1, <2>2
    <2> QED
      BY <1>2, <2>1, <2>2, <2>3
  <1>5. CASE Leave(c)
    <2>1. PICK how \in Departures : link' = [link EXCEPT ![c].peer = how]
      BY <1>5 DEF Leave
    <2>2. link[c].peer = "open" /\ how \in {"open", "fin", "gone"} /\ how # "open"
      BY <1>5, ServerAssumption DEF Leave
    <2>3. /\ OthersKept(c) /\ link'[c].peer = how
          /\ link'[c].segs = link[c].segs /\ link'[c].stream = link[c].stream
          /\ link'[c].size = link[c].size
          /\ link'[c].said = link[c].said /\ link'[c].sock = link[c].sock
      BY <1>3, <2>1, <2>2
    <2> QED
      BY <1>2, <2>2, <2>3
  <1>6. CASE Send(c)
    <2> DEFINE more == link[c].sock \o link[c].segs[link[c].said + 1]
    <2>1. link' = [link EXCEPT ![c].sock = more, ![c].said = @ + 1]
      BY <1>6 DEF Send
    <2> HIDE DEF more
    <2>2. /\ \A d \in Conn \ {c} : link'[d] = link[d]
          /\ link'[c].segs = link[c].segs /\ link'[c].stream = link[c].stream
          /\ link'[c].size = link[c].size /\ link'[c].peer = link[c].peer
          /\ link'[c].said = link[c].said + 1 /\ link'[c].sock = more
      BY <1>1, <2>1 DEF Link
    <2>3. link[c].peer = "open" /\ link[c].said < Len(link[c].segs)
      BY <1>6 DEF Send
    <2> QED
      BY <1>2, <2>2, <2>3 DEF OthersKept, more
  <1> QED
    BY <1>4, <1>5, <1>6

-----------------------------------------------------------------------------
(* A finished proxy has output.                                             *)

(* What each connection says of FinishedDrains, and that a step which keeps *)
(* it or replaces its proxy by one that has it leaves it true.              *)
DrainsOne(p) == p.obj = "live" /\ p.finished /\ p.loads <= 1 => p.out # <<>>

LEMMA DrainsRead ==
  ASSUME Inv, FinishedDrains, NEW c \in Conn, ReadCallback(c)
  PROVE  DrainsOne(proxy'[c])
  <1>1. /\ proxy[c] \in Proxy /\ Live(c)
        /\ DrainsOne(proxy[c])
    BY LiveFacts, ReadEffect DEF FinishedDrains, DrainsOne, Live
  <1>2. PICK line : Outcome(c, line)
    BY ReadEffect
  <1>3. CASE Refuses(c, line)
    <2>1. proxy'[c].out = proxy[c].out \o <<Status(Refusal[line]), Text("reason")>>
      BY <1>3 DEF Refuses
    <2>2. proxy[c].out \in Seq(Item)
      BY <1>1 DEF Proxy
    <2>3. proxy'[c].out # <<>>
      BY <2>1, <2>2
    <2> QED
      BY <2>3 DEF DrainsOne
  <1>4. CASE Opens(c, line)
    BY <1>4 DEF Opens, DrainsOne, Blank
  <1>5. CASE Starts(c, line)
    BY <1>5 DEF Starts, DrainsOne
  <1>6. CASE TakesDown(line)
    BY <1>1, <1>6 DEF TakesDown
  <1> QED
    BY <1>2, <1>3, <1>4, <1>5, <1>6 DEF Outcome

LEMMA DrainsWrite ==
  ASSUME Inv, FinishedDrains, NEW c \in Conn, WriteCallback(c)
  PROVE  DrainsOne(proxy'[c])
  <1>1. proxy[c] \in Proxy /\ proxy[c].out \in Seq(Item) /\ Len(proxy[c].out) \in Nat
    BY LiveFacts DEF Proxy
  <1>2. PICK k \in 1..Len(proxy[c].out) :
          \/ proxy'[c].obj = "deleted"
          \/ /\ proxy[c].finished => k < Len(proxy[c].out)
             /\ proxy'[c].out = SubSeq(proxy[c].out, k + 1, Len(proxy[c].out))
             /\ proxy'[c].finished = proxy[c].finished
    BY WriteEffect
  <1>3. k < Len(proxy[c].out) => SubSeq(proxy[c].out, k + 1, Len(proxy[c].out)) # <<>>
    BY <1>1
  <1> QED
    BY <1>2, <1>3 DEF DrainsOne

LEMMA DrainsFileWrite ==
  ASSUME Inv, FinishedDrains, NEW e \in os.reg, FileWriteCallback(e), NEW c, c = e.conn
  PROVE  DrainsOne(proxy'[c])
  <1>1. c \in Conn /\ proxy'[c].loads = proxy[c].loads
    BY FileWriteEffect
  <1>2. PICK left, k \in Nat : BlockRead(c, left, k)
    BY FileWriteEffect
  <1>3. proxy[c].out \in Seq(Item) /\ link[c].size \in Nat
    BY <1>1, LiveFacts DEF Proxy, Link
  <1>4. Heading(proxy[c]) \in Seq(Item)
    <2>1. Status(200) \in Item
      BY DEF Status, Item
    <2> QED
      BY <2>1 DEF Heading
  <1>5. ASSUME proxy[c].loads <= 1
        PROVE  proxy'[c].out # <<>>
    <2>1. /\ k > 0
          /\ proxy'[c].out = proxy[c].out \o Heading(proxy[c]) \o <<Chunk(link[c].size - left + k)>>
      BY <1>2, <1>5 DEF BlockRead
    <2> QED
      BY <1>3, <1>4, <2>1 DEF Chunk, Item
  <1> QED
    BY <1>1, <1>5 DEF DrainsOne

LEMMA DrainsNext ==
  ASSUME Inv, FinishedDrains, [Next]_vars
  PROVE  FinishedDrains'
  <1>1. SUFFICES \A d \in Conn : DrainsOne(proxy'[d])
    BY DEF FinishedDrains, DrainsOne, Live
  <1>2. \A d \in Conn : DrainsOne(proxy[d])
    BY DEF FinishedDrains, DrainsOne, Live
  <1>3. ASSUME NEW c \in Conn, OthersKept(c), DrainsOne(proxy'[c])
        PROVE  \A d \in Conn : DrainsOne(proxy'[d])
    BY <1>2, <1>3 DEF OthersKept
  <1>4. CASE proxy' = proxy
    BY <1>2, <1>4
  <1>5. ASSUME NEW c \in Conn, AcceptCallback(c)
        PROVE  OthersKept(c) /\ DrainsOne(proxy'[c])
    BY <1>5, AcceptEffect DEF DrainsOne, Blank
  <1>6. ASSUME NEW c \in Conn, ReadCallback(c)
        PROVE  OthersKept(c) /\ DrainsOne(proxy'[c])
    BY <1>6, ReadEffect, DrainsRead
  <1>7. ASSUME NEW c \in Conn, WriteCallback(c)
        PROVE  OthersKept(c) /\ DrainsOne(proxy'[c])
    BY <1>7, WriteEffect, DrainsWrite
  <1>8. ASSUME NEW c \in Conn, ErrorCallback(c)
        PROVE  OthersKept(c) /\ DrainsOne(proxy'[c])
    BY <1>8, ErrorEffect DEF DrainsOne
  <1>9. ASSUME NEW e \in os.reg, FileWriteCallback(e)
        PROVE  e.conn \in Conn /\ OthersKept(e.conn) /\ DrainsOne(proxy'[e.conn])
    BY <1>9, FileWriteEffect, DrainsFileWrite
  <1>10. CASE Callback
    BY <1>3, <1>5, <1>6, <1>7, <1>8, <1>9, <1>10 DEF Callback
  <1>11. CASE Client \/ Crash \/ Worker \/ UNCHANGED vars
    <2>1. proxy' = proxy
      BY <1>11 DEF Client, Connect, Send, Leave, Crash, Worker, JobWrite, JobExit, vars
    <2> QED
      BY <1>4, <2>1
  <1> QED
    BY <1>10, <1>11 DEF Next

(* A proxy that is ready_to_close and loaded one file at most still has     *)
(* output queued, so that the write callback of server.cpp:159 will come    *)
(* and delete it: true of any requests, in any segments.                    *)
THEOREM FinishedHasOutput == Spec => []FinishedDrains
  <1>1. Init => FinishedDrains
    BY DEF Init, FinishedDrains, Live, NoProxy
  <1>2. Inv /\ FinishedDrains /\ [Next]_vars => FinishedDrains'
    BY DrainsNext
  <1> QED
    BY <1>1, <1>2, Invariance, PTL DEF Spec

-----------------------------------------------------------------------------
(* On epoll every live connection is watched.                               *)

(* The events are exactly those of the open sockets, and each is watched:   *)
(* epoll refuses the events of files, so that none is left on a number.     *)
Watched(s) ==
  /\ \A e \in s.reg : e.id = 0 /\ s.desc[e.fd] = Sock(e.conn)
  /\ \A n \in Fd, c \in Conn :
       s.desc[n] = Sock(c) => BufEvent(n, c) \in s.reg /\ n \in s.armed

(* open() and dup().                                                        *)
LEMMA WatchedAssign ==
  ASSUME NEW s \in Table, Watched(s), NEW n, n \in Fd => s.desc[n] = Free,
         NEW d \in Desc, \A c \in Conn : d # Sock(c)
  PROVE  Watched(Assign(s, n, d)) /\ Assign(s, n, d) \in Table
  <1>1. /\ Assign(s, n, d) \in Table
        /\ Assign(s, n, d).reg = s.reg /\ Assign(s, n, d).armed = s.armed
        /\ \A m \in Fd : Assign(s, n, d).desc[m] = IF m = n THEN d ELSE s.desc[m]
    BY AssignFacts
  <1>2. ASSUME NEW e \in s.reg PROVE e.fd \in Fd /\ e.conn \in Conn /\ e.fd # n
    <2>1. e.fd \in Fd /\ e.conn \in Conn
      BY RegTyped
    <2>2. s.desc[e.fd] = Sock(e.conn)
      BY DEF Watched
    <2>3. s.desc[e.fd] # Free
      BY <2>2 DEF Sock, Free
    <2> QED
      BY <2>1, <2>3
  <1> QED
    BY <1>1, <1>2 DEF Watched

(* accept().                                                                *)
LEMMA WatchedAccept ==
  ASSUME NEW s \in Table, Watched(s), NEW n \in Fd, s.desc[n] = Free, NEW c \in Conn
  PROVE  Watched(EventAdd(Assign(s, n, Sock(c)), BufEvent(n, c)))
  <1> DEFINE a == Assign(s, n, Sock(c))
             e == BufEvent(n, c)
             t == EventAdd(a, e)
  <1>1. /\ a \in Table /\ a.reg = s.reg /\ a.armed = s.armed
        /\ \A m \in Fd : a.desc[m] = IF m = n THEN Sock(c) ELSE s.desc[m]
    BY DescKinds, AssignFacts
  <1>2. ASSUME NEW f \in s.reg PROVE f.fd \in Fd /\ f.conn \in Conn /\ f.fd # n
    <2>1. f.fd \in Fd /\ f.conn \in Conn
      BY RegTyped
    <2>2. s.desc[f.fd] = Sock(f.conn)
      BY DEF Watched
    <2> QED
      BY <2>1, <2>2, DescDistinct
  <1>3. e \in Event /\ e.fd = n /\ e.conn = c /\ e.id = 0
    BY DEF BufEvent, Event
  <1>4. a.desc[e.fd].what # "file"
    BY <1>1, <1>3, DescDistinct
  <1> HIDE DEF a, e
  <1>5. t = [a EXCEPT !.reg = @ \cup {e}, !.armed = @ \cup {e.fd}]
    BY <1>1, <1>2, <1>3, <1>4 DEF EventAdd
  <1>6. t.reg = s.reg \cup {e} /\ t.armed = s.armed \cup {n} /\ t.desc = a.desc
    BY <1>1, <1>3, <1>5 DEF Table
  <1> HIDE DEF t
  <1>7. ASSUME NEW f \in t.reg PROVE f.id = 0 /\ t.desc[f.fd] = Sock(f.conn)
    BY <1>1, <1>2, <1>3, <1>6, <1>7 DEF Watched
  <1>8. ASSUME NEW m \in Fd, NEW d \in Conn, t.desc[m] = Sock(d)
        PROVE  BufEvent(m, d) \in t.reg /\ m \in t.armed
    <2>1. CASE m = n
      BY <1>1, <1>6, <1>8, <2>1, DescDistinct DEF e
    <2>2. CASE m # n
      BY <1>1, <1>6, <1>8, <2>2 DEF Watched
    <2> QED
      BY <2>1, <2>2
  <1>9. Watched(t)
    BY <1>7, <1>8 DEF Watched
  <1> QED
    BY <1>9 DEF t, a, e

(* A removed event leaves the numbers of the others watched.                *)
LEMMA StillArmed ==
  ASSUME NEW s \in Table, NEW e, NEW f \in s.reg, f # e, f.fd \in s.armed
  PROVE  f \in EventDel(s, e).reg /\ f.fd \in EventDel(s, e).armed
  BY DEF EventDel, Table

(* ~ClientProxy.                                                            *)
LEMMA WatchedRelease ==
  ASSUME NEW s \in Table, Watched(s), NEW c \in Conn, NEW p,
         p.fd \in Fd, s.desc[p.fd] = Sock(c),
         \A m \in Fd : s.desc[m] = Sock(c) => m = p.fd
  PROVE  Watched(Release(s, c, p))
  <1> DEFINE b == BufEvent(p.fd, c)
             g == FileEvent(p.loader, c, p.loads)
             t1 == Close(s, p.fd)
             t2 == EventDel(t1, b)
             t3 == EventDel(t2, g)
  <1>1. b.conn = c /\ g.conn = c
    BY DEF BufEvent, FileEvent
  <1>2. \A e \in s.reg : e.id = 0 /\ e.fd = p.fd => e = b
    <2>1. ASSUME NEW e \in s.reg, e.id = 0, e.fd = p.fd PROVE e = b
      <3>1. e \in Event /\ s.desc[e.fd] = Sock(e.conn)
        BY RegTyped DEF Watched
      <3>2. e.conn = c
        BY <2>1, <3>1, DescDistinct
      <3> QED
        BY <2>1, <3>1, <3>2 DEF Event, BufEvent
    <2> QED
      BY <2>1
  <1>3. /\ t1 \in Table /\ t1.reg = s.reg /\ t1.armed = s.armed \ {p.fd}
        /\ \A m \in Fd : t1.desc[m] = IF m = p.fd THEN Free ELSE s.desc[m]
    <2>1. Fd \cap {p.fd} = {p.fd}
      OBVIOUS
    <2> QED
      BY <2>1, CloseFacts
  <1> HIDE DEF b, g, t1
  <1>4. t2 \in Table /\ t2.desc = t1.desc /\ t2.reg = t1.reg \ {b}
    BY <1>3, EventDelFacts
  <1>5. t3 \in Table /\ t3.desc = t2.desc /\ t3.reg = t2.reg \ {g}
    BY <1>4, EventDelFacts
  <1>6. ASSUME NEW e \in t1.reg, e.conn # c, e.fd \in t1.armed
        PROVE  e \in t3.reg /\ e.fd \in t3.armed
    <2>1. e \in t2.reg /\ e.fd \in t2.armed
      BY <1>1, <1>3, <1>6, StillArmed
    <2> QED
      BY <1>1, <1>4, <1>6, <2>1, StillArmed
  <1>7. Release(s, c, p) = t3
    BY DEF Release, t1, b, g
  <1> HIDE DEF t2, t3
  <1>8. ASSUME NEW e \in t3.reg PROVE e.id = 0 /\ t3.desc[e.fd] = Sock(e.conn)
    <2>1. e \in s.reg /\ e # b /\ e.fd \in Fd
      BY <1>3, <1>4, <1>5, RegTyped
    <2>2. e.id = 0 /\ s.desc[e.fd] = Sock(e.conn) /\ e.fd # p.fd
      BY <1>2, <2>1 DEF Watched
    <2> QED
      BY <1>3, <1>4, <1>5, <2>1, <2>2
  <1>9. ASSUME NEW m \in Fd, NEW d \in Conn, t3.desc[m] = Sock(d)
        PROVE  BufEvent(m, d) \in t3.reg /\ m \in t3.armed
    <2>1. m # p.fd /\ s.desc[m] = Sock(d)
      BY <1>3, <1>4, <1>5, <1>9, DescDistinct
    <2>2. d # c
      BY <2>1
    <2> DEFINE e == BufEvent(m, d)
    <2>3. e.fd = m /\ e.conn = d /\ e \in s.reg /\ m \in s.armed
      BY <2>1 DEF Watched, BufEvent
    <2> HIDE DEF e
    <2>4. e \in t3.reg /\ e.fd \in t3.armed
      BY <1>3, <1>6, <2>1, <2>2, <2>3
    <2> QED
      BY <2>3, <2>4 DEF e
  <1> QED
    BY <1>7, <1>8, <1>9 DEF Watched

(* The close of a number that is no socket.                                 *)
LEMMA WatchedClose ==
  ASSUME NEW s \in Table, Watched(s), NEW n,
         \A c \in Conn : n \in Fd => s.desc[n] # Sock(c)
  PROVE  Watched(Close(s, n))
  <1>1. /\ Close(s, n).reg = s.reg /\ Close(s, n).armed = s.armed \ (Fd \cap {n})
        /\ \A m \in Fd : Close(s, n).desc[m] = IF m = n THEN Free ELSE s.desc[m]
    BY CloseFacts
  <1>2. \A e \in s.reg : e.fd \in Fd /\ e.conn \in Conn /\ e.fd # n
    BY RegTyped DEF Watched
  <1> QED
    BY <1>1, <1>2, DescDistinct DEF Watched

(* load_static_content: the file's event is refused.                        *)
LEMMA WatchedStatic ==
  ASSUME Inv, Watched(os), Backend = "epoll", NEW c \in Conn, Live(c), NEW p, SameProxy(p, c),
         NEW n \in Fd \cup {NoFd}, n \in Fd => os.desc[n] = Free, LoadStatic(c, p, n)
  PROVE  Watched(os')
  <1> DEFINE a == Assign(os, n, File(c, link[c].size))
             e == FileEvent(n, c, p.loads + 1)
             s == EventAdd(a, e)
             q == [p EXCEPT !.loader = n, !.loads = @ + 1]
  <1>1. /\ os \in Table /\ link[c].size \in Nat
        /\ proxy[c].fd \in Fd /\ os.desc[proxy[c].fd] = Sock(c)
        /\ p \in Proxy /\ p.fd = proxy[c].fd
        /\ \A m \in Fd : os.desc[m] = Sock(c) => m = proxy[c].fd
    BY LiveFacts DEF Link, SameProxy, Inv, SocketOwned
  <1>2. /\ File(c, link[c].size) \in Desc
        /\ \A d \in Conn : File(c, link[c].size) # Sock(d)
        /\ File(c, link[c].size).what = "file"
    BY <1>1, DescKinds, DescDistinct
  <1>3. /\ a \in Table /\ Watched(a)
        /\ \A m \in Fd : a.desc[m] = IF m = n THEN File(c, link[c].size) ELSE os.desc[m]
    BY <1>1, <1>2, WatchedAssign, AssignFacts
  <1>4. e.fd = n
    BY DEF FileEvent
  <1> HIDE DEF a, e
  <1>5. s = a
    BY <1>2, <1>3, <1>4, NotNumbers DEF EventAdd
  <1>6. q.fd = proxy[c].fd
    BY <1>1, LoadedFacts
  <1>7. IF q.finished THEN os' = Release(s, c, q) ELSE os' = s
    BY DEF LoadStatic, Destroy, a, e
  <1> HIDE DEF s, q
  <1>8. /\ a.desc[proxy[c].fd] = Sock(c)
        /\ \A m \in Fd : a.desc[m] = Sock(c) => m = proxy[c].fd
    BY <1>1, <1>2, <1>3, DescDistinct
  <1>9. Watched(Release(a, c, q))
    BY <1>1, <1>3, <1>6, <1>8, WatchedRelease
  <1> QED
    BY <1>3, <1>5, <1>7, <1>9

(* The deletions of the callbacks.                                          *)
LEMMA WatchedDestroy ==
  ASSUME Inv, Watched(os), NEW c \in Conn, Live(c), NEW p, p.fd = proxy[c].fd,
         Destroy(os, c, p)
  PROVE  Watched(os')
  <1>1. /\ os \in Table
        /\ proxy[c].fd \in Fd /\ os.desc[proxy[c].fd] = Sock(c)
        /\ \A m \in Fd : os.desc[m] = Sock(c) => m = proxy[c].fd
    BY LiveFacts DEF Inv, SocketOwned
  <1> QED
    BY <1>1, WatchedRelease DEF Destroy

LEMMA WatchedRead ==
  ASSUME Inv, Watched(os), Backend = "epoll", NEW c \in Conn, ReadCallback(c)
  PROVE  Watched(os')
  <1>1. /\ os \in Table /\ proxy[c] \in Proxy /\ link[c] \in Link /\ Live(c)
        /\ proxy[c].fd \in Fd /\ os.desc[proxy[c].fd] = Sock(c)
        /\ \A m \in Fd : os.desc[m] = Sock(c) => m = proxy[c].fd
    BY LiveFacts DEF ReadCallback, Polled, Inv, SocketOwned
  <1> DEFINE in == proxy[c].input \o link[c].sock
  <1>2. in \in Seq(Line)
    BY <1>1, ConcatProperties DEF Proxy, Link
  <1>3. PICK i \in Taken(in), ok \in BOOLEAN :
          LET p == [proxy[c] EXCEPT !.input = SubSeq(in, i + 1, Len(in))]
          IN  \/ os' = os
              \/ \E n \in Allocated(os) \cup {NoFd} : LoadStatic(c, p, n)
              \/ LoadCgi(c, p, ok)
              \/ LoadSo(c, p, ok)
    BY DEF ReadCallback
  <1> DEFINE p == [proxy[c] EXCEPT !.input = SubSeq(in, i + 1, Len(in))]
  <1>4. SameProxy(p, c)
    BY <1>1, <1>2, InputTaken
  <1>5. p.fd = proxy[c].fd
    BY <1>4 DEF SameProxy
  <1> HIDE DEF in, p
  <1>6. ASSUME NEW n \in Allocated(os) \cup {NoFd}, LoadStatic(c, p, n) PROVE Watched(os')
    <2>1. n \in Fd \cup {NoFd} /\ (n \in Fd => os.desc[n] = Free)
      BY <1>1, AllocatedFree, NotNumbers
    <2> QED
      BY <1>1, <1>4, <1>6, <2>1, WatchedStatic
  <1>r. \A q \in {p, BadRequest(p, 500)} : q.fd = proxy[c].fd
    BY <1>4, RefusalQueued DEF SameProxy, RefusalOf
  <1>7. CASE LoadCgi(c, p, ok)
    <2>1. \E q \in {p, BadRequest(p, 500)} : Destroy(os, c, q)
      BY <1>7 DEF LoadCgi
    <2> QED
      BY <1>1, <1>r, <2>1, WatchedDestroy
  <1>8. CASE LoadSo(c, p, ok)
    <2>1. ASSUME NEW n \in Allocated(os), NEW q, q.fd = proxy[c].fd,
                 Destroy(Assign(os, n, Dup(c)), c, q)
          PROVE  Watched(os')
      <3> DEFINE a == Assign(os, n, Dup(c))
      <3>1. n \in Fd => os.desc[n] = Free
        BY <1>1, AllocatedFree, NotNumbers
      <3>2. Dup(c) \in Desc /\ \A d \in Conn : Dup(c) # Sock(d)
        BY DescKinds, DescDistinct
      <3>3. /\ a \in Table /\ Watched(a)
            /\ \A m \in Fd : a.desc[m] = IF m = n THEN Dup(c) ELSE os.desc[m]
        BY <1>1, <3>1, <3>2, WatchedAssign, AssignFacts
      <3>4. os' = Release(a, c, q)
        BY <2>1 DEF Destroy
      <3> HIDE DEF a
      <3>5. /\ a.desc[q.fd] = Sock(c)
            /\ \A m \in Fd : a.desc[m] = Sock(c) => m = q.fd
        BY <1>1, <2>1, <3>1, <3>2, <3>3, DescDistinct
      <3> QED
        BY <1>1, <2>1, <3>3, <3>4, <3>5, WatchedRelease
    <2>2. \/ os' = os
          \/ \E n \in Allocated(os), q \in {p, BadRequest(p, 500)} :
               Destroy(Assign(os, n, Dup(c)), c, q)
      BY <1>8 DEF LoadSo
    <2> QED
      BY <1>r, <2>1, <2>2
  <1> QED
    BY <1>3, <1>6, <1>7, <1>8 DEF p

LEMMA WatchedNext ==
  ASSUME Inv, Watched(os), Backend = "epoll", [Next]_vars
  PROVE  Watched(os')
  <1>1. os \in Table
    BY LiveFacts
  <1>2. ASSUME NEW c \in Conn, AcceptCallback(c) PROVE Watched(os')
    <2>1. PICK n \in LowestFree(os) :
            os' = EventAdd(Assign(os, n, Sock(c)), BufEvent(n, c))
      BY <1>2 DEF AcceptCallback
    <2>2. n \in Fd /\ os.desc[n] = Free
      BY DEF LowestFree, IsFree
    <2> QED
      BY <1>1, <2>1, <2>2, WatchedAccept
  <1>3. ASSUME NEW c \in Conn, WriteCallback(c) PROVE Watched(os')
    <2>1. Live(c) /\ proxy[c] \in Proxy
      BY <1>3, LiveFacts DEF WriteCallback
    <2>2. PICK rest : \/ os' = os
                      \/ Destroy(os, c, [proxy[c] EXCEPT !.out = rest])
      BY <1>3 DEF WriteCallback, Drained
    <2>3. [proxy[c] EXCEPT !.out = rest].fd = proxy[c].fd
      BY <2>1 DEF Proxy
    <2> QED
      BY <2>1, <2>2, <2>3, WatchedDestroy
  <1>4. ASSUME NEW c \in Conn, ErrorCallback(c) PROVE Watched(os')
    <2>1. Live(c) /\ Destroy(os, c, proxy[c])
      BY <1>4 DEF ErrorCallback, Polled
    <2> QED
      BY <2>1, WatchedDestroy
  <1>5. ASSUME NEW e \in os.reg, FileWriteCallback(e) PROVE FALSE
    <2>1. e.id > 0
      BY <1>5 DEF FileWriteCallback, FileReadable
    <2>2. e.id = 0
      BY DEF Watched
    <2> QED
      BY <2>1, <2>2
  <1>6. ASSUME NEW c \in Conn, JobExit(c) PROVE Watched(os')
    <2>1. /\ os' = Close(os, job[c].fd)
          /\ job[c].fd \in Fd => os.desc[job[c].fd] = Dup(c)
      BY <1>6 DEF JobExit, Inv, DupOwned
    <2> QED
      BY <1>1, <2>1, DescDistinct, WatchedClose
  <1>7. CASE Callback
    BY <1>2, <1>3, <1>4, <1>5, <1>7, WatchedRead DEF Callback
  <1>8. CASE Worker
    BY <1>6, <1>8 DEF Worker, JobWrite
  <1>9. CASE Client \/ Crash \/ UNCHANGED vars
    BY <1>9 DEF Client, Connect, Send, Leave, Crash, vars
  <1> QED
    BY <1>7, <1>8, <1>9 DEF Next

(* On epoll every accepted connection is watched for input as long as its   *)
(* proxy lives: accept_callback (server.cpp:85) never finds the number      *)
(* registered already, since epoll refuses the files' events.               *)
THEOREM LivePolled == Spec => []LiveConnPolled
  <1> DEFINE W == Backend = "epoll" => Watched(os)
  <1>1. Init => W
    BY DEF Init, EmptyTable, Watched, Sock, Free
  <1>2. Inv /\ W /\ [Next]_vars => W'
    BY WatchedNext
  <1>3. Inv /\ W => LiveConnPolled
    BY DEF LiveConnPolled, Watched, Polled, Inv, SocketOwned
  <1> QED
    BY <1>1, <1>2, <1>3, Invariance, PTL DEF Spec

-----------------------------------------------------------------------------
(* Until the second segment the callback reads once, so that one file at    *)
(* most is opened and nothing that was queued is thrown away.               *)

NoFile(c) == \A n \in Fd : ~IsFileOf(os, n, c)

(* A connection of which nothing was read.                                  *)
Untouched(c) == Blank(proxy[c]) /\ proxy[c].loads = 0 /\ NoFile(c)

(* Nothing is done before the first segment is read, and its file is the    *)
(* loader's until it is read to its end.                                    *)
FirstSegment(c) ==
  link[c].said <= 1 =>
    /\ link[c].said = 0 => link[c].sock = <<>>
    /\ link[c].said = 0 \/ link[c].sock # <<>> => Untouched(c)
    /\ \A n \in Fd : IsFileOf(os, n, c) =>
         \/ link[c].peer \in {"fin", "gone"}
         \/ Live(c) /\ proxy[c].loader = n /\ ~proxy[c].finished

(* A step of another connection.                                            *)
LEMMA SegmentFrame ==
  ASSUME NEW c \in Conn, OthersKept(c), OnlyMine(c), NEW d \in Conn \ {c}, FirstSegment(d)
  PROVE  FirstSegment(d)'
  <1>1. \A n \in Fd : IsFileOf(os', n, d) => IsFileOf(os, n, d)
    BY DEF OnlyMine, Mine, IsFileOf, Free
  <1> QED
    BY <1>1 DEF FirstSegment, OthersKept, Untouched, NoFile, Live

LEMMA SegmentAccept ==
  ASSUME Inv, NEW c \in Conn, FirstSegment(c), AcceptCallback(c)
  PROVE  FirstSegment(c)'
  <1>1. \A n \in Fd : IsFileOf(os', n, c) => IsFileOf(os, n, c)
    BY AcceptEffect DEF NoNewFile, IsFileOf
  <1>2. /\ proxy[c].obj = "none" /\ link' = link
        /\ proxy'[c].loads = 0 /\ Blank(proxy'[c])
    BY AcceptEffect
  <1> QED
    BY <1>1, <1>2 DEF FirstSegment, Untouched, NoFile, Live

LEMMA SegmentError ==
  ASSUME Inv, NEW c \in Conn, FirstSegment(c), ErrorCallback(c)
  PROVE  FirstSegment(c)'
  <1>1. \A n \in Fd : IsFileOf(os', n, c) => IsFileOf(os, n, c)
    BY ErrorEffect DEF NoNewFile, IsFileOf
  <1>2. /\ link[c].peer \in {"fin", "gone"} /\ link' = link
        /\ proxy'[c].loads = proxy[c].loads /\ Blank(proxy'[c])
    BY ErrorEffect
  <1> QED
    BY <1>1, <1>2 DEF FirstSegment, Untouched, NoFile

LEMMA SegmentWrite ==
  ASSUME Inv, NEW c \in Conn, FirstSegment(c), WriteCallback(c)
  PROVE  FirstSegment(c)'
  <1>1. \A n \in Fd : IsFileOf(os', n, c) => IsFileOf(os, n, c)
    BY WriteEffect DEF NoNewFile, IsFileOf
  <1>2. /\ link'[c].peer = link[c].peer /\ link'[c].said = link[c].said
        /\ link'[c].sock = link[c].sock
    BY WriteEffect
  <1>3. PICK k \in 1..Len(proxy[c].out) :
          \/ proxy[c].finished
          \/ /\ Live(c)' /\ proxy'[c].finished = proxy[c].finished
             /\ proxy'[c].loader = proxy[c].loader
    BY WriteEffect
  <1>4. ~Untouched(c)
    <2>1. Len(<<>>) = 0
      OBVIOUS
    <2> QED
      BY <1>3, <2>1 DEF Untouched, Blank
  <1>5. ~proxy[c].finished =>
          /\ Live(c)' /\ proxy'[c].finished = proxy[c].finished
          /\ proxy'[c].loader = proxy[c].loader
    BY <1>3
  <1> QED
    BY <1>1, <1>2, <1>4, <1>5 DEF FirstSegment

LEMMA SegmentFileWrite ==
  ASSUME Inv, NEW e \in os.reg, FileWriteCallback(e), NEW c, c = e.conn, FirstSegment(c)
  PROVE  FirstSegment(c)'
  <1>1. /\ c \in Conn /\ Live(c) /\ link' = link /\ IsFileOf(os, proxy[c].loader, c)
        /\ Live(c)' /\ proxy'[c].loader = proxy[c].loader
    BY FileWriteEffect DEF Live
  <1>2. PICK left, k \in Nat : BlockRead(c, left, k)
    BY FileWriteEffect
  <1>3. ~Untouched(c)
    BY <1>1 DEF Untouched, NoFile, IsFileOf
  <1>4. ASSUME NEW n \in Fd, IsFileOf(os', n, c)
        PROVE  \/ n # proxy[c].loader /\ IsFileOf(os, n, c)
               \/ n = proxy[c].loader /\ proxy'[c].finished = proxy[c].finished
    <2>1. /\ n # proxy[c].loader => os'.desc[n] = os.desc[n]
          /\ \/ proxy'[c].finished = proxy[c].finished
             \/ n = proxy[c].loader => os'.desc[n] = Free
      BY <1>2 DEF BlockRead
    <2>2. CASE n # proxy[c].loader
      BY <1>4, <2>1, <2>2 DEF IsFileOf
    <2>3. CASE n = proxy[c].loader
      BY <1>4, <2>1, <2>3 DEF IsFileOf, Free
    <2> QED
      BY <2>2, <2>3
  <1> QED
    BY <1>1, <1>3, <1>4 DEF FirstSegment

LEMMA SegmentRead ==
  ASSUME Inv, NEW c \in Conn, FirstSegment(c), ReadCallback(c)
  PROVE  FirstSegment(c)'
  <1>1. /\ link[c].sock # <<>> /\ link'[c].sock = <<>> /\ Live(c)
        /\ link'[c].peer = link[c].peer /\ link'[c].said = link[c].said
    BY ReadEffect
  <1>2. PICK line : Outcome(c, line)
    BY ReadEffect
  <1> SUFFICES ASSUME link[c].said <= 1, Untouched(c)
               PROVE  \A n \in Fd : IsFileOf(os', n, c) =>
                        Live(c)' /\ proxy'[c].loader = n /\ ~proxy'[c].finished
    BY <1>1 DEF FirstSegment
  <1>3. CASE Opens(c, line)
    <2>1. ~proxy[c].finished
      BY DEF Untouched, Blank
    <2>2. Live(c)' /\ ~proxy'[c].finished
      BY <1>3, <2>1 DEF Opens
    <2>3. \A n \in Fd : n = proxy'[c].loader \/ os'.desc[n] = os.desc[n]
      BY <1>3, <2>1 DEF Opens
    <2> QED
      BY <2>2, <2>3 DEF Untouched, NoFile, IsFileOf
  <1>4. CASE Refuses(c, line) \/ Starts(c, line) \/ TakesDown(line)
    BY <1>4 DEF Refuses, Starts, TakesDown, NoNewFile, Untouched, NoFile, IsFileOf
  <1> QED
    BY <1>2, <1>3, <1>4 DEF Outcome

LEMMA SegmentWorker ==
  ASSUME Inv, NEW c \in Conn, FirstSegment(c), JobWrite(c) \/ JobExit(c)
  PROVE  FirstSegment(c)'
  <1>1. \A n \in Fd : IsFileOf(os', n, c) => IsFileOf(os, n, c)
    BY JobWriteEffect, JobExitEffect DEF NoNewFile, IsFileOf
  <1>2. proxy' = proxy
    BY JobWriteEffect, JobExitEffect
  <1>3. /\ link'[c].peer = link[c].peer /\ link'[c].said = link[c].said
        /\ link'[c].sock = link[c].sock
    BY JobWriteEffect, JobExitEffect
  <1> QED
    BY <1>1, <1>2, <1>3 DEF FirstSegment, Untouched, NoFile, Live

LEMMA SegmentClient ==
  ASSUME Inv, NEW c \in Conn, FirstSegment(c), Connect(c) \/ Send(c) \/ Leave(c)
  PROVE  FirstSegment(c)'
  <1>1. os' = os /\ proxy' = proxy /\ link[c].said \in Nat
    BY ClientEffect, LiveFacts DEF Link
  <1>2. CASE /\ link'[c].said = link[c].said /\ link'[c].sock = link[c].sock
             /\ link[c].peer \in {"fin", "gone"} => link'[c].peer \in {"fin", "gone"}
    BY <1>1, <1>2 DEF FirstSegment, Untouched, NoFile, Live
  <1>3. CASE link'[c].said = link[c].said + 1
    <2> SUFFICES ASSUME link'[c].said <= 1
                 PROVE  link'[c].said = 1 /\ Untouched(c)
      BY <1>1 DEF FirstSegment, Untouched, NoFile
    <2> QED
      BY <1>1, <1>3 DEF FirstSegment
  <1> QED
    BY <1>2, <1>3, ClientEffect

LEMMA SegmentNext ==
  ASSUME Inv, \A c \in Conn : FirstSegment(c), [Next]_vars
  PROVE  \A c \in Conn : FirstSegment(c)'
  <1>1. ASSUME NEW c \in Conn, OthersKept(c), OnlyMine(c), FirstSegment(c)'
        PROVE  \A d \in Conn : FirstSegment(d)'
    <2>1. \A d \in Conn \ {c} : FirstSegment(d)'
      BY <1>1, SegmentFrame
    <2> QED
      BY <1>1, <2>1
  <1>2. ASSUME NEW c \in Conn, AcceptCallback(c) PROVE \A d \in Conn : FirstSegment(d)'
    BY <1>1, <1>2, AcceptEffect, SegmentAccept
  <1>3. ASSUME NEW c \in Conn, ReadCallback(c) PROVE \A d \in Conn : FirstSegment(d)'
    BY <1>1, <1>3, ReadEffect, SegmentRead
  <1>4. ASSUME NEW c \in Conn, WriteCallback(c) PROVE \A d \in Conn : FirstSegment(d)'
    BY <1>1, <1>4, WriteEffect, SegmentWrite
  <1>5. ASSUME NEW c \in Conn, ErrorCallback(c) PROVE \A d \in Conn : FirstSegment(d)'
    BY <1>1, <1>5, ErrorEffect, SegmentError
  <1>6. ASSUME NEW e \in os.reg, FileWriteCallback(e) PROVE \A d \in Conn : FirstSegment(d)'
    <2>1. e.conn \in Conn /\ OthersKept(e.conn) /\ OnlyMine(e.conn)
      BY <1>6, FileWriteEffect
    <2>2. FirstSegment(e.conn)'
      BY <1>6, <2>1, SegmentFileWrite
    <2> QED
      BY <1>1, <2>1, <2>2
  <1>7. ASSUME NEW c \in Conn, JobWrite(c) \/ JobExit(c) PROVE \A d \in Conn : FirstSegment(d)'
    <2>1. OthersKept(c) /\ OnlyMine(c)
      BY <1>7, JobWriteEffect, JobExitEffect DEF OnlyMine
    <2> QED
      BY <1>1, <1>7, <2>1, SegmentWorker
  <1>8. ASSUME NEW c \in Conn, Connect(c) \/ Send(c) \/ Leave(c)
        PROVE  \A d \in Conn : FirstSegment(d)'
    <2>1. OthersKept(c) /\ OnlyMine(c)
      BY <1>8, ClientEffect DEF OnlyMine
    <2> QED
      BY <1>1, <1>8, <2>1, SegmentClient
  <1>9. CASE Crash \/ UNCHANGED vars
    BY <1>9 DEF Crash, vars, FirstSegment, Untouched, NoFile, Live
  <1> QED
    BY <1>2, <1>3, <1>4, <1>5, <1>6, <1>7, <1>8, <1>9 DEF Next, Client, Callback, Worker

LEMMA SegmentsAlways == Spec => [](\A c \in Conn : FirstSegment(c))
  <1> DEFINE S == \A c \in Conn : FirstSegment(c)
  <1>1. Init => S
    <2> SUFFICES ASSUME Init, NEW c \in Conn PROVE FirstSegment(c)
      OBVIOUS
    <2>1. proxy[c] = NoProxy /\ Blank(NoProxy) /\ NoProxy.loads = 0
      BY DEF Init, Blank, NoProxy
    <2>2. link[c].sock = <<>> /\ link[c].said = 0
      BY DEF Init
    <2>3. NoFile(c)
      BY DEF Init, EmptyTable, NoFile, IsFileOf, Free
    <2> QED
      BY <2>1, <2>2, <2>3 DEF FirstSegment, Untouched, NoFile
  <1>2. Inv /\ S /\ [Next]_vars => S'
    BY SegmentNext
  <1> QED
    BY <1>1, <1>2, Invariance, PTL DEF Spec

(* Under a client that stays and sent one segment at most, an open file is  *)
(* the one its live proxy reads, for any sizes and any number of clients:   *)
(* read() (content_loader.cpp:27) closes it before the proxy can end.       *)
THEOREM FilesAccounted == Spec => []OpenFileAccounted
  <1>1. Inv /\ (\A c \in Conn : FirstSegment(c)) => OpenFileAccounted
    <2> SUFFICES ASSUME Inv, NEW c \in Conn, FirstSegment(c), NEW n \in Fd, IsFileOf(os, n, c)
                 PROVE  \/ link[c].peer # "open" \/ link[c].said > 1
                        \/ Live(c) /\ proxy[c].loader = n
      BY DEF OpenFileAccounted
    <2>1. link[c].said \in Nat
      BY LiveFacts DEF Link
    <2> QED
      BY <2>1 DEF FirstSegment
  <1> QED
    BY <1>1, SegmentsAlways, Invariance, PTL

(* A proxy that is deleted under a client that stays and sent one segment   *)
(* at most has had its output delivered, save the refusal of a program that *)
(* could not be started.                                                    *)
Accounted(c) ==
  \/ proxy'[c].lost = <<>>
  \/ /\ job'[c].state = "refused"
     /\ proxy'[c].lost = <<Status(500), Text("reason")>>

LEMMA DropStep ==
  ASSUME Inv, NEW c \in Conn, FirstSegment(c), server = "up", Next,
         Live(c), proxy'[c].obj = "deleted", link[c].peer = "open", link[c].said <= 1
  PROVE  Accounted(c)
  <1>2. ASSUME NEW d \in Conn, OthersKept(d) PROVE d = c
    BY <1>2 DEF OthersKept, Live
  <1>3. ASSUME proxy' = proxy PROVE FALSE
    BY <1>3 DEF Live
  <1>4. ASSUME NEW d \in Conn, AcceptCallback(d) PROVE FALSE
    BY <1>2, <1>4, AcceptEffect
  <1>5. ASSUME NEW d \in Conn, ErrorCallback(d) PROVE FALSE
    BY <1>2, <1>5, ErrorEffect
  <1>6. ASSUME NEW e \in os.reg, FileWriteCallback(e) PROVE FALSE
    BY <1>2, <1>6, FileWriteEffect
  <1>7. ASSUME NEW d \in Conn, WriteCallback(d) PROVE Accounted(c)
    <2>1. d = c
      BY <1>2, <1>7, WriteEffect
    <2>2. proxy'[c].lost = <<>> \/ Live(c)'
      BY <1>7, <2>1, WriteEffect
    <2> QED
      BY <2>2 DEF Accounted, Live
  <1>8. ASSUME NEW d \in Conn, ReadCallback(d) PROVE Accounted(c)
    <2>1. d = c
      BY <1>2, <1>8, ReadEffect
    <2>2. link[c].sock # <<>>
      BY <1>8, <2>1, ReadEffect
    <2>3. proxy[c].out = <<>> /\ ~proxy[c].finished
      BY <2>2 DEF FirstSegment, Untouched, Blank
    <2>4. PICK line : Outcome(c, line)
      BY <1>8, <2>1, ReadEffect
    <2>5. Starts(c, line)
      BY <2>3, <2>4 DEF Outcome, Refuses, Opens, TakesDown, Live
    <2>6. <<>> \o <<Status(500), Text("reason")>> = <<Status(500), Text("reason")>>
      <3> HIDE DEF Status, Text
      <3> QED
        OBVIOUS
    <2> QED
      BY <2>3, <2>5, <2>6 DEF Starts, Accounted
  <1>9. CASE Client \/ Crash \/ Worker
    BY <1>3, <1>9, ClientEffect, JobWriteEffect, JobExitEffect DEF Client, Crash, Worker
  <1> QED
    BY <1>4, <1>5, <1>6, <1>7, <1>8, <1>9 DEF Next, Callback

(* Under a client that stays and sent one segment at most, queued output is *)
(* thrown away (server.cpp:134) in one case only: it is the refusal of a    *)
(* gateway program that fork or the library would not start, and nothing    *)
(* else.                                                                    *)
THEOREM OnlyRefusalsDropped == Spec => DropsAccounted
  <1> DEFINE S == \A c \in Conn : FirstSegment(c)
             Kept(c) == /\ Live(c) /\ proxy'[c].obj = "deleted"
                        /\ link[c].peer = "open" /\ link[c].said <= 1
                        => Accounted(c)
  <1>1. Inv /\ S /\ [Next]_vars => [\A c \in Conn : Kept(c)]_vars
    BY DropStep DEF Next
  <1> QED
    BY <1>1, SegmentsAlways, Invariance, PTL DEF Spec, DropsAccounted, Accounted
=============================================================================
