------------------------- MODULE EventedServerProofs -------------------------
(****************************************************************************)
(* The safety invariants of EventedServer hold for any number of clients    *)
(* and descriptors, any requests in any segments, both gateways and both    *)
(* kernel interfaces.                                                       *)
(*                                                                          *)
(* A callback often makes several of the changes that must not disturb each *)
(* other (a file is opened and the proxy deleted, a dup is made and the     *)
(* socket closed).  So the state predicates are first restated over any     *)
(* tables (Consistent), one lemma per change shows that it keeps them, and  *)
(* the proof of a callback chains the lemmas of its changes.                *)
(****************************************************************************)
EXTENDS EventedServer, SequenceTheorems, TLAPS

-----------------------------------------------------------------------------
(* What the operations on the descriptor table return, for any table and    *)
(* any number, the -1 of a failed call included.                            *)

(* The failed call's -1 and the 0 of no file are not numbers of the table.  *)
LEMMA NotNumbers == NoFd \notin Fd /\ 0 \notin Fd
  BY DescriptorsAssumption DEF NoFd

(* What a number may name, by kind.                                         *)
LEMMA DescKinds ==
  ASSUME NEW c \in Conn
  PROVE  /\ Free \in Desc /\ Sock(c) \in Desc /\ Dup(c) \in Desc
         /\ \A k \in Nat : File(c, k) \in Desc
  BY DEF Desc, Free, Sock, Dup, File

(* Open numbers of different kinds, or of different clients, differ.        *)
LEMMA DescDistinct ==
  ASSUME NEW c, NEW d, NEW k
  PROVE  /\ Free # Sock(c) /\ Free # Dup(c) /\ Sock(c) # Dup(d)
         /\ Sock(c) = Sock(d) => c = d
         /\ Dup(c) = Dup(d) => c = d
         /\ Free.what # "file" /\ Sock(c).what # "file" /\ Dup(c).what # "file"
         /\ File(c, k).what = "file" /\ File(c, k).conn = c
  BY DEF Free, Sock, Dup, File

(* open(), accept() and dup() return a free number or -1.                   *)
LEMMA AllocatedFree ==
  ASSUME NEW s \in Table, NEW n \in Allocated(s)
  PROVE  n = NoFd \/ (n \in Fd /\ s.desc[n] = Free)
  BY DEF Allocated, LowestFree, IsFree

(* The new number is the only entry that changes.                           *)
LEMMA AssignFacts ==
  ASSUME NEW s \in Table, NEW n, NEW d \in Desc
  PROVE  /\ Assign(s, n, d) \in Table
         /\ Assign(s, n, d).reg = s.reg
         /\ Assign(s, n, d).armed = s.armed
         /\ \A m \in Fd : Assign(s, n, d).desc[m] = IF m = n THEN d ELSE s.desc[m]
  BY DEF Assign, Table

(* close() frees one number and the kernel stops watching it.               *)
LEMMA CloseFacts ==
  ASSUME NEW s \in Table, NEW n
  PROVE  /\ Close(s, n) \in Table
         /\ Close(s, n).reg = s.reg
         /\ Close(s, n).armed = s.armed \ (Fd \cap {n})
         /\ \A m \in Fd : Close(s, n).desc[m] = IF m = n THEN Free ELSE s.desc[m]
  <1>1. Free \in Desc
    BY DEF Desc, Free
  <1> QED
    BY <1>1 DEF Close, Table

(* event_add opens and closes nothing; at most the event's own number       *)
(* becomes watched, and only when no other event is registered on it.       *)
LEMMA EventAddFacts ==
  ASSUME NEW s \in Table, NEW e, e.fd \in Fd => e \in Event
  PROVE  /\ EventAdd(s, e) \in Table
         /\ EventAdd(s, e).desc = s.desc
         /\ s.reg \subseteq EventAdd(s, e).reg
         /\ EventAdd(s, e).reg \subseteq s.reg \cup {f \in {e} : f.fd \in Fd}
         /\ s.armed \subseteq EventAdd(s, e).armed
         /\ EventAdd(s, e).armed \subseteq s.armed \cup {e.fd}
         /\ (\E f \in s.reg : f.fd = e.fd) => EventAdd(s, e).armed = s.armed
  BY DEF EventAdd, Table

(* event_del opens and closes nothing and makes no number watched.          *)
LEMMA EventDelFacts ==
  ASSUME NEW s \in Table, NEW e
  PROVE  /\ EventDel(s, e) \in Table
         /\ EventDel(s, e).desc = s.desc
         /\ EventDel(s, e).reg = s.reg \ {e}
         /\ EventDel(s, e).armed \subseteq s.armed
  BY DEF EventDel, Table

-----------------------------------------------------------------------------
(* The state predicates over any tables.                                    *)

Typed(s, px, jb) == s \in Table /\ px \in [Conn -> Proxy] /\ jb \in [Conn -> Job]

ProxiesOk(px) ==
  \A c \in Conn : /\ px[c].obj = "none" => px[c].loads = 0
                  /\ px[c].loads = 0 => px[c].loader = 0

SocketsOk(s, px) ==
  \A c \in Conn :
    /\ px[c].obj = "live" => px[c].fd \in Fd /\ s.desc[px[c].fd] = Sock(c)
    /\ \A n \in Fd : s.desc[n] = Sock(c) => px[c].obj = "live" /\ px[c].fd = n

DupsOk(s, jb) ==
  \A c \in Conn :
    /\ jb[c].state \in {"running", "written"} /\ jb[c].fd \in Fd
         => s.desc[jb[c].fd] = Dup(c)
    /\ \A n \in Fd : s.desc[n] = Dup(c) =>
         jb[c].fd = n /\ jb[c].state \in {"running", "written", "refused"}

(* What event e watches, when its number is watched.                        *)
Names(s, e) ==
  IF e.id = 0 THEN s.desc[e.fd] = Sock(e.conn) ELSE IsFileOf(s, e.fd, e.conn)

WatchOk(s) == \A e \in s.reg : e.fd \in s.armed => Names(s, e)

EventsOk(s, px) ==
  \A e \in s.reg :
    /\ e.id <= px[e.conn].loads
    /\ px[e.conn].loads <= 1 =>
         /\ px[e.conn].obj = "live"
         /\ e.fd = IF e.id = 0 THEN px[e.conn].fd ELSE px[e.conn].loader

Consistent(s, px, jb) ==
  /\ Typed(s, px, jb)
  /\ ProxiesOk(px)
  /\ SocketsOk(s, px)
  /\ DupsOk(s, jb)
  /\ WatchOk(s)
  /\ EventsOk(s, px)

JobsFollow(px, jb) ==
  \A c \in Conn : jb[c].state # "none" => px[c].obj = "deleted"

-----------------------------------------------------------------------------
(* Registered events are events; free numbers are not watched.              *)
LEMMA RegTyped == ASSUME NEW s \in Table, NEW e \in s.reg
                  PROVE  e \in Event /\ e.fd \in Fd /\ e.conn \in Conn /\ e.id \in Nat
  BY DEF Table, Event

(* A watched number names a socket or a file.                               *)
LEMMA NamedKinds ==
  ASSUME NEW s, NEW e, Names(s, e), NEW n, n = e.fd
  PROVE  /\ s.desc[n] # Free
         /\ \A c : s.desc[n] # Dup(c)
         /\ s.desc[n].what = "file" => e.id # 0 /\ s.desc[n].conn = e.conn
         /\ \A c : s.desc[n] = Sock(c) => e.id = 0 /\ e.conn = c
  BY DEF Names, IsFileOf, Free, Dup, Sock

(* An event that is not disturbed still watches what it did.                *)
LEMMA NamesKept ==
  ASSUME NEW s, NEW t, NEW e, Names(s, e), t.desc[e.fd] = s.desc[e.fd]
  PROVE  Names(t, e)
  BY DEF Names, IsFileOf

(* A new proxy has the members the constructor gives it.                    *)
LEMMA NewProxyFacts ==
  ASSUME NEW n \in Fd
  PROVE  /\ NewProxy(n) \in Proxy
         /\ NewProxy(n).obj = "live" /\ NewProxy(n).fd = n
         /\ NewProxy(n).loads = 0 /\ NewProxy(n).loader = 0
  <1>1. <<>> \in Seq(Line) /\ <<>> \in Seq(Item)
    BY EmptySeq
  <1> QED
    BY <1>1 DEF NewProxy, NoProxy, Proxy

(* Adding the event of a number that was free when it was assigned.         *)
LEMMA AddedWatch ==
  ASSUME NEW s \in Table, WatchOk(s), NEW n \in Fd, s.desc[n] = Free,
         NEW d \in Desc, NEW e \in Event, e.fd = n,
         Names(Assign(s, n, d), e)
  PROVE  WatchOk(EventAdd(Assign(s, n, d), e))
  <1> DEFINE a == Assign(s, n, d)
             t == EventAdd(a, e)
  <1>1. /\ a \in Table /\ a.reg = s.reg /\ a.armed = s.armed
        /\ \A m \in Fd : a.desc[m] = IF m = n THEN d ELSE s.desc[m]
    BY AssignFacts
  <1>2. /\ t.desc = a.desc /\ t.reg \subseteq s.reg \cup {e}
        /\ t.armed \subseteq s.armed \cup {n}
        /\ (\E f \in s.reg : f.fd = n) => t.armed = s.armed
    BY <1>1, EventAddFacts
  <1>3. ASSUME NEW f \in s.reg, f.fd = n PROVE n \notin s.armed
    BY <1>3, NamedKinds DEF WatchOk
  <1> SUFFICES ASSUME NEW f \in t.reg, f.fd \in t.armed PROVE Names(t, f)
    BY DEF WatchOk
  <1>4. CASE f = e
    BY <1>4, <1>2 DEF Names, IsFileOf
  <1>5. CASE f # e
    <2>1. f \in s.reg /\ f.fd \in Fd
      BY <1>5, <1>2, RegTyped
    <2>2. f.fd # n /\ f.fd \in s.armed
      BY <2>1, <1>2, <1>3
    <2>3. Names(s, f) /\ t.desc[f.fd] = s.desc[f.fd]
      BY <2>1, <2>2, <1>1, <1>2 DEF WatchOk
    <2> QED
      BY <2>3, NamesKept
  <1> QED
    BY <1>4, <1>5

(* A change of numbers that are no dup, before or after.                    *)
LEMMA DupsKept ==
  ASSUME NEW s, NEW t, NEW jb, DupsOk(s, jb),
         \A m \in Fd : \/ t.desc[m] = s.desc[m]
                       \/ \A c \in Conn : s.desc[m] # Dup(c) /\ t.desc[m] # Dup(c)
  PROVE  DupsOk(t, jb)
  BY DEF DupsOk

(* A change of numbers that are no socket, before or after.                 *)
LEMMA SocketsKept ==
  ASSUME NEW s, NEW t, NEW px, SocketsOk(s, px),
         \A m \in Fd : \/ t.desc[m] = s.desc[m]
                       \/ \A c \in Conn : s.desc[m] # Sock(c) /\ t.desc[m] # Sock(c)
  PROVE  SocketsOk(t, px)
  BY DEF SocketsOk

-----------------------------------------------------------------------------
(* One lemma per change.                                                    *)

(* accept_callback: a socket on a free number, its proxy and its event.     *)
LEMMA AcceptConsistent ==
  ASSUME NEW s, NEW px, NEW jb, Consistent(s, px, jb),
         NEW c \in Conn, px[c].obj = "none",
         NEW n \in Fd, s.desc[n] = Free
  PROVE  Consistent(EventAdd(Assign(s, n, Sock(c)), BufEvent(n, c)),
                    [px EXCEPT ![c] = NewProxy(n)], jb)
  <1> DEFINE a == Assign(s, n, Sock(c))
             e == BufEvent(n, c)
             t == EventAdd(a, e)
             qx == [px EXCEPT ![c] = NewProxy(n)]
  <1>1. s \in Table /\ px \in [Conn -> Proxy] /\ jb \in [Conn -> Job]
    BY DEF Consistent, Typed
  <1>2. Sock(c) \in Desc
    BY DescKinds
  <1>3. /\ a \in Table /\ a.reg = s.reg
        /\ \A m \in Fd : a.desc[m] = IF m = n THEN Sock(c) ELSE s.desc[m]
    BY <1>1, <1>2, AssignFacts
  <1>4. e \in Event /\ e.fd = n /\ e.conn = c /\ e.id = 0
    BY DEF BufEvent, Event
  <1>5. t \in Table /\ t.desc = a.desc /\ t.reg \subseteq s.reg \cup {e}
    BY <1>3, <1>4, EventAddFacts
  <1>6. /\ qx \in [Conn -> Proxy]
        /\ qx[c].obj = "live" /\ qx[c].fd = n /\ qx[c].loads = 0 /\ qx[c].loader = 0
        /\ \A d \in Conn : d # c => qx[d] = px[d]
    BY <1>1, NewProxyFacts
  <1>7. WatchOk(t)
    <2>1. Names(a, e)
      BY <1>3, <1>4 DEF Names
    <2> QED
      BY <1>1, <1>2, <1>4, <2>1, AddedWatch DEF Consistent
  <1> HIDE DEF a, t, qx, e
  <1>8. ProxiesOk(qx)
    BY <1>6 DEF Consistent, ProxiesOk
  <1>9. SocketsOk(t, qx)
    <2> SUFFICES ASSUME NEW d \in Conn
                 PROVE  /\ qx[d].obj = "live" =>
                             qx[d].fd \in Fd /\ t.desc[qx[d].fd] = Sock(d)
                        /\ \A m \in Fd : t.desc[m] = Sock(d) =>
                             qx[d].obj = "live" /\ qx[d].fd = m
      BY DEF SocketsOk
    <2>1. t.desc[n] = Sock(c) /\ \A m \in Fd : m # n => t.desc[m] = s.desc[m]
      BY <1>3, <1>5
    <2>2. CASE d = c
      BY <2>1, <2>2, <1>6 DEF Consistent, SocketsOk
    <2>3. CASE d # c
      <3>1. Sock(c) # Sock(d) /\ qx[d] = px[d]
        BY <2>3, <1>6, DescDistinct
      <3>2. s.desc[n] # Sock(d)
        BY DescDistinct
      <3> QED
        BY <2>1, <3>1, <3>2 DEF Consistent, SocketsOk
    <2> QED
      BY <2>2, <2>3
  <1>10. DupsOk(t, jb)
    BY <1>3, <1>5, DescDistinct, DupsKept DEF Consistent
  <1>11. EventsOk(t, qx)
    <2> SUFFICES ASSUME NEW f \in t.reg
                 PROVE  /\ f.id <= qx[f.conn].loads
                        /\ qx[f.conn].loads <= 1 =>
                             /\ qx[f.conn].obj = "live"
                             /\ f.fd = IF f.id = 0 THEN qx[f.conn].fd
                                                   ELSE qx[f.conn].loader
      BY DEF EventsOk
    <2>1. CASE f = e
      BY <2>1, <1>4, <1>6
    <2>2. CASE f \in s.reg
      <3>1. f.conn \in Conn /\ f.conn # c
        BY <2>2, <1>1, RegTyped DEF Consistent, EventsOk, ProxiesOk
      <3> QED
        BY <2>2, <3>1, <1>6 DEF Consistent, EventsOk
    <2> QED
      BY <2>1, <2>2, <1>5
  <1> QED
    BY <1>1, <1>5, <1>6, <1>7, <1>8, <1>9, <1>10, <1>11
    DEF Consistent, Typed, a, t, qx, e

(* ~ClientProxy closes the socket and removes two events.                   *)
LEMMA ReleaseFacts ==
  ASSUME NEW s \in Table, NEW c, NEW p
  PROVE  /\ Release(s, c, p) \in Table
         /\ Release(s, c, p).reg
              = s.reg \ {BufEvent(p.fd, c), FileEvent(p.loader, c, p.loads)}
         /\ Release(s, c, p).armed \subseteq s.armed \ (Fd \cap {p.fd})
         /\ \A m \in Fd : Release(s, c, p).desc[m]
                            = IF m = p.fd THEN Free ELSE s.desc[m]
  <1> DEFINE t1 == Close(s, p.fd)
             t2 == EventDel(t1, BufEvent(p.fd, c))
             t3 == EventDel(t2, FileEvent(p.loader, c, p.loads))
  <1>1. /\ t1 \in Table /\ t1.reg = s.reg /\ t1.armed = s.armed \ (Fd \cap {p.fd})
        /\ \A m \in Fd : t1.desc[m] = IF m = p.fd THEN Free ELSE s.desc[m]
    BY CloseFacts
  <1>2. /\ t2 \in Table /\ t2.reg = t1.reg \ {BufEvent(p.fd, c)}
        /\ t2.armed \subseteq t1.armed /\ t2.desc = t1.desc
    BY <1>1, EventDelFacts
  <1>3. /\ t3 \in Table /\ t3.reg = t2.reg \ {FileEvent(p.loader, c, p.loads)}
        /\ t3.armed \subseteq t2.armed /\ t3.desc = t2.desc
    BY <1>2, EventDelFacts
  <1>4. Release(s, c, p) = t3
    BY DEF Release
  <1> HIDE DEF t1, t2, t3
  <1> QED
    BY <1>1, <1>2, <1>3, <1>4

(* What is left of a deleted proxy.                                         *)
LEMMA DeletedFacts ==
  ASSUME NEW p \in Proxy
  PROVE  /\ Deleted(p) \in Proxy
         /\ Deleted(p).obj = "deleted" /\ Deleted(p).loads = p.loads
         /\ Deleted(p).loader = 0
  <1>1. <<>> \in Seq(Line) /\ <<>> \in Seq(Item)
    BY EmptySeq
  <1> QED
    BY <1>1 DEF Deleted, NoProxy, Proxy

(* The deletion of a live proxy.                                            *)
LEMMA DestroyConsistent ==
  ASSUME NEW s, NEW px, NEW jb, Consistent(s, px, jb),
         NEW c \in Conn, px[c].obj = "live"
  PROVE  Consistent(Release(s, c, px[c]), [px EXCEPT ![c] = Deleted(px[c])], jb)
  <1> DEFINE p == px[c]
             t == Release(s, c, p)
             qx == [px EXCEPT ![c] = Deleted(p)]
  <1>1. s \in Table /\ px \in [Conn -> Proxy] /\ jb \in [Conn -> Job] /\ p \in Proxy
    BY DEF Consistent, Typed
  <1>2. p.fd \in Fd /\ s.desc[p.fd] = Sock(c) /\ p.loads \in Nat
    BY <1>1 DEF Consistent, SocketsOk, Proxy
  <1>3. /\ t \in Table
        /\ t.reg = s.reg \ {BufEvent(p.fd, c), FileEvent(p.loader, c, p.loads)}
        /\ t.armed \subseteq s.armed \ {p.fd}
        /\ \A m \in Fd : t.desc[m] = IF m = p.fd THEN Free ELSE s.desc[m]
    BY <1>1, <1>2, ReleaseFacts
  <1>4. /\ qx \in [Conn -> Proxy]
        /\ qx[c].obj = "deleted" /\ qx[c].loads = p.loads /\ qx[c].loader = 0
        /\ \A d \in Conn : d # c => qx[d] = px[d]
    BY <1>1, DeletedFacts
  <1> HIDE DEF p, t, qx
  <1>5. ProxiesOk(qx)
    BY <1>4 DEF Consistent, ProxiesOk
  <1>6. SocketsOk(t, qx)
    <2> SUFFICES ASSUME NEW d \in Conn
                 PROVE  /\ qx[d].obj = "live" =>
                             qx[d].fd \in Fd /\ t.desc[qx[d].fd] = Sock(d)
                        /\ \A m \in Fd : t.desc[m] = Sock(d) =>
                             qx[d].obj = "live" /\ qx[d].fd = m
      BY DEF SocketsOk
    <2>1. Free # Sock(d)
      BY DescDistinct
    <2>2. CASE d = c
      BY <2>1, <2>2, <1>3, <1>4 DEF Consistent, SocketsOk, p
    <2>3. CASE d # c
      <3>1. Sock(c) # Sock(d) /\ qx[d] = px[d]
        BY <2>3, <1>4, DescDistinct
      <3> QED
        BY <2>1, <3>1, <1>2, <1>3 DEF Consistent, SocketsOk
    <2> QED
      BY <2>2, <2>3
  <1>7. DupsOk(t, jb)
    BY <1>2, <1>3, DescDistinct, DupsKept DEF Consistent
  <1>8. WatchOk(t)
    <2> SUFFICES ASSUME NEW f \in t.reg, f.fd \in t.armed PROVE Names(t, f)
      BY DEF WatchOk
    <2>1. f \in s.reg /\ f.fd \in Fd /\ f.fd \in s.armed /\ f.fd # p.fd
      BY <1>1, <1>3, RegTyped
    <2>2. Names(s, f) /\ t.desc[f.fd] = s.desc[f.fd]
      BY <2>1, <1>3 DEF Consistent, WatchOk
    <2> QED
      BY <2>2, NamesKept
  <1>9. EventsOk(t, qx)
    <2> SUFFICES ASSUME NEW f \in t.reg
                 PROVE  /\ f.id <= qx[f.conn].loads
                        /\ qx[f.conn].loads <= 1 =>
                             /\ qx[f.conn].obj = "live"
                             /\ f.fd = IF f.id = 0 THEN qx[f.conn].fd
                                                   ELSE qx[f.conn].loader
      BY DEF EventsOk
    <2>1. /\ f \in s.reg /\ f \in Event /\ f.conn \in Conn /\ f.id \in Nat
          /\ f # BufEvent(p.fd, c) /\ f # FileEvent(p.loader, c, p.loads)
      BY <1>1, <1>3, RegTyped
    <2>2. CASE f.conn # c
      BY <2>1, <2>2, <1>4 DEF Consistent, EventsOk
    <2>3. CASE f.conn = c
      <3>1. f.id <= p.loads
        BY <2>1, <2>3 DEF Consistent, EventsOk, p
      <3>2. ASSUME p.loads <= 1 PROVE FALSE
        <4>1. f.fd = IF f.id = 0 THEN p.fd ELSE p.loader
          BY <2>1, <2>3, <3>2 DEF Consistent, EventsOk, p
        <4>2. f.id = 0 \/ f.id = p.loads
          BY <2>1, <3>1, <3>2, <1>2
        <4>3. f = [fd |-> f.fd, conn |-> c, id |-> f.id]
          BY <2>1, <2>3 DEF Event
        <4> QED
          BY <2>1, <4>1, <4>2, <4>3 DEF BufEvent, FileEvent
      <3> QED
        BY <2>3, <3>1, <3>2, <1>4
    <2> QED
      BY <2>2, <2>3
  <1> QED
    BY <1>1, <1>3, <1>4, <1>5, <1>6, <1>7, <1>8, <1>9 DEF Consistent, Typed, p, t, qx

(* A callback that only changes a live proxy's input, output or flags.      *)
LEMMA ProxyConsistent ==
  ASSUME NEW s, NEW px, NEW jb, Consistent(s, px, jb),
         NEW c \in Conn, NEW q \in Proxy,
         q.obj = px[c].obj, q.fd = px[c].fd,
         q.loader = px[c].loader, q.loads = px[c].loads
  PROVE  Consistent(s, [px EXCEPT ![c] = q], jb)
  <1> DEFINE qx == [px EXCEPT ![c] = q]
  <1>1. /\ qx \in [Conn -> Proxy]
        /\ \A d \in Conn : /\ qx[d].obj = px[d].obj /\ qx[d].fd = px[d].fd
                           /\ qx[d].loader = px[d].loader /\ qx[d].loads = px[d].loads
    BY DEF Consistent, Typed
  <1>2. \A e \in s.reg : e.conn \in Conn
    BY RegTyped DEF Consistent, Typed
  <1> HIDE DEF qx
  <1>3. ProxiesOk(qx) /\ SocketsOk(s, qx)
    BY <1>1 DEF Consistent, ProxiesOk, SocketsOk
  <1>4. EventsOk(s, qx)
    BY <1>1, <1>2 DEF Consistent, EventsOk
  <1> QED
    BY <1>1, <1>3, <1>4 DEF Consistent, Typed, qx

(* load_static_content: the file, when open() gave a number, its event, and *)
(* the proxy's new loader.                                                  *)
LEMMA LoadConsistent ==
  ASSUME NEW s, NEW px, NEW jb, Consistent(s, px, jb),
         NEW c \in Conn, px[c].obj = "live", NEW k \in Nat,
         NEW n, n = NoFd \/ (n \in Fd /\ s.desc[n] = Free),
         NEW q \in Proxy, q.obj = "live", q.fd = px[c].fd,
         q.loader = n, q.loads = px[c].loads + 1
  PROVE  Consistent(EventAdd(Assign(s, n, File(c, k)), FileEvent(n, c, q.loads)),
                    [px EXCEPT ![c] = q], jb)
  <1> DEFINE a == Assign(s, n, File(c, k))
             e == FileEvent(n, c, q.loads)
             t == EventAdd(a, e)
             qx == [px EXCEPT ![c] = q]
  <1>1. /\ s \in Table /\ px \in [Conn -> Proxy] /\ jb \in [Conn -> Job]
        /\ px[c].loads \in Nat /\ q.loads \in Nat /\ q.loads > 0
    BY DEF Consistent, Typed, Proxy
  <1>2. File(c, k) \in Desc
    BY DescKinds
  <1>3. /\ a \in Table /\ a.reg = s.reg
        /\ \A m \in Fd : a.desc[m] = IF m = n THEN File(c, k) ELSE s.desc[m]
    BY <1>1, <1>2, AssignFacts
  <1>4. e.fd = n /\ e.conn = c /\ e.id = q.loads /\ (n \in Fd => e \in Event)
    BY <1>1 DEF FileEvent, Event
  <1>5. /\ t \in Table /\ t.desc = a.desc
        /\ t.reg \subseteq s.reg \cup {f \in {e} : f.fd \in Fd}
    BY <1>3, <1>4, EventAddFacts
  <1>6. /\ qx \in [Conn -> Proxy] /\ qx[c] = q
        /\ \A d \in Conn : d # c => qx[d] = px[d]
    BY <1>1
  <1>7. WatchOk(t)
    <2>1. CASE n \in Fd
      <3>1. Names(a, e)
        BY <2>1, <1>1, <1>3, <1>4, DescDistinct DEF Names, IsFileOf
      <3> QED
        BY <2>1, <1>1, <1>2, <1>4, <3>1, NotNumbers, AddedWatch DEF Consistent
    <2>2. CASE n \notin Fd
      BY <2>2, <1>4 DEF Consistent, EventAdd, Assign
    <2> QED
      BY <2>1, <2>2
  <1> HIDE DEF a, t, qx, e
  <1>8. ProxiesOk(qx)
    BY <1>1, <1>6 DEF Consistent, ProxiesOk
  <1>9. \A d \in Conn : File(c, k) # Sock(d) /\ File(c, k) # Dup(d)
                        /\ Free # Sock(d) /\ Free # Dup(d)
    BY DEF File, Sock, Dup, Free
  <1>10. \A m \in Fd : \/ t.desc[m] = s.desc[m]
                       \/ s.desc[m] = Free /\ t.desc[m] = File(c, k)
    BY <1>3, <1>5, NotNumbers
  <1>11. SocketsOk(t, qx)
    <2>1. SocketsOk(t, px)
      BY <1>9, <1>10, SocketsKept DEF Consistent
    <2>2. \A d \in Conn : qx[d].obj = px[d].obj /\ qx[d].fd = px[d].fd
      BY <1>6
    <2> QED
      BY <2>1, <2>2 DEF SocketsOk
  <1>12. DupsOk(t, jb)
    BY <1>9, <1>10, DupsKept DEF Consistent
  <1>13. EventsOk(t, qx)
    <2> SUFFICES ASSUME NEW f \in t.reg
                 PROVE  /\ f.id <= qx[f.conn].loads
                        /\ qx[f.conn].loads <= 1 =>
                             /\ qx[f.conn].obj = "live"
                             /\ f.fd = IF f.id = 0 THEN qx[f.conn].fd
                                                   ELSE qx[f.conn].loader
      BY DEF EventsOk
    <2>1. CASE f = e
      BY <2>1, <1>1, <1>4, <1>6
    <2>2. CASE f \in s.reg
      <3>1. f.conn \in Conn /\ f.id \in Nat
        BY <2>2, <1>1, RegTyped
      <3>2. CASE f.conn # c
        BY <2>2, <3>1, <3>2, <1>6 DEF Consistent, EventsOk
      <3>3. CASE f.conn = c
        <4>1. f.id <= px[c].loads /\ (px[c].loads <= 1 =>
                f.fd = IF f.id = 0 THEN px[c].fd ELSE px[c].loader)
          BY <2>2, <3>3 DEF Consistent, EventsOk
        <4> QED
          BY <3>1, <3>3, <4>1, <1>1, <1>6
      <3> QED
        BY <3>2, <3>3
    <2> QED
      BY <2>1, <2>2, <1>5
  <1> QED
    BY <1>1, <1>5, <1>6, <1>7, <1>8, <1>11, <1>12, <1>13
    DEF Consistent, Typed, a, t, qx, e

(* A file that is read, and closed or advanced.                             *)
LEMMA FileConsistent ==
  ASSUME NEW s, NEW px, NEW jb, Consistent(s, px, jb), NEW c \in Conn, NEW n,
         IsFileOf(s, n, c), NEW t, t = Close(s, n) \/ \E k \in Nat : t = Assign(s, n, File(c, k))
  PROVE  Consistent(t, px, jb)
  <1>1. s \in Table /\ n \in Fd /\ s.desc[n].what = "file" /\ s.desc[n].conn = c
    BY DEF Consistent, Typed, IsFileOf
  <1>2. /\ t \in Table /\ t.reg = s.reg /\ t.armed \subseteq s.armed
        /\ \A m \in Fd : m # n => t.desc[m] = s.desc[m]
        /\ \/ t.desc[n] = Free /\ n \notin t.armed
           \/ t.desc[n].what = "file" /\ t.desc[n].conn = c
    <2>1. CASE t = Close(s, n)
      BY <2>1, <1>1, CloseFacts
    <2>2. ASSUME NEW k \in Nat, t = Assign(s, n, File(c, k))
          PROVE  /\ t \in Table /\ t.reg = s.reg /\ t.armed = s.armed
                 /\ \A m \in Fd : m # n => t.desc[m] = s.desc[m]
                 /\ t.desc[n].what = "file" /\ t.desc[n].conn = c
      <3>1. File(c, k) \in Desc /\ File(c, k).what = "file" /\ File(c, k).conn = c
        BY DescKinds, DescDistinct
      <3> QED
        BY <2>2, <3>1, <1>1, AssignFacts
    <2> QED
      BY <2>1, <2>2
  <1>3. \A d \in Conn : /\ s.desc[n] # Sock(d) /\ s.desc[n] # Dup(d)
                        /\ t.desc[n] # Sock(d) /\ t.desc[n] # Dup(d)
    BY <1>1, <1>2 DEF Sock, Dup, Free
  <1>4. SocketsOk(t, px) /\ DupsOk(t, jb)
    BY <1>2, <1>3, SocketsKept, DupsKept DEF Consistent
  <1>5. WatchOk(t)
    <2> SUFFICES ASSUME NEW f \in t.reg, f.fd \in t.armed PROVE Names(t, f)
      BY DEF WatchOk
    <2>1. Names(s, f) /\ f.fd \in Fd
      BY <1>1, <1>2, RegTyped DEF Consistent, WatchOk
    <2>2. CASE f.fd # n
      BY <2>1, <2>2, <1>2, NamesKept
    <2>3. CASE f.fd = n
      BY <2>1, <2>3, <1>1, <1>2, NamedKinds DEF Names, IsFileOf
    <2> QED
      BY <2>2, <2>3
  <1> QED
    BY <1>2, <1>4, <1>5 DEF Consistent, Typed, EventsOk

(* dup() for the library's thread, when it gave a number.                   *)
LEMMA DupConsistent ==
  ASSUME NEW s, NEW px, NEW jb, Consistent(s, px, jb),
         NEW c \in Conn, jb[c].state = "none",
         NEW n, n = NoFd \/ (n \in Fd /\ s.desc[n] = Free),
         NEW j \in Job, j.fd = n, j.state \in {"running", "refused"}
  PROVE  Consistent(Assign(s, n, Dup(c)), px, [jb EXCEPT ![c] = j])
  <1> DEFINE t == Assign(s, n, Dup(c))
             qb == [jb EXCEPT ![c] = j]
  <1>1. s \in Table /\ jb \in [Conn -> Job] /\ Dup(c) \in Desc
    BY DescKinds DEF Consistent, Typed
  <1>2. /\ t \in Table /\ t.reg = s.reg /\ t.armed = s.armed
        /\ \A m \in Fd : t.desc[m] = IF m = n THEN Dup(c) ELSE s.desc[m]
    BY <1>1, AssignFacts
  <1>3. /\ qb \in [Conn -> Job] /\ qb[c] = j
        /\ \A d \in Conn : d # c => qb[d] = jb[d]
    BY <1>1
  <1> HIDE DEF t, qb
  <1>4. SocketsOk(t, px)
    <2>1. \A d \in Conn : Free # Sock(d) /\ Dup(c) # Sock(d)
      BY DescDistinct
    <2> QED
      BY <2>1, <1>2, NotNumbers, SocketsKept DEF Consistent
  <1>5. DupsOk(t, qb)
    <2> SUFFICES ASSUME NEW d \in Conn
                 PROVE  /\ qb[d].state \in {"running", "written"} /\ qb[d].fd \in Fd
                             => t.desc[qb[d].fd] = Dup(d)
                        /\ \A m \in Fd : t.desc[m] = Dup(d) =>
                             /\ qb[d].fd = m
                             /\ qb[d].state \in {"running", "written", "refused"}
      BY DEF DupsOk
    <2>1. Free # Dup(d)
      BY DescDistinct
    <2>2. CASE d = c
      BY <2>1, <2>2, <1>2, <1>3, NotNumbers DEF Consistent, DupsOk
    <2>3. CASE d # c
      <3>1. Dup(c) # Dup(d) /\ qb[d] = jb[d]
        BY <2>3, <1>3, DescDistinct
      <3> QED
        BY <2>1, <3>1, <1>2, NotNumbers DEF Consistent, DupsOk
    <2> QED
      BY <2>2, <2>3
  <1>6. WatchOk(t)
    <2> SUFFICES ASSUME NEW f \in t.reg, f.fd \in t.armed PROVE Names(t, f)
      BY DEF WatchOk
    <2>1. Names(s, f) /\ f.fd \in Fd
      BY <1>1, <1>2, RegTyped DEF Consistent, WatchOk
    <2>2. f.fd # n
      BY <2>1, NamedKinds, NotNumbers
    <2> QED
      BY <2>1, <2>2, <1>2, NamesKept
  <1> QED
    BY <1>2, <1>3, <1>4, <1>5, <1>6 DEF Consistent, Typed, EventsOk, t, qb

(* A job that changes and keeps its number, or starts without one.          *)
LEMMA JobConsistent ==
  ASSUME NEW s, NEW px, NEW jb, Consistent(s, px, jb), NEW c \in Conn, NEW j \in Job,
         \/ jb[c].state = "none" /\ j.state = "running" /\ j.fd \notin Fd
         \/ jb[c].state = "none" /\ j.state = "refused"
         \/ jb[c].state = "running" /\ j.state = "written" /\ j.fd = jb[c].fd
  PROVE  Consistent(s, px, [jb EXCEPT ![c] = j])
  <1> DEFINE qb == [jb EXCEPT ![c] = j]
  <1>1. /\ qb \in [Conn -> Job] /\ qb[c] = j
        /\ \A d \in Conn : d # c => qb[d] = jb[d]
    BY DEF Consistent, Typed
  <1> HIDE DEF qb
  <1>2. DupsOk(s, qb)
    BY <1>1 DEF Consistent, DupsOk
  <1> QED
    BY <1>1, <1>2 DEF Consistent, Typed, qb

(* The end of a job closes its number, if it has one.                       *)
LEMMA ExitConsistent ==
  ASSUME NEW s, NEW px, NEW jb, Consistent(s, px, jb), NEW c \in Conn,
         jb[c].state \in {"running", "written"}, NEW j \in Job, j.state = "exited"
  PROVE  Consistent(Close(s, jb[c].fd), px, [jb EXCEPT ![c] = j])
  <1> DEFINE n == jb[c].fd
             t == Close(s, n)
             qb == [jb EXCEPT ![c] = j]
  <1>1. s \in Table /\ jb \in [Conn -> Job] /\ (n \in Fd => s.desc[n] = Dup(c))
    BY DEF Consistent, Typed, DupsOk
  <1>2. /\ t \in Table /\ t.reg = s.reg /\ t.armed = s.armed \ (Fd \cap {n})
        /\ \A m \in Fd : t.desc[m] = IF m = n THEN Free ELSE s.desc[m]
    BY <1>1, CloseFacts
  <1>3. /\ qb \in [Conn -> Job] /\ qb[c] = j
        /\ \A d \in Conn : d # c => qb[d] = jb[d]
    BY <1>1
  <1> HIDE DEF n, t, qb
  <1>4. SocketsOk(t, px)
    <2>1. \A d \in Conn : Free # Sock(d) /\ Dup(c) # Sock(d)
      BY DescDistinct
    <2> QED
      BY <2>1, <1>1, <1>2, SocketsKept DEF Consistent
  <1>5. DupsOk(t, qb)
    <2> SUFFICES ASSUME NEW d \in Conn
                 PROVE  /\ qb[d].state \in {"running", "written"} /\ qb[d].fd \in Fd
                             => t.desc[qb[d].fd] = Dup(d)
                        /\ \A m \in Fd : t.desc[m] = Dup(d) =>
                             /\ qb[d].fd = m
                             /\ qb[d].state \in {"running", "written", "refused"}
      BY DEF DupsOk
    <2>1. Free # Dup(d)
      BY DescDistinct
    <2>2. CASE d = c
      BY <2>1, <2>2, <1>2, <1>3 DEF Consistent, DupsOk, n
    <2>3. CASE d # c
      <3>1. Dup(c) # Dup(d) /\ qb[d] = jb[d]
        BY <2>3, <1>3, DescDistinct
      <3> QED
        BY <2>1, <3>1, <1>1, <1>2 DEF Consistent, DupsOk
    <2> QED
      BY <2>2, <2>3
  <1>6. WatchOk(t)
    <2> SUFFICES ASSUME NEW f \in t.reg, f.fd \in t.armed PROVE Names(t, f)
      BY DEF WatchOk
    <2>1. Names(s, f) /\ f.fd \in Fd /\ f.fd # n
      BY <1>1, <1>2, RegTyped DEF Consistent, WatchOk
    <2> QED
      BY <2>1, <1>2, NamesKept
  <1> QED
    BY <1>2, <1>3, <1>4, <1>5, <1>6 DEF Consistent, Typed, EventsOk, n, t, qb

-----------------------------------------------------------------------------
(* The invariant of the specification, restated.                            *)

ConnTyped == link \in [Conn -> Link]

ServerTyped ==
  server \in {"up", "sigpipe", "freed", "stray", "nullcall", "thrown", "overrun"}

Parts ==
  /\ Consistent(os, proxy, job)
  /\ JobsFollow(proxy, job)
  /\ ConnTyped
  /\ ServerTyped
  /\ FaultNeedsSecondLoad

(* The restatement says the same.                                           *)
LEMMA InvIsParts == Inv <=> Parts
  <1>1. SocketOwned <=> SocketsOk(os, proxy)
    BY DEF SocketOwned, SocketsOk, Live
  <1>2. DupOwned <=> DupsOk(os, job)
    BY DEF DupOwned, DupsOk
  <1>3. WatchSound <=> WatchOk(os)
    BY DEF WatchSound, WatchOk, Names
  <1>4. Bookkeeping /\ EventsOwned
          <=> ProxiesOk(proxy) /\ JobsFollow(proxy, job) /\ EventsOk(os, proxy)
    BY DEF Bookkeeping, EventsOwned, EventsOk, ProxiesOk, JobsFollow, Live
  <1>5. TypeOK <=> Typed(os, proxy, job) /\ ConnTyped /\ ServerTyped
    BY DEF TypeOK, Typed, ConnTyped, ServerTyped
  <1> QED
    BY <1>1, <1>2, <1>3, <1>4, <1>5 DEF Inv, Parts, Consistent

(* Nothing is open, registered or running at the start.                     *)
LEMMA InitParts == Init => Parts
  <1> SUFFICES ASSUME Init PROVE Parts
    OBVIOUS
  <1>1. <<>> \in Seq(Line) /\ <<>> \in Seq(Item)
    BY EmptySeq
  <1>2. EmptyTable \in Table /\ \A n \in Fd : EmptyTable.desc[n] = Free
    BY DescKinds DEF EmptyTable, Table, Desc, Free
  <1>3. NoProxy \in Proxy /\ NoJob \in Job
    BY <1>1 DEF NoProxy, Proxy, NoJob, Job
  <1>4. /\ os = EmptyTable /\ proxy = [c \in Conn |-> NoProxy]
        /\ job = [c \in Conn |-> NoJob] /\ server = "up"
    BY DEF Init
  <1>5. Typed(os, proxy, job)
    BY <1>2, <1>3, <1>4 DEF Typed
  <1>6. /\ \A c \in Conn : /\ proxy[c].obj = "none" /\ proxy[c].loads = 0
                           /\ proxy[c].loader = 0 /\ job[c].state = "none"
        /\ os.reg = {}
    BY <1>4 DEF NoProxy, NoJob, EmptyTable
  <1>7. \A c \in Conn, n \in Fd : os.desc[n] # Sock(c) /\ os.desc[n] # Dup(c)
    BY <1>2, <1>4, DescDistinct
  <1>8. Consistent(os, proxy, job) /\ JobsFollow(proxy, job)
    BY <1>5, <1>6, <1>7 DEF Consistent, ProxiesOk, SocketsOk, DupsOk, WatchOk,
                            EventsOk, JobsFollow
  <1>9. ConnTyped
    <2>1. Scripts \subseteq Seq(Seq(Line)) /\ FileSizes \subseteq Nat
      <3>1. Seq(Line) \ {<<>>} \subseteq Seq(Line)
        OBVIOUS
      <3>2. Seq(Seq(Line) \ {<<>>}) \subseteq Seq(Seq(Line))
        BY <3>1, SeqMonotonic
      <3> QED
        BY <3>2, ServerAssumption
    <2>2. /\ DOMAIN link = Conn /\ link = [c \in Conn |-> link[c]]
          /\ \A c \in Conn : link[c] \in [peer : {"new"}, segs : Scripts, said : {0},
                                          sock : {<<>>}, stream : {<<>>}, size : FileSizes]
      BY DEF Init
    <2>3. ASSUME NEW c \in Conn
          PROVE  link[c] \in Link
      <3>1. link[c] \in [peer : {"new"}, segs : Scripts, said : {0},
                         sock : {<<>>}, stream : {<<>>}, size : FileSizes]
        BY <2>2
      <3>2. <<>> \in Seq(Line) /\ <<>> \in Seq(Item)
        OBVIOUS
      <3>3. PICK g \in Scripts, z \in FileSizes :
              link[c] = [peer |-> "new", segs |-> g, said |-> 0, sock |-> <<>>,
                         stream |-> <<>>, size |-> z]
        BY <3>1
      <3>4. g \in Seq(Seq(Line)) /\ z \in Nat
        BY <2>1
      <3> QED
        BY <3>2, <3>3, <3>4 DEF Link
    <2> QED
      BY <2>2, <2>3 DEF ConnTyped
  <1> QED
    BY <1>4, <1>8, <1>9 DEF Parts, ServerTyped, FaultNeedsSecondLoad

-----------------------------------------------------------------------------
(* One lemma per action: it keeps the invariant.                            *)

(* p is the proxy of c but for what it has read, queued or finished.        *)
SameProxy(p, c) ==
  /\ p \in Proxy
  /\ p.obj = proxy[c].obj /\ p.fd = proxy[c].fd
  /\ p.loader = proxy[c].loader /\ p.loads = proxy[c].loads

(* The deletion of a proxy of which a callback holds a changed copy.        *)
LEMMA DestroyCopy ==
  ASSUME NEW s, NEW jb, Consistent(s, proxy, jb), NEW c \in Conn, Live(c),
         NEW p, SameProxy(p, c)
  PROVE  Consistent(Release(s, c, p), [proxy EXCEPT ![c] = Deleted(p)], jb)
  <1> DEFINE px == [proxy EXCEPT ![c] = p]
  <1>1. Consistent(s, px, jb)
    BY ProxyConsistent DEF SameProxy
  <1>2. proxy \in [Conn -> Proxy]
    BY DEF Consistent, Typed
  <1>3. px[c] = p /\ p.obj = "live"
    BY <1>2 DEF SameProxy, Live
  <1>4. Consistent(Release(s, c, px[c]), [px EXCEPT ![c] = Deleted(px[c])], jb)
    BY <1>1, <1>3, DestroyConsistent
  <1>5. [px EXCEPT ![c] = Deleted(p)] = [proxy EXCEPT ![c] = Deleted(p)]
    BY <1>2
  <1> HIDE DEF px
  <1> QED
    BY <1>3, <1>4, <1>5

(* A proxy that is deleted, or changed while it lives, has no earlier job.  *)
LEMMA JobsFollowKept ==
  ASSUME proxy \in [Conn -> Proxy], JobsFollow(proxy, job), NEW c \in Conn, NEW q,
         q.obj = "deleted" \/ job[c].state = "none"
  PROVE  JobsFollow([proxy EXCEPT ![c] = q], job)
  BY DEF JobsFollow

(* The members load_static_content changes.                                 *)
LEMMA LoadedFacts ==
  ASSUME NEW p \in Proxy, NEW n \in Fd \cup {0, NoFd}
  PROVE  LET q == [p EXCEPT !.loader = n, !.loads = @ + 1]
         IN  /\ q \in Proxy /\ q.obj = p.obj /\ q.fd = p.fd /\ q.loader = n
             /\ q.loads = p.loads + 1
  <1>1. p.loads \in Nat
    BY DEF Proxy
  <1>2. PICK k \in Nat : k = p.loads + 1
    BY <1>1
  <1> DEFINE r == [p EXCEPT !.loader = n]
  <1>3. r \in Proxy /\ r.obj = p.obj /\ r.fd = p.fd /\ r.loader = n
    BY DEF Proxy
  <1>4. [p EXCEPT !.loader = n, !.loads = @ + 1] = [r EXCEPT !.loads = k]
    BY <1>2
  <1> HIDE DEF r
  <1>5. LET q == [r EXCEPT !.loads = k]
        IN  q \in Proxy /\ q.obj = r.obj /\ q.fd = r.fd /\ q.loader = r.loader /\ q.loads = k
    BY <1>3 DEF Proxy
  <1> QED
    BY <1>2, <1>3, <1>4, <1>5

(* A static line.                                                           *)
LEMMA StaticStep ==
  ASSUME Parts, NEW c \in Conn, Live(c), NEW p, SameProxy(p, c),
         NEW n, n = NoFd \/ (n \in Fd /\ os.desc[n] = Free),
         LoadStatic(c, p, n)
  PROVE  Consistent(os', proxy', job) /\ JobsFollow(proxy', job)
  <1> DEFINE q == [p EXCEPT !.loader = n, !.loads = @ + 1]
             s == EventAdd(Assign(os, n, File(c, link[c].size)),
                           FileEvent(n, c, p.loads + 1))
             px == [proxy EXCEPT ![c] = q]
  <1>1. /\ Consistent(os, proxy, job) /\ proxy \in [Conn -> Proxy]
        /\ JobsFollow(proxy, job) /\ link[c].size \in Nat
    BY DEF Parts, Consistent, Typed, ConnTyped, Link
  <1>2. /\ q \in Proxy /\ q.obj = "live" /\ q.fd = proxy[c].fd /\ q.loader = n
        /\ q.loads = proxy[c].loads + 1 /\ q.loads = p.loads + 1
    <2>1. n \in Fd \cup {0, NoFd} /\ p \in Proxy
      BY DEF SameProxy
    <2> HIDE DEF q
    <2>2. /\ q \in Proxy /\ q.obj = p.obj /\ q.fd = p.fd /\ q.loader = n
          /\ q.loads = p.loads + 1
      BY <2>1, LoadedFacts DEF q
    <2> QED
      BY <2>2 DEF SameProxy, Live
  <1>3. IF q.finished THEN Destroy(s, c, q) ELSE os' = s /\ proxy' = px
    BY DEF LoadStatic
  <1>4. px[c] = q /\ [px EXCEPT ![c] = Deleted(q)] = [proxy EXCEPT ![c] = Deleted(q)]
    BY <1>1
  <1>5. job[c].state = "none"
    BY <1>1 DEF JobsFollow, Live
  <1>6. proxy[c].obj = "live"
    BY DEF Live
  <1>7. Consistent(s, px, job)
    <2> HIDE DEF q
    <2> QED
      BY <1>1, <1>2, <1>6, LoadConsistent
  <1> HIDE DEF q, s, px
  <1>8. CASE q.finished
    <2>1. os' = Release(s, c, q) /\ proxy' = [proxy EXCEPT ![c] = Deleted(q)]
      BY <1>3, <1>8 DEF Destroy
    <2>2. Consistent(Release(s, c, px[c]), [px EXCEPT ![c] = Deleted(px[c])], job)
      BY <1>2, <1>4, <1>7, DestroyConsistent
    <2> QED
      BY <2>1, <2>2, <1>1, <1>4, <1>5, JobsFollowKept
  <1>9. CASE ~q.finished
    BY <1>1, <1>3, <1>5, <1>7, <1>9, JobsFollowKept DEF px
  <1> QED
    BY <1>8, <1>9

(* A job replaced behind a deleted proxy.                                   *)
LEMMA JobsFollowDeleted ==
  ASSUME NEW px \in [Conn -> Proxy], NEW jb \in [Conn -> Job], JobsFollow(px, jb),
         NEW c \in Conn, NEW q, q.obj = "deleted", NEW j
  PROVE  JobsFollow([px EXCEPT ![c] = q], [jb EXCEPT ![c] = j])
  BY DEF JobsFollow

(* bad_request queues a status line and a reason and sets finished.         *)
LEMMA RefusedProxy ==
  ASSUME NEW c \in Conn, NEW p, SameProxy(p, c), NEW code \in Nat
  PROVE  SameProxy(BadRequest(p, code), c)
  <1>1. p \in Proxy /\ p.out \in Seq(Item)
    BY DEF SameProxy, Proxy
  <1>2. <<Status(code), Text("reason")>> \in Seq(Item)
    BY DEF Status, Text, Item
  <1> DEFINE o == p.out \o <<Status(code), Text("reason")>>
  <1>3. o \in Seq(Item)
    BY <1>1, <1>2, ConcatProperties
  <1>4. BadRequest(p, code) = [p EXCEPT !.finished = TRUE, !.out = o]
    BY DEF BadRequest
  <1> HIDE DEF o
  <1> QED
    BY <1>3, <1>4 DEF SameProxy, Proxy

(* A dynamic line in CGI mode.                                              *)
LEMMA CgiStep ==
  ASSUME Parts, NEW c \in Conn, Live(c), NEW p, SameProxy(p, c),
         NEW ok \in BOOLEAN, LoadCgi(c, p, ok)
  PROVE  Consistent(os', proxy', job') /\ JobsFollow(proxy', job')
  <1>1. /\ Consistent(os, proxy, job) /\ JobsFollow(proxy, job)
        /\ proxy \in [Conn -> Proxy] /\ job \in [Conn -> Job]
    BY DEF Parts, Consistent, Typed
  <1>2. job[c].state = "none" /\ job[c] \in Job
    BY <1>1 DEF JobsFollow, Live
  <1> DEFINE r == BadRequest(p, 500)
  <1>r. SameProxy(r, c)
    BY RefusedProxy
  <1> HIDE DEF r
  <1>3. PICK j \in Job, q \in {p, r} :
          /\ job' = [job EXCEPT ![c] = j]
          /\ \/ j.state = "running" /\ j.fd \notin Fd
             \/ j.state = "refused"
          /\ Destroy(os, c, q)
    <2> DEFINE held == {d \in Conn : \E n \in Fd : os.desc[n] = Sock(d)}
               j1 == [state |-> "running", ok |-> ok, fd |-> 0, held |-> held]
               j2 == [job[c] EXCEPT !.state = "refused"]
    <2>1. j1 \in Job /\ j1.state = "running" /\ j1.fd \notin Fd
      BY NotNumbers DEF Job
    <2>2. j2 \in Job /\ j2.state = "refused"
      BY <1>2 DEF Job
    <2>3. \/ job' = [job EXCEPT ![c] = j1] /\ Destroy(os, c, p)
          \/ job' = [job EXCEPT ![c] = j2] /\ Destroy(os, c, r)
      BY DEF LoadCgi, r
    <2> HIDE DEF j1, j2
    <2> QED
      BY <2>1, <2>2, <2>3
  <1>4. /\ os' = Release(os, c, q) /\ proxy' = [proxy EXCEPT ![c] = Deleted(q)]
        /\ SameProxy(q, c)
    BY <1>3, <1>r DEF Destroy
  <1>5. Consistent(os', proxy', job)
    BY <1>1, <1>4, DestroyCopy
  <1>6. Consistent(os', proxy', job')
    BY <1>2, <1>3, <1>5, JobConsistent
  <1>7. JobsFollow(proxy', job')
    BY <1>1, <1>3, <1>4, DeletedFacts, JobsFollowDeleted DEF SameProxy
  <1> QED
    BY <1>6, <1>7

(* A dynamic line in library mode, when the library can be called.          *)
LEMMA SoStep ==
  ASSUME Parts, NEW c \in Conn, Live(c), NEW p, SameProxy(p, c),
         NEW ok \in BOOLEAN, LoadSo(c, p, ok), ok
  PROVE  Consistent(os', proxy', job') /\ JobsFollow(proxy', job')
  <1>1. /\ Consistent(os, proxy, job) /\ JobsFollow(proxy, job)
        /\ os \in Table /\ proxy \in [Conn -> Proxy] /\ job \in [Conn -> Job]
    BY DEF Parts, Consistent, Typed
  <1>2. job[c].state = "none"
    BY <1>1 DEF JobsFollow, Live
  <1> DEFINE r == BadRequest(p, 500)
  <1>r. SameProxy(r, c)
    BY RefusedProxy
  <1> HIDE DEF r
  <1>3. PICK n \in Allocated(os), st \in {"running", "refused"}, q \in {p, r} :
          /\ Destroy(Assign(os, n, Dup(c)), c, q)
          /\ job' = [job EXCEPT ![c] = [NoJob EXCEPT !.state = st, !.fd = n]]
    <2> DEFINE jobIs(n, st) == job' = [job EXCEPT ![c] = [NoJob EXCEPT !.state = st, !.fd = n]]
    <2>1. PICK n \in Allocated(os) :
            \/ /\ Destroy(Assign(os, n, Dup(c)), c, p)
               /\ \E st \in {"running", "refused"} : jobIs(n, st)
            \/ Destroy(Assign(os, n, Dup(c)), c, r) /\ jobIs(n, "refused")
      BY DEF LoadSo, r
    <2>2. PICK st \in {"running", "refused"}, q \in {p, r} :
            Destroy(Assign(os, n, Dup(c)), c, q) /\ jobIs(n, st)
      <3> HIDE DEF jobIs
      <3> QED
        BY <2>1
    <2> QED
      BY <2>2
  <1> DEFINE j == [NoJob EXCEPT !.state = st, !.fd = n]
             s == Assign(os, n, Dup(c))
  <1>4. n = NoFd \/ (n \in Fd /\ os.desc[n] = Free)
    BY <1>1, AllocatedFree
  <1>5. j \in Job /\ j.fd = n /\ j.state \in {"running", "refused"}
    BY <1>4 DEF NoJob, Job
  <1>6. job' = [job EXCEPT ![c] = j]
    BY <1>3
  <1> HIDE DEF j
  <1>7. Consistent(s, proxy, job')
    BY <1>1, <1>2, <1>4, <1>5, <1>6, DupConsistent
  <1>8. /\ os' = Release(s, c, q) /\ proxy' = [proxy EXCEPT ![c] = Deleted(q)]
        /\ SameProxy(q, c)
    BY <1>3, <1>r DEF Destroy
  <1> HIDE DEF s
  <1>9. Consistent(os', proxy', job')
    BY <1>7, <1>8, DestroyCopy
  <1>10. JobsFollow(proxy', job')
    BY <1>1, <1>6, <1>8, DeletedFacts, JobsFollowDeleted DEF SameProxy
  <1> QED
    BY <1>9, <1>10

(* The client's and the kernel's record of a connection changes.            *)
LEMMA LinkKept ==
  ASSUME ConnTyped, NEW c \in Conn, NEW l \in Link, link' = [link EXCEPT ![c] = l]
  PROVE  ConnTyped'
  BY DEF ConnTyped

(* Steps that change neither tables, proxies nor jobs.                      *)
LEMMA TablesKept ==
  ASSUME Consistent(os, proxy, job), JobsFollow(proxy, job), UNCHANGED <<os, proxy, job>>
  PROVE  Consistent(os', proxy', job') /\ JobsFollow(proxy', job')
  OBVIOUS

(* While the server runs on, no callback has gone wrong.                    *)
LEMMA NoFaultYet ==
  ASSUME server' \notin {"freed", "stray"}
  PROVE  FaultNeedsSecondLoad'
  BY DEF FaultNeedsSecondLoad

(* accept_callback.                                                         *)
LEMMA AcceptStep ==
  ASSUME Parts, server = "up", NEW c \in Conn, AcceptCallback(c)
  PROVE  Parts'
  <1>1. /\ Consistent(os, proxy, job) /\ JobsFollow(proxy, job) /\ ConnTyped
        /\ os \in Table /\ proxy \in [Conn -> Proxy]
    BY DEF Parts, Consistent, Typed
  <1>2. /\ proxy[c].obj = "none" /\ UNCHANGED <<link, job, server>>
    BY DEF AcceptCallback
  <1>3. PICK n \in LowestFree(os) :
          /\ os' = EventAdd(Assign(os, n, Sock(c)), BufEvent(n, c))
          /\ proxy' = [proxy EXCEPT ![c] = NewProxy(n)]
    BY DEF AcceptCallback
  <1>4. n \in Fd /\ os.desc[n] = Free
    BY DEF LowestFree, IsFree
  <1>5. Consistent(os', proxy', job)
    BY <1>1, <1>2, <1>3, <1>4, AcceptConsistent
  <1>6. job[c].state = "none"
    BY <1>1, <1>2 DEF JobsFollow
  <1>7. JobsFollow(proxy', job)
    BY <1>1, <1>3, <1>6, JobsFollowKept
  <1>8. server' = "up" /\ ConnTyped' /\ job' = job
    BY <1>1, <1>2 DEF ConnTyped
  <1> QED
    BY <1>5, <1>7, <1>8, NoFaultYet DEF Parts, ServerTyped

(* What client_read_callback takes from the input leaves a proxy that       *)
(* differs in its input only.                                               *)
LEMMA InputTaken ==
  ASSUME NEW c \in Conn, proxy[c] \in Proxy, NEW in \in Seq(Line), NEW i \in Taken(in)
  PROVE  SameProxy([proxy[c] EXCEPT !.input = SubSeq(in, i + 1, Len(in))], c)
  <1>1. i \in Nat /\ Len(in) \in Nat /\ i <= Len(in)
    BY LenProperties DEF Taken
  <1>2. SubSeq(in, i + 1, Len(in)) \in Seq(Line)
    BY <1>1, SubSeqProperties
  <1> QED
    BY <1>2 DEF SameProxy, Proxy

(* client_read_callback.                                                    *)
LEMMA ReadStep ==
  ASSUME Parts, server = "up", NEW c \in Conn, ReadCallback(c)
  PROVE  Parts'
  <1>1. /\ Consistent(os, proxy, job) /\ JobsFollow(proxy, job) /\ ConnTyped
        /\ os \in Table /\ proxy \in [Conn -> Proxy] /\ proxy[c] \in Proxy
        /\ link[c] \in Link /\ Live(c)
    BY DEF Parts, Consistent, Typed, ConnTyped, ReadCallback, Polled
  <1> DEFINE in == proxy[c].input \o link[c].sock
  <1>2. in \in Seq(Line)
    BY <1>1, ConcatProperties DEF Proxy, Link
  <1>3. ConnTyped'
    <2> DEFINE l == [link[c] EXCEPT !.sock = <<>>]
    <2>1. l \in Link
      BY <1>1, EmptySeq DEF Link
    <2>2. link' = [link EXCEPT ![c] = l]
      BY DEF ReadCallback
    <2> QED
      BY <1>1, <2>1, <2>2, LinkKept
  <1>4. PICK i \in Taken(in) :
          LET line == FirstLine(in, i)
              p    == [proxy[c] EXCEPT !.input = SubSeq(in, i + 1, Len(in))]
          IN  \/ /\ line \in DOMAIN Refusal
                 /\ proxy' = [proxy EXCEPT ![c] = BadRequest(p, Refusal[line])]
                 /\ UNCHANGED <<os, job, server>>
              \/ /\ line \in DOMAIN Fatal
                 /\ server' = Fatal[line]
                 /\ UNCHANGED <<os, proxy, job>>
              \/ /\ line = "static"
                 /\ \E n \in Allocated(os) : LoadStatic(c, p, n)
                 /\ UNCHANGED <<job, server>>
              \/ /\ line = "unreadable"
                 /\ LoadStatic(c, p, NoFd)
                 /\ UNCHANGED <<job, server>>
              \/ /\ line \in {"dynamic", "broken"}
                 /\ Mode = "cgi"
                 /\ LoadCgi(c, p, line = "dynamic")
              \/ /\ line \in {"dynamic", "broken"}
                 /\ Mode = "so"
                 /\ LoadSo(c, p, line = "dynamic")
    BY DEF ReadCallback
  <1> DEFINE line == FirstLine(in, i)
             p    == [proxy[c] EXCEPT !.input = SubSeq(in, i + 1, Len(in))]
  <1>5. SameProxy(p, c)
    BY <1>1, <1>2, InputTaken
  <1> HIDE DEF in, line, p
  <1>6. CASE line \in DOMAIN Refusal /\ proxy' = [proxy EXCEPT ![c] = BadRequest(p, Refusal[line])]
             /\ UNCHANGED <<os, job, server>>
    <2> DEFINE q == BadRequest(p, Refusal[line])
    <2>1. Refusal[line] \in Nat
      BY <1>6 DEF Refusal
    <2>2. SameProxy(q, c)
      BY <1>5, <2>1, RefusedProxy
    <2> HIDE DEF q
    <2>3. Consistent(os, [proxy EXCEPT ![c] = q], job)
      BY <1>1, <2>2, ProxyConsistent DEF SameProxy
    <2>4. job[c].state = "none"
      BY <1>1 DEF JobsFollow, Live
    <2>5. JobsFollow([proxy EXCEPT ![c] = q], job)
      BY <1>1, <2>4, JobsFollowKept
    <2> QED
      BY <1>3, <1>6, <2>3, <2>5, NoFaultYet DEF Parts, ServerTyped, q
  <1>7. ASSUME NEW n, n = NoFd \/ (n \in Fd /\ os.desc[n] = Free), LoadStatic(c, p, n),
               UNCHANGED <<job, server>>
        PROVE  Parts'
    <2>1. Consistent(os', proxy', job) /\ JobsFollow(proxy', job)
      BY <1>1, <1>5, <1>7, StaticStep
    <2> QED
      BY <1>3, <1>7, <2>1, NoFaultYet DEF Parts, ServerTyped
  <1>8. CASE LoadCgi(c, p, line = "dynamic")
    <2>1. Consistent(os', proxy', job') /\ JobsFollow(proxy', job')
      BY <1>1, <1>5, <1>8, CgiStep
    <2>2. server' = server
      BY <1>8 DEF LoadCgi
    <2> QED
      BY <1>3, <2>1, <2>2, NoFaultYet DEF Parts, ServerTyped
  <1>9. CASE LoadSo(c, p, line = "dynamic")
    <2>1. CASE line = "dynamic"
      <3>1. Consistent(os', proxy', job') /\ JobsFollow(proxy', job')
        BY <1>1, <1>5, <1>9, <2>1, SoStep
      <3>2. server' = server
        BY <1>9, <2>1 DEF LoadSo
      <3> QED
        BY <1>3, <3>1, <3>2, NoFaultYet DEF Parts, ServerTyped
    <2>2. CASE line # "dynamic"
      <3>1. server' = "nullcall" /\ UNCHANGED <<os, proxy, job>>
        BY <1>9, <2>2 DEF LoadSo
      <3> QED
        BY <1>1, <1>3, <3>1, TablesKept, NoFaultYet DEF Parts, ServerTyped
    <2> QED
      BY <2>1, <2>2
  <1>10. CASE line \in {"static", "unreadable"} /\ UNCHANGED <<job, server>>
              /\ \E n \in Allocated(os) \cup {NoFd} : LoadStatic(c, p, n)
    BY <1>1, <1>7, <1>10, AllocatedFree
  <1>11. CASE line \in DOMAIN Fatal /\ server' = Fatal[line] /\ UNCHANGED <<os, proxy, job>>
    <2>1. server' \in {"thrown", "overrun"}
      BY <1>11 DEF Fatal
    <2> QED
      BY <1>1, <1>3, <1>11, <2>1, TablesKept, NoFaultYet DEF Parts, ServerTyped
  <1> QED
    BY <1>4, <1>6, <1>8, <1>9, <1>10, <1>11 DEF line, p

(* A changed copy of a live proxy takes its place.                          *)
LEMMA ReplacedProxy ==
  ASSUME NEW s, Consistent(s, proxy, job), JobsFollow(proxy, job),
         NEW c \in Conn, Live(c), NEW q, SameProxy(q, c)
  PROVE  /\ Consistent(s, [proxy EXCEPT ![c] = q], job)
         /\ JobsFollow([proxy EXCEPT ![c] = q], job)
  <1>1. Consistent(s, [proxy EXCEPT ![c] = q], job)
    BY ProxyConsistent DEF SameProxy
  <1>2. job[c].state = "none" /\ proxy \in [Conn -> Proxy]
    BY DEF JobsFollow, Live, Consistent, Typed
  <1> QED
    BY <1>1, <1>2, JobsFollowKept

(* The deletion of a proxy of which a callback holds a changed copy, as a   *)
(* step.                                                                    *)
LEMMA DestroyStep ==
  ASSUME Consistent(os, proxy, job), JobsFollow(proxy, job),
         NEW c \in Conn, Live(c), NEW p, SameProxy(p, c), Destroy(os, c, p)
  PROVE  Consistent(os', proxy', job) /\ JobsFollow(proxy', job)
  <1>1. os' = Release(os, c, p) /\ proxy' = [proxy EXCEPT ![c] = Deleted(p)]
    BY DEF Destroy
  <1>2. proxy \in [Conn -> Proxy] /\ Deleted(p).obj = "deleted"
    BY DeletedFacts DEF SameProxy, Consistent, Typed
  <1> QED
    BY <1>1, <1>2, DestroyCopy, JobsFollowKept

(* What file_write_callback changes in the proxy.                           *)
LEMMA BlockQueued ==
  ASSUME NEW c \in Conn, proxy[c] \in Proxy, NEW fin \in BOOLEAN,
         NEW k, NEW upto \in Int
  PROVE  SameProxy([proxy[c] EXCEPT !.first = FALSE, !.finished = fin,
                      !.out = @ \o Heading(proxy[c])
                                \o (IF k > 0 THEN <<Chunk(upto)>> ELSE <<>>)], c)
  <1>0. /\ <<Status(200)>> \in Seq(Item) /\ <<Chunk(upto)>> \in Seq(Item)
        /\ <<>> \in Seq(Item)
    BY EmptySeq DEF Status, Chunk, Item
  <1>1. Heading(proxy[c]) \in Seq(Item)
    BY <1>0 DEF Heading
  <1>2. (IF k > 0 THEN <<Chunk(upto)>> ELSE <<>>) \in Seq(Item)
    BY <1>0
  <1>3. proxy[c].out \in Seq(Item)
    BY DEF Proxy
  <1> DEFINE o == proxy[c].out \o Heading(proxy[c])
                    \o (IF k > 0 THEN <<Chunk(upto)>> ELSE <<>>)
  <1>4. o \in Seq(Item)
    BY <1>1, <1>2, <1>3, ConcatProperties
  <1> HIDE DEF o
  <1>5. SameProxy([proxy[c] EXCEPT !.first = FALSE, !.finished = fin, !.out = o], c)
    BY <1>4 DEF SameProxy, Proxy
  <1> QED
    BY <1>5 DEF o

(* file_write_callback.                                                     *)
LEMMA FileWriteStep ==
  ASSUME Parts, server = "up", NEW e \in os.reg, FileWriteCallback(e)
  PROVE  Parts'
  <1> DEFINE c == e.conn
             p == proxy[c]
             left == os.desc[p.loader].left
             k == Smaller(Block, left)
             s == ReadFile(c, p.loader, k)
             upto == link[c].size - left + k
             fin == p.finished \/ ~CanRead(s, p.loader)
             q == [p EXCEPT !.first = FALSE, !.finished = fin,
                     !.out = @ \o Heading(p) \o (IF k > 0 THEN <<Chunk(upto)>> ELSE <<>>)]
  <1>1. /\ Consistent(os, proxy, job) /\ JobsFollow(proxy, job) /\ ConnTyped
        /\ os \in Table /\ proxy \in [Conn -> Proxy] /\ link \in [Conn -> Link]
    BY DEF Parts, Consistent, Typed, ConnTyped
  <1>2. c \in Conn
    BY <1>1, RegTyped
  <1>3. /\ Live(c) /\ IsFileOf(os, p.loader, c) /\ os' = s
        /\ proxy' = [proxy EXCEPT ![c] = q]
        /\ UNCHANGED <<link, job, server>>
    BY DEF FileWriteCallback
  <1>4. p \in Proxy /\ p.finished \in BOOLEAN /\ link[c].size \in Nat
    BY <1>1, <1>2 DEF Proxy, Link
  <1>5. left \in Nat
    <2>1. p.loader \in Fd /\ os.desc[p.loader] \in Desc /\ os.desc[p.loader].what = "file"
      BY <1>1, <1>3 DEF IsFileOf, Table
    <2> QED
      BY <2>1 DEF Desc, Free
  <1>6. k \in Nat /\ left - k \in Nat /\ upto \in Int
    BY <1>4, <1>5, ServerAssumption DEF Smaller
  <1>7. s = Close(os, p.loader) \/ s = Assign(os, p.loader, File(c, left - k))
    BY DEF ReadFile
  <1>8. Consistent(s, proxy, job)
    <2> HIDE DEF s, k, left
    <2> QED
      BY <1>1, <1>2, <1>3, <1>6, <1>7, FileConsistent
  <1>9. SameProxy(q, c)
    <2> DEFINE f == fin
    <2>1. f \in BOOLEAN
      BY <1>4
    <2> HIDE DEF f, k, upto
    <2>2. SameProxy([p EXCEPT !.first = FALSE, !.finished = f,
                       !.out = @ \o Heading(p) \o (IF k > 0 THEN <<Chunk(upto)>> ELSE <<>>)], c)
      BY <1>2, <1>4, <1>6, <2>1, BlockQueued
    <2> QED
      BY <2>2 DEF f
  <1> HIDE DEF q, s, c
  <1>10. Consistent(os', proxy', job') /\ JobsFollow(proxy', job')
    BY <1>1, <1>2, <1>3, <1>8, <1>9, ReplacedProxy
  <1>11. ConnTyped' /\ server' = "up"
    BY <1>1, <1>3 DEF ConnTyped
  <1> QED
    BY <1>10, <1>11, NoFaultYet DEF Parts, ServerTyped

(* client_write_callback and the writes before it.                          *)
LEMMA WriteStep ==
  ASSUME Parts, server = "up", NEW c \in Conn, WriteCallback(c)
  PROVE  Parts'
  <1>1. /\ Consistent(os, proxy, job) /\ JobsFollow(proxy, job) /\ ConnTyped
        /\ os \in Table /\ proxy \in [Conn -> Proxy] /\ proxy[c] \in Proxy
        /\ link[c] \in Link /\ Live(c) /\ UNCHANGED <<job, server>>
    BY DEF Parts, Consistent, Typed, ConnTyped, WriteCallback
  <1>2. proxy[c].out \in Seq(Item) /\ link[c].stream \in Seq(Item)
    BY <1>1 DEF Proxy, Link
  <1>3. PICK k \in 1..Len(proxy[c].out) :
          LET p == [proxy[c] EXCEPT !.out = SubSeq(@, k + 1, Len(@))]
          IN  /\ link' = [link EXCEPT ![c].stream = @ \o SubSeq(proxy[c].out, 1, k)]
              /\ IF k = Len(proxy[c].out) THEN Drained(c, p)
                 ELSE os' = os /\ proxy' = [proxy EXCEPT ![c] = p]
    BY DEF WriteCallback
  <1> DEFINE rest == SubSeq(proxy[c].out, k + 1, Len(proxy[c].out))
             sent == SubSeq(proxy[c].out, 1, k)
             p == [proxy[c] EXCEPT !.out = rest]
  <1>4. rest \in Seq(Item) /\ sent \in Seq(Item)
    <2>1. Len(proxy[c].out) \in Nat /\ k \in Nat /\ k <= Len(proxy[c].out) /\ 1 <= k
      BY <1>2, LenProperties
    <2> QED
      BY <1>2, <2>1, SubSeqProperties
  <1>5. SameProxy(p, c)
    <2> HIDE DEF rest
    <2> QED
      BY <1>1, <1>4 DEF SameProxy, Proxy
  <1>6. ConnTyped'
    <2> DEFINE str == link[c].stream \o sent
               l == [link[c] EXCEPT !.stream = str]
    <2>1. str \in Seq(Item)
      BY <1>2, <1>4, ConcatProperties
    <2>2. link' = [link EXCEPT ![c] = l]
      BY <1>3
    <2> HIDE DEF str
    <2>3. l \in Link
      BY <1>1, <2>1 DEF Link
    <2> QED
      BY <1>1, <2>2, <2>3, LinkKept
  <1>7. Destroy(os, c, p) \/ (os' = os /\ proxy' = [proxy EXCEPT ![c] = p])
    BY <1>3 DEF Drained
  <1> HIDE DEF p
  <1>8. Consistent(os', proxy', job') /\ JobsFollow(proxy', job')
    BY <1>1, <1>5, <1>7, DestroyStep, ReplacedProxy
  <1> QED
    BY <1>1, <1>6, <1>8, NoFaultYet DEF Parts, ServerTyped

(* client_error_callback.                                                   *)
LEMMA ErrorStep ==
  ASSUME Parts, server = "up", NEW c \in Conn, ErrorCallback(c)
  PROVE  Parts'
  <1>1. /\ Consistent(os, proxy, job) /\ JobsFollow(proxy, job) /\ ConnTyped
        /\ proxy[c] \in Proxy /\ Live(c) /\ Destroy(os, c, proxy[c])
        /\ UNCHANGED <<link, job, server>>
    BY DEF Parts, Consistent, Typed, ErrorCallback, Polled
  <1>2. SameProxy(proxy[c], c)
    BY <1>1 DEF SameProxy
  <1>3. Consistent(os', proxy', job') /\ JobsFollow(proxy', job')
    BY <1>1, <1>2, DestroyStep
  <1> QED
    BY <1>1, <1>3, NoFaultYet DEF Parts, ServerTyped, ConnTyped

(* An event whose connection loaded at most one file finds the proxy alive  *)
(* and the loader's file under its own number: it takes a second load for a *)
(* callback to go wrong.                                                    *)
LEMMA CrashStep ==
  ASSUME Parts, server = "up", Crash
  PROVE  Parts'
  <1>1. /\ Consistent(os, proxy, job) /\ JobsFollow(proxy, job) /\ ConnTyped
        /\ os \in Table /\ proxy \in [Conn -> Proxy]
        /\ UNCHANGED <<os, proxy, link, job>>
    BY DEF Parts, Consistent, Typed, Crash
  <1>2. Consistent(os', proxy', job') /\ JobsFollow(proxy', job') /\ ConnTyped'
    BY <1>1, TablesKept DEF ConnTyped
  <1>3. ServerTyped'
    BY DEF Crash, ServerTyped
  <1>4. ASSUME NEW e \in os.reg, FileReadable(e),
               ~Live(e.conn) \/ ~IsFileOf(os, proxy[e.conn].loader, e.conn)
        PROVE  \E c \in Conn : proxy[c].loads > 1
    <2>1. e.conn \in Conn /\ e.id \in Nat /\ e.id > 0 /\ e.fd \in os.armed
      BY <1>1, <1>4, RegTyped DEF FileReadable
    <2>2. proxy[e.conn].loads \in Nat
      BY <1>1, <2>1 DEF Proxy
    <2>3. IsFileOf(os, e.fd, e.conn)
      BY <1>1, <2>1 DEF Consistent, WatchOk, Names
    <2>4. ~(proxy[e.conn].loads <= 1)
      BY <1>1, <1>4, <2>1, <2>3 DEF Consistent, EventsOk, Live
    <2> QED
      BY <2>1, <2>2, <2>4
  <1>5. FaultNeedsSecondLoad'
    <2>1. CASE server' = "sigpipe"
      BY <2>1, NoFaultYet
    <2>2. CASE \E e \in os.reg : FileReadable(e)
                 /\ (~Live(e.conn) \/ ~IsFileOf(os, proxy[e.conn].loader, e.conn))
      <3>1. \E c \in Conn : proxy[c].loads > 1
        BY <1>4, <2>2
      <3> QED
        BY <1>1, <3>1 DEF FaultNeedsSecondLoad
    <2> QED
      BY <2>1, <2>2 DEF Crash
  <1> QED
    BY <1>2, <1>3, <1>5 DEF Parts

(* The gateway program's output.                                            *)
LEMMA JobWriteStep ==
  ASSUME Parts, server = "up", NEW c \in Conn, JobWrite(c)
  PROVE  Parts'
  <1> DEFINE j == [job[c] EXCEPT !.state = "written"]
  <1>1. /\ Consistent(os, proxy, job) /\ JobsFollow(proxy, job) /\ ConnTyped
        /\ job \in [Conn -> Job] /\ link \in [Conn -> Link]
        /\ job[c].state = "running" /\ job' = [job EXCEPT ![c] = j]
        /\ UNCHANGED <<os, proxy>>
    BY DEF Parts, Consistent, Typed, ConnTyped, JobWrite
  <1>2. j \in Job /\ j.state = "written" /\ j.fd = job[c].fd
    BY <1>1 DEF Job
  <1> HIDE DEF j
  <1>3. Consistent(os', proxy', job')
    BY <1>1, <1>2, JobConsistent
  <1>4. JobsFollow(proxy', job')
    BY <1>1 DEF JobsFollow
  <1>5. server' \in {"up", "sigpipe"}
    BY DEF JobWrite
  <1>6. ConnTyped'
    <2>1. ASSUME NEW d \in Receivers(c), NEW r \in Result(c),
                 link' = [link EXCEPT ![d].stream = Append(@, r)]
          PROVE  ConnTyped'
      <3> DEFINE str == Append(link[d].stream, r)
                 l == [link[d] EXCEPT !.stream = str]
      <3>1. d \in Conn /\ r \in Item
        BY DEF Receivers, Result, Text, Item
      <3>2. link[d] \in Link /\ link[d].stream \in Seq(Item)
        BY <1>1, <3>1 DEF Link
      <3>3. str \in Seq(Item)
        BY <3>1, <3>2, AppendProperties
      <3>4. link' = [link EXCEPT ![d] = l]
        BY <2>1
      <3> HIDE DEF str
      <3>5. l \in Link
        BY <3>2, <3>3 DEF Link
      <3> QED
        BY <1>1, <3>1, <3>4, <3>5, LinkKept
    <2>2. CASE UNCHANGED link
      BY <1>1, <2>2 DEF ConnTyped
    <2> QED
      BY <2>1, <2>2 DEF JobWrite
  <1> QED
    BY <1>3, <1>4, <1>5, <1>6, NoFaultYet DEF Parts, ServerTyped

(* The end of the gateway program.                                          *)
LEMMA JobExitStep ==
  ASSUME Parts, server = "up", NEW c \in Conn, JobExit(c)
  PROVE  Parts'
  <1> DEFINE j == [job[c] EXCEPT !.state = "exited", !.held = {}]
  <1>1. /\ Consistent(os, proxy, job) /\ JobsFollow(proxy, job) /\ ConnTyped
        /\ job \in [Conn -> Job] /\ job[c].state \in {"running", "written"}
        /\ job' = [job EXCEPT ![c] = j] /\ os' = Close(os, job[c].fd)
        /\ UNCHANGED <<proxy, link, server>>
    BY DEF Parts, Consistent, Typed, JobExit
  <1>2. j \in Job /\ j.state = "exited"
    <2> DEFINE i == [job[c] EXCEPT !.state = "exited"]
    <2>1. i \in Job /\ i.state = "exited" /\ j = [i EXCEPT !.held = {}]
      BY <1>1 DEF Job
    <2> HIDE DEF i
    <2>2. [i EXCEPT !.held = {}] \in Job /\ [i EXCEPT !.held = {}].state = i.state
      BY <2>1 DEF Job
    <2> QED
      BY <2>1, <2>2
  <1> HIDE DEF j
  <1>3. Consistent(os', proxy', job')
    BY <1>1, <1>2, ExitConsistent
  <1>4. JobsFollow(proxy', job')
    BY <1>1 DEF JobsFollow
  <1> QED
    BY <1>1, <1>3, <1>4, NoFaultYet DEF Parts, ServerTyped, ConnTyped

(* The client connects, sends or leaves.                                    *)
LEMMA ClientStep ==
  ASSUME Parts, server = "up", NEW c \in Conn, Connect(c) \/ Send(c) \/ Leave(c)
  PROVE  Parts'
  <1>1. /\ Consistent(os, proxy, job) /\ JobsFollow(proxy, job) /\ ConnTyped
        /\ link[c] \in Link /\ UNCHANGED <<os, proxy, job, server>>
    BY DEF Parts, ConnTyped, Connect, Send, Leave
  <1>2. ConnTyped'
    <2>1. ASSUME NEW how \in {"open", "fin", "gone"}, link' = [link EXCEPT ![c].peer = how]
          PROVE  ConnTyped'
      <3>1. [link[c] EXCEPT !.peer = how] \in Link
        BY <1>1 DEF Link
      <3>2. link' = [link EXCEPT ![c] = [link[c] EXCEPT !.peer = how]]
        BY <2>1
      <3> QED
        BY <1>1, <3>1, <3>2, LinkKept
    <2>2. CASE Send(c)
      <3> DEFINE k == link[c].said + 1
                 more == link[c].sock \o link[c].segs[k]
                 l == [link[c] EXCEPT !.sock = more, !.said = k]
      <3>1. /\ link[c].segs \in Seq(Seq(Line)) /\ k \in 1..Len(link[c].segs)
            /\ link[c].sock \in Seq(Line) /\ k \in Nat
        BY <1>1, <2>2 DEF Link, Send
      <3>5. link[c].segs[k] \in Seq(Line)
        BY <3>1, ElementOfSeq
      <3>2. more \in Seq(Line)
        BY <3>1, <3>5, ConcatProperties
      <3>3. link' = [link EXCEPT ![c] = l]
        BY <2>2 DEF Send
      <3> HIDE DEF more, k
      <3>4. l \in Link
        BY <1>1, <3>1, <3>2 DEF Link
      <3> QED
        BY <1>1, <3>3, <3>4, LinkKept
    <2>3. CASE Connect(c)
      BY <2>1, <2>3 DEF Connect
    <2>4. CASE Leave(c)
      BY <2>1, <2>4, ServerAssumption DEF Leave
    <2> QED
      BY <2>2, <2>3, <2>4
  <1>3. Consistent(os', proxy', job') /\ JobsFollow(proxy', job')
    BY <1>1, TablesKept
  <1> QED
    BY <1>1, <1>2, <1>3, NoFaultYet DEF Parts, ServerTyped

-----------------------------------------------------------------------------
(* The theorems.                                                            *)

(* Every step keeps the invariant.                                          *)
LEMMA NextParts == Parts /\ [Next]_vars => Parts'
  <1> SUFFICES ASSUME Parts, [Next]_vars PROVE Parts'
    OBVIOUS
  <1>1. CASE UNCHANGED vars
    BY <1>1 DEF vars, Parts, ConnTyped, ServerTyped, FaultNeedsSecondLoad
  <1>2. CASE Next
    <2>1. server = "up"
      BY <1>2 DEF Next
    <2>2. CASE Client
      BY <2>1, <2>2, ClientStep DEF Client
    <2>3. CASE Callback
      BY <2>1, <2>3, AcceptStep, ReadStep, WriteStep, ErrorStep, FileWriteStep DEF Callback
    <2>4. CASE Crash
      BY <2>1, <2>4, CrashStep
    <2>5. CASE Worker
      BY <2>1, <2>5, JobWriteStep, JobExitStep DEF Worker
    <2> QED
      BY <1>2, <2>2, <2>3, <2>4, <2>5 DEF Next
  <1> QED
    BY <1>1, <1>2

(* The inductive invariant holds in every reachable state.                  *)
THEOREM Invariance == Spec => []Inv
  <1>1. Init => Parts
    BY InitParts
  <1>2. Parts /\ [Next]_vars => Parts'
    BY NextParts
  <1>3. Parts => Inv
    BY InvIsParts
  <1> QED
    BY <1>1, <1>2, <1>3, PTL DEF Spec

(* The variables keep the shape the code gives them.                        *)
THEOREM TypeCorrect == Spec => []TypeOK
  <1>1. Inv => TypeOK
    BY DEF Inv
  <1> QED
    BY <1>1, Invariance, PTL

(* No connection is leaked, shared or closed under another proxy.           *)
THEOREM SocketsOwned == Spec => []SocketOwned
  <1>1. Inv => SocketOwned
    BY DEF Inv
  <1> QED
    BY <1>1, Invariance, PTL

(* No thread writes to, or closes, a number that is not its own dup.        *)
THEOREM DupsOwned == Spec => []DupOwned
  <1>1. Inv => DupOwned
    BY DEF Inv
  <1> QED
    BY <1>1, Invariance, PTL

(* An event that outlived its descriptor never fires for the number's next  *)
(* owner.                                                                   *)
THEOREM WatchesSound == Spec => []WatchSound
  <1>1. Inv => WatchSound
    BY DEF Inv
  <1> QED
    BY <1>1, Invariance, PTL

(* A connection with at most one load leaves no event behind its proxy.     *)
THEOREM NoEventLeftBehind == Spec => []EventsOwned
  <1>1. Inv => EventsOwned
    BY DEF Inv
  <1> QED
    BY <1>1, Invariance, PTL

(* Undefined behaviour in the reactor takes a connection that loads twice.  *)
THEOREM FaultsNeedSecondLoad == Spec => []FaultNeedsSecondLoad
  <1>1. Inv => FaultNeedsSecondLoad
    BY DEF Inv
  <1> QED
    BY <1>1, Invariance, PTL

-----------------------------------------------------------------------------
(* With clients that send one segment, reset nothing and say no lethal      *)
(* line, the reactor stays up: a file is loaded at most once for each,      *)
(* because the callback takes all that has arrived and comes again only for *)
(* more, and every line it takes is one its client said.                    *)

(* A client that sends one segment has a file loaded only after that        *)
(* segment was read.                                                        *)
OneRequest(c) ==
  Len(link[c].segs) = 1 =>
    /\ link[c].said \in {0, 1}
    /\ link[c].sock # <<>> => link[c].said = 1
    /\ proxy[c].loads > 0 =>
         proxy[c].loads = 1 /\ link[c].said = 1 /\ link[c].sock = <<>>

(* The signal needs a connection that was reset.                            *)
PipeNeedsReset == server = "sigpipe" => \E c \in Conn : link[c].peer = "gone"

(* Line l is in one of the segments.                                        *)
Says(segs, l) == \E g \in DOMAIN segs : \E i \in DOMAIN segs[g] : segs[g][i] = l

AllSaid(t, segs) == \A i \in DOMAIN t : Says(segs, t[i])

(* What has arrived for c, read or not, was said by c.                      *)
Heard(c) == AllSaid(proxy[c].input, link[c].segs) /\ AllSaid(link[c].sock, link[c].segs)

ByLine == {"nullcall", "thrown", "overrun"}

(* A call through a null pointer, an exception or an overrun needs its line.*)
LethalSaid == server \in ByLine => \E c \in Conn : \E l \in Lethal : Says(link[c].segs, l)

UpInv ==
  /\ \A c \in Conn : OneRequest(c)
  /\ PipeNeedsReset
  /\ \A c \in Conn : Heard(c)
  /\ LethalSaid

LoadsKept ==
  \A d \in Conn : /\ proxy'[d].loads = proxy[d].loads
                  /\ proxy'[d].input \in {proxy[d].input, <<>>}

(* What a step may do to the connections without letting go of UpInv.       *)
SegsKept == \A d \in Conn : /\ link'[d].segs = link[d].segs
                            /\ link'[d].said = link[d].said
                            /\ link'[d].sock = link[d].sock
                            /\ link[d].peer = "gone" => link'[d].peer = "gone"

(* Steps that load nothing and send nothing keep the first part.            *)
LEMMA KeptRequests ==
  ASSUME \A c \in Conn : OneRequest(c), LoadsKept, SegsKept
  PROVE  \A c \in Conn : OneRequest(c)'
  BY DEF OneRequest, LoadsKept, SegsKept

(* Two sequences of said lines, joined.                                     *)
LEMMA JoinedSaid ==
  ASSUME NEW S, NEW a \in Seq(S), NEW b \in Seq(S), NEW segs,
         AllSaid(a, segs), AllSaid(b, segs)
  PROVE  AllSaid(a \o b, segs)
  <1> SUFFICES ASSUME NEW i \in DOMAIN (a \o b) PROVE Says(segs, (a \o b)[i])
    BY DEF AllSaid
  <1>1. /\ a \o b \in Seq(S) /\ Len(a \o b) = Len(a) + Len(b)
        /\ Len(a) \in Nat /\ Len(b) \in Nat /\ i \in 1..Len(a \o b)
        /\ DOMAIN a = 1..Len(a) /\ DOMAIN b = 1..Len(b)
    BY ConcatProperties, LenProperties
  <1>2. CASE i <= Len(a)
    <2>1. i \in DOMAIN a /\ (a \o b)[i] = a[i]
      BY <1>1, <1>2, ConcatProperties
    <2> QED
      BY <2>1 DEF AllSaid
  <1>3. CASE i > Len(a)
    <2>1. i - Len(a) \in DOMAIN b /\ (a \o b)[i] = b[i - Len(a)]
      BY <1>1, <1>3, ConcatProperties
    <2> QED
      BY <2>1 DEF AllSaid
  <1> QED
    BY <1>1, <1>2, <1>3

(* What has arrived was said, while nothing more arrives.                   *)
LEMMA KeptHeard ==
  ASSUME \A c \in Conn : Heard(c), LoadsKept, SegsKept
  PROVE  \A c \in Conn : Heard(c)'
  <1> SUFFICES ASSUME NEW c \in Conn PROVE Heard(c)'
    OBVIOUS
  <1>1. /\ proxy'[c].input \in {proxy[c].input, <<>>}
        /\ link'[c].segs = link[c].segs /\ link'[c].sock = link[c].sock
    BY DEF LoadsKept, SegsKept
  <1>2. Heard(c)
    OBVIOUS
  <1> QED
    BY <1>1, <1>2 DEF Heard, AllSaid

(* Nor does what was said when the process had already ended by it.         *)
LEMMA KeptLethal ==
  ASSUME LethalSaid, SegsKept, server' \in ByLine => server' = server
  PROVE  LethalSaid'
  <1> SUFFICES ASSUME server \in ByLine
               PROVE  \E c \in Conn : \E l \in Lethal : Says(link'[c].segs, l)
    BY DEF LethalSaid
  <1>1. PICK c \in Conn, l \in Lethal : Says(link[c].segs, l)
    BY DEF LethalSaid
  <1>2. link'[c].segs = link[c].segs
    BY DEF SegsKept
  <1>3. Says(link'[c].segs, l)
    BY <1>1, <1>2
  <1> QED
    BY <1>3

(* The deletion of a proxy leaves its number of loads.                      *)
LEMMA DestroyLoads ==
  ASSUME proxy \in [Conn -> Proxy], NEW s, NEW c \in Conn, NEW p, Destroy(s, c, p)
  PROVE  /\ proxy'[c].loads = p.loads /\ proxy'[c].input = <<>>
         /\ \A d \in Conn \ {c} : proxy'[d] = proxy[d]
  BY DEF Destroy, Deleted, NoProxy

(* A static load counts one more.                                           *)
LEMMA StaticLoads ==
  ASSUME proxy \in [Conn -> Proxy], NEW c \in Conn, NEW p \in Proxy, NEW n,
         LoadStatic(c, p, n)
  PROVE  /\ proxy'[c].loads = p.loads + 1
         /\ proxy'[c].input \in {p.input, <<>>}
         /\ \A d \in Conn \ {c} : proxy'[d] = proxy[d]
  <1> DEFINE q == [p EXCEPT !.loader = n, !.loads = @ + 1]
  <1>1. q.loads = p.loads + 1 /\ q.input = p.input
    BY DEF Proxy
  <1>2. \/ \E s : Destroy(s, c, q)
        \/ proxy' = [proxy EXCEPT ![c] = q]
    BY DEF LoadStatic
  <1> HIDE DEF q
  <1> QED
    BY <1>1, <1>2, DestroyLoads

(* client_read_callback: one load at most, and everything that arrived is   *)
(* taken out of the socket.                                                 *)
LEMMA ReadLoads ==
  ASSUME Inv, NEW c \in Conn, ReadCallback(c)
  PROVE  /\ proxy'[c].loads \in {proxy[c].loads, proxy[c].loads + 1}
         /\ \A d \in Conn \ {c} : proxy'[d] = proxy[d]
         /\ link[c].sock # <<>> /\ link' = [link EXCEPT ![c].sock = <<>>]
  <1>1. /\ proxy \in [Conn -> Proxy] /\ link \in [Conn -> Link]
        /\ proxy[c] \in Proxy /\ link[c] \in Link
    BY DEF Inv, TypeOK
  <1> DEFINE in == proxy[c].input \o link[c].sock
  <1>2. in \in Seq(Line)
    BY <1>1, ConcatProperties DEF Proxy, Link
  <1>3. link[c].sock # <<>> /\ link' = [link EXCEPT ![c].sock = <<>>]
    BY DEF ReadCallback
  <1>4. PICK i \in Taken(in) :
          LET line == FirstLine(in, i)
              p    == [proxy[c] EXCEPT !.input = SubSeq(in, i + 1, Len(in))]
          IN  \/ proxy' = [proxy EXCEPT ![c] = BadRequest(p, Refusal[line])]
              \/ proxy' = proxy
              \/ \E n : LoadStatic(c, p, n)
              \/ LoadCgi(c, p, line = "dynamic")
              \/ LoadSo(c, p, line = "dynamic")
    BY DEF ReadCallback
  <1> DEFINE line == FirstLine(in, i)
             p    == [proxy[c] EXCEPT !.input = SubSeq(in, i + 1, Len(in))]
  <1>5. p \in Proxy /\ p.loads = proxy[c].loads
    BY <1>1, <1>2, InputTaken DEF SameProxy, Proxy
  <1> HIDE DEF in, line, p
  <1>6. CASE proxy' = [proxy EXCEPT ![c] = BadRequest(p, Refusal[line])]
    <2>1. BadRequest(p, Refusal[line]).loads = p.loads
      BY <1>5 DEF BadRequest, Proxy
    <2> QED
      BY <1>1, <1>3, <1>5, <1>6, <2>1
  <1>7. CASE \E n : LoadStatic(c, p, n)
    BY <1>1, <1>3, <1>5, <1>7, StaticLoads
  <1>8. CASE LoadCgi(c, p, line = "dynamic")
    <2>1. PICK q \in {p, BadRequest(p, 500)} : Destroy(os, c, q)
      BY <1>8 DEF LoadCgi
    <2>2. q.loads = p.loads
      BY <1>5 DEF BadRequest, Proxy
    <2>3. proxy'[c].loads = q.loads /\ \A d \in Conn \ {c} : proxy'[d] = proxy[d]
      BY <1>1, <2>1 DEF Destroy, Deleted, NoProxy
    <2> QED
      BY <1>3, <1>5, <2>2, <2>3
  <1>9. CASE LoadSo(c, p, line = "dynamic")
    <2>1. proxy' = proxy \/ \E s, q : q \in {p, BadRequest(p, 500)} /\ Destroy(s, c, q)
      BY <1>9 DEF LoadSo
    <2>2. BadRequest(p, 500).loads = p.loads
      BY <1>5 DEF BadRequest, Proxy
    <2>3. ASSUME NEW s, NEW q, q \in {p, BadRequest(p, 500)}, Destroy(s, c, q)
          PROVE  proxy'[c].loads = p.loads /\ \A d \in Conn \ {c} : proxy'[d] = proxy[d]
      <3>1. proxy'[c].loads = q.loads /\ \A d \in Conn \ {c} : proxy'[d] = proxy[d]
        BY <1>1, <2>3 DEF Destroy, Deleted, NoProxy
      <3> QED
        BY <2>2, <2>3, <3>1
    <2> QED
      BY <1>1, <1>3, <1>5, <2>1, <2>3
  <1> QED
    BY <1>1, <1>3, <1>4, <1>6, <1>7, <1>8, <1>9 DEF line, p

(* Every element of t is one of s.                                          *)
From(t, s) == \A k \in DOMAIN t : \E i \in DOMAIN s : t[k] = s[i]

LEMMA TailFrom ==
  ASSUME NEW S, NEW s \in Seq(S), NEW i \in 0..Len(s)
  PROVE  SubSeq(s, i + 1, Len(s)) \in Seq(S) /\ From(SubSeq(s, i + 1, Len(s)), s)
  <1>1. Len(s) \in Nat /\ i \in Nat /\ i <= Len(s) /\ DOMAIN s = 1..Len(s)
    BY LenProperties
  <1> DEFINE m == i + 1
             n == Len(s)
             t == SubSeq(s, m, n)
  <1>2. m \in Int /\ n \in Int /\ \A k \in m..n : s[k] \in S
    BY <1>1
  <1>3. n - m + 1 = n - i /\ (m <= n \/ n - i = 0)
    <2>1. m = i + 1 /\ n \in Nat /\ i \in Nat /\ i <= n
      BY <1>1
    <2> HIDE DEF m, n
    <2> QED
      BY <2>1
  <1> HIDE DEF m, n
  <1>4. /\ t \in Seq(S) /\ Len(t) = (IF m <= n THEN n - m + 1 ELSE 0)
        /\ \A k \in 1..(n - m + 1) : t[k] = s[m + k - 1]
    BY <1>2, SubSeqProperties
  <1> HIDE DEF t
  <1>5. DOMAIN t = 1..(n - i) /\ \A k \in 1..(n - i) : t[k] = s[m + k - 1]
    BY <1>3, <1>4, LenProperties
  <1>6. ASSUME NEW k \in DOMAIN t PROVE i + k \in DOMAIN s /\ t[k] = s[i + k]
    <2>1. k \in Nat /\ 1 <= k /\ k <= n - i /\ m + k - 1 = i + k
      BY <1>1, <1>5, <1>6 DEF m, n
    <2> QED
      BY <1>1, <1>5, <2>1 DEF n
  <1>7. From(t, s)
    BY <1>6 DEF From
  <1> QED
    BY <1>4, <1>7 DEF t, m, n

LEMMA HeadFrom ==
  ASSUME NEW S, NEW a \in Seq(S), NEW b \in Seq(S)
  PROVE  From(a, a \o b)
  <1>1. /\ Len(a) \in Nat /\ Len(b) \in Nat /\ DOMAIN a = 1..Len(a)
        /\ DOMAIN (a \o b) = 1..(Len(a) + Len(b))
    BY ConcatProperties, LenProperties
  <1>2. ASSUME NEW k \in DOMAIN a PROVE k \in DOMAIN (a \o b) /\ (a \o b)[k] = a[k]
    BY <1>1, <1>2, ConcatProperties
  <1> QED
    BY <1>2 DEF From

(* Nothing is left in the input that had not arrived, and the line that     *)
(* ends the process had.                                                    *)
LEMMA ReadHears ==
  ASSUME Inv, server = "up", NEW c \in Conn, ReadCallback(c),
         NEW in, in = proxy[c].input \o link[c].sock
  PROVE  /\ From(proxy'[c].input, in)
         /\ server' \in ByLine => \E i \in DOMAIN in : in[i] \in Lethal
  <1>1. /\ proxy \in [Conn -> Proxy] /\ proxy[c] \in Proxy /\ link[c] \in Link
    BY DEF Inv, TypeOK
  <1>2. /\ proxy[c].input \in Seq(Line) /\ link[c].sock \in Seq(Line)
        /\ in \in Seq(Line) /\ Len(in) \in Nat /\ DOMAIN in = 1..Len(in)
    BY <1>1, ConcatProperties, LenProperties DEF Proxy, Link
  <1>3. PICK i \in Taken(in) :
          LET line == FirstLine(in, i)
              p    == [proxy[c] EXCEPT !.input = SubSeq(in, i + 1, Len(in))]
          IN  \/ /\ proxy' = [proxy EXCEPT ![c] = BadRequest(p, Refusal[line])]
                 /\ server' = server
              \/ line \in DOMAIN Fatal /\ proxy' = proxy
              \/ (\E n : LoadStatic(c, p, n)) /\ server' = server
              \/ LoadCgi(c, p, line = "dynamic")
              \/ /\ Mode = "so" /\ line \in {"dynamic", "broken"}
                 /\ LoadSo(c, p, line = "dynamic")
    BY DEF ReadCallback
  <1> DEFINE line == FirstLine(in, i)
             rest == SubSeq(in, i + 1, Len(in))
             p    == [proxy[c] EXCEPT !.input = rest]
  <1>4. i \in 0..Len(in) /\ (i = 0 => line = "part") /\ (i # 0 => line = in[i])
    BY DEF Taken, FirstLine
  <1>5. rest \in Seq(Line) /\ From(rest, in)
    BY <1>2, <1>4, TailFrom
  <1>6. From(proxy[c].input, in)
    BY <1>2, HeadFrom
  <1>7. p \in Proxy /\ p.input = rest
    <2> HIDE DEF rest
    <2> QED
      BY <1>1, <1>5 DEF Proxy
  <1>8. \/ proxy' = [proxy EXCEPT ![c] = BadRequest(p, Refusal[line])] /\ server' = server
        \/ line \in DOMAIN Fatal /\ proxy' = proxy
        \/ (\E n : LoadStatic(c, p, n)) /\ server' = server
        \/ LoadCgi(c, p, line = "dynamic")
        \/ /\ Mode = "so" /\ line \in {"dynamic", "broken"}
           /\ LoadSo(c, p, line = "dynamic")
    BY <1>3
  <1> HIDE DEF line, p, rest
  <1>9. proxy'[c].input \in {rest, proxy[c].input, <<>>}
    <2>1. CASE proxy' = [proxy EXCEPT ![c] = BadRequest(p, Refusal[line])]
      <3>1. BadRequest(p, Refusal[line]).input = p.input
        BY <1>7 DEF BadRequest, Proxy
      <3> QED
        BY <1>1, <1>7, <2>1, <3>1
    <2>2. CASE \E n : LoadStatic(c, p, n)
      BY <1>1, <1>7, <2>2, StaticLoads
    <2>3. CASE \E s, q : Destroy(s, c, q)
      BY <1>1, <2>3, DestroyLoads
    <2>4. CASE LoadCgi(c, p, line = "dynamic")
      BY <2>3, <2>4 DEF LoadCgi
    <2>5. CASE LoadSo(c, p, line = "dynamic")
      <3>1. proxy' = proxy \/ \E s, q : Destroy(s, c, q)
        BY <2>5 DEF LoadSo
      <3> QED
        BY <1>1, <2>3, <3>1
    <2> QED
      BY <1>1, <1>8, <2>1, <2>2, <2>4, <2>5
  <1>10. From(proxy'[c].input, in)
    <2>1. From(<<>>, in)
      BY DEF From
    <2> QED
      BY <1>5, <1>6, <1>9, <2>1
  <1>11. ASSUME server' \in ByLine PROVE line \in Lethal
    <2>1. server' # server /\ server \notin ByLine
      BY <1>11 DEF ByLine
    <2>2. CASE line \in DOMAIN Fatal
      BY <2>2 DEF Lethal
    <2>3. CASE Mode = "so" /\ line \in {"dynamic", "broken"} /\ LoadSo(c, p, line = "dynamic")
      BY <2>1, <2>3 DEF LoadSo, Lethal
    <2> QED
      BY <1>8, <2>1, <2>2, <2>3 DEF LoadCgi
  <1>12. line \in Lethal => i # 0
    BY <1>4 DEF Lethal, Fatal
  <1>13. server' \in ByLine => \E k \in DOMAIN in : in[k] \in Lethal
    <2> SUFFICES ASSUME server' \in ByLine PROVE \E k \in DOMAIN in : in[k] \in Lethal
      OBVIOUS
    <2>1. line \in Lethal /\ i # 0
      BY <1>11, <1>12
    <2>2. line = in[i]
      BY <1>4, <2>1
    <2>3. i \in 1..Len(in)
      <3>1. \A m, n \in Nat : m \in 0..n /\ m # 0 => m \in 1..n
        OBVIOUS
      <3>2. Len(in) \in Nat
        BY <1>2
      <3>3. \A m, n : n \in Nat /\ m \in 0..n => m \in Nat
        OBVIOUS
      <3>4. i \in 0..Len(in)
        BY <1>4
      <3>5. i \in Nat
        BY <3>2, <3>3, <3>4
      <3> QED
        BY <2>1, <3>1, <3>2, <3>4, <3>5
    <2>4. i \in DOMAIN in
      BY <1>2, <2>3
    <2> QED
      BY <2>1, <2>2, <2>4
  <1> QED
    BY <1>10, <1>13

(* The other callbacks load nothing.                                        *)
LEMMA OtherLoads ==
  ASSUME Inv, NEW c \in Conn,
         \/ AcceptCallback(c) \/ WriteCallback(c) \/ ErrorCallback(c)
         \/ \E e \in os.reg : e.conn = c /\ FileWriteCallback(e)
  PROVE  LoadsKept /\ SegsKept /\ server' = server
  <1>1. /\ proxy \in [Conn -> Proxy] /\ link \in [Conn -> Link]
        /\ proxy[c] \in Proxy /\ link[c] \in Link
    BY DEF Inv, TypeOK
  <1>2. CASE AcceptCallback(c)
    <2>1. proxy[c].loads = 0
      BY <1>2 DEF Inv, Bookkeeping, AcceptCallback
    <2>2. PICK n : proxy' = [proxy EXCEPT ![c] = NewProxy(n)]
      BY <1>2 DEF AcceptCallback
    <2>3. NewProxy(n).loads = 0 /\ NewProxy(n).input = <<>>
      BY DEF NewProxy, NoProxy
    <2>4. link' = link /\ server' = server
      BY <1>2 DEF AcceptCallback
    <2> QED
      BY <1>1, <2>1, <2>2, <2>3, <2>4 DEF LoadsKept, SegsKept
  <1>3. CASE WriteCallback(c)
    <2>1. PICK k \in 1..Len(proxy[c].out) :
            LET p == [proxy[c] EXCEPT !.out = SubSeq(@, k + 1, Len(@))]
            IN  /\ link' = [link EXCEPT ![c].stream = @ \o SubSeq(proxy[c].out, 1, k)]
                /\ (\E s : Destroy(s, c, p)) \/ proxy' = [proxy EXCEPT ![c] = p]
      BY <1>3 DEF WriteCallback, Drained
    <2> DEFINE p == [proxy[c] EXCEPT !.out = SubSeq(@, k + 1, Len(@))]
    <2>2. p.loads = proxy[c].loads /\ p.input = proxy[c].input
      BY <1>1 DEF Proxy
    <2> HIDE DEF p
    <2>3. (\E s : Destroy(s, c, p)) \/ proxy' = [proxy EXCEPT ![c] = p]
      BY <2>1 DEF p
    <2>4. LoadsKept
      BY <1>1, <2>2, <2>3, DestroyLoads DEF LoadsKept
    <2> DEFINE sent == link[c].stream \o SubSeq(proxy[c].out, 1, k)
    <2>5. link' = [link EXCEPT ![c].stream = sent]
      BY <2>1
    <2> HIDE DEF sent
    <2>6. SegsKept
      BY <1>1, <2>5 DEF SegsKept, Link
    <2> QED
      BY <1>3, <2>4, <2>6 DEF WriteCallback
  <1>4. CASE ErrorCallback(c)
    <2>1. (\E s : Destroy(s, c, proxy[c])) /\ link' = link /\ server' = server
      BY <1>4 DEF ErrorCallback
    <2> QED
      BY <1>1, <2>1, DestroyLoads DEF LoadsKept, SegsKept
  <1>5. ASSUME NEW e \in os.reg, e.conn = c, FileWriteCallback(e)
        PROVE  LoadsKept /\ SegsKept /\ server' = server
    <2>1. PICK fin, out : proxy' = [proxy EXCEPT ![c].first = FALSE,
                                     ![c].finished = fin, ![c].out = out]
      BY <1>5 DEF FileWriteCallback
    <2>2. link' = link /\ server' = server
      BY <1>5 DEF FileWriteCallback
    <2> QED
      BY <1>1, <2>1, <2>2 DEF LoadsKept, SegsKept, Proxy
  <1> QED
    BY <1>2, <1>3, <1>4, <1>5

(* Crashes, gateway programs and departures.                                *)
LEMMA EnvironmentLoads ==
  ASSUME Inv, NEW c \in Conn,
         Crash \/ JobWrite(c) \/ JobExit(c) \/ Connect(c) \/ Leave(c)
  PROVE  LoadsKept /\ SegsKept
  <1>1. link \in [Conn -> Link] /\ \A d \in Conn : link[d] \in Link
    BY DEF Inv, TypeOK
  <1>2. proxy' = proxy
    BY DEF Crash, JobWrite, JobExit, Connect, Leave
  <1>3. \/ link' = link
        \/ \E d \in Conn : \E x : link' = [link EXCEPT ![d].stream = x]
        \/ \E x : link[c].peer # "gone" /\ link' = [link EXCEPT ![c].peer = x]
    BY DEF Crash, JobWrite, JobExit, Connect, Leave, Receivers
  <1>4. CASE \E d \in Conn : \E x : link' = [link EXCEPT ![d].stream = x]
    <2>0. PICK d \in Conn : \E x : link' = [link EXCEPT ![d].stream = x]
      BY <1>4
    <2>1. PICK x : link' = [link EXCEPT ![d].stream = x]
      BY <2>0
    <2> DEFINE l == [link[d] EXCEPT !.stream = x]
    <2>2. /\ l.segs = link[d].segs /\ l.said = link[d].said /\ l.sock = link[d].sock
          /\ link[d].peer = "gone" => l.peer = "gone"
      BY <1>1, <2>1 DEF Link
    <2>3. link' = [link EXCEPT ![d] = l]
      BY <2>1
    <2> HIDE DEF l
    <2> QED
      BY <1>1, <1>2, <2>2, <2>3 DEF SegsKept, LoadsKept
  <1>5. CASE \E x : link[c].peer # "gone" /\ link' = [link EXCEPT ![c].peer = x]
    <2>1. PICK x : link[c].peer # "gone" /\ link' = [link EXCEPT ![c].peer = x]
      BY <1>5
    <2> DEFINE l == [link[c] EXCEPT !.peer = x]
    <2>2. /\ l.segs = link[c].segs /\ l.said = link[c].said /\ l.sock = link[c].sock
          /\ link[c].peer = "gone" => l.peer = "gone"
      BY <1>1, <2>1 DEF Link
    <2>3. link' = [link EXCEPT ![c] = l]
      BY <2>1
    <2> HIDE DEF l
    <2> QED
      BY <1>1, <1>2, <2>2, <2>3 DEF SegsKept, LoadsKept
  <1> QED
    BY <1>2, <1>3, <1>4, <1>5 DEF LoadsKept, SegsKept

(* The signal comes from a write to a connection that is reset.             *)
LEMMA PipeStep ==
  ASSUME server = "up", NEW c \in Conn,
         Crash \/ JobWrite(c), server' = "sigpipe"
  PROVE  \E d \in Conn : link[d].peer = "gone"
  BY DEF Crash, JobWrite, Receivers

(* No step loads a second file for a client of one segment.                 *)
LEMMA UpStep == Inv /\ UpInv /\ [Next]_vars => UpInv'
  <1> SUFFICES ASSUME Inv, UpInv, [Next]_vars PROVE UpInv'
    OBVIOUS
  <1>1. /\ proxy \in [Conn -> Proxy] /\ link \in [Conn -> Link]
        /\ \A c \in Conn : proxy[c] \in Proxy /\ link[c] \in Link
    BY DEF Inv, TypeOK
  <1>2. CASE UNCHANGED vars
    <2>1. LoadsKept /\ SegsKept /\ server' = server
      BY <1>2 DEF vars, LoadsKept, SegsKept
    <2> QED
      BY <2>1, KeptRequests, KeptHeard, KeptLethal DEF UpInv, PipeNeedsReset, SegsKept
  <1>3. ASSUME LoadsKept, SegsKept, server' \notin ByLine,
               server' = "sigpipe" => \E d \in Conn : link[d].peer = "gone"
        PROVE  UpInv'
    <2>1. LethalSaid'
      BY <1>3 DEF LethalSaid
    <2> QED
      BY <1>3, <2>1, KeptRequests, KeptHeard DEF UpInv, PipeNeedsReset, SegsKept
  <1>4. ASSUME server = "up", NEW c \in Conn, ReadCallback(c) PROVE UpInv'
    <2>1. /\ proxy'[c].loads \in {proxy[c].loads, proxy[c].loads + 1}
          /\ \A d \in Conn \ {c} : proxy'[d] = proxy[d]
          /\ link[c].sock # <<>> /\ link' = [link EXCEPT ![c].sock = <<>>]
      BY <1>4, ReadLoads
    <2>2. /\ \A d \in Conn \ {c} : link'[d] = link[d]
          /\ link'[c].segs = link[c].segs /\ link'[c].said = link[c].said
          /\ link'[c].sock = <<>>
      BY <1>1, <2>1 DEF Link
    <2>3. ASSUME NEW d \in Conn PROVE OneRequest(d)'
      <3>1. CASE d # c
        BY <2>1, <2>2, <3>1 DEF UpInv, OneRequest
      <3>2. CASE d = c
        <4>1. proxy[c].loads \in Nat
          BY <1>1 DEF Proxy
        <4> QED
          BY <2>1, <2>2, <3>2, <4>1 DEF UpInv, OneRequest
      <3> QED BY <3>1, <3>2
    <2>4. server' # "sigpipe"
      BY <1>4 DEF ReadCallback, LoadCgi, LoadSo, Fatal
    <2> DEFINE in == proxy[c].input \o link[c].sock
    <2>5. /\ From(proxy'[c].input, in)
          /\ server' \in ByLine => \E i \in DOMAIN in : in[i] \in Lethal
      BY <1>4, ReadHears
    <2>6. AllSaid(in, link[c].segs)
      <3>1. /\ proxy[c].input \in Seq(Line) /\ link[c].sock \in Seq(Line) /\ Heard(c)
        BY <1>1 DEF Proxy, Link, UpInv
      <3> QED
        BY <3>1, JoinedSaid DEF Heard
    <2> HIDE DEF in
    <2>7. \A d \in Conn : link'[d].segs = link[d].segs
      BY <2>2
    <2>8. ASSUME NEW d \in Conn PROVE Heard(d)'
      <3>1. CASE d # c
        BY <2>1, <2>2, <3>1 DEF UpInv, Heard
      <3>2. CASE d = c
        <4>1. AllSaid(proxy'[c].input, link[c].segs)
          BY <2>5, <2>6 DEF From, AllSaid
        <4>2. AllSaid(link'[c].sock, link[c].segs)
          BY <2>2 DEF AllSaid
        <4> QED
          BY <2>7, <3>2, <4>1, <4>2 DEF Heard
      <3> QED BY <3>1, <3>2
    <2>9. LethalSaid'
      <3> SUFFICES ASSUME server' \in ByLine
                   PROVE  \E d \in Conn : \E l \in Lethal : Says(link'[d].segs, l)
        BY DEF LethalSaid
      <3>1. PICK l \in Lethal : Says(link[c].segs, l)
        BY <2>5, <2>6 DEF AllSaid
      <3>2. Says(link'[c].segs, l)
        BY <2>7, <3>1
      <3> QED
        BY <3>2
    <2> QED
      BY <2>3, <2>4, <2>8, <2>9 DEF UpInv, PipeNeedsReset
  <1>5. ASSUME server = "up", NEW c \in Conn, Send(c) PROVE UpInv'
    <2>1. /\ UNCHANGED <<proxy, server>>
          /\ \A d \in Conn \ {c} : link'[d] = link[d]
          /\ link'[c].segs = link[c].segs /\ link'[c].said = link[c].said + 1
          /\ link[c].said < Len(link[c].segs) /\ link[c].said \in Nat
          /\ link'[c].sock = link[c].sock \o link[c].segs[link[c].said + 1]
      BY <1>1, <1>5 DEF Send, Link
    <2>2. ASSUME NEW d \in Conn PROVE OneRequest(d)'
      <3>1. CASE d # c
        BY <2>1, <3>1 DEF UpInv, OneRequest
      <3>2. CASE d = c
        <4>1. proxy[c].loads \in Nat
          BY <1>1 DEF Proxy
        <4> QED
          BY <2>1, <3>2, <4>1 DEF UpInv, OneRequest
      <3> QED BY <3>1, <3>2
    <2>3. \A d \in Conn : link'[d].segs = link[d].segs
      BY <2>1
    <2>4. ASSUME NEW d \in Conn PROVE Heard(d)'
      <3>1. CASE d # c
        BY <2>1, <3>1 DEF UpInv, Heard
      <3>2. CASE d = c
        <4>1. Heard(c) /\ proxy' = proxy
          BY <2>1 DEF UpInv
        <4> DEFINE g == link[c].said + 1
                   seg == link[c].segs[g]
        <4>2. /\ link[c].segs \in Seq(Seq(Line)) /\ g \in 1..Len(link[c].segs)
              /\ link[c].sock \in Seq(Line)
          BY <1>1, <2>1 DEF Link
        <4>3. g \in DOMAIN link[c].segs /\ seg \in Seq(Line)
          BY <4>2, LenProperties, ElementOfSeq
        <4>4. AllSaid(seg, link[c].segs)
          BY <4>3 DEF Says, AllSaid
        <4>5. link'[c].sock = link[c].sock \o seg
          BY <2>1
        <4> HIDE DEF g, seg
        <4>6. AllSaid(link'[c].sock, link[c].segs)
          BY <4>1, <4>2, <4>3, <4>4, <4>5, JoinedSaid DEF Heard
        <4> QED
          BY <2>3, <3>2, <4>1, <4>6 DEF Heard
      <3> QED BY <3>1, <3>2
    <2>5. LethalSaid'
      BY <1>5, <2>1 DEF LethalSaid, ByLine
    <2> QED
      BY <1>5, <2>1, <2>2, <2>4, <2>5 DEF UpInv, PipeNeedsReset
  <1>6. CASE Next
    <2>1. server = "up"
      BY <1>6 DEF Next
    <2>2. CASE Client
      BY <1>3, <1>5, <2>1, <2>2, EnvironmentLoads DEF Client, Connect, Leave, ByLine
    <2>3. CASE \E c \in Conn : \/ AcceptCallback(c) \/ WriteCallback(c) \/ ErrorCallback(c)
      BY <1>3, <2>1, <2>3, OtherLoads DEF ByLine
    <2>4. CASE \E e \in os.reg : FileWriteCallback(e)
      <3>1. PICK e \in os.reg : FileWriteCallback(e)
        BY <2>4
      <3>2. e.conn \in Conn
        BY RegTyped DEF Inv, TypeOK
      <3> QED
        BY <1>3, <2>1, <3>1, <3>2, OtherLoads DEF ByLine
    <2>5. CASE Crash
      <3>1. \E c \in Conn : TRUE
        BY <2>5, RegTyped DEF Crash, Inv, TypeOK
      <3>2. server' \notin ByLine
        BY <2>5 DEF Crash, ByLine
      <3> QED
        BY <1>3, <2>1, <2>5, <3>1, <3>2, EnvironmentLoads, PipeStep
    <2>6. CASE Worker
      <3>1. PICK c \in Conn : JobWrite(c) \/ JobExit(c)
        BY <2>6 DEF Worker
      <3>2. server' = "sigpipe" => JobWrite(c)
        BY <2>1, <3>1 DEF JobExit
      <3>3. server' \notin ByLine
        BY <2>1, <3>1 DEF JobWrite, JobExit, ByLine
      <3> QED
        BY <1>3, <2>1, <3>1, <3>2, <3>3, EnvironmentLoads, PipeStep
    <2> QED
      BY <1>4, <1>6, <2>1, <2>2, <2>3, <2>4, <2>5, <2>6 DEF Next, Callback
  <1> QED
    BY <1>2, <1>6

LEMMA UpAlways == Spec => []UpInv
  <1>1. Init => UpInv
    BY DEF Init, UpInv, OneRequest, PipeNeedsReset, NoProxy, Heard, AllSaid,
           LethalSaid, ByLine
  <1> QED
    BY <1>1, UpStep, Invariance, PTL DEF Spec

(* While every client sends one segment, the server goes down only by a     *)
(* reset connection's signal or by a line that ends it by itself: an        *)
(* exception of exists() (server.cpp:113), a scan that leaves the line      *)
(* (request.cpp:51), a library without write_to (so_client_proxy.cpp:27).   *)
THEOREM ServerStaysUp == Spec => []StaysUp
  <1>1. Inv /\ UpInv => StaysUp
    <2> SUFFICES ASSUME Inv, UpInv,
                        \A c \in Conn :
                          /\ link[c].peer # "gone" /\ Len(link[c].segs) = 1
                          /\ \A i \in DOMAIN link[c].segs[1] :
                               link[c].segs[1][i] \notin Lethal
                 PROVE  server = "up"
      BY DEF StaysUp
    <2>1. server \in {"up", "sigpipe", "freed", "stray"} \cup ByLine
      BY DEF Inv, TypeOK, ByLine
    <2>2. server # "sigpipe"
      BY DEF UpInv, PipeNeedsReset
    <2>3. ASSUME NEW c \in Conn PROVE ~(proxy[c].loads > 1)
      <3>1. proxy[c].loads > 0 => proxy[c].loads = 1
        BY DEF UpInv, OneRequest
      <3>2. proxy[c] \in Proxy
        BY DEF Inv, TypeOK
      <3>3. proxy[c].loads \in Nat
        BY <3>2 DEF Proxy
      <3> QED BY <3>1, <3>3
    <2>4. server \notin ByLine
      <3>1. ASSUME NEW c \in Conn, NEW l \in Lethal PROVE ~Says(link[c].segs, l)
        <4>1. link[c].segs \in Seq(Seq(Line)) /\ Len(link[c].segs) = 1
          BY DEF Inv, TypeOK, Link
        <4>2. \A g \in DOMAIN link[c].segs : g = 1
          BY <4>1, LenProperties
        <4> QED
          BY <4>2 DEF Says
      <3> QED
        BY <3>1 DEF UpInv, LethalSaid
    <2> QED
      BY <2>1, <2>2, <2>3, <2>4 DEF Inv, FaultNeedsSecondLoad
  <1> QED
    BY <1>1, UpAlways, Invariance, PTL
=============================================================================
