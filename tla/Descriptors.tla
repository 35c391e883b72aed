----------------------------- MODULE Descriptors -----------------------------
(****************************************************************************)
(* The descriptor table of the server process, and the table libevent keeps *)
(* of read events registered per descriptor NUMBER.  Neither is code of the *)
(* repository: both are modelled from how the callbacks use them.           *)
(*                                                                          *)
(* What matters is that the two tables can disagree: close() frees a number *)
(* at once and drops the kernel's filter on it, while libevent keeps the    *)
(* event until event_del().  A number that is handed out again meanwhile is *)
(* "already registered", so libevent does not ask the kernel to watch it.   *)
(****************************************************************************)
EXTENDS Integers

CONSTANTS
  Conn,     \* the connections clients may open
  Fd,       \* descriptor numbers left for connections and files
  Backend   \* the kernel interface libevent chose

ASSUME DescriptorsAssumption ==
  /\ Fd \subseteq Nat \ {0}
  /\ Backend \in {"epoll", "kqueue"}

NoFd == -1                                \* what a failed open, accept or dup returns

(* What a number names.  left: the bytes between file offset and file end.  *)
Free       == [what |-> "free"]
Sock(c)    == [what |-> "sock", conn |-> c]
Dup(c)     == [what |-> "dup", conn |-> c]
File(c, k) == [what |-> "file", conn |-> c, left |-> k]

Desc == {Free} \cup [what : {"sock", "dup"}, conn : Conn]
               \cup [what : {"file"}, conn : Conn, left : Nat]

(* A registered read event.  id 0 is the bufferevent of conn, id k > 0 the  *)
(* file_event of the k-th file loaded for conn; conn is the callback's arg. *)
Event == [fd : Fd, conn : Conn, id : Nat]

BufEvent(n, c)     == [fd |-> n, conn |-> c, id |-> 0]
FileEvent(n, c, k) == [fd |-> n, conn |-> c, id |-> k]

(* armed: the numbers on which the kernel really watches for input.         *)
Table == [desc : [Fd -> Desc], reg : SUBSET Event, armed : SUBSET Fd]

EmptyTable == [desc |-> [n \in Fd |-> Free], reg |-> {}, armed |-> {}]

IsFree(s, n)    == s.desc[n] = Free
LowestFree(s)   == {n \in Fd : IsFree(s, n) /\ \A m \in Fd : IsFree(s, m) => n <= m}
IsFileOf(s, n, c) == n \in Fd /\ s.desc[n].what = "file" /\ s.desc[n].conn = c

(* The number open(), accept() or dup() returns: the lowest free one, or    *)
(* -1 when the table is full.                                               *)
Allocated(s) == IF LowestFree(s) = {} THEN {NoFd} ELSE LowestFree(s)

Assign(s, n, d) == IF n \in Fd THEN [s EXCEPT !.desc[n] = d] ELSE s

Close(s, n) ==
  IF n \in Fd
  THEN [s EXCEPT !.desc[n] = Free, !.armed = @ \ {n}]
  ELSE s

(* event_add: the kernel is asked only for the first event on a number;     *)
(* epoll refuses regular files, and a refused event is not registered.      *)
EventAdd(s, e) ==
  IF e.fd \notin Fd \/ (Backend = "epoll" /\ s.desc[e.fd].what = "file") THEN s
  ELSE IF \E f \in s.reg : f.fd = e.fd THEN [s EXCEPT !.reg = @ \cup {e}]
  ELSE [s EXCEPT !.reg = @ \cup {e}, !.armed = @ \cup {e.fd}]

(* event_del: the kernel's filter goes with the last event on the number.   *)
EventDel(s, e) ==
  LET rest == s.reg \ {e}
  IN  [s EXCEPT !.reg = rest, !.armed = {n \in @ : \E f \in rest : f.fd = n}]
=============================================================================
