---------------------------- MODULE EventedServer ----------------------------
(****************************************************************************)
(* The reactor: one thread that accepts connections and runs the callbacks  *)
(* of HttpServer and ClientProxy, the CGI children and library threads that *)
(* answer dynamic requests beside it, and the clients.  A callback is one   *)
(* action: nothing else runs in the server's thread meanwhile.              *)
(****************************************************************************)
EXTENDS Descriptors, Sequences

CONSTANTS
  Mode,       \* "cgi" (fork and exec) or "so" (loaded libraries): HttpServer::isCgi
  Block,      \* FILE_BUFFER_SIZE - 1, the most one read of a file returns
  FileSizes,  \* sizes of the files that requests name
  Scripts,    \* what a client may send: sequences of segments
  Departures  \* how a client may leave: "fin" (stops sending), "gone" (resets)

(* What a line means to client_read_callback: the first bytes of a line     *)
(* whose end has not arrived, a line parse_url rejects, a path that is not  *)
(* a regular file, one with no configured type, a static file, a static     *)
(* file open() fails on, a gateway program, and one that cannot be started; *)
(* a path on which exists() throws (a name too long, a directory that may   *)
(* not be searched), and a line without the space that ends parse_url's     *)
(* scan, in memory that has none behind it (module RequestLine).            *)
Line == {"part", "malformed", "missing", "denied", "static", "unreadable",
         "dynamic", "broken", "unreachable", "endless"}

ASSUME ServerAssumption ==
  /\ Mode \in {"cgi", "so"}
  /\ Block \in Nat \ {0}
  /\ FileSizes \subseteq Nat
  /\ Scripts \subseteq Seq(Seq(Line) \ {<<>>})
  /\ Departures \subseteq {"fin", "gone"}

VARIABLES
  os,      \* the descriptor and event tables (module Descriptors)
  proxy,   \* the ClientProxy and bufferevent of each connection
  link,    \* the connection as the client and the kernel see it
  job,     \* the child process or thread that answers a dynamic request
  server   \* "up", or what ended the server process

vars == <<os, proxy, link, job, server>>

(* What is sent to a client.  n: a status code, or the file offset up to    *)
(* which a chunk reaches.                                                   *)
Item == [tag : {"status", "reason", "chunk", "page", "cut", "complaint"}, n : Int]

Status(code) == [tag |-> "status", n |-> code]
Chunk(upto)  == [tag |-> "chunk", n |-> upto]
Text(kind)   == [tag |-> kind, n |-> 0]

(* lost: the output that was still queued when the proxy was deleted (read  *)
(* by properties only).                                                     *)
Proxy == [obj : {"none", "live", "deleted"}, fd : Fd \cup {0}, finished : BOOLEAN,
          first : BOOLEAN, loader : Fd \cup {0, NoFd}, loads : Nat,
          input : Seq(Line), out : Seq(Item), lost : Seq(Item)]

(* segs: what the client will say in all, of which said segments were sent. *)
Link == [peer : {"new", "open", "fin", "gone"}, segs : Seq(Seq(Line)), said : Nat,
         sock : Seq(Line), stream : Seq(Item), size : Nat]

Job == [state : {"none", "refused", "running", "written", "exited"},
        ok : BOOLEAN, held : SUBSET Conn, fd : Fd \cup {0, NoFd}]

NoProxy == [obj |-> "none", fd |-> 0, finished |-> FALSE, first |-> TRUE,
            loader |-> 0, loads |-> 0, input |-> <<>>, out |-> <<>>, lost |-> <<>>]

NewProxy(n) == [NoProxy EXCEPT !.obj = "live", !.fd = n]

NoJob == [state |-> "none", ok |-> TRUE, held |-> {}, fd |-> 0]

Init ==
  /\ os = EmptyTable
  /\ proxy = [c \in Conn |-> NoProxy]
  /\ link \in [Conn -> [peer : {"new"}, segs : Scripts, said : {0}, sock : {<<>>},
                        stream : {<<>>}, size : FileSizes]]
  /\ job = [c \in Conn |-> NoJob]
  /\ server = "up"

-----------------------------------------------------------------------------
(* ClientProxy.                                                             *)

Live(c) == proxy[c].obj = "live"

(* Its read event is registered and the kernel watches its descriptor.      *)
Polled(c) == /\ Live(c)
             /\ BufEvent(proxy[c].fd, c) \in os.reg
             /\ proxy[c].fd \in os.armed

(* bad_request: status line and reason are queued, finished is set.         *)
BadRequest(p, code) ==
  [p EXCEPT !.finished = TRUE, !.out = @ \o <<Status(code), Text("reason")>>]

(* Mutant: the file_event is not deleted with the proxy.                    *)
ReleaseKeepsFileEvent(s, c, p) == EventDel(Close(s, p.fd), BufEvent(p.fd, c))

(* Mutant: the bufferevent is not freed with the proxy.                     *)
ReleaseKeepsBufferevent(s, c, p) ==
  EventDel(Close(s, p.fd), FileEvent(p.loader, c, p.loads))

(* Mutant: the socket is not closed with the proxy.                         *)
ReleaseKeepsSocket(s, c, p) ==
  EventDel(EventDel(s, BufEvent(p.fd, c)), FileEvent(p.loader, c, p.loads))

(* Mutant: ~ContentLoader closes its number, which read() may have closed.  *)
ReleaseClosesLoader(s, c, p) ==
  EventDel(EventDel(Close(Close(s, p.fd), p.loader), BufEvent(p.fd, c)),
           FileEvent(p.loader, c, p.loads))

(* ~ClientProxy: the socket is closed, the bufferevent and its events go,   *)
(* and so does the file_event; ~ContentLoader closes nothing that is open,  *)
(* since is_valid() holds of fd -1 only.                                    *)
Release(s, c, p) ==
  EventDel(EventDel(Close(s, p.fd), BufEvent(p.fd, c)),
           FileEvent(p.loader, c, p.loads))

Deleted(p) == [NoProxy EXCEPT !.obj = "deleted", !.loads = p.loads,
                                 !.lost = p.out]

Destroy(s, c, p) ==
  /\ os' = Release(s, c, p)
  /\ proxy' = [proxy EXCEPT ![c] = Deleted(p)]

(* Mutant: the file_event is set on the client's descriptor.                *)
LoadStaticOnSocket(c, p, n) ==
  /\ os' = EventAdd(Assign(os, n, File(c, link[c].size)),
                    FileEvent(p.fd, c, p.loads + 1))
  /\ proxy' = [proxy EXCEPT ![c] = [p EXCEPT !.loader = n, !.loads = @ + 1]]

(* load_static_content, and the can_close() test that follows it: a proxy   *)
(* that an earlier line finished goes with its answer.                      *)
LoadStatic(c, p, n) ==
  LET s == EventAdd(Assign(os, n, File(c, link[c].size)),
                    FileEvent(n, c, p.loads + 1))
      q == [p EXCEPT !.loader = n, !.loads = @ + 1]
  IN  IF q.finished THEN Destroy(s, c, q)
      ELSE os' = s /\ proxy' = [proxy EXCEPT ![c] = q]

(* The CGI child inherits every open socket.  When fork fails the refusal   *)
(* is queued, and can_close() then deletes the proxy with it.               *)
LoadCgi(c, p, ok) ==
  /\ \/ /\ Destroy(os, c, p)
        /\ job' = [job EXCEPT ![c] =
                     [state |-> "running", ok |-> ok, fd |-> 0,
                      held |-> {d \in Conn : \E n \in Fd : os.desc[n] = Sock(d)}]]
     \/ /\ Destroy(os, c, BadRequest(p, 500))
        /\ job' = [job EXCEPT ![c].state = "refused"]
  /\ UNCHANGED server

(* Mutant: the thread is given the socket itself.                           *)
LoadSoWithoutDup(c, p, ok) ==
  /\ ok
  /\ Destroy(os, c, p)
  /\ job' = [job EXCEPT ![c] = [NoJob EXCEPT !.state = "running", !.fd = p.fd]]
  /\ UNCHANGED server

(* The library's write_to gets a dup of the socket.  It starts a thread,    *)
(* whose failure to start it may ignore, or returns false, upon which the   *)
(* refusal is queued and deleted with the proxy; a library without write_to *)
(* makes the call through a null pointer.                                   *)
LoadSo(c, p, ok) ==
  \/ /\ ok
     /\ \E n \in Allocated(os) :
          \/ /\ Destroy(Assign(os, n, Dup(c)), c, p)
             /\ \E st \in {"running", "refused"} :
                  job' = [job EXCEPT ![c] = [NoJob EXCEPT !.state = st, !.fd = n]]
          \/ /\ Destroy(Assign(os, n, Dup(c)), c, BadRequest(p, 500))
             /\ job' = [job EXCEPT ![c] = [NoJob EXCEPT !.state = "refused", !.fd = n]]
     /\ UNCHANGED server
  \/ /\ ~ok
     /\ server' = "nullcall"
     /\ UNCHANGED <<os, proxy, job>>

-----------------------------------------------------------------------------
(* The callbacks of the event loop.                                         *)

(* accept_callback.  With no descriptor left accept() fails and nothing     *)
(* changes: the connection stays in the backlog.                            *)
AcceptCallback(c) ==
  /\ link[c].peer # "new" /\ proxy[c].obj = "none"
  /\ \E n \in LowestFree(os) :
       /\ os' = EventAdd(Assign(os, n, Sock(c)), BufEvent(n, c))
       /\ proxy' = [proxy EXCEPT ![c] = NewProxy(n)]
  /\ UNCHANGED <<link, job, server>>

(* evbuffer_readline takes out the first line whose end has arrived: where  *)
(* it is in the input, or 0 when only a part of a line is there, which      *)
(* stays to be completed by what arrives next.                              *)
Taken(in) == {i \in 0..Len(in) : /\ \A j \in 1..Len(in) : j < i \/ i = 0 => in[j] = "part"
                                 /\ i > 0 => in[i] # "part"}

FirstLine(in, i) == IF i = 0 THEN "part" ELSE in[i]

Refusal == [line \in {"part", "malformed", "missing", "denied"} |->
              IF line = "missing" THEN 404 ELSE IF line = "denied" THEN 500 ELSE 400]

(* Nothing catches what exists() throws, and a scan that leaves the line's  *)
(* memory faults: either way the process ends.                              *)
Fatal == [line \in {"unreachable", "endless"} |->
            IF line = "unreachable" THEN "thrown" ELSE "overrun"]

(* client_read_callback, on all that has arrived.                           *)
ReadCallback(c) ==
  /\ Polled(c) /\ link[c].sock # <<>>
  /\ link' = [link EXCEPT ![c].sock = <<>>]
  /\ LET arrived == proxy[c].input \o link[c].sock
     IN  \E i \in Taken(arrived) :
           LET line == FirstLine(arrived, i)
               p    == [proxy[c] EXCEPT !.input = SubSeq(arrived, i + 1, Len(arrived))]
           IN  \/ /\ line \in DOMAIN Refusal
                  /\ proxy' = [proxy EXCEPT ![c] = BadRequest(p, Refusal[line])]
                  /\ UNCHANGED <<os, job, server>>
               \/ /\ line \in DOMAIN Fatal
                  /\ server' = Fatal[line]
                  /\ UNCHANGED <<os, proxy, job>>
               \/ /\ line = "static"
                  /\ \E n \in Allocated(os) : LoadStatic(c, p, n)
                  /\ UNCHANGED <<job, server>>
               \/ /\ line = "unreadable"
                  /\ LoadStatic(c, p, NoFd)
                  /\ UNCHANGED <<job, server>>
               \/ /\ line \in {"dynamic", "broken"}
                  /\ Mode = "cgi"
                  /\ LoadCgi(c, p, line = "dynamic")
               \/ /\ line \in {"dynamic", "broken"}
                  /\ Mode = "so"
                  /\ LoadSo(c, p, line = "dynamic")

(* The kernel reports a file as readable while its offset is short of its   *)
(* end; the callback reads the CURRENT loader of the proxy it was given.    *)
FileReadable(e) ==
  /\ e \in os.reg /\ e.id > 0 /\ e.fd \in os.armed
  /\ os.desc[e.fd].what = "file" /\ os.desc[e.fd].left > 0

(* Mutant: off by one, byteRead is compared with size.                      *)
ReadFileOffByOne(c, n, k) ==
  IF k <= Block THEN Close(os, n)
  ELSE Assign(os, n, File(c, os.desc[n].left - k))

(* Mutant: the bytes asked for are counted, not the bytes read.             *)
ReadFileAsked(c, n, k) ==
  IF k = 0 THEN Close(os, n)
  ELSE Assign(os, n, File(c, os.desc[n].left - Block))

(* ContentLoader::read: a short read closes the file.                       *)
ReadFile(c, n, k) ==
  IF k < Block THEN Close(os, n)
  ELSE Assign(os, n, File(c, os.desc[n].left - k))

(* Mutant: can_read asks for the end of the file.                           *)
CanReadMore(s, n) == n \in Fd /\ ~IsFree(s, n) /\ s.desc[n].left > 0

(* Mutant: can_read does not ask.                                           *)
CanReadAlways(s, n) == TRUE

(* ContentLoader::can_read: fcntl() succeeds on any open descriptor.        *)
CanRead(s, n) == n \in Fd /\ ~IsFree(s, n)

Smaller(a, b) == IF a < b THEN a ELSE b

(* Mutant: first_time is never reset.                                       *)
HeadingAlways(p) == <<Status(200)>>

(* first_time: the status line goes before the first block only.            *)
Heading(p) == IF p.first THEN <<Status(200)>> ELSE <<>>

FileWriteCallback(e) ==
  LET c == e.conn
      p == proxy[c]
      k == Smaller(Block, os.desc[p.loader].left)
      s == ReadFile(c, p.loader, k)
      upto == link[c].size - os.desc[p.loader].left + k
  IN  /\ FileReadable(e) /\ Live(c) /\ IsFileOf(os, p.loader, c)
      /\ os' = s
      /\ proxy' = [proxy EXCEPT ![c].first = FALSE,
                    ![c].finished = @ \/ ~CanRead(s, p.loader),
                    ![c].out = @ \o Heading(p)
                                 \o (IF k > 0 THEN <<Chunk(upto)>> ELSE <<>>)]
      /\ UNCHANGED <<link, job, server>>

(* Mutant: the proxy is not deleted when its output is drained.             *)
DrainedKeeps(c, p) == os' = os /\ proxy' = [proxy EXCEPT ![c] = p]

(* client_write_callback, once the output is drained.                       *)
Drained(c, p) ==
  IF p.finished THEN Destroy(os, c, p)
  ELSE os' = os /\ proxy' = [proxy EXCEPT ![c] = p]

(* Mutant: can_close is tested before the output is drained.                *)
WriteCallbackEager(c) ==
  /\ Live(c) /\ link[c].peer # "gone"
  /\ \E k \in 1..Len(proxy[c].out) :
       LET p == [proxy[c] EXCEPT !.out = SubSeq(@, k + 1, Len(@))]
       IN  /\ link' = [link EXCEPT ![c].stream = @ \o SubSeq(proxy[c].out, 1, k)]
           /\ Drained(c, p)
  /\ UNCHANGED <<job, server>>

(* The bufferevent writes what the socket takes; the callback runs when     *)
(* nothing is left.                                                         *)
WriteCallback(c) ==
  /\ Live(c) /\ link[c].peer # "gone"
  /\ \E k \in 1..Len(proxy[c].out) :
       LET p == [proxy[c] EXCEPT !.out = SubSeq(@, k + 1, Len(@))]
       IN  /\ link' = [link EXCEPT ![c].stream = @ \o SubSeq(proxy[c].out, 1, k)]
           /\ IF k = Len(proxy[c].out) THEN Drained(c, p)
              ELSE os' = os /\ proxy' = [proxy EXCEPT ![c] = p]
  /\ UNCHANGED <<job, server>>

(* client_error_callback: end of input, or a failed read or write.          *)
ErrorCallback(c) ==
  /\ \/ Polled(c) /\ link[c].peer \in {"fin", "gone"} /\ link[c].sock = <<>>
     \/ Live(c) /\ link[c].peer = "gone"
        /\ (Polled(c) \/ proxy[c].out # <<>>)
  /\ Destroy(os, c, proxy[c])
  /\ UNCHANGED <<link, job, server>>

(* The other ways the process can end: a write to a connection that was     *)
(* reset (SIGPIPE keeps its default action), a callback whose proxy is      *)
(* deleted, a read through a number that no longer names the loader's file. *)
Crash ==
  /\ \/ /\ server' = "sigpipe"
        /\ \E c \in Conn : Live(c) /\ link[c].peer = "gone" /\ proxy[c].out # <<>>
     \/ /\ server' = "freed"
        /\ \E e \in os.reg : FileReadable(e) /\ ~Live(e.conn)
     \/ /\ server' = "stray"
        /\ \E e \in os.reg : /\ FileReadable(e) /\ Live(e.conn)
                             /\ ~IsFileOf(os, proxy[e.conn].loader, e.conn)
  /\ UNCHANGED <<os, proxy, link, job>>

-----------------------------------------------------------------------------
(* The gateway program: a child process (cgi) or a thread (so).             *)

(* Whom its writes reach: the child's standard output is the connection     *)
(* itself, a thread writes to whatever its number names by then.            *)
Receivers(c) ==
  {d \in Conn : \/ Mode = "cgi" /\ d = c
                \/ /\ Mode = "so" /\ job[c].fd \in Fd
                   /\ os.desc[job[c].fd] \in {Sock(d), Dup(d)}}

(* The socket is non-blocking for the writer too: a page that does not fit  *)
(* the socket's buffer is cut.                                              *)
Result(c) == IF job[c].ok THEN {Text("page"), Text("cut")} ELSE {Text("complaint")}

JobWrite(c) ==
  /\ job[c].state = "running"
  /\ job' = [job EXCEPT ![c].state = "written"]
  /\ \/ /\ \A d \in Receivers(c) : link[d].peer = "gone"
        /\ UNCHANGED <<link, server>>
     \/ \E d \in Receivers(c), r \in Result(c) :
          /\ link[d].peer # "gone"
          /\ link' = [link EXCEPT ![d].stream = Append(@, r)]
          /\ UNCHANGED server
     \/ /\ Mode = "so" /\ \E d \in Receivers(c) : link[d].peer = "gone"
        /\ server' = "sigpipe"
        /\ UNCHANGED link
  /\ UNCHANGED <<os, proxy>>

(* Mutant: the thread does not close its descriptor.                        *)
JobExitKeepsNumber(c) ==
  /\ job[c].state = "written"
  /\ job' = [job EXCEPT ![c].state = "exited", ![c].held = {}]
  /\ UNCHANGED <<os, proxy, link, server>>

JobExit(c) ==
  /\ \/ job[c].state = "written"
     \/ job[c].state = "running" /\ Mode = "cgi"
  /\ job' = [job EXCEPT ![c].state = "exited", ![c].held = {}]
  /\ os' = Close(os, job[c].fd)
  /\ UNCHANGED <<proxy, link, server>>

-----------------------------------------------------------------------------
(* The client.                                                              *)

Connect(c) ==
  /\ link[c].peer = "new"
  /\ link' = [link EXCEPT ![c].peer = "open"]
  /\ UNCHANGED <<os, proxy, job, server>>

Send(c) ==
  /\ link[c].peer = "open" /\ link[c].said < Len(link[c].segs)
  /\ link' = [link EXCEPT ![c].sock = @ \o link[c].segs[link[c].said + 1],
                         ![c].said = @ + 1]
  /\ UNCHANGED <<os, proxy, job, server>>

Leave(c) ==
  /\ link[c].peer = "open"
  /\ \E how \in Departures : link' = [link EXCEPT ![c].peer = how]
  /\ UNCHANGED <<os, proxy, job, server>>

Client == \E c \in Conn : Connect(c) \/ Send(c) \/ Leave(c)

Callback ==
  \/ \E c \in Conn : \/ AcceptCallback(c) \/ ReadCallback(c)
                     \/ WriteCallback(c)  \/ ErrorCallback(c)
  \/ \E e \in os.reg : FileWriteCallback(e)

Worker == \E c \in Conn : JobWrite(c) \/ JobExit(c)

Next == server = "up" /\ (Client \/ Callback \/ Crash \/ Worker)

Spec == Init /\ [][Next]_vars

(* event_dispatch runs every active callback before it polls again, and the *)
(* kernel schedules the children and the threads, which terminate.  Nothing *)
(* is assumed of the clients.                                               *)
Fairness ==
  \A c \in Conn :
    /\ WF_vars(server = "up" /\ AcceptCallback(c))
    /\ WF_vars(server = "up" /\ ReadCallback(c))
    /\ WF_vars(server = "up" /\ WriteCallback(c))
    /\ WF_vars(server = "up" /\ ErrorCallback(c))
    /\ WF_vars(server = "up" /\ \E e \in os.reg : e.conn = c /\ FileWriteCallback(e))
    /\ WF_vars(server = "up" /\ (JobWrite(c) \/ JobExit(c)))

FairSpec == Spec /\ Fairness

-----------------------------------------------------------------------------
(* Safety.                                                                  *)

(* The state has the shape the code gives it.                               *)
TypeOK ==
  /\ os \in Table
  /\ proxy \in [Conn -> Proxy]
  /\ link \in [Conn -> Link]
  /\ job \in [Conn -> Job]
  /\ server \in {"up", "sigpipe", "freed", "stray", "nullcall", "thrown", "overrun"}

(* Every live ClientProxy owns its socket's number alone, and every socket  *)
(* belongs to a live proxy: ~ClientProxy (client_proxy.cpp:15), read()      *)
(* (content_loader.cpp:27) and the library's thread (hello.cpp:25) together *)
(* neither leak a connection nor close one under another proxy.             *)
SocketOwned ==
  \A c \in Conn :
    /\ Live(c) => proxy[c].fd \in Fd /\ os.desc[proxy[c].fd] = Sock(c)
    /\ \A n \in Fd : os.desc[n] = Sock(c) => Live(c) /\ proxy[c].fd = n

(* A thread that has still to write or close holds a dup of its own         *)
(* client's socket, and every such number has a job: the proxy's deletion   *)
(* in between (so_client_proxy.cpp:27, server.cpp:136) takes nothing away.  *)
DupOwned ==
  \A c \in Conn :
    /\ job[c].state \in {"running", "written"} /\ job[c].fd \in Fd
         => os.desc[job[c].fd] = Dup(c)
    /\ \A n \in Fd : os.desc[n] = Dup(c) =>
         job[c].fd = n /\ job[c].state \in {"running", "written", "refused"}

(* What the kernel watches is what the event was registered for: a          *)
(* file_event that outlives its descriptor (read() closes the file, the     *)
(* event stays registered until ~ClientProxy) never fires for the socket or *)
(* the other client's file that gets the number next.                       *)
WatchSound ==
  \A e \in os.reg : e.fd \in os.armed =>
    IF e.id = 0 THEN os.desc[e.fd] = Sock(e.conn) ELSE IsFileOf(os, e.fd, e.conn)

(* Until a connection makes the server load a second file, every event      *)
(* registered for it belongs to its live proxy and its current loader: the  *)
(* destructor leaves no callback behind (client_proxy.cpp:15-23).           *)
EventsOwned ==
  \A e \in os.reg : proxy[e.conn].loads <= 1 =>
    /\ Live(e.conn)
    /\ e.fd = IF e.id = 0 THEN proxy[e.conn].fd ELSE proxy[e.conn].loader

(* What the members of a proxy say of each other and of the connection's    *)
(* events and job: the parts of the inductive invariant that are of no      *)
(* interest by themselves.                                                  *)
Bookkeeping ==
  /\ \A c \in Conn :
       /\ proxy[c].obj = "none" => proxy[c].loads = 0
       /\ proxy[c].loads = 0 => proxy[c].loader = 0
       /\ job[c].state # "none" => proxy[c].obj = "deleted"
  /\ \A e \in os.reg : e.id <= proxy[e.conn].loads

(* A callback uses a deleted proxy, or a number that is not its loader's    *)
(* file, only after some connection had a second file loaded before its     *)
(* first was finished (server.cpp:130 does not ask).                        *)
FaultNeedsSecondLoad ==
  server \in {"freed", "stray"} => \E c \in Conn : proxy[c].loads > 1

(* The inductive invariant.                                                 *)
Inv ==
  /\ TypeOK
  /\ Bookkeeping
  /\ SocketOwned
  /\ DupOwned
  /\ WatchSound
  /\ EventsOwned
  /\ FaultNeedsSecondLoad

(* A proxy that is ready_to_close still has output queued, so that the      *)
(* write callback will come and delete it (server.cpp:161 is the test that  *)
(* sees it), unless a second load has made its file event read another      *)
(* file's loader.                                                           *)
FinishedDrains ==
  \A c \in Conn :
    Live(c) /\ proxy[c].finished /\ proxy[c].loads <= 1 => proxy[c].out # <<>>

(* The lines that end the process by themselves.                            *)
Lethal == DOMAIN Fatal \cup (IF Mode = "so" THEN {"broken"} ELSE {})

(* While every client sends one segment, the process stays up unless a      *)
(* connection is reset or a line is sent that ends it by itself             *)
(* (server.cpp:101, server.cpp:113, so_client_proxy.cpp:27): no callback    *)
(* runs on a deleted proxy or reads a number that is no longer its loader's.*)
StaysUp ==
  (\A c \in Conn :
     /\ link[c].peer # "gone" /\ Len(link[c].segs) = 1
     /\ \A i \in DOMAIN link[c].segs[1] : link[c].segs[1][i] \notin Lethal)
    => server = "up"

(* A file stays open only while its proxy is alive and reads it, or when    *)
(* the client left in the middle or sent more than one segment.             *)
OpenFileAccounted ==
  \A n \in Fd, c \in Conn : IsFileOf(os, n, c) =>
    \/ link[c].peer # "open" \/ link[c].said > 1
    \/ Live(c) /\ proxy[c].loader = n

(* On epoll every accepted connection is watched for input as long as its   *)
(* proxy lives, whatever its number was used for before: the files that     *)
(* epoll refuses leave no event on a number.                                *)
LiveConnPolled == Backend = "epoll" => \A c \in Conn : Live(c) => Polled(c)

(* What ~ContentLoader is written to ensure (content_loader.cpp:13-17, with *)
(* auto_close set by the constructor): no file outlives its loader.         *)
LoaderClosesFile ==
  \A n \in Fd, c \in Conn : IsFileOf(os, n, c) => Live(c) /\ proxy[c].loader = n

(* A client that has not left and sent one segment loses queued output in   *)
(* one case only: the gateway program could not be started (fork failed, or *)
(* the library said no), and the refusal that was queued for it is deleted  *)
(* with the proxy (server.cpp:132, 134), so that it sees its connection end *)
(* without an answer.                                                       *)
DropsAccounted ==
  [][\A c \in Conn :
       /\ Live(c) /\ proxy'[c].obj = "deleted"
       /\ link[c].peer = "open" /\ link[c].said <= 1
       => \/ proxy'[c].lost = <<>>
          \/ /\ job'[c].state = "refused"
             /\ proxy'[c].lost = <<Status(500), Text("reason")>>]_vars

-----------------------------------------------------------------------------
(* Liveness.                                                                *)

(* Every line that reaches an accepted connection leads to its proxy's      *)
(* deletion: the answer was given, or could not be.                         *)
RequestsEnd ==
  \A c \in Conn : (Live(c) /\ link[c].sock # <<>>)
    ~> (proxy[c].obj = "deleted" \/ server # "up")

(* The kernel ends the connection when no process has it open any more.     *)
Ended(c) ==
  /\ \A n \in Fd : os.desc[n] \notin {Sock(c), Dup(c)}
  /\ \A d \in Conn : c \notin job[d].held

(* A client whose proxy is deleted sees the end of the connection once the  *)
(* children that inherited its socket (cgi_client_proxy.cpp:13) and the     *)
(* thread that has its dup are done, or fork has failed; a thread that      *)
(* could not be started never closes its dup.                               *)
DeletedConnEnds ==
  \A c \in Conn :
    (proxy[c].obj = "deleted" /\ ~(job[c].state = "refused" /\ job[c].fd \in Fd))
      ~> (Ended(c) \/ server # "up")

(* The event is registered, but on a number libevent already counted an     *)
(* event on, so the kernel was not asked to watch it.                       *)
Unwatched(e) == e \in os.reg /\ e.fd \notin os.armed

(* The current loader's file gives its proxy nothing more: it could not be  *)
(* opened, epoll refused its event, its event is not watched, or it was     *)
(* read to its end by whole blocks and is never reported again.             *)
Unfed(c) ==
  LET n == proxy[c].loader
      e == FileEvent(n, c, proxy[c].loads)
  IN  /\ proxy[c].loads > 0
      /\ \/ n = NoFd
         \/ /\ IsFileOf(os, n, c)
            /\ \/ Backend = "epoll" /\ e \notin os.reg
               \/ Unwatched(e)
               \/ os.desc[n].left = 0

(* What keeps an unfinished proxy waiting for ever: its socket is not       *)
(* watched, or its file gives nothing more.                                 *)
Starved(c) ==
  /\ Live(c) /\ ~proxy[c].finished
  /\ Unwatched(BufEvent(proxy[c].fd, c)) \/ Unfed(c)

(* Nothing else keeps a request from its end: whatever clients ask, in      *)
(* whatever pieces, a line that arrived leads to its proxy's deletion or to *)
(* a proxy that is starved for good.                                        *)
RequestsSettle ==
  \A c \in Conn : (Live(c) /\ link[c].sock # <<>>)
    ~> (proxy[c].obj = "deleted" \/ server # "up" \/ []Starved(c))

(* If no connection lasts for ever (no timeout ends the silent ones,        *)
(* server.cpp:85), then one that waits in the backlog because accept()      *)
(* fails is accepted in the end: the files that nobody closes leave a       *)
(* number for every socket that had one.                                    *)
BacklogServed ==
  (\A d \in Conn : Live(d) ~> ~Live(d)) =>
    \A c \in Conn : (link[c].peer # "new" /\ proxy[c].obj = "none")
      ~> (proxy[c].obj # "none" \/ server # "up")
=============================================================================
