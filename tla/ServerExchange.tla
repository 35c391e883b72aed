---------------------------- MODULE ServerExchange ----------------------------
(****************************************************************************)
(* EventedServer keeps the promise of HttpExchange to clients that send one *)
(* segment: a request line, and possibly header lines with it, which the    *)
(* server leaves unread.                                                    *)
(****************************************************************************)
EXTENDS EventedServer

(* The line the server takes out of a client's first segment.               *)
Request(c) ==
  IF link[c].said = 0 THEN "nothing"
  ELSE LET seg == link[c].segs[1]
       IN  FirstLine(seg, CHOOSE i \in Taken(seg) : TRUE)

(* A connection has ended when no process has it open: the server's own     *)
(* descriptors are gone with it once it is down, those of a child are not.  *)
(* A connection that waited in the backlog ends with the server too.        *)
Over(c) ==
  IF server = "up" THEN proxy[c].obj = "deleted" /\ Ended(c)
  ELSE link[c].peer # "new" /\ \A d \in Conn : c \notin job[d].held

Exchange == INSTANCE HttpExchange WITH
  asked  <- [c \in Conn |-> Request(c)],
  size   <- [c \in Conn |-> link[c].size],
  answer <- [c \in Conn |-> link[c].stream],
  left   <- {c \in Conn : link[c].peer \in {"fin", "gone"}},
  reset  <- {c \in Conn : link[c].peer = "gone"},
  ended  <- {c \in Conn : Over(c)},
  down   <- server # "up"

(* What the callbacks deliver to each client is the beginning of the answer *)
(* to its own request, in order and without repetition, and nothing follows *)
(* the end of its connection.  The connection of a client that stays is not *)
(* closed before the answer is whole (server.cpp:88-164, client_proxy.cpp), *)
(* unless a gateway program has it or the server process ends; and that     *)
(* takes some client's reset (client_proxy.cpp:57 writes to it and gets     *)
(* SIGPIPE) or a line that ends the process (Lethal).                       *)
KeepsPromise == Exchange!Spec
=============================================================================
