------------------------------ MODULE Lifecycle ------------------------------
(****************************************************************************)
(* The server as a process: main and its arguments, the listening socket,   *)
(* the event loop as far as an interrupt can disturb it, the CGI children   *)
(* that outlive their requests and the server itself, and its restarts on   *)
(* the same port.  EventedServer has what happens inside the loop.          *)
(****************************************************************************)
EXTENDS Integers

CONSTANTS
  Client,    \* clients, each with one connection at a time
  Commands,  \* the command lines the operator may use
  Pid        \* the processes the system grants to the server's children

(* What main looks at: argc, atoi(argv[1]), whether argv[3] is "cgi", and   *)
(* whether Config can be built from the file.                               *)
Command == [argc : 1..4, port : Int, cgi : BOOLEAN, ini : {"good", "bad"}]

(* Whatever the operator types: one and the same port, or none (0).         *)
ASSUME LifecycleAssumption ==
  /\ Commands \subseteq Command
  /\ "server" \notin Pid
  /\ \A a, b \in Commands : a.port # 0 /\ b.port # 0 => a.port = b.port

Self == "server"

VARIABLES
  phase,    \* where the process is in main, run and event_dispatch
  command,  \* its command line
  object,   \* the HttpServer that eva.cpp's pointer names
  exiting,  \* event_loopexit's event is active
  watched,  \* the kernel watches the listening socket for accept_event
  holders,  \* who has the listening socket open: the server, children
  conn,     \* what became of each client's connection
  child     \* the children, and the client each one answers

vars == <<phase, command, object, exiting, watched, holders, conn, child>>

Phase == {"down", "main", "made", "opened", "turn", "enter", "poll", "left"}
Looping == {"turn", "enter", "poll", "left"}

Unused == [state |-> "none"]
Child  == {Unused} \cup [state : {"running", "orphan", "zombie"}, client : Client]

Init ==
  /\ phase = "down" /\ command \in Commands
  /\ object = "null" /\ exiting = FALSE /\ watched = FALSE
  /\ holders = {}
  /\ conn = [c \in Client |-> "out"]
  /\ child = [p \in Pid |-> Unused]

-----------------------------------------------------------------------------
(* The kernel's part.                                                       *)

(* A port cannot be bound while someone listens on it, or while a           *)
(* connection of it is open on this side or lingers, because this side      *)
(* closed it first: SO_REUSEADDR is not set yet when open_socket calls bind.*)
PortFree ==
  /\ holders = {}
  /\ \A c \in Client : conn[c] \notin {"open", "child", "lingering"}

(* h no longer has the listening socket; with its last holder go the        *)
(* connections that nobody accepted.                                        *)
LetGo(h, con) ==
  /\ holders' = holders \ {h}
  /\ conn' = IF holders \subseteq {h}
             THEN [c \in Client |-> IF con[c] = "queued" THEN "out" ELSE con[c]]
             ELSE con

(* The process ends, however it does: its connections end, its zombies      *)
(* vanish, its running children go on without it.                           *)
Die ==
  /\ phase' = "down" /\ object' = "null" /\ exiting' = FALSE /\ watched' = FALSE
  /\ LetGo(Self, [c \in Client |-> IF conn[c] = "open" THEN "lingering" ELSE conn[c]])
  /\ child' = [p \in Pid |->
                CASE child[p].state = "zombie"  -> Unused
                  [] child[p].state = "running" -> [child[p] EXCEPT !.state = "orphan"]
                  [] OTHER                      -> child[p]]
  /\ UNCHANGED command

-----------------------------------------------------------------------------
(* main and run.                                                            *)

(* The checks before the handler is installed; a refused command line ends  *)
(* the process at once.                                                     *)
Start(a) ==
  /\ phase = "down"
  /\ a.argc >= 2 /\ a.port # 0
  /\ phase' = "main" /\ command' = a
  /\ UNCHANGED <<object, exiting, watched, holders, conn, child>>

(* Config throws, strcmp reads argv[argc], or the server is made.           *)
Construct ==
  /\ phase = "main"
  /\ \/ (command.ini = "bad" \/ command.argc = 3) /\ Die
     \/ /\ command.ini = "good" /\ command.argc # 3
        /\ phase' = "made" /\ object' = "live"
        /\ UNCHANGED <<command, exiting, watched, holders, conn, child>>

(* Mutant: run goes on with the socket that could not be opened.            *)
OpenSocketIgnored ==
  /\ phase = "made" /\ phase' = "opened"
  /\ holders' = IF PortFree THEN {Self} ELSE holders
  /\ UNCHANGED <<command, object, exiting, watched, conn, child>>

(* open_socket, and the exit after its failure.  A server that was deleted  *)
(* meanwhile is read all the same, and its destructor closed a number that  *)
(* was never set, so that bind may fail then too; that it may read another  *)
(* port is not followed.                                                    *)
OpenSocket ==
  /\ phase = "made"
  /\ \/ /\ PortFree
        /\ phase' = "opened" /\ holders' = {Self}
        /\ UNCHANGED <<command, object, exiting, watched, conn, child>>
     \/ (~PortFree \/ object = "deleted") /\ Die

(* Mutant: accept_event is not added.                                       *)
EnterLoopUnwatched ==
  /\ phase = "opened"
  /\ phase' = "turn"
  /\ UNCHANGED <<command, object, exiting, watched, holders, conn, child>>

(* run_event_loop up to event_dispatch.                                     *)
EnterLoop ==
  /\ phase = "opened"
  /\ phase' = "turn" /\ watched' = (Self \in holders)
  /\ UNCHANGED <<command, object, exiting, holders, conn, child>>

-----------------------------------------------------------------------------
(* event_dispatch.                                                          *)

(* Mutant: the active exit keeps the loop from waiting, but not running.    *)
TurnRegardless ==
  /\ phase \in {"turn", "enter"}
  /\ phase' = IF phase = "turn" THEN "enter" ELSE IF exiting THEN "turn" ELSE "poll"
  /\ UNCHANGED <<command, object, exiting, watched, holders, conn, child>>

(* An iteration begins: the loop looks for active events, then commits      *)
(* itself to wait, then waits.                                              *)
Turn ==
  /\ phase \in {"turn", "enter"}
  /\ phase' = IF phase = "enter" THEN "poll" ELSE IF exiting THEN "left" ELSE "enter"
  /\ UNCHANGED <<command, object, exiting, watched, holders, conn, child>>

(* accept_callback.  Where a child keeps a closed listening socket watched, *)
(* accept only fails.  That it may also fail for want of a descriptor is    *)
(* EventedServer's matter.                                                  *)
Accept(c) ==
  /\ phase = "poll" /\ watched /\ conn[c] = "queued"
  /\ phase' = "turn"
  /\ \/ Self \in holders /\ conn' = [conn EXCEPT ![c] = "open"]
     \/ Self \notin holders /\ conn' = conn
  /\ UNCHANGED <<command, object, exiting, watched, holders, child>>

(* The answer is delivered and the connection closed from this side.        *)
Answer(c) ==
  /\ phase = "poll" /\ conn[c] = "open"
  /\ phase' = "turn"
  /\ conn' = [conn EXCEPT ![c] = "lingering"]
  /\ UNCHANGED <<command, object, exiting, watched, holders, child>>

(* isCgi; of a deleted server, whatever is in its place.                    *)
IsCgi == command.argc < 3 \/ command.cgi \/ object = "deleted"

(* load_dynamic_content: the child gets a copy of every descriptor, the     *)
(* listening socket included.  Nobody waits for children: the dead ones     *)
(* keep their places.                                                       *)
Fork(c) ==
  /\ phase = "poll" /\ conn[c] = "open" /\ IsCgi
  /\ \E p \in Pid :
       /\ child[p] = Unused
       /\ child' = [child EXCEPT ![p] = [state |-> "running", client |-> c]]
       /\ holders' = IF Self \in holders THEN holders \cup {p} ELSE holders
  /\ phase' = "turn"
  /\ conn' = [conn EXCEPT ![c] = "child"]
  /\ UNCHANGED <<command, object, exiting, watched>>

ForkFails(c) ==
  /\ phase = "poll" /\ conn[c] = "open" /\ IsCgi
  /\ \A p \in Pid : child[p] # Unused
  /\ phase' = "turn"
  /\ conn' = [conn EXCEPT ![c] = "lingering"]
  /\ UNCHANGED <<command, object, exiting, watched, holders, child>>

(* dispatch returns, run closes the socket a second time, main returns.     *)
Return == phase = "left" /\ Die

-----------------------------------------------------------------------------
(* on_interrupt, between any two steps of the process.                      *)

(* ~HttpServer: asks the loop to end, if there is a loop, and closes the    *)
(* listening socket, if it is open: kqueue forgets it, epoll does when no   *)
(* child holds it either.                                                   *)
Delete ==
  /\ exiting' = (phase \in Looping)
  /\ LetGo(Self, conn)
  /\ watched' \in {FALSE, watched /\ holders # {Self}}
  /\ phase' = IF phase = "poll" THEN "turn" ELSE phase
  /\ UNCHANGED <<command, child>>

(* Mutant: the pointer is reset, for main to call run with it.              *)
InterruptForgets == object = "live" /\ object' = "null" /\ Delete

(* A second one deletes again and aborts.                                   *)
Interrupt ==
  \/ object = "live" /\ object' = "deleted" /\ Delete
  \/ object = "deleted" /\ Die

-----------------------------------------------------------------------------
(* Children and clients.                                                    *)

(* Mutant: no exit(1); a child that could not run its program returns into  *)
(* its copy of the event loop.                                              *)
ChildExitMissing(p) ==
  /\ child[p].state \in {"running", "orphan"}
  /\ child' = [child EXCEPT ![p].state = "orphan"]
  /\ UNCHANGED <<phase, command, object, exiting, watched, holders, conn>>

(* The child ends: its program does, or exit(1) after execve failed.        *)
ChildExit(p) ==
  /\ child[p].state \in {"running", "orphan"}
  /\ child' = [child EXCEPT ![p] = IF @.state = "orphan" THEN Unused
                                   ELSE [@ EXCEPT !.state = "zombie"]]
  /\ LetGo(p, [conn EXCEPT ![child[p].client] = "lingering"])
  /\ UNCHANGED <<phase, command, object, exiting, watched>>

Connect(c) ==
  /\ conn[c] = "out" /\ holders # {}
  /\ conn' = [conn EXCEPT ![c] = "queued"]
  /\ UNCHANGED <<phase, command, object, exiting, watched, holders, child>>

(* A client that closes first leaves nothing behind on this side.           *)
Leave(c) ==
  /\ conn[c] = "queued" \/ (conn[c] = "open" /\ phase = "poll")
  /\ conn' = [conn EXCEPT ![c] = "out"]
  /\ phase' = IF conn[c] = "open" THEN "turn" ELSE phase
  /\ UNCHANGED <<command, object, exiting, watched, holders, child>>

Expire(c) ==
  /\ conn[c] = "lingering"
  /\ conn' = [conn EXCEPT ![c] = "out"]
  /\ UNCHANGED <<phase, command, object, exiting, watched, holders, child>>

-----------------------------------------------------------------------------
(* The process runs, the system delivers what it can, and programs end.     *)
Process ==
  \/ (\E a \in Commands : Start(a)) \/ Construct \/ OpenSocket \/ EnterLoop
  \/ Turn \/ Return \/ Interrupt
  \/ \E c \in Client : Accept(c) \/ Answer(c) \/ Fork(c) \/ ForkFails(c)

Environment ==
  \/ \E p \in Pid : ChildExit(p)
  \/ \E c \in Client : Connect(c) \/ Leave(c) \/ Expire(c)

Next == Process \/ Environment
Spec == Init /\ [][Next]_vars

(* Nobody need start, interrupt, connect or leave.  A ready listening socket *)
(* is served in an iteration that sees it, whatever else is ready.          *)
Fairness ==
  /\ WF_vars(Construct) /\ WF_vars(OpenSocket) /\ WF_vars(EnterLoop)
  /\ WF_vars(Turn) /\ WF_vars(Return)
  /\ \A c \in Client : SF_vars(Accept(c)) /\ WF_vars(Expire(c))
  /\ \A p \in Pid : WF_vars(ChildExit(p))

FairSpec == Spec /\ Fairness

-----------------------------------------------------------------------------
(* Every variable holds a value of its type, and eva.cpp's pointer names an *)
(* object exactly from its construction to the end of the process.          *)
TypeOK ==
  /\ phase \in Phase /\ command \in Commands
  /\ object \in {"null", "live", "deleted"}
  /\ (object = "null") = (phase \in {"down", "main"})
  /\ exiting \in BOOLEAN /\ watched \in BOOLEAN
  /\ holders \subseteq {Self} \cup Pid
  /\ conn \in [Client -> {"out", "queued", "open", "child", "lingering"}]
  /\ child \in [Pid -> Child]

(* A server in its loop that nobody interrupted listens and its loop watches *)
(* the socket, although opening it may fail, children come and go, and other *)
(* processes may still hold the socket of the server before.                *)
ListensUnlessInterrupted ==
  phase \in Looping /\ object = "live" => Self \in holders /\ watched

(* After the server has ended its port can be bound again, at the latest    *)
(* when the children it left behind have ended and the connections they     *)
(* and it closed have expired.                                              *)
PortFreed == phase = "down" ~> (PortFree \/ phase # "down")

(* A connection in the queue is accepted, or learns that nobody will: even  *)
(* one that a child outliving the server keeps waiting.                     *)
QueueServed == \A c \in Client : conn[c] = "queued" ~> conn[c] # "queued"

(* A server that is interrupted in its loop logs out (server.cpp:24-25): it  *)
(* ends, or its wait, entered just before, is never disturbed again; no     *)
(* event is served for ever after.                                          *)
InterruptedLoopEnds == exiting ~> (phase = "down" \/ [](phase = "poll"))

=============================================================================
