--------------------------- MODULE LifecycleProofs ---------------------------
(* A server that nobody interrupted listens, for any number of clients,     *)
(* children and restarts and any command lines.                             *)
EXTENDS Lifecycle, TLAPS

(* The invariant: the pointer follows the process's phase, and the socket   *)
(* is open and watched from the step on that opens and watches it.          *)
PointerFollows ==
  /\ phase \in Phase
  /\ object \in {"null", "live", "deleted"}
  /\ (object = "null") = (phase \in {"down", "main"})

OpenFromOpened ==
  object = "live" /\ phase \in {"opened"} \cup Looping => Self \in holders

WatchedInLoop == object = "live" /\ phase \in Looping => watched

ListenInv == PointerFollows /\ OpenFromOpened /\ WatchedInLoop

(* main starts with a null pointer and nothing open.                        *)
LEMMA ListenInit == Init => ListenInv
  BY DEF Init, ListenInv, PointerFollows, OpenFromOpened, WatchedInLoop, Phase, Looping

(* The end of the process, however it comes, leaves no server.              *)
LEMMA DieListens == Die => ListenInv'
  BY DEF Die, ListenInv, PointerFollows, OpenFromOpened, WatchedInLoop, Phase, Looping

(* No step of main, the loop, a handler, a child or a client loses it.      *)
LEMMA ListenStep == ListenInv /\ [Next]_vars => ListenInv'
<1> SUFFICES ASSUME ListenInv, [Next]_vars PROVE ListenInv'
  OBVIOUS
<1> USE DEF ListenInv, PointerFollows, OpenFromOpened, WatchedInLoop, Phase, Looping
<1>1. ASSUME NEW a \in Commands, Start(a) PROVE ListenInv'
  BY <1>1 DEF Start
<1>2. CASE Construct
  BY <1>2, DieListens DEF Construct
<1>3. CASE OpenSocket
  BY <1>3, DieListens DEF OpenSocket
<1>4. CASE EnterLoop
  <2>1. object = "live" => Self \in holders
    BY <1>4 DEF EnterLoop
  <2>2. WatchedInLoop'
    BY <1>4, <2>1, Zenon DEF EnterLoop
  <2>3. (PointerFollows /\ OpenFromOpened)'
    BY <1>4, SMT DEF EnterLoop
  <2> QED BY <2>2, <2>3
<1>5. CASE Turn
  BY <1>5 DEF Turn
<1>6. CASE Return
  BY <1>6, DieListens DEF Return
<1>7. CASE Interrupt
  <2>1. CASE object = "live"
    <3>1. object' = "deleted" /\ phase' = IF phase = "poll" THEN "turn" ELSE phase
      BY <1>7, <2>1 DEF Interrupt, Delete
    <3> QED BY <2>1, <3>1
  <2>2. CASE object # "live"
    BY <1>7, <2>2, DieListens DEF Interrupt
  <2> QED BY <2>1, <2>2
<1>8. ASSUME NEW c \in Client, Accept(c) \/ Answer(c) \/ ForkFails(c)
      PROVE ListenInv'
  BY <1>8 DEF Accept, Answer, ForkFails
<1>9. ASSUME NEW c \in Client, Fork(c) PROVE ListenInv'
  BY <1>9 DEF Fork
<1>10. ASSUME NEW p \in Pid, ChildExit(p) PROVE ListenInv'
  <2>1. p # Self
    BY <1>10, LifecycleAssumption DEF Self
  <2> QED BY <1>10, <2>1 DEF ChildExit, LetGo
<1>11. ASSUME NEW c \in Client, Connect(c) \/ Leave(c) \/ Expire(c)
       PROVE ListenInv'
  BY <1>11 DEF Connect, Leave, Expire
<1>12. CASE UNCHANGED vars
  BY <1>12 DEF vars
<1> QED
  BY <1>1, <1>2, <1>3, <1>4, <1>5, <1>6, <1>7, <1>8, <1>9, <1>10, <1>11, <1>12
  DEF Next, Process, Environment

(* In its loop and not interrupted, the server listens and its loop watches *)
(* the socket: run exits when open_socket fails, and neither a child nor    *)
(* another process takes the socket away.                                   *)
THEOREM Listens == Spec => []ListensUnlessInterrupted
<1>1. ListenInv => ListensUnlessInterrupted
  BY DEF ListenInv, OpenFromOpened, WatchedInLoop, ListensUnlessInterrupted
<1> QED
  BY <1>1, ListenInit, ListenStep, PTL DEF Spec
-----------------------------------------------------------------------------
(* The types of what the pointer's invariant does not speak of.             *)
States == {"out", "queued", "open", "child", "lingering"}

Flags  == command \in Commands /\ exiting \in BOOLEAN /\ watched \in BOOLEAN
Kernel == /\ holders \subseteq {Self} \cup Pid
          /\ conn \in [Client -> States] /\ child \in [Pid -> Child]

(* Letting the socket go ends what nobody accepted, and types nothing else. *)
LEMMA LetGoTyped ==
  ASSUME holders \subseteq {Self} \cup Pid, NEW h, NEW con \in [Client -> States],
         LetGo(h, con)
  PROVE  holders' \subseteq {Self} \cup Pid /\ conn' \in [Client -> States]
<1>1. holders' \subseteq {Self} \cup Pid
  BY DEF LetGo
<1>2. [c \in Client |-> IF con[c] = "queued" THEN "out" ELSE con[c]] \in [Client -> States]
  BY DEF States
<1> QED
  BY <1>1, <1>2 DEF LetGo

(* A process that ends leaves orphans, and connections that linger.         *)
LEMMA DieTyped ==
  ASSUME Flags, Kernel, Die
  PROVE  Flags' /\ Kernel'
<1> DEFINE con == [c \in Client |-> IF conn[c] = "open" THEN "lingering" ELSE conn[c]]
<1>1. con \in [Client -> States]
  BY DEF Kernel, States
<1>2. LetGo(Self, con)
  BY DEF Die
<1> HIDE DEF con
<1>3. holders' \subseteq {Self} \cup Pid /\ conn' \in [Client -> States]
  BY <1>1, <1>2, LetGoTyped DEF Kernel
<1>4. ASSUME NEW p \in Pid
      PROVE  CASE child[p].state = "zombie"  -> Unused \in Child
               [] child[p].state = "running" -> [child[p] EXCEPT !.state = "orphan"] \in Child
               [] OTHER                      -> child[p] \in Child
  <2>1. child[p] \in Child
    BY DEF Kernel
  <2>2. CASE child[p].state = "running"
    <3>1. child[p] \in [state : {"running", "orphan", "zombie"}, client : Client]
      BY <2>1, <2>2 DEF Child, Unused
    <3>2. [child[p] EXCEPT !.state = "orphan"] \in Child
      BY <3>1 DEF Child
    <3> QED
      BY <2>2, <3>2
  <2>3. CASE child[p].state # "running"
    BY <2>1, <2>3 DEF Child
  <2> QED
    BY <2>2, <2>3
<1>5. child' \in [Pid -> Child]
  BY <1>4 DEF Die
<1>6. Flags'
  BY DEF Die, Flags
<1> QED
  BY <1>3, <1>5, <1>6 DEF Kernel

(* Every other step.                                                        *)
LEMMA TypedStep ==
  ASSUME Flags, Kernel, [Next]_vars
  PROVE  Flags' /\ Kernel'
<1>1. ASSUME NEW a \in Commands, Start(a) PROVE Flags' /\ Kernel'
  BY <1>1 DEF Start, Flags, Kernel
<1>2. CASE Construct \/ OpenSocket \/ Return
  <2>1. CASE Die
    BY <2>1, DieTyped
  <2>2. CASE ~Die
    BY <1>2, <2>2 DEF Construct, OpenSocket, Return, Flags, Kernel
  <2> QED
    BY <2>1, <2>2
<1>3. CASE EnterLoop \/ Turn
  <2>1. UNCHANGED <<command, exiting, holders, conn, child>>
    BY <1>3 DEF EnterLoop, Turn
  <2>2. watched' \in BOOLEAN
    <3>1. CASE EnterLoop
      <4>1. watched' = (Self \in holders)
        BY <3>1 DEF EnterLoop
      <4>2. (Self \in holders) \in BOOLEAN
        OBVIOUS
      <4> QED
        BY <4>1, <4>2, Zenon
    <3>2. CASE Turn
      BY <3>2 DEF Turn, Flags
    <3> QED
      BY <1>3, <3>1, <3>2
  <2> QED
    BY <2>1, <2>2 DEF Flags, Kernel
<1>4. CASE Interrupt
  <2>1. CASE Die
    BY <2>1, DieTyped
  <2>2. CASE Delete
    <3>1. LetGo(Self, conn) /\ UNCHANGED <<command, child>>
      BY <2>2 DEF Delete
    <3>2. Kernel'
      BY <3>1, LetGoTyped DEF Kernel
    <3>3. exiting' \in BOOLEAN
      <4>1. exiting' = (phase \in Looping)
        BY <2>2, Zenon DEF Delete
      <4>2. (phase \in Looping) \in BOOLEAN
        OBVIOUS
      <4> QED
        BY <4>1, <4>2, Zenon
    <3>4. watched' \in BOOLEAN
      <4>1. watched' = FALSE \/ watched' = (watched /\ holders # {Self})
        <5>1. watched' \in {FALSE, watched /\ holders # {Self}}
          BY <2>2 DEF Delete
        <5>2. \A x, a, b : x \in {a, b} => x = a \/ x = b
          OBVIOUS
        <5> QED
          BY <5>1, <5>2, Zenon
      <4>2. (watched /\ holders # {Self}) \in BOOLEAN
        OBVIOUS
      <4> QED
        BY <4>1, <4>2, Zenon
    <3> QED
      BY <3>1, <3>2, <3>3, <3>4 DEF Flags
  <2> QED
    BY <1>4, <2>1, <2>2 DEF Interrupt
<1>5. ASSUME NEW c \in Client, NEW to \in States, conn' = [conn EXCEPT ![c] = to]
      PROVE  conn' \in [Client -> States]
  BY <1>5 DEF Kernel
<1>6. ASSUME NEW c \in Client,
             Accept(c) \/ Answer(c) \/ ForkFails(c) \/ Connect(c) \/ Leave(c) \/ Expire(c)
      PROVE  Flags' /\ Kernel'
  <2>1. UNCHANGED <<command, exiting, watched, holders, child>>
    BY <1>6 DEF Accept, Answer, ForkFails, Connect, Leave, Expire
  <2>2. conn' = conn \/ \E to \in States : conn' = [conn EXCEPT ![c] = to]
    BY <1>6 DEF Accept, Answer, ForkFails, Connect, Leave, Expire, States
  <2>3. conn' \in [Client -> States]
    BY <1>5, <2>2 DEF Kernel
  <2> QED
    BY <2>1, <2>3 DEF Flags, Kernel
<1>7. ASSUME NEW c \in Client, Fork(c) PROVE Flags' /\ Kernel'
  <2>1. PICK p \in Pid : /\ child' = [child EXCEPT ![p] = [state |-> "running", client |-> c]]
                         /\ holders' = IF Self \in holders THEN holders \cup {p} ELSE holders
    BY <1>7 DEF Fork
  <2>2. [state |-> "running", client |-> c] \in Child
    BY DEF Child
  <2>3. conn' = [conn EXCEPT ![c] = "child"] /\ UNCHANGED <<command, exiting, watched>>
    BY <1>7 DEF Fork
  <2>4. conn' \in [Client -> States]
    BY <1>5, <2>3 DEF States
  <2> QED
    BY <2>1, <2>2, <2>3, <2>4 DEF Flags, Kernel
<1>8. ASSUME NEW p \in Pid, ChildExit(p) PROVE Flags' /\ Kernel'
  <2>1. child[p] \in [state : {"running", "orphan", "zombie"}, client : Client]
    BY <1>8 DEF ChildExit, Kernel, Child, Unused
  <2>2. Unused \in Child /\ [child[p] EXCEPT !.state = "zombie"] \in Child
    BY <2>1 DEF Child
  <2>3. child' \in [Pid -> Child]
    BY <1>8, <2>2 DEF ChildExit, Kernel
  <2>4. [conn EXCEPT ![child[p].client] = "lingering"] \in [Client -> States]
    BY <2>1 DEF Kernel, States
  <2>5. holders' \subseteq {Self} \cup Pid /\ conn' \in [Client -> States]
    BY <1>8, <2>4, LetGoTyped DEF ChildExit, Kernel
  <2> QED
    BY <1>8, <2>3, <2>5 DEF ChildExit, Flags, Kernel
<1>9. CASE UNCHANGED vars
  BY <1>9 DEF vars, Flags, Kernel
<1> QED
  BY <1>1, <1>2, <1>3, <1>4, <1>6, <1>7, <1>8, <1>9 DEF Next, Process, Environment

(* The state keeps its shape over any starts, interrupts and restarts: in   *)
(* particular eva.cpp's pointer names an object exactly from construction   *)
(* to the end of the process, so that the handler (eva.cpp:13) never finds  *)
(* a pointer that main has not set.                                         *)
THEOREM Typed == Spec => []TypeOK
<1>1. Init => Flags /\ Kernel
  BY DEF Init, Flags, Kernel, States, Child
<1>2. Flags /\ Kernel /\ [Next]_vars => Flags' /\ Kernel'
  BY TypedStep
<1>3. ListenInv /\ Flags /\ Kernel => TypeOK
  BY DEF ListenInv, PointerFollows, Flags, Kernel, States, TypeOK
<1> QED
  BY <1>1, <1>2, <1>3, ListenInit, ListenStep, PTL DEF Spec
=============================================================================
