----------------------------- MODULE HttpExchange -----------------------------
(****************************************************************************)
(* What a client of Evented_Server is promised, without descriptors, events *)
(* or processes: it asks for one thing; what it receives is the beginning   *)
(* of an answer to what it asked, and the connection ends after the whole   *)
(* answer, unless the client left, a gateway program was to answer, or the  *)
(* server as a whole went down: which takes a client that resets its        *)
(* connection, or one that asks a lethal line.                              *)
(****************************************************************************)
EXTENDS Integers, Sequences

CONSTANTS
  Conn,   \* the connections
  Line,   \* what may be asked
  Lethal  \* what may bring the server down

VARIABLES
  asked,   \* the request line of each connection, or "nothing" so far
  size,    \* the size of the file it names
  answer,  \* the items that were delivered
  left,    \* the connections whose client half-closed or reset
  reset,   \* those of them that reset
  ended,   \* the connections whose end the server's side has caused
  down     \* the server has ended

vars == <<asked, size, answer, left, reset, ended, down>>

Gateway == {"dynamic", "broken"}

Code == [line \in {"part", "malformed", "missing", "denied"} |->
           CASE line = "missing" -> 404 [] line = "denied" -> 500 [] OTHER -> 400]

IsStatus(item, code) == item.tag = "status" /\ item.n = code

(* A file: the status line, then chunks that go on where the last ended.    *)
FileUpTo(s, n) ==
  /\ IsStatus(s[1], 200)
  /\ \A i \in 2..Len(s) : /\ s[i].tag = "chunk"
                          /\ (IF i = 2 THEN 0 ELSE s[i-1].n) < s[i].n
                          /\ s[i].n <= n

(* s may be received so far by one who asked for line.                      *)
Begins(line, n, s) ==
  \/ s = <<>>
  \/ /\ line \in DOMAIN Code /\ Len(s) <= 2
     /\ IsStatus(s[1], Code[line])
     /\ Len(s) = 2 => s[2].tag = "reason"
  \/ line = "static" /\ FileUpTo(s, n)
  \/ line = "dynamic" /\ Len(s) = 1 /\ s[1].tag \in {"page", "cut"}
  \/ line = "broken" /\ Len(s) = 1 /\ s[1].tag = "complaint"

(* Nothing more is to come.                                                 *)
Complete(line, n, s) ==
  \/ line \in DOMAIN Code /\ Len(s) = 2
  \/ line = "static" /\ s # <<>> /\ s[Len(s)].tag = "chunk" /\ s[Len(s)].n = n

MayEnd(c, s) ==
  c \in left \/ asked[c] \in Gateway \/ Complete(asked[c], size[c], s)

Init ==
  /\ asked = [c \in Conn |-> "nothing"]
  /\ size \in [Conn -> Nat]
  /\ answer = [c \in Conn |-> <<>>]
  /\ left = {} /\ reset = {} /\ ended = {} /\ down = FALSE

Ask(c) ==
  /\ asked[c] = "nothing" /\ c \notin left
  /\ \E line \in Line : asked' = [asked EXCEPT ![c] = line]
  /\ UNCHANGED <<size, answer, left, reset, ended, down>>

Quit(c) ==
  /\ left' = left \cup {c}
  /\ reset' \in {reset, reset \cup {c}}
  /\ UNCHANGED <<asked, size, answer, ended, down>>

Extends(s, t) == Len(s) <= Len(t) /\ SubSeq(t, 1, Len(s)) = s

(* One answer goes on, some connections end, or both.                       *)
Serve ==
  /\ ~down
  /\ \A c, d \in Conn : answer'[c] # answer[c] /\ answer'[d] # answer[d] => c = d
  /\ \A c \in Conn : answer'[c] # answer[c] =>
       /\ c \notin ended
       /\ Extends(answer[c], answer'[c])
       /\ Begins(asked[c], size[c], answer'[c])
  /\ ended \subseteq ended'
  /\ \A c \in ended' \ ended : MayEnd(c, answer'[c])
  /\ UNCHANGED <<asked, size, left, reset, down>>

(* The server goes down, and connections end wherever their answers are.    *)
Fail ==
  /\ ~down /\ down'
  /\ reset # {} \/ \E c \in Conn : asked[c] \in Lethal
  /\ ended \subseteq ended'
  /\ UNCHANGED <<asked, size, answer, left, reset>>

Next == Serve \/ Fail \/ \E c \in Conn : Ask(c) \/ Quit(c)

Spec == Init /\ [][Next]_vars
=============================================================================
