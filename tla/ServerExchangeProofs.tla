------------------------- MODULE ServerExchangeProofs -------------------------
(****************************************************************************)
(* EventedServer implements HttpExchange for clients that send one segment: *)
(* any number of clients, numbers, sizes and block lengths, both gateways.  *)
(****************************************************************************)
EXTENDS ServerExchange, ServedProofs, WellFoundedInduction

(* Every client sends one segment at most.                                  *)
OneScript == \A s \in Scripts : Len(s) <= 1

HasLeft(c) == link[c].peer \in {"fin", "gone"}

(* What was delivered to c and what is queued for it.                       *)
Whole(c) == link[c].stream \o proxy[c].out

(* The beginning of a file, up to n.                                        *)
Served(s, n) == Len(s) >= 2 /\ Exchange!FileUpTo(s, n) /\ s[Len(s)].n = n

(* Nothing was read of what c sent.                                         *)
Waiting(c) ==
  /\ link[c].stream = <<>> /\ job[c].state = "none"
  /\ link[c].sock = IF link[c].said = 0 THEN <<>> ELSE link[c].segs[1]
  /\ proxy[c].obj = "deleted" => HasLeft(c)

(* The line was read, and ...                                               *)
(* ... refused,                                                             *)
Refused(c) ==
  /\ Live(c) /\ proxy[c].finished /\ NoFile(c)
  /\ Request(c) \in DOMAIN Refusal
  /\ Whole(c) = <<Status(Refusal[Request(c)]), Text("reason")>>

(* ... its file is open, with left bytes to go,                             *)
Reading(c) ==
  /\ Live(c) /\ ~proxy[c].finished /\ proxy[c].loads <= 1
  /\ Request(c) = "static" /\ proxy[c].loader \in Fd
  /\ \A n \in Fd \ {proxy[c].loader} : ~IsFileOf(os, n, c)
  /\ \E left \in 0..link[c].size :
       /\ os.desc[proxy[c].loader] = File(c, left)
       /\ IF proxy[c].first THEN Whole(c) = <<>> /\ left = link[c].size
          ELSE Served(Whole(c), link[c].size - left)

(* ... its file was read to the end,                                        *)
Sent(c) ==
  /\ Live(c) /\ proxy[c].finished /\ NoFile(c)
  /\ Request(c) = "static" /\ Served(Whole(c), link[c].size)

(* ... nothing is there to answer with: open() failed, or the line ended    *)
(* the process,                                                             *)
Idle(c) == Live(c) /\ ~proxy[c].finished /\ NoFile(c) /\ Whole(c) = <<>>

(* ... or the proxy is deleted, and a gateway program may still write.      *)
Closed(c) ==
  /\ proxy[c].obj = "deleted"
  /\ Exchange!Begins(Request(c), link[c].size, link[c].stream)
  /\ \/ HasLeft(c) \/ Request(c) \in Exchange!Gateway
     \/ Exchange!Complete(Request(c), link[c].size, link[c].stream)
  /\ job[c].state = "running" =>
       /\ link[c].stream = <<>>
       /\ Request(c) = IF job[c].ok THEN "dynamic" ELSE "broken"
       /\ Mode = "cgi" => c \in job[c].held

Answering(c) == Refused(c) \/ Reading(c) \/ Sent(c) \/ Idle(c) \/ Closed(c)

Unread(c) == link[c].said = 0 \/ link[c].sock # <<>>

Scripted(c) ==
  /\ link[c].segs \in Scripts /\ link[c].said \in 0..Len(link[c].segs)
  /\ link[c].peer = "new" => link[c].said = 0

Answer(c) ==
  /\ Scripted(c)
  /\ IF Unread(c) THEN Waiting(c) ELSE Answering(c)

-----------------------------------------------------------------------------
(* Sequences.                                                               *)

LEMMA Joined ==
  ASSUME NEW s \in Seq(Item), NEW t \in Seq(Item)
  PROVE  /\ s \o t \in Seq(Item) /\ Len(s \o t) = Len(s) + Len(t)
         /\ Len(s) \in Nat /\ Len(t) \in Nat
         /\ \A i \in 1..Len(s) : (s \o t)[i] = s[i]
         /\ \A i \in 1..(Len(s) + Len(t)) : i > Len(s) => (s \o t)[i] = t[i - Len(s)]
         /\ s \o t = <<>> => s = <<>> /\ t = <<>>
         /\ s \o <<>> = s /\ <<>> \o s = s
  <1>1. /\ s \o t \in Seq(Item) /\ Len(s \o t) = Len(s) + Len(t)
        /\ Len(s) \in Nat /\ Len(t) \in Nat
        /\ \A i \in 1..Len(s) : (s \o t)[i] = s[i]
        /\ \A i \in 1..(Len(s) + Len(t)) : i > Len(s) => (s \o t)[i] = t[i - Len(s)]
    BY ConcatProperties, LenProperties
  <1>2. s \o t = <<>> => s = <<>> /\ t = <<>>
    OBVIOUS
  <1>3. s \o <<>> = s /\ <<>> \o s = s
    OBVIOUS
  <1> QED
    BY <1>1, <1>2, <1>3

LEMMA Assoc ==
  \A s, t, u \in Seq(Item) : (s \o t) \o u = s \o (t \o u)
  BY ConcatAssociative

(* A sequence that is cut is put together again.                            *)
LEMMA CutJoined ==
  ASSUME NEW t \in Seq(Item), NEW k \in 1..Len(t)
  PROVE  /\ SubSeq(t, 1, k) \in Seq(Item) /\ SubSeq(t, k + 1, Len(t)) \in Seq(Item)
         /\ SubSeq(t, 1, k) \o SubSeq(t, k + 1, Len(t)) = t
         /\ SubSeq(t, 1, Len(t)) = t
  OBVIOUS

(* The beginning of a sequence.                                             *)
LEMMA ExtendsJoined ==
  ASSUME NEW s \in Seq(Item), NEW t \in Seq(Item)
  PROVE  Exchange!Extends(s, s \o t)
  <1>1. Len(s) <= Len(s \o t) /\ SubSeq(s \o t, 1, Len(s)) = s
    OBVIOUS
  <1> QED
    BY <1>1 DEF Exchange!Extends

LEMMA ItemsHere ==
  /\ \A n \in Int : Status(n) \in Item /\ Chunk(n) \in Item
  /\ Text("reason") \in Item /\ Text("page") \in Item
  /\ Text("cut") \in Item /\ Text("complaint") \in Item
  BY DEF Status, Chunk, Text, Item

(* The first block, with the status line before it.                         *)
LEMMA ServedFirst ==
  ASSUME NEW n \in Nat, n > 0
  PROVE  /\ Served(<<Status(200), Chunk(n)>>, n)
         /\ <<Status(200)>> \o <<Chunk(n)>> = <<Status(200), Chunk(n)>>
  <1> DEFINE s == <<Status(200), Chunk(n)>>
  <1>1. /\ Len(s) = 2 /\ s[1].tag = "status" /\ s[1].n = 200
        /\ s[2].tag = "chunk" /\ s[2].n = n
    BY DEF Status, Chunk
  <1>2. <<Status(200)>> \o <<Chunk(n)>> = s
    <2>1. ASSUME NEW x \in Item, NEW y \in Item PROVE <<x>> \o <<y>> = <<x, y>>
      <3>1. <<x>> \o <<y>> \in Seq(Item) /\ <<x, y>> \in Seq(Item)
        OBVIOUS
      <3>2. Len(<<x>> \o <<y>>) = 2 /\ Len(<<x, y>>) = 2
        OBVIOUS
      <3>3. \A i \in 1..2 : (<<x>> \o <<y>>)[i] = <<x, y>>[i]
        OBVIOUS
      <3> QED
        BY <3>1, <3>2, <3>3, SeqEqual
    <2>2. Status(200) \in Item /\ Chunk(n) \in Item
      BY ItemsHere
    <2> QED
      BY <2>1, <2>2
  <1> HIDE DEF s
  <1>3. Served(s, n)
    <2>1. \A i \in 2..Len(s) : i = 2
      BY <1>1
    <2> QED
      BY <1>1, <2>1 DEF Served, Exchange!FileUpTo, Exchange!IsStatus
  <1> QED
    BY <1>2, <1>3 DEF s

(* A further block.                                                         *)
LEMMA ServedMore ==
  ASSUME NEW s \in Seq(Item), NEW m \in Int, NEW n \in Int, Served(s, m), m < n
  PROVE  Served(s \o <<Chunk(n)>>, n)
  <1>0. Chunk(n) \in Item
    BY ItemsHere
  <1>1. PICK a \in Nat, u \in Seq(Item) : a = Len(s) /\ u = s \o <<Chunk(n)>>
    <2>1. <<Chunk(n)>> \in Seq(Item)
      BY <1>0
    <2> QED
      BY <2>1, Joined
  <1>2. Len(u) = a + 1 /\ u[a + 1] = Chunk(n) /\ \A i \in 1..a : u[i] = s[i]
    BY <1>0, <1>1
  <1>3. /\ a >= 2 /\ s[a].n = m /\ Exchange!IsStatus(s[1], 200)
        /\ \A i \in 2..a : /\ s[i].tag = "chunk" /\ s[i].n <= m
                           /\ (IF i = 2 THEN 0 ELSE s[i - 1].n) < s[i].n
    BY <1>1 DEF Served, Exchange!FileUpTo
  <1>4. \A i \in 1..a : s[i].n \in Int
    <2>1. \A i \in 1..a : s[i] \in Item
      BY <1>1, LenProperties
    <2> QED
      BY <2>1 DEF Item
  <1>5. Chunk(n).tag = "chunk" /\ Chunk(n).n = n
    BY DEF Chunk
  <1>6. ASSUME NEW i \in 2..Len(u)
        PROVE  /\ u[i].tag = "chunk" /\ u[i].n <= n
               /\ (IF i = 2 THEN 0 ELSE u[i - 1].n) < u[i].n
    <2>1. CASE i = a + 1
      <3>1. u[i] = Chunk(n) /\ i # 2 /\ i - 1 = a /\ u[i - 1] = s[a]
        BY <1>2, <1>3, <2>1
      <3> QED
        BY <1>3, <1>5, <3>1
    <2>2. CASE i # a + 1
      <3>1. i \in 2..a
        BY <1>2, <2>2
      <3>2. u[i] = s[i] /\ (i # 2 => u[i - 1] = s[i - 1])
        BY <1>2, <3>1
      <3>3. s[i].n \in Int /\ s[i].n <= m
        BY <1>3, <1>4, <3>1
      <3> QED
        BY <1>3, <3>1, <3>2, <3>3
    <2> QED
      BY <2>1, <2>2
  <1>7. Exchange!IsStatus(u[1], 200)
    BY <1>2, <1>3
  <1>8. u[Len(u)].n = n /\ Len(u) >= 2
    BY <1>2, <1>3, <1>5
  <1> QED
    BY <1>1, <1>6, <1>7, <1>8 DEF Served, Exchange!FileUpTo

(* A beginning of a refusal or of a file.                                   *)
LEMMA PrefixBegins ==
  ASSUME NEW s \in Seq(Item), NEW t \in Seq(Item), NEW line, NEW n,
         \/ line \in DOMAIN Exchange!Code /\ Exchange!Begins(line, n, s \o t)
         \/ line = "static" /\ Exchange!FileUpTo(s \o t, n)
         \/ s \o t = <<>>
  PROVE  Exchange!Begins(line, n, s)
  <1>1. PICK a \in Nat, u \in Seq(Item) : a = Len(s) /\ u = s \o t
    BY Joined
  <1>2. /\ Len(u) \in Nat /\ a <= Len(u) /\ \A i \in 1..a : u[i] = s[i]
        /\ a = 0 <=> s = <<>>
        /\ u = <<>> => s = <<>>
    BY <1>1, Joined
  <1> SUFFICES ASSUME s # <<>> PROVE Exchange!Begins(line, n, s)
    BY DEF Exchange!Begins
  <1>3. a >= 1 /\ u # <<>> /\ u[1] = s[1]
    BY <1>2
  <1>4. CASE line = "static" /\ Exchange!FileUpTo(u, n)
    <2>1. Exchange!IsStatus(s[1], 200)
      BY <1>3, <1>4 DEF Exchange!FileUpTo
    <2>2. ASSUME NEW i \in 2..Len(s)
          PROVE  /\ s[i].tag = "chunk" /\ s[i].n <= n
                 /\ (IF i = 2 THEN 0 ELSE s[i - 1].n) < s[i].n
      <3>1. i \in 2..Len(u) /\ u[i] = s[i] /\ (i # 2 => u[i - 1] = s[i - 1])
        BY <1>1, <1>2
      <3> QED
        BY <1>4, <3>1 DEF Exchange!FileUpTo
    <2> QED
      BY <1>4, <2>1, <2>2 DEF Exchange!Begins, Exchange!FileUpTo
  <1>5. CASE line \in DOMAIN Exchange!Code /\ Exchange!Begins(line, n, u)
    <2>1. line \in {"part", "malformed", "missing", "denied"}
      BY <1>5 DEF Exchange!Code
    <2>2. /\ Len(u) <= 2 /\ Exchange!IsStatus(u[1], Exchange!Code[line])
          /\ Len(u) = 2 => u[2].tag = "reason"
      BY <1>3, <1>5, <2>1 DEF Exchange!Begins
    <2>3. Len(s) <= 2 /\ (Len(s) = 2 => s[2].tag = "reason")
      BY <1>1, <1>2, <2>2
    <2> QED
      BY <1>3, <1>5, <2>2, <2>3 DEF Exchange!Begins
  <1> QED
    BY <1>1, <1>3, <1>4, <1>5

(* A file may always have been served further.                              *)
LEMMA ServedWithin ==
  ASSUME NEW s \in Seq(Item), NEW m \in Int, NEW n \in Int, Served(s, m), m <= n
  PROVE  Exchange!FileUpTo(s, n)
  <1>1. \A i \in 2..Len(s) : s[i].n \in Int
    <2>1. \A i \in 2..Len(s) : s[i] \in Item
      BY LenProperties
    <2> QED
      BY <2>1 DEF Item
  <1>2. Exchange!FileUpTo(s, m)
    BY DEF Served
  <1>3. ASSUME NEW i \in 2..Len(s)
        PROVE  s[i].n <= n
    <2>1. s[i].n \in Int /\ s[i].n <= m
      BY <1>1, <1>2 DEF Exchange!FileUpTo
    <2> QED
      BY <2>1
  <1> QED
    BY <1>2, <1>3 DEF Exchange!FileUpTo

-----------------------------------------------------------------------------
(* The line that is taken.                                                  *)

(* A set of naturals has a least element.                                   *)
LEMMA Least ==
  ASSUME NEW T, T \subseteq Nat, T # {}
  PROVE  \E x \in T : \A y \in T : x <= y
  <1> DEFINE R == {ss \in Nat \X Nat : ss[1] < ss[2]}
  <1>1. IsWellFoundedOn(R, Nat)
    BY NatLessThanWellFounded DEF OpToRel
  <1> HIDE DEF R
  <1>2. \E x \in T : \A y \in T : ~ (<<y, x>> \in R)
    BY <1>1, WFMin
  <1>3. \A x, y \in Nat : y < x => <<y, x>> \in R
    BY DEF R
  <1>4. PICK x \in T : \A y \in T : ~ (<<y, x>> \in R)
    BY <1>2
  <1>5. ASSUME NEW y \in T PROVE x <= y
    <2>1. x \in Nat /\ y \in Nat /\ ~ (y < x)
      BY <1>3, <1>4
    <2> QED
      BY <2>1
  <1> QED
    BY <1>5

(* A line is taken from any input, or found wanting its end, in one way.    *)
LEMMA OneTaken ==
  ASSUME NEW in \in Seq(Line)
  PROVE  /\ \E i : i \in Taken(in)
         /\ \A i, j \in Taken(in) : i = j
         /\ \A i \in Taken(in) : FirstLine(in, i) \in Line
  <1>1. Len(in) \in Nat /\ \A i \in 1..Len(in) : in[i] \in Line
    BY LenProperties
  <1>2. \E i : i \in Taken(in)
    <2> DEFINE T == {j \in 1..Len(in) : in[j] # "part"}
    <2>1. CASE T = {}
      <3>1. 0 \in Taken(in)
        BY <1>1, <2>1 DEF Taken
      <3> QED
        BY <3>1
    <2>2. CASE T # {}
      <3>1. T \subseteq Nat
        OBVIOUS
      <3>2. PICK i \in T : \A j \in T : i <= j
        BY <2>2, <3>1, Least
      <3>3. \A j \in 1..Len(in) : j < i => in[j] = "part"
        BY <1>1, <3>2
      <3>4. i \in Taken(in)
        BY <1>1, <3>2, <3>3 DEF Taken
      <3> QED
        BY <3>4
    <2> QED
      BY <2>1, <2>2
  <1>3. ASSUME NEW i \in Taken(in), NEW j \in Taken(in) PROVE i = j
    <2>1. ASSUME NEW a \in Taken(in), NEW b \in Taken(in), a < b PROVE FALSE
      <3>1. a \in 0..Len(in) /\ b \in 1..Len(in) /\ in[b] # "part"
        BY <1>1, <2>1 DEF Taken
      <3>2. a = 0 => in[b] = "part"
        BY <3>1 DEF Taken
      <3>3. a > 0 => in[a] # "part" /\ a \in 1..Len(in)
        BY <3>1 DEF Taken
      <3>4. a > 0 => in[a] = "part"
        BY <2>1, <3>3 DEF Taken
      <3> QED
        BY <1>1, <3>1, <3>2, <3>3, <3>4
    <2>2. i \in Nat /\ j \in Nat
      BY <1>1 DEF Taken
    <2>3. ~(i < j) /\ ~(j < i)
      BY <2>1
    <2> QED
      BY <2>2, <2>3
  <1>4. \A i \in Taken(in) : FirstLine(in, i) \in Line
    <2>1. "part" \in Line
      BY DEF Line
    <2>2. \A i \in Taken(in) : i = 0 \/ i \in 1..Len(in)
      BY <1>1 DEF Taken
    <2> QED
      BY <1>1, <2>1, <2>2 DEF FirstLine
  <1> QED
    BY <1>2, <1>3, <1>4

(* The segments of a script.                                                *)
LEMMA Segments ==
  ASSUME NEW c \in Conn, Scripted(c), NEW i \in 1..Len(link[c].segs)
  PROVE  link[c].segs[i] \in Seq(Line) /\ link[c].segs[i] # <<>>
  <1>1. link[c].segs \in Seq(Seq(Line) \ {<<>>})
    BY ServerAssumption DEF Scripted
  <1>2. link[c].segs[i] \in Seq(Line) \ {<<>>}
    BY <1>1, ElementOfSeq
  <1> QED
    BY <1>2

(* Request is the line the callback takes from the first segment.           *)
LEMMA RequestTaken ==
  ASSUME NEW c \in Conn, Scripted(c), link[c].said # 0
  PROVE  /\ Request(c) \in Line
         /\ \A i \in Taken(link[c].segs[1]) : FirstLine(link[c].segs[1], i) = Request(c)
  <1> DEFINE seg == link[c].segs[1]
  <1>1. Len(link[c].segs) \in Nat
    BY ServerAssumption, LenProperties DEF Scripted
  <1>2. 1 \in 1..Len(link[c].segs)
    BY <1>1 DEF Scripted
  <1>3. seg \in Seq(Line)
    BY <1>2, Segments
  <1> HIDE DEF seg
  <1>4. (CHOOSE i \in Taken(seg) : TRUE) \in Taken(seg)
    BY <1>3, OneTaken
  <1>5. Request(c) = FirstLine(seg, CHOOSE i \in Taken(seg) : TRUE)
    BY DEF Request, seg
  <1>6. \A i \in Taken(seg) : i = CHOOSE k \in Taken(seg) : TRUE
    BY <1>3, <1>4, OneTaken
  <1> QED
    BY <1>3, <1>4, <1>5, <1>6, OneTaken DEF seg

(* The same of a first segment that is about to be sent.                    *)
LEMMA FirstTaken ==
  ASSUME NEW c \in Conn, Scripted(c), 0 < Len(link[c].segs),
         NEW seg, seg = link[c].segs[1]
  PROVE  FirstLine(seg, CHOOSE i \in Taken(seg) : TRUE) \in Line
  <1>1. Len(link[c].segs) \in Nat
    BY ServerAssumption, LenProperties DEF Scripted
  <1>2. 1 \in 1..Len(link[c].segs)
    BY <1>1
  <1>3. seg \in Seq(Line)
    BY <1>2, Segments
  <1>4. (CHOOSE i \in Taken(seg) : TRUE) \in Taken(seg)
    BY <1>3, OneTaken
  <1> QED
    BY <1>3, <1>4, OneTaken

-----------------------------------------------------------------------------
(* The phases of a connection.                                              *)

(* The status codes of the promise are those of the code.                   *)
LEMMA SameCodes ==
  /\ DOMAIN Refusal = DOMAIN Exchange!Code
  /\ \A line \in DOMAIN Refusal : Refusal[line] = Exchange!Code[line]
  /\ \A line \in DOMAIN Refusal : Refusal[line] \in Int /\ line \notin {"dynamic", "broken", "static"}
  BY DEF Refusal, Exchange!Code

(* A refusal is a whole answer.                                             *)
LEMMA RefusalWhole ==
  ASSUME NEW line \in DOMAIN Refusal, NEW n, NEW s,
         s = <<Status(Refusal[line]), Text("reason")>>
  PROVE  /\ Exchange!Begins(line, n, s) /\ Exchange!Complete(line, n, s)
         /\ s \in Seq(Item) /\ s # <<>>
  <1>1. s[1] = Status(Refusal[line]) /\ s[2] = Text("reason") /\ Len(s) = 2
    OBVIOUS
  <1>2. s[1].tag = "status" /\ s[1].n = Exchange!Code[line] /\ s[2].tag = "reason"
    BY <1>1, SameCodes DEF Status, Text
  <1>3. line \in DOMAIN Exchange!Code
    BY SameCodes
  <1>4. s \in Seq(Item) /\ s # <<>>
    BY SameCodes, ItemsHere
  <1> QED
    BY <1>1, <1>2, <1>3, <1>4 DEF Exchange!Begins, Exchange!Complete, Exchange!IsStatus

(* A file that was sent is a whole answer.                                  *)
LEMMA ServedWhole ==
  ASSUME NEW s \in Seq(Item), NEW n \in Int, Served(s, n)
  PROVE  Exchange!Complete("static", n, s) /\ s # <<>>
  <1>1. Len(s) \in Nat /\ Len(s) >= 2
    BY LenProperties DEF Served
  <1>2. s # <<>> /\ Len(s) \in 2..Len(s)
    BY <1>1
  <1> QED
    BY <1>2 DEF Served, Exchange!FileUpTo, Exchange!Complete

(* The sequences and numbers of a connection.                               *)
LEMMA ConnFacts ==
  ASSUME Inv, NEW c \in Conn
  PROVE  /\ link[c].stream \in Seq(Item) /\ proxy[c].out \in Seq(Item)
         /\ Whole(c) \in Seq(Item)
         /\ proxy[c].input \in Seq(Line) /\ link[c].sock \in Seq(Line)
         /\ link[c].size \in Nat /\ link[c].said \in Nat
         /\ proxy[c].finished \in BOOLEAN /\ proxy[c].first \in BOOLEAN
         /\ proxy[c].loads \in Nat
  <1>1. proxy[c] \in Proxy /\ link[c] \in Link
    BY LiveFacts
  <1>2. /\ link[c].stream \in Seq(Item) /\ proxy[c].out \in Seq(Item)
        /\ proxy[c].input \in Seq(Line) /\ link[c].sock \in Seq(Line)
        /\ link[c].size \in Nat /\ link[c].said \in Nat
        /\ proxy[c].finished \in BOOLEAN /\ proxy[c].first \in BOOLEAN
        /\ proxy[c].loads \in Nat
    BY <1>1 DEF Proxy, Link
  <1> QED
    BY <1>2, Joined DEF Whole

(* What was delivered begins the answer to the request.                     *)
LEMMA AnswerBegins ==
  ASSUME Inv, NEW c \in Conn, Answer(c)
  PROVE  Exchange!Begins(Request(c), link[c].size, link[c].stream)
  <1>1. /\ link[c].stream \in Seq(Item) /\ proxy[c].out \in Seq(Item)
        /\ Whole(c) \in Seq(Item) /\ link[c].size \in Nat
    BY ConnFacts
  <1>2. CASE Waiting(c)
    BY <1>2 DEF Waiting, Exchange!Begins
  <1>3. CASE Closed(c)
    BY <1>3 DEF Closed
  <1>4. CASE Refused(c)
    <2>1. Request(c) \in DOMAIN Exchange!Code
      BY <1>4, SameCodes DEF Refused
    <2>2. Exchange!Begins(Request(c), link[c].size, Whole(c))
      BY <1>4, RefusalWhole DEF Refused
    <2> QED
      BY <1>1, <2>1, <2>2, PrefixBegins DEF Whole
  <1>5. CASE Whole(c) = <<>>
    BY <1>1, <1>5, PrefixBegins DEF Whole
  <1>6. ASSUME NEW m \in Int, Request(c) = "static", Served(Whole(c), m), m <= link[c].size
        PROVE  Exchange!Begins(Request(c), link[c].size, link[c].stream)
    <2>1. Exchange!FileUpTo(Whole(c), link[c].size)
      BY <1>1, <1>6, ServedWithin
    <2> QED
      BY <1>1, <1>6, <2>1, PrefixBegins DEF Whole
  <1>7. CASE Sent(c)
    BY <1>1, <1>6, <1>7 DEF Sent
  <1>8. CASE Reading(c) /\ Whole(c) # <<>>
    <2>1. PICK left \in 0..link[c].size : Served(Whole(c), link[c].size - left)
      BY <1>8 DEF Reading
    <2>2. link[c].size - left \in Int /\ link[c].size - left <= link[c].size
      BY <1>1
    <2> QED
      BY <1>6, <1>8, <2>1, <2>2 DEF Reading
  <1> QED
    BY <1>2, <1>3, <1>4, <1>5, <1>7, <1>8 DEF Answer, Answering, Idle

(* A live proxy or an undeleted one is in no other phase.                   *)
LEMMA LivePhase ==
  ASSUME NEW c \in Conn, Answer(c)
  PROVE  /\ proxy[c].obj = "none" => Unread(c) /\ Waiting(c)
         /\ ~Unread(c) /\ Live(c) => Refused(c) \/ Reading(c) \/ Sent(c) \/ Idle(c)
         /\ ~Unread(c) /\ proxy[c].obj = "deleted" => Closed(c)
         /\ job[c].state # "none" => ~Unread(c)
         /\ IsFileOf(os, proxy[c].loader, c) /\ Live(c) /\ ~Unread(c) => Reading(c)
  BY DEF Answer, Answering, Refused, Reading, Sent, Idle, Closed, Waiting, Live,
         NoFile, IsFileOf

(* What the link keeps in the steps of the server.                          *)
Kept(c) == /\ link'[c].segs = link[c].segs /\ link'[c].said = link[c].said
           /\ link'[c].size = link[c].size /\ link'[c].peer = link[c].peer

LEMMA KeptFacts ==
  ASSUME NEW c \in Conn, Kept(c)
  PROVE  /\ Request(c)' = Request(c) /\ Scripted(c)' = Scripted(c)
         /\ HasLeft(c)' = HasLeft(c)
  BY DEF Kept, Request, Scripted, HasLeft

(* A step of another connection.                                            *)
LEMMA AnswerFrame ==
  ASSUME NEW c \in Conn, OthersKept(c), OnlyMine(c), NEW d \in Conn \ {c}, Answer(d)
  PROVE  Answer(d)'
  <1>1. proxy'[d] = proxy[d] /\ link'[d] = link[d] /\ job'[d] = job[d]
    BY DEF OthersKept
  <1>2. \A n \in Fd : IsFileOf(os', n, d) => IsFileOf(os, n, d)
    BY DEF OnlyMine, Mine, IsFileOf, Free
  <1>3. \A n \in Fd, k \in Nat : os.desc[n] = File(d, k) => os'.desc[n] = File(d, k)
    BY DEF OnlyMine, Mine, File, Free
  <1>4. Request(d)' = Request(d) /\ Scripted(d)' = Scripted(d) /\ HasLeft(d)' = HasLeft(d)
    BY <1>1, KeptFacts DEF Kept
  <1>5. /\ Live(d)' = Live(d) /\ Whole(d)' = Whole(d) /\ Unread(d)' = Unread(d)
        /\ NoFile(d) => NoFile(d)'
    BY <1>1, <1>2 DEF Live, Whole, Unread, NoFile
  <1>6. CASE Unread(d)
    BY <1>1, <1>4, <1>5, <1>6 DEF Answer, Waiting
  <1>7. CASE ~Unread(d) /\ (Refused(d) \/ Sent(d) \/ Idle(d))
    BY <1>1, <1>4, <1>5, <1>7 DEF Answer, Answering, Refused, Sent, Idle
  <1>8. CASE ~Unread(d) /\ Closed(d)
    BY <1>1, <1>4, <1>5, <1>8 DEF Answer, Answering, Closed
  <1>9. CASE ~Unread(d) /\ Reading(d)
    <2>1. PICK left \in 0..link[d].size :
            /\ os.desc[proxy[d].loader] = File(d, left)
            /\ IF proxy[d].first THEN Whole(d) = <<>> /\ left = link[d].size
               ELSE Served(Whole(d), link[d].size - left)
      BY <1>9 DEF Reading
    <2>2. os'.desc[proxy[d].loader] = File(d, left)
      BY <1>3, <1>9, <2>1 DEF Reading
    <2>3. Reading(d)'
      BY <1>1, <1>2, <1>4, <1>5, <1>9, <2>1, <2>2 DEF Reading
    <2> QED
      BY <1>4, <1>5, <1>9, <2>3 DEF Answer, Answering
  <1> QED
    BY <1>6, <1>7, <1>8, <1>9 DEF Answer, Answering

-----------------------------------------------------------------------------
(* The connection's own steps.                                              *)

LEMMA AnswerAccept ==
  ASSUME Inv, NEW c \in Conn, Answer(c), AcceptCallback(c)
  PROVE  Answer(c)'
  <1>1. /\ proxy[c].obj = "none" /\ proxy'[c].obj = "live" /\ link' = link /\ job' = job
    BY AcceptEffect
  <1>2. Scripted(c)' /\ Unread(c)' /\ Waiting(c)'
    BY <1>1, LivePhase DEF Answer, Scripted, Unread, Waiting, HasLeft
  <1> QED
    BY <1>2 DEF Answer

LEMMA AnswerError ==
  ASSUME Inv, NEW c \in Conn, Answer(c), ErrorCallback(c)
  PROVE  Answer(c)'
  <1>1. /\ Live(c) /\ HasLeft(c) /\ link' = link /\ job' = job
        /\ proxy'[c].obj = "deleted" /\ job[c].state = "none"
    BY ErrorEffect, LiveFacts DEF HasLeft
  <1>2. /\ Scripted(c)' /\ HasLeft(c)' /\ Unread(c)' = Unread(c)
        /\ Request(c)' = Request(c)
    BY <1>1 DEF Scripted, Unread, HasLeft, Answer, Request
  <1>3. CASE Unread(c)
    BY <1>1, <1>2, <1>3 DEF Answer, Waiting
  <1>4. CASE ~Unread(c)
    <2>1. Closed(c)'
      BY <1>1, <1>2, AnswerBegins DEF Closed
    <2> QED
      BY <1>2, <1>4, <2>1 DEF Answer, Answering
  <1> QED
    BY <1>3, <1>4

LEMMA AnswerWrite ==
  ASSUME Inv, NEW c \in Conn, FirstSegment(c), Answer(c), link[c].said <= 1, WriteCallback(c)
  PROVE  Answer(c)'
  <1>1. /\ Live(c) /\ job' = job /\ Kept(c) /\ link'[c].sock = link[c].sock
        /\ proxy'[c].loads = proxy[c].loads /\ NoNewFile(c) /\ job[c].state = "none"
    BY WriteEffect, LiveFacts DEF Kept
  <1>2. PICK k \in 1..Len(proxy[c].out) :
          /\ link'[c].stream = link[c].stream \o SubSeq(proxy[c].out, 1, k)
          /\ \/ /\ proxy[c].finished /\ k = Len(proxy[c].out)
                /\ proxy'[c].obj = "deleted"
             \/ /\ Live(c)' /\ os' = os
                /\ proxy'[c].out = SubSeq(proxy[c].out, k + 1, Len(proxy[c].out))
                /\ proxy'[c].finished = proxy[c].finished
                /\ proxy'[c].first = proxy[c].first
                /\ proxy'[c].loader = proxy[c].loader
    BY WriteEffect
  <1>3. /\ link[c].stream \in Seq(Item) /\ proxy[c].out \in Seq(Item)
        /\ Whole(c) \in Seq(Item) /\ link[c].size \in Nat
    BY ConnFacts
  <1>4. proxy[c].out # <<>>
    <2>1. Len(<<>>) = 0
      OBVIOUS
    <2> QED
      BY <1>2, <2>1
  <1>5. ~Unread(c) /\ ~Idle(c)
    <2>1. ~Unread(c)
      BY <1>4 DEF FirstSegment, Untouched, Blank, Unread
    <2>2. Whole(c) # <<>>
      BY <1>3, <1>4, Joined DEF Whole
    <2> QED
      BY <2>1, <2>2 DEF Idle
  <1>6. Refused(c) \/ Reading(c) \/ Sent(c)
    BY <1>1, <1>5, LivePhase
  <1>7. /\ Request(c)' = Request(c) /\ Scripted(c)' /\ ~Unread(c)'
    BY <1>1, <1>5, KeptFacts DEF Answer, Unread, Kept
  <1>8. CASE proxy'[c].obj = "deleted"
    <2>1. proxy[c].finished /\ k = Len(proxy[c].out)
      BY <1>2, <1>8 DEF Live
    <2>2. link'[c].stream = Whole(c)
      BY <1>2, <1>3, <2>1, CutJoined DEF Whole
    <2>3. Exchange!Complete(Request(c), link[c].size, Whole(c))
      BY <1>3, <1>6, <2>1, RefusalWhole, ServedWhole DEF Refused, Sent, Reading
    <2>4. Exchange!Begins(Request(c), link[c].size, Whole(c))
      <3>1. CASE Refused(c)
        BY <3>1, RefusalWhole DEF Refused
      <3>2. CASE Sent(c)
        <4>1. Exchange!FileUpTo(Whole(c), link[c].size)
          BY <3>2 DEF Sent, Served
        <4> QED
          BY <3>2, <4>1 DEF Sent, Exchange!Begins
      <3> QED
        BY <1>6, <2>1, <3>1, <3>2 DEF Reading
    <2>5. Closed(c)'
      BY <1>1, <1>7, <1>8, <2>2, <2>3, <2>4 DEF Closed, Kept
    <2> QED
      BY <1>7, <2>5 DEF Answer, Answering
  <1>9. CASE proxy'[c].obj # "deleted"
    <2>1. /\ Live(c)' /\ os' = os
          /\ proxy'[c].out = SubSeq(proxy[c].out, k + 1, Len(proxy[c].out))
          /\ proxy'[c].finished = proxy[c].finished
          /\ proxy'[c].first = proxy[c].first
          /\ proxy'[c].loader = proxy[c].loader
      BY <1>2, <1>9
    <2>2. Whole(c)' = Whole(c)
      <3>1. /\ SubSeq(proxy[c].out, 1, k) \in Seq(Item)
            /\ SubSeq(proxy[c].out, k + 1, Len(proxy[c].out)) \in Seq(Item)
            /\ SubSeq(proxy[c].out, 1, k) \o SubSeq(proxy[c].out, k + 1, Len(proxy[c].out))
                 = proxy[c].out
        BY <1>3, CutJoined
      <3> DEFINE a == SubSeq(proxy[c].out, 1, k)
                 b == SubSeq(proxy[c].out, k + 1, Len(proxy[c].out))
      <3>2. (link[c].stream \o a) \o b = link[c].stream \o (a \o b)
        BY <1>3, <3>1, Assoc
      <3>3. link'[c].stream = link[c].stream \o a /\ proxy'[c].out = b /\ a \o b = proxy[c].out
        BY <1>2, <2>1, <3>1
      <3> HIDE DEF a, b
      <3> QED
        BY <3>2, <3>3 DEF Whole
    <2>3. NoFile(c)' = NoFile(c) /\ link'[c].size = link[c].size
      BY <1>1, <2>1 DEF NoFile, Kept
    <2>4. CASE Refused(c) \/ Sent(c)
      BY <1>7, <2>1, <2>2, <2>3, <2>4 DEF Answer, Answering, Refused, Sent
    <2>5. CASE Reading(c)
      <3>1. Reading(c)'
        BY <1>1, <1>7, <2>1, <2>2, <2>3, <2>5 DEF Reading
      <3> QED
        BY <1>7, <3>1 DEF Answer, Answering
    <2> QED
      BY <1>6, <2>4, <2>5
  <1> QED
    BY <1>8, <1>9

LEMMA AnswerFileWrite ==
  ASSUME Inv, NEW e \in os.reg, FileWriteCallback(e), NEW c, c = e.conn,
         FirstSegment(c), Answer(c), link[c].said <= 1
  PROVE  Answer(c)'
  <1>1. /\ c \in Conn /\ Live(c) /\ link' = link /\ job' = job
        /\ IsFileOf(os, proxy[c].loader, c)
        /\ proxy'[c].obj = "live" /\ proxy'[c].loads = proxy[c].loads
        /\ proxy'[c].loader = proxy[c].loader /\ proxy'[c].first = FALSE
    BY FileWriteEffect
  <1>2. PICK n, k \in Nat : BlockRead(c, n, k)
    BY FileWriteEffect
  <1>3. ~Unread(c)
    BY <1>1 DEF FirstSegment, Untouched, NoFile, IsFileOf, Unread
  <1>4. Reading(c)
    BY <1>1, <1>3, LivePhase
  <1>5. /\ link[c].stream \in Seq(Item) /\ proxy[c].out \in Seq(Item)
        /\ Whole(c) \in Seq(Item) /\ link[c].size \in Nat
        /\ proxy[c].first \in BOOLEAN
    BY <1>1, ConnFacts
  <1>6. PICK left \in 0..link[c].size :
          /\ os.desc[proxy[c].loader] = File(c, left)
          /\ IF proxy[c].first THEN Whole(c) = <<>> /\ left = link[c].size
             ELSE Served(Whole(c), link[c].size - left)
    BY <1>4 DEF Reading
  <1>7. left = n
    <2>1. os.desc[proxy[c].loader] = File(c, n)
      BY <1>2 DEF BlockRead
    <2>2. File(c, left).left = left /\ File(c, n).left = n
      BY DEF File
    <2> QED
      BY <1>6, <2>1, <2>2
  <1>8. k > 0 /\ k <= left /\ left - k \in 0..link[c].size
        /\ link[c].size - left + k \in Nat /\ link[c].size - left + k > 0
        /\ link[c].size - left + k = link[c].size - (left - k)
        /\ link[c].size - left < link[c].size - left + k
    <2>1. proxy[c].loads <= 1
      BY <1>4 DEF Reading
    <2>2. k > 0 /\ k <= left
      BY <1>2, <1>7, <2>1 DEF BlockRead
    <2>3. \A a \in Nat : left \in 0..a =>
            /\ left - k \in 0..a /\ a - left + k \in Nat /\ a - left + k > 0
            /\ a - left + k = a - (left - k) /\ a - left < a - left + k
      BY <2>2
    <2> QED
      BY <1>5, <2>2, <2>3
  <1> DEFINE m == link[c].size - left + k
             w == Whole(c)'
  <1>9. proxy'[c].out = proxy[c].out \o Heading(proxy[c]) \o <<Chunk(m)>>
    BY <1>2, <1>7, <1>8 DEF BlockRead
  <1> HIDE DEF m
  <1>10. m \in Nat /\ m > 0 /\ m = link[c].size - (left - k) /\ link[c].size - left < m
    BY <1>8 DEF m
  <1>11. <<Chunk(m)>> \in Seq(Item) /\ <<Status(200)>> \in Seq(Item)
    BY <1>10, ItemsHere
  <1>12. w = link[c].stream \o proxy'[c].out
    BY <1>1 DEF Whole
  <1> HIDE DEF w
  <1>13. Served(w, m)
    <2>1. CASE proxy[c].first
      <3>1. link[c].stream = <<>> /\ proxy[c].out = <<>>
        BY <1>5, <1>6, <2>1, Joined DEF Whole
      <3>2. Heading(proxy[c]) = <<Status(200)>>
        BY <2>1 DEF Heading
      <3>3. proxy'[c].out = <<Status(200)>> \o <<Chunk(m)>>
        BY <1>9, <1>11, <3>1, <3>2, Joined
      <3>4. w = <<Status(200)>> \o <<Chunk(m)>>
        <4>1. <<Status(200)>> \o <<Chunk(m)>> \in Seq(Item)
          BY <1>11, Joined
        <4> QED
          BY <1>12, <3>1, <3>3, <4>1, Joined
      <3> QED
        BY <1>10, <3>4, ServedFirst
    <2>2. CASE ~proxy[c].first
      <3>1. Heading(proxy[c]) = <<>>
        BY <2>2 DEF Heading
      <3>2. proxy'[c].out = proxy[c].out \o <<Chunk(m)>>
        BY <1>5, <1>9, <3>1, Joined
      <3>3. w = Whole(c) \o <<Chunk(m)>>
        <4> DEFINE ch == <<Chunk(m)>>
        <4>1. ch \in Seq(Item)
          BY <1>11
        <4>2. proxy'[c].out = proxy[c].out \o ch
          BY <3>2
        <4> HIDE DEF ch
        <4>3. (link[c].stream \o proxy[c].out) \o ch = link[c].stream \o (proxy[c].out \o ch)
          <5>1. ASSUME NEW a \in Seq(Item), NEW b \in Seq(Item)
                PROVE  (a \o b) \o ch = a \o (b \o ch)
            BY <4>1, Assoc, Zenon
          <5> QED
            BY <1>5, <5>1, Zenon
        <4>4. w = Whole(c) \o ch
          BY <1>12, <4>2, <4>3 DEF Whole
        <4> QED
          BY <4>4 DEF ch
      <3>4. Served(Whole(c), link[c].size - left) /\ link[c].size - left \in Int
        BY <1>5, <1>6, <2>2
      <3>5. Whole(c) \in Seq(Item) /\ m \in Int /\ link[c].size - left < m
        BY <1>5, <1>10
      <3>6. Served(Whole(c) \o <<Chunk(m)>>, m)
        BY <3>4, <3>5, ServedMore
      <3> QED
        BY <3>3, <3>6
    <2> QED
      BY <2>1, <2>2
  <1>14. /\ Request(c)' = Request(c) /\ Scripted(c)' /\ ~Unread(c)' /\ Live(c)'
    BY <1>1, <1>3 DEF Answer, Unread, Scripted, Request, Live
  <1>15. CASE /\ k = n /\ proxy'[c].finished
              /\ \A j \in Fd : os'.desc[j] = IF j = proxy[c].loader THEN Free ELSE os.desc[j]
    <2>1. NoFile(c)'
      BY <1>4, <1>15 DEF NoFile, Reading, IsFileOf, Free
    <2>2. m = link[c].size
      BY <1>5, <1>7, <1>10, <1>15
    <2>3. Sent(c)'
      BY <1>1, <1>4, <1>13, <1>14, <1>15, <2>1, <2>2 DEF Sent, Reading, w
    <2> QED
      BY <1>14, <2>3 DEF Answer, Answering
  <1>16. CASE /\ proxy'[c].finished = proxy[c].finished
              /\ \A j \in Fd : os'.desc[j] = IF j = proxy[c].loader THEN File(c, n - k)
                                              ELSE os.desc[j]
    <2>1. \A j \in Fd \ {proxy'[c].loader} : ~IsFileOf(os', j, c)
      BY <1>1, <1>4, <1>16 DEF Reading, IsFileOf
    <2>2. os'.desc[proxy'[c].loader] = File(c, left - k)
      BY <1>1, <1>4, <1>7, <1>16 DEF Reading
    <2>3. Served(w, link'[c].size - (left - k)) /\ left - k \in 0..link'[c].size
      BY <1>1, <1>8, <1>10, <1>13
    <2>4. Reading(c)'
      BY <1>1, <1>4, <1>14, <1>16, <2>1, <2>2, <2>3 DEF Reading, w
    <2> QED
      BY <1>14, <2>4 DEF Answer, Answering
  <1> QED
    BY <1>2, <1>15, <1>16 DEF BlockRead

(* The line the callback takes is the request, if one segment was sent.     *)
LEMMA RequestRead ==
  ASSUME Inv, NEW c \in Conn, FirstSegment(c), Answer(c), link[c].said <= 1, ReadCallback(c)
  PROVE  /\ Outcome(c, Request(c)) /\ Blank(proxy[c]) /\ proxy[c].loads = 0 /\ NoFile(c)
         /\ link[c].stream = <<>> /\ link[c].said # 0 /\ Scripted(c)
  <1>1. Live(c) /\ link[c].sock # <<>>
    BY ReadEffect
  <1>2. /\ Blank(proxy[c]) /\ proxy[c].loads = 0 /\ NoFile(c)
    BY <1>1 DEF FirstSegment, Untouched
  <1>3. /\ link[c].stream = <<>> /\ link[c].said # 0
        /\ link[c].sock = link[c].segs[1] /\ Scripted(c)
    BY <1>1 DEF Answer, Unread, Waiting
  <1>4. proxy[c].input \o link[c].sock = link[c].segs[1]
    <2>1. \A s \in Seq(Line) : <<>> \o s = s
      OBVIOUS
    <2> QED
      BY <1>2, <1>3, <2>1, ConnFacts DEF Blank
  <1>5. Outcome(c, Request(c))
    <2>1. PICK i \in Taken(proxy[c].input \o link[c].sock) :
            Outcome(c, FirstLine(proxy[c].input \o link[c].sock, i))
      BY ReadEffect
    <2>2. FirstLine(link[c].segs[1], i) = Request(c)
      BY <1>3, <1>4, <2>1, RequestTaken
    <2> QED
      BY <1>4, <2>1, <2>2
  <1> QED
    BY <1>2, <1>3, <1>5

LEMMA AnswerRead ==
  ASSUME Inv, NEW c \in Conn, FirstSegment(c), Answer(c), link[c].said <= 1, ReadCallback(c)
  PROVE  Answer(c)'
  <1>1. /\ Live(c) /\ link'[c].sock = <<>>
        /\ Kept(c) /\ link'[c].stream = link[c].stream
    BY ReadEffect DEF Kept
  <1>2. /\ Blank(proxy[c]) /\ proxy[c].loads = 0 /\ NoFile(c)
        /\ link[c].stream = <<>> /\ link[c].said # 0 /\ Scripted(c)
        /\ Outcome(c, Request(c))
    BY RequestRead
  <1>6. /\ Request(c)' = Request(c) /\ Scripted(c)' /\ ~Unread(c)'
        /\ link'[c].size = link[c].size /\ link'[c].stream = <<>>
    BY <1>1, <1>2, KeptFacts DEF Unread, Kept
  <1> SUFFICES Answering(c)'
    BY <1>6 DEF Answer
  <1>7. CASE Refuses(c, Request(c))
    <2> DEFINE w == <<Status(Refusal[Request(c)]), Text("reason")>>
    <2>1. w \in Seq(Item) /\ \A s \in Seq(Item) : <<>> \o s = s
      <3>1. Request(c) \in DOMAIN Refusal
        BY <1>7 DEF Refuses
      <3>2. w \in Seq(Item)
        BY <3>1, RefusalWhole
      <3> QED
        BY <3>2, Joined
    <2>2. proxy'[c].out = proxy[c].out \o w
      BY <1>7 DEF Refuses
    <2> HIDE DEF w
    <2>3. Whole(c)' = w
      BY <1>2, <1>6, <2>1, <2>2 DEF Blank, Whole
    <2>4. Refused(c)'
      BY <1>2, <1>6, <1>7, <2>3 DEF Refuses, Refused, NoFile, w
    <2> QED
      BY <2>4 DEF Answering
  <1>8. CASE Opens(c, Request(c))
    <2>1. /\ ~proxy'[c].finished /\ Live(c)' /\ proxy'[c].loads = 1
          /\ proxy'[c].out = <<>> /\ proxy'[c].first
      <3>1. ~proxy[c].finished /\ proxy[c].out = <<>> /\ proxy[c].first /\ proxy[c].loads = 0
        BY <1>2 DEF Blank
      <3>2. /\ ~proxy'[c].finished /\ Live(c)'
            /\ proxy'[c].out = proxy[c].out /\ proxy'[c].first = proxy[c].first
        BY <1>8, <3>1 DEF Opens
      <3>3. proxy'[c].loads = proxy[c].loads + 1
        BY <1>8 DEF Opens
      <3>4. proxy'[c].loads = 1
        BY <3>1, <3>3
      <3> QED
        BY <3>1, <3>2, <3>4
    <2>2. Whole(c)' = <<>>
      BY <1>6, <2>1 DEF Whole
    <2>3. CASE /\ Request(c) = "static" /\ proxy'[c].loader \in Fd
               /\ \A m \in Fd : os'.desc[m] = IF m = proxy'[c].loader
                                               THEN File(c, link[c].size) ELSE os.desc[m]
      <3>1. \A n \in Fd \ {proxy'[c].loader} : ~IsFileOf(os', n, c)
        BY <1>2, <2>3 DEF NoFile, IsFileOf
      <3>2. link[c].size \in 0..link'[c].size
        BY <1>6, ConnFacts
      <3>3. Reading(c)'
        BY <1>6, <2>1, <2>2, <2>3, <3>1, <3>2 DEF Reading
      <3> QED
        BY <3>3 DEF Answering
    <2>4. CASE \A m \in Fd : os'.desc[m] = os.desc[m]
      <3>1. Idle(c)'
        BY <1>2, <2>1, <2>2, <2>4 DEF Idle, NoFile, IsFileOf
      <3> QED
        BY <3>1 DEF Answering
    <2> QED
      BY <1>2, <1>8, <2>3, <2>4 DEF Opens, Blank
  <1>9. CASE Starts(c, Request(c))
    <2>1. Request(c) \in Exchange!Gateway /\ proxy'[c].obj = "deleted"
      BY <1>9 DEF Starts, Exchange!Gateway
    <2>2. job'[c].state = "running" =>
            /\ Request(c) = IF job'[c].ok THEN "dynamic" ELSE "broken"
            /\ Mode = "cgi" => c \in job'[c].held
      BY <1>9 DEF Starts
    <2>3. Closed(c)'
      BY <1>6, <2>1, <2>2 DEF Closed, Exchange!Begins
    <2> QED
      BY <2>3 DEF Answering
  <1>10. CASE TakesDown(Request(c))
    <2>1. Idle(c)'
      BY <1>1, <1>2, <1>6, <1>10 DEF TakesDown, Idle, NoFile, Live, Whole, Blank
    <2> QED
      BY <2>1 DEF Answering
  <1> QED
    BY <1>2, <1>7, <1>8, <1>9, <1>10 DEF Outcome

(* A program runs only for a connection whose proxy is deleted.             *)
LEMMA JobPhase ==
  ASSUME Inv, NEW c \in Conn, Answer(c), job[c].state # "none"
  PROVE  Closed(c) /\ ~Unread(c)
  BY LivePhase DEF Inv, Bookkeeping

LEMMA AnswerJobWrite ==
  ASSUME Inv, NEW c \in Conn, Answer(c), JobWrite(c)
  PROVE  Answer(c)'
  <1>1. /\ proxy' = proxy /\ job[c].state = "running" /\ job'[c].state = "written"
        /\ Kept(c) /\ link'[c].sock = link[c].sock
    BY JobWriteEffect DEF Kept
  <1>2. PICK r \in Result(c) : link'[c].stream \in {link[c].stream, Append(link[c].stream, r)}
    <2>1. Result(c) # {}
      BY DEF Result
    <2> QED
      BY <2>1, JobWriteEffect
  <1>3. /\ Closed(c) /\ ~Unread(c) /\ link[c].stream = <<>>
        /\ Request(c) = IF job[c].ok THEN "dynamic" ELSE "broken"
    BY <1>1, JobPhase DEF Closed
  <1>4. /\ Request(c)' = Request(c) /\ Scripted(c)' /\ ~Unread(c)'
        /\ HasLeft(c)' = HasLeft(c)
    BY <1>1, <1>3, KeptFacts DEF Unread, Kept, Answer
  <1>5. r.tag \in IF job[c].ok THEN {"page", "cut"} ELSE {"complaint"}
    BY DEF Result, Text
  <1>6. Exchange!Begins(Request(c), link[c].size, link'[c].stream)
    <2>1. CASE link'[c].stream = <<>>
      BY <2>1 DEF Exchange!Begins
    <2>2. CASE link'[c].stream = Append(<<>>, r)
      <3>1. Len(link'[c].stream) = 1 /\ link'[c].stream[1] = r
        <4>1. Append(<<>>, r) = <<r>>
          OBVIOUS
        <4> QED
          BY <2>2, <4>1
      <3> QED
        BY <1>3, <1>5, <3>1 DEF Exchange!Begins
    <2> QED
      BY <1>2, <1>3, <2>1, <2>2
  <1>7. Request(c) \in Exchange!Gateway
    BY <1>3 DEF Exchange!Gateway
  <1>8. Closed(c)'
    BY <1>1, <1>3, <1>4, <1>6, <1>7 DEF Closed, Kept
  <1> QED
    BY <1>4, <1>8 DEF Answer, Answering

LEMMA AnswerJobExit ==
  ASSUME Inv, NEW c \in Conn, Answer(c), JobExit(c)
  PROVE  Answer(c)'
  <1>1. /\ proxy' = proxy /\ link' = link /\ job[c].state # "none"
        /\ job'[c].state = "exited"
    BY JobExitEffect
  <1>2. Closed(c) /\ ~Unread(c)
    BY <1>1, JobPhase
  <1>3. /\ Request(c)' = Request(c) /\ Scripted(c)' /\ ~Unread(c)'
        /\ HasLeft(c)' = HasLeft(c)
    BY <1>1, <1>2 DEF Unread, Answer, Request, Scripted, HasLeft
  <1>4. Closed(c)'
    BY <1>1, <1>2, <1>3 DEF Closed
  <1> QED
    BY <1>3, <1>4 DEF Answer, Answering

LEMMA AnswerClient ==
  ASSUME Inv, OneScript, NEW c \in Conn, FirstSegment(c), Answer(c),
         Connect(c) \/ Send(c) \/ Leave(c)
  PROVE  Answer(c)'
  <1>1. /\ UNCHANGED <<os, proxy, job>> /\ link'[c].segs = link[c].segs
        /\ link'[c].stream = link[c].stream /\ link'[c].size = link[c].size
    BY ClientEffect
  <1>2. CASE /\ link'[c].said = link[c].said /\ link'[c].sock = link[c].sock
             /\ HasLeft(c) => HasLeft(c)'
             /\ link'[c].peer # "new"
    <2>1. /\ Request(c)' = Request(c) /\ Scripted(c)' /\ Unread(c)' = Unread(c)
          /\ Live(c)' = Live(c) /\ Whole(c)' = Whole(c) /\ NoFile(c)' = NoFile(c)
      <3>1. Request(c)' = Request(c) /\ Unread(c)' = Unread(c)
        BY <1>1, <1>2 DEF Request, Unread
      <3>2. link[c].segs \in Scripts /\ link[c].said \in 0..Len(link[c].segs)
        BY DEF Answer, Scripted
      <3>3. /\ link'[c].segs = link[c].segs /\ link'[c].said = link[c].said
            /\ link'[c].peer # "new"
        BY <1>1, <1>2, Zenon
      <3>4. Scripted(c)'
        BY <3>2, <3>3, Zenon DEF Scripted
      <3>5. Live(c)' = Live(c) /\ Whole(c)' = Whole(c) /\ NoFile(c)' = NoFile(c)
        BY <1>1 DEF Live, Whole, NoFile
      <3> QED
        BY <3>1, <3>4, <3>5
    <2>2. CASE Unread(c)
      BY <1>1, <1>2, <2>1, <2>2 DEF Answer, Waiting
    <2>3. CASE ~Unread(c) /\ Reading(c)
      <3>1. Reading(c)'
        BY <1>1, <2>1, <2>3 DEF Reading
      <3> QED
        BY <2>1, <2>3, <3>1 DEF Answer, Answering
    <2>4. CASE ~Unread(c) /\ Closed(c)
      <3>1. Closed(c)'
        BY <1>1, <1>2, <2>1, <2>4 DEF Closed
      <3> QED
        BY <2>1, <2>4, <3>1 DEF Answer, Answering
    <2>5. CASE ~Unread(c) /\ (Refused(c) \/ Sent(c) \/ Idle(c))
      BY <1>1, <2>1, <2>5 DEF Answer, Answering, Refused, Sent, Idle
    <2> QED
      BY <2>2, <2>3, <2>4, <2>5 DEF Answer, Answering
  <1>3. CASE /\ link[c].peer = "open" /\ link'[c].peer = "open"
             /\ link[c].said < Len(link[c].segs) /\ link'[c].said = link[c].said + 1
             /\ link'[c].sock = link[c].sock \o link[c].segs[link[c].said + 1]
    <2>1. Len(link[c].segs) \in Nat /\ Len(link[c].segs) <= 1
      <3>1. link[c].segs \in Scripts
        BY DEF Answer, Scripted
      <3>2. link[c].segs \in Seq(Seq(Line) \ {<<>>})
        BY <3>1, ServerAssumption
      <3> QED
        BY <3>1, <3>2, LenProperties DEF OneScript
    <2>2. link[c].said = 0 /\ link'[c].said = 1 /\ Len(link[c].segs) = 1
      <3>1. link[c].said \in Nat
        BY ConnFacts
      <3>2. link[c].said < Len(link[c].segs) /\ link'[c].said = link[c].said + 1
        BY <1>3
      <3> DEFINE a == link[c].said
                 n == Len(link[c].segs)
      <3>3. a \in Nat /\ n \in Nat /\ n <= 1 /\ a < n /\ link'[c].said = a + 1
        BY <2>1, <3>1, <3>2
      <3> HIDE DEF a, n
      <3>4. a = 0 /\ n = 1
        BY <3>3
      <3>5. link'[c].said = 1
        BY <3>3, <3>4
      <3> QED
        BY <3>4, <3>5 DEF a, n
    <2>3. link[c].segs[1] \in Seq(Line) /\ link[c].segs[1] # <<>>
      BY <2>2, Segments DEF Answer
    <2>4. /\ link[c].stream = <<>> /\ job[c].state = "none" /\ link[c].sock = <<>>
          /\ proxy[c].obj # "deleted"
      BY <1>3, <2>2 DEF Answer, Unread, Waiting, HasLeft
    <2>5. link'[c].sock = link[c].segs[1]
      <3>1. \A s \in Seq(Line) : <<>> \o s = s
        OBVIOUS
      <3> QED
        BY <1>3, <2>2, <2>3, <2>4, <3>1
    <2>6. Scripted(c)' /\ Unread(c)' /\ Waiting(c)'
      <3>1. link[c].segs \in Scripts /\ link'[c].peer # "new"
        BY <1>3 DEF Answer, Scripted
      <3>2. Scripted(c)'
        BY <1>1, <2>2, <3>1 DEF Scripted
      <3>3. Unread(c)' /\ Waiting(c)'
        BY <1>1, <2>2, <2>3, <2>4, <2>5 DEF Unread, Waiting
      <3> QED
        BY <3>2, <3>3
    <2> QED
      BY <2>6 DEF Answer
  <1> QED
    BY <1>2, <1>3, ClientEffect DEF HasLeft

(* One segment was sent at most.                                            *)
LEMMA SaidOnce ==
  ASSUME Inv, OneScript, NEW c \in Conn, Answer(c)
  PROVE  link[c].said <= 1
  <1>1. link[c].segs \in Scripts /\ link[c].said \in 0..Len(link[c].segs)
    BY DEF Answer, Scripted
  <1>2. Len(link[c].segs) \in Nat /\ Len(link[c].segs) <= 1
    <2>1. link[c].segs \in Seq(Seq(Line) \ {<<>>})
      BY <1>1, ServerAssumption
    <2> QED
      BY <1>1, <2>1, LenProperties DEF OneScript
  <1> QED
    BY <1>1, <1>2

Answers == \A c \in Conn : Answer(c)

(* Nothing happens.                                                         *)
LEMMA AnswerStutters ==
  ASSUME UNCHANGED <<os, proxy, link, job>>, NEW c \in Conn, Answer(c)
  PROVE  Answer(c)'
  <1>1. /\ Request(c)' = Request(c) /\ Scripted(c)' = Scripted(c)
        /\ HasLeft(c)' = HasLeft(c) /\ Live(c)' = Live(c) /\ Whole(c)' = Whole(c)
        /\ Unread(c)' = Unread(c) /\ NoFile(c)' = NoFile(c)
    BY DEF Request, Scripted, HasLeft, Live, Whole, Unread, NoFile
  <1>2. Waiting(c)' = Waiting(c) /\ Refused(c)' = Refused(c) /\ Sent(c)' = Sent(c)
    BY <1>1 DEF Waiting, Refused, Sent
  <1>3. Idle(c)' = Idle(c) /\ Closed(c)' = Closed(c)
    BY <1>1 DEF Idle, Closed
  <1>4. Reading(c)' = Reading(c)
    BY <1>1 DEF Reading
  <1> QED
    BY <1>1, <1>2, <1>3, <1>4 DEF Answer, Answering

LEMMA AnswersNext ==
  ASSUME Inv, OneScript, \A c \in Conn : FirstSegment(c), Answers, [Next]_vars
  PROVE  Answers'
  <1>0. \A c \in Conn : Answer(c) /\ FirstSegment(c) /\ link[c].said <= 1
    BY SaidOnce DEF Answers
  <1>1. ASSUME NEW c \in Conn, OthersKept(c), OnlyMine(c), Answer(c)'
        PROVE  Answers'
    <2>1. \A d \in Conn \ {c} : Answer(d)'
      BY <1>0, <1>1, AnswerFrame
    <2> QED
      BY <1>1, <2>1 DEF Answers
  <1>2. ASSUME NEW c \in Conn, AcceptCallback(c) PROVE Answers'
    BY <1>0, <1>1, <1>2, AcceptEffect, AnswerAccept
  <1>3. ASSUME NEW c \in Conn, ReadCallback(c) PROVE Answers'
    BY <1>0, <1>1, <1>3, ReadEffect, AnswerRead
  <1>4. ASSUME NEW c \in Conn, WriteCallback(c) PROVE Answers'
    BY <1>0, <1>1, <1>4, WriteEffect, AnswerWrite
  <1>5. ASSUME NEW c \in Conn, ErrorCallback(c) PROVE Answers'
    BY <1>0, <1>1, <1>5, ErrorEffect, AnswerError
  <1>6. ASSUME NEW e \in os.reg, FileWriteCallback(e) PROVE Answers'
    <2>1. e.conn \in Conn /\ OthersKept(e.conn) /\ OnlyMine(e.conn)
      BY <1>6, FileWriteEffect
    <2>2. Answer(e.conn)'
      BY <1>0, <1>6, <2>1, AnswerFileWrite
    <2> QED
      BY <1>1, <2>1, <2>2
  <1>7. ASSUME NEW c \in Conn, JobWrite(c) PROVE Answers'
    <2>1. OthersKept(c) /\ OnlyMine(c)
      BY <1>7, JobWriteEffect DEF OnlyMine
    <2> QED
      BY <1>0, <1>1, <1>7, <2>1, AnswerJobWrite
  <1>8. ASSUME NEW c \in Conn, JobExit(c) PROVE Answers'
    BY <1>0, <1>1, <1>8, JobExitEffect, AnswerJobExit
  <1>9. ASSUME NEW c \in Conn, Connect(c) \/ Send(c) \/ Leave(c) PROVE Answers'
    <2>1. OthersKept(c) /\ OnlyMine(c)
      BY <1>9, ClientEffect DEF OnlyMine
    <2> QED
      BY <1>0, <1>1, <1>9, <2>1, AnswerClient
  <1>11. CASE Crash \/ UNCHANGED vars
    <2>1. UNCHANGED <<os, proxy, link, job>>
      BY <1>11 DEF Crash, vars
    <2> QED
      BY <1>0, <2>1, AnswerStutters DEF Answers
  <1> QED
    BY <1>2, <1>3, <1>4, <1>5, <1>6, <1>7, <1>8, <1>9, <1>11 DEF Next, Client, Callback, Worker

LEMMA AnswersInit ==
  ASSUME Init
  PROVE  Answers
  <1> SUFFICES ASSUME NEW c \in Conn PROVE Answer(c)
    BY DEF Answers
  <1>1. /\ link[c].segs \in Scripts /\ link[c].said = 0 /\ link[c].sock = <<>>
        /\ link[c].stream = <<>>
    BY DEF Init
  <1>2. proxy[c].obj = "none" /\ job[c].state = "none"
    BY DEF Init, NoProxy, NoJob
  <1>3. Len(link[c].segs) \in Nat
    <2>1. link[c].segs \in Seq(Seq(Line) \ {<<>>})
      BY <1>1, ServerAssumption
    <2> QED
      BY <2>1, LenProperties
  <1> QED
    BY <1>1, <1>2, <1>3 DEF Answer, Scripted, Unread, Waiting

-----------------------------------------------------------------------------
(* The steps of the server are steps of the promise.                        *)

EndedFor(c) == proxy[c].obj = "deleted" /\ Ended(c)

(* What a step of the server for c does to what the promise speaks of.      *)
Serving(c) ==
  /\ OthersKept(c) /\ OnlyMine(c) /\ Kept(c)
  /\ Exchange!Extends(link[c].stream, link'[c].stream)
  /\ link'[c].stream # link[c].stream => ~EndedFor(c)
  /\ job'[c].held \subseteq job[c].held \cup {d \in Conn : \E n \in Fd : os.desc[n] = Sock(d)}
  /\ proxy[c].obj = "deleted" =>
       /\ proxy'[c].obj = "deleted"
       /\ \A n \in Fd : os'.desc[n] = os.desc[n] \/ os'.desc[n] = Free

LEMMA ExtendsItself ==
  ASSUME NEW s \in Seq(Item)
  PROVE  Exchange!Extends(s, s)
  <1>1. Len(s) <= Len(s) /\ SubSeq(s, 1, Len(s)) = s
    OBVIOUS
  <1> QED
    BY <1>1 DEF Exchange!Extends

(* Of a proxy that is not deleted nothing has ended.                        *)
LEMMA QuietServing ==
  ASSUME Inv, NEW c \in Conn, OthersKept(c), OnlyMine(c), link' = link, job' = job,
         proxy[c].obj # "deleted"
  PROVE  Serving(c)
  <1>1. Exchange!Extends(link[c].stream, link'[c].stream)
    BY ConnFacts, ExtendsItself
  <1> QED
    BY <1>1 DEF Serving, Kept

LEMMA ReadServing ==
  ASSUME Inv, NEW c \in Conn, ReadCallback(c)
  PROVE  Serving(c)
  <1>1. /\ OthersKept(c) /\ OnlyMine(c) /\ Live(c) /\ Kept(c)
        /\ link'[c].stream = link[c].stream
    BY ReadEffect DEF Kept
  <1>2. Exchange!Extends(link[c].stream, link'[c].stream)
    BY <1>1, ConnFacts, ExtendsItself
  <1>3. PICK line : Outcome(c, line)
    BY ReadEffect
  <1>4. job'[c].held \subseteq job[c].held \cup {d \in Conn : \E n \in Fd : os.desc[n] = Sock(d)}
    <2>1. CASE Starts(c, line)
      BY <2>1 DEF Starts
    <2>2. CASE job' = job
      BY <2>2
    <2> QED
      BY <1>3, <2>1, <2>2 DEF Outcome, Refuses, Opens, TakesDown
  <1> QED
    BY <1>1, <1>2, <1>4 DEF Serving, Live

LEMMA WriteServing ==
  ASSUME Inv, NEW c \in Conn, WriteCallback(c)
  PROVE  Serving(c)
  <1>1. /\ OthersKept(c) /\ OnlyMine(c) /\ Live(c) /\ Kept(c) /\ job' = job
    BY WriteEffect DEF Kept
  <1>2. PICK k \in 1..Len(proxy[c].out) :
          link'[c].stream = link[c].stream \o SubSeq(proxy[c].out, 1, k)
    BY WriteEffect
  <1>3. Exchange!Extends(link[c].stream, link'[c].stream)
    <2>1. link[c].stream \in Seq(Item) /\ proxy[c].out \in Seq(Item)
      BY ConnFacts
    <2>2. SubSeq(proxy[c].out, 1, k) \in Seq(Item)
      BY <2>1, CutJoined
    <2> QED
      BY <1>2, <2>1, <2>2, ExtendsJoined
  <1> QED
    BY <1>1, <1>3 DEF Serving, Live, EndedFor

(* A program that writes still has the connection open.                     *)
LEMMA JobWriteServing ==
  ASSUME Inv, NEW c \in Conn, Answer(c), JobWrite(c)
  PROVE  Serving(c)
  <1>1. /\ OthersKept(c) /\ os' = os /\ proxy' = proxy /\ Kept(c)
        /\ job[c].state = "running" /\ job'[c].held = job[c].held
    BY JobWriteEffect DEF Kept
  <1>2. OnlyMine(c)
    BY <1>1 DEF OnlyMine
  <1>3. Closed(c)
    BY <1>1, JobPhase
  <1>4. Exchange!Extends(link[c].stream, link'[c].stream)
    <2>1. CASE link'[c].stream = link[c].stream
      BY <2>1, ConnFacts, ExtendsItself
    <2>2. ASSUME NEW r \in Result(c), link'[c].stream = Append(link[c].stream, r)
          PROVE  Exchange!Extends(link[c].stream, link'[c].stream)
      <3>1. r \in Item
        BY ItemsHere DEF Result
      <3>2. \A s \in Seq(Item) : Append(s, r) = s \o <<r>> /\ <<r>> \in Seq(Item)
        BY <3>1
      <3> QED
        BY <2>2, <3>2, ConnFacts, ExtendsJoined
    <2> QED
      BY <2>1, <2>2, JobWriteEffect
  <1>5. ASSUME link'[c].stream # link[c].stream
        PROVE  ~Ended(c)
    <2>1. CASE Mode = "cgi"
      BY <1>1, <1>3, <2>1 DEF Closed, Ended
    <2>2. CASE Mode # "cgi"
      <3>1. link' # link
        BY <1>5
      <3>2. \E d : d \in Receivers(c)
        BY <3>1 DEF JobWrite
      <3>3. job[c].fd \in Fd /\ os.desc[job[c].fd] = Dup(c)
        BY <1>1, <2>2, <3>2 DEF Receivers, Inv, DupOwned
      <3> QED
        BY <3>3 DEF Ended
    <2> QED
      BY <2>1, <2>2
  <1> QED
    BY <1>1, <1>2, <1>4, <1>5 DEF Serving, EndedFor

LEMMA JobExitServing ==
  ASSUME Inv, NEW c \in Conn, JobExit(c)
  PROVE  Serving(c)
  <1>1. /\ OthersKept(c) /\ OnlyMine(c) /\ proxy' = proxy /\ link' = link
        /\ os' = Close(os, job[c].fd) /\ job'[c].held = {}
    BY JobExitEffect
  <1>2. \A n \in Fd : os'.desc[n] = os.desc[n] \/ os'.desc[n] = Free
    BY <1>1, LiveFacts, CloseFacts
  <1>3. Exchange!Extends(link[c].stream, link'[c].stream)
    BY <1>1, ConnFacts, ExtendsItself
  <1> QED
    BY <1>1, <1>2, <1>3 DEF Serving, Kept

(* A connection that has ended has ended for good.                          *)
LEMMA EndedStays ==
  ASSUME Inv, NEW c \in Conn, Serving(c), NEW d \in Conn, EndedFor(d)
  PROVE  EndedFor(d)'
  <1>1. proxy'[d].obj = "deleted"
    BY DEF Serving, OthersKept, EndedFor
  <1>2. \A n \in Fd : os.desc[n] \notin {Sock(d), Dup(d)}
    BY DEF EndedFor, Ended
  <1>3. ASSUME NEW n \in Fd PROVE os'.desc[n] \notin {Sock(d), Dup(d)}
    <2>1. CASE os'.desc[n] = os.desc[n]
      BY <1>2, <2>1
    <2>2. CASE os'.desc[n] = Free
      BY <2>2, DescDistinct
    <2>3. CASE d # c
      <3>1. os'.desc[n] = os.desc[n] \/ Mine(os', n, c)
        BY DEF Serving, OnlyMine
      <3>2. Mine(os', n, c) => os'.desc[n] \notin {Sock(d), Dup(d)}
        BY <2>3 DEF Mine, Sock, Dup, Free
      <3> QED
        BY <2>1, <3>1, <3>2
    <2> QED
      BY <2>1, <2>2, <2>3 DEF Serving, EndedFor
  <1>4. ASSUME NEW e \in Conn PROVE d \notin job'[e].held
    <2>1. d \notin job[e].held
      BY DEF EndedFor, Ended
    <2>2. CASE e # c
      BY <2>1, <2>2 DEF Serving, OthersKept
    <2>3. CASE e = c
      BY <1>2, <2>1, <2>3 DEF Serving
    <2> QED
      BY <2>2, <2>3
  <1> QED
    BY <1>1, <1>3, <1>4 DEF EndedFor, Ended

Begun == \A c \in Conn : Exchange!Begins(Request(c), link[c].size, link[c].stream)

(* What has ended while the server is up.                                   *)
LEMMA OverUp ==
  server = "up" => \A d \in Conn : Over(d) <=> EndedFor(d)
  BY DEF Over, EndedFor

(* A step that serves c is a step Serve of the promise.                     *)
LEMMA ServeMaps ==
  ASSUME Inv, NEW c \in Conn, Serving(c), Answers', Begun',
         server = "up", server' = "up"
  PROVE  Exchange!Serve
  <1>1. \A d \in Conn : /\ Request(d)' = Request(d) /\ HasLeft(d)' = HasLeft(d)
                        /\ link'[d].size = link[d].size /\ link'[d].peer = link[d].peer
    <2>1. \A d \in Conn : Kept(d)
      BY DEF Serving, OthersKept, Kept
    <2> QED
      BY <2>1, KeptFacts DEF Kept
  <1>2. /\ [d \in Conn |-> Request(d)]' = [d \in Conn |-> Request(d)]
        /\ [d \in Conn |-> link[d].size]' = [d \in Conn |-> link[d].size]
        /\ {d \in Conn : link[d].peer \in {"fin", "gone"}}'
             = {d \in Conn : link[d].peer \in {"fin", "gone"}}
        /\ {d \in Conn : link[d].peer = "gone"}' = {d \in Conn : link[d].peer = "gone"}
        /\ ~(server # "up") /\ (server # "up")' = (server # "up")
    BY <1>1
  <1>3. \A d \in Conn : link'[d].stream # link[d].stream => d = c
    BY DEF Serving, OthersKept
  <1>7. \A d \in Conn : (Over(d) <=> EndedFor(d)) /\ (Over(d)' <=> EndedFor(d)')
    BY DEF Over, EndedFor
  <1>4. \A d \in Conn : link'[d].stream # link[d].stream =>
          /\ ~Over(d) /\ Exchange!Extends(link[d].stream, link'[d].stream)
          /\ Exchange!Begins(Request(d), link[d].size, link'[d].stream)
    BY <1>1, <1>3, <1>7 DEF Serving, Begun
  <1>5. \A d \in Conn : Over(d) => Over(d)'
    BY <1>7, EndedStays
  <1>6. ASSUME NEW d \in Conn, Over(d)'
        PROVE  \/ HasLeft(d) \/ Request(d) \in Exchange!Gateway
               \/ Exchange!Complete(Request(d), link[d].size, link'[d].stream)
    <2>1. Answer(d)' /\ proxy'[d].obj = "deleted"
      BY <1>6, <1>7 DEF Answers, EndedFor
    <2>2. \/ HasLeft(d)' \/ Request(d)' \in Exchange!Gateway
          \/ Exchange!Complete(Request(d)', link'[d].size, link'[d].stream)
      BY <2>1 DEF Answer, Answering, Waiting, Refused, Reading, Sent, Idle, Closed, Live
    <2> QED
      BY <1>1, <2>2
  <1> QED
    BY <1>2, <1>3, <1>4, <1>5, <1>6 DEF Exchange!Serve, Exchange!MayEnd, HasLeft

(* Every callback and every step of a program is one.                       *)
LEMMA ServerServes ==
  ASSUME Inv, Answers, Callback \/ Worker
  PROVE  \E c \in Conn : Serving(c)
  <1>1. ASSUME NEW c \in Conn, AcceptCallback(c) PROVE Serving(c)
    <2>1. /\ OthersKept(c) /\ OnlyMine(c) /\ link' = link /\ job' = job
          /\ proxy[c].obj # "deleted"
      BY <1>1, AcceptEffect
    <2> QED
      BY <2>1, QuietServing
  <1>2. ASSUME NEW c \in Conn, ErrorCallback(c) PROVE Serving(c)
    <2>1. /\ OthersKept(c) /\ OnlyMine(c) /\ link' = link /\ job' = job
          /\ proxy[c].obj # "deleted"
      BY <1>2, ErrorEffect DEF Live
    <2> QED
      BY <2>1, QuietServing
  <1>3. ASSUME NEW e \in os.reg, FileWriteCallback(e) PROVE e.conn \in Conn /\ Serving(e.conn)
    <2>1. /\ e.conn \in Conn /\ OthersKept(e.conn) /\ OnlyMine(e.conn)
          /\ link' = link /\ job' = job /\ proxy[e.conn].obj # "deleted"
      BY <1>3, FileWriteEffect DEF Live
    <2> QED
      BY <2>1, QuietServing
  <1>4. ASSUME NEW c \in Conn, JobWrite(c) PROVE Serving(c)
    BY <1>4, JobWriteServing DEF Answers
  <1> QED
    BY <1>1, <1>2, <1>3, <1>4, ReadServing, WriteServing, JobExitServing DEF Callback, Worker

(* The client's steps.                                                      *)
LEMMA ClientMaps ==
  ASSUME Inv, OneScript, Answers, Answers', server = "up", Client
  PROVE  [Exchange!Next]_Exchange!vars
  <1>1. PICK c \in Conn : Connect(c) \/ Send(c) \/ Leave(c)
    BY DEF Client
  <1>2. /\ OthersKept(c) /\ UNCHANGED <<os, proxy, job, server>>
        /\ link'[c].segs = link[c].segs /\ link'[c].stream = link[c].stream
        /\ link'[c].size = link[c].size /\ link[c].said \in Nat
    BY <1>1, ClientEffect, ConnFacts
  <1>3. \A d \in Conn : /\ link'[d].size = link[d].size /\ link'[d].stream = link[d].stream
                        /\ d # c => link'[d] = link[d]
    BY <1>2 DEF OthersKept
  <1>4. /\ [d \in Conn |-> link[d].size]' = [d \in Conn |-> link[d].size]
        /\ [d \in Conn |-> link[d].stream]' = [d \in Conn |-> link[d].stream]
        /\ {d \in Conn : Over(d)}' = {d \in Conn : Over(d)}
        /\ (server # "up")' = (server # "up")
    BY <1>2, <1>3 DEF Over, Ended
  <1>5. \A d \in Conn : d # c => /\ Request(d)' = Request(d) /\ HasLeft(d)' = HasLeft(d)
                                /\ link'[d].peer = link[d].peer
    BY <1>3, KeptFacts DEF Kept
  <1>6. CASE link'[c].said = link[c].said
    <2>1. Request(c)' = Request(c)
      BY <1>2, <1>6 DEF Request
    <2>2. [d \in Conn |-> Request(d)]' = [d \in Conn |-> Request(d)]
      BY <1>5, <2>1
    <2>3. ~HasLeft(c)
      BY <1>1, ClientEffect DEF HasLeft
    <2>4. CASE ~HasLeft(c)'
      <3>1. {d \in Conn : link[d].peer \in {"fin", "gone"}}'
              = {d \in Conn : link[d].peer \in {"fin", "gone"}}
        BY <1>5, <2>3, <2>4 DEF HasLeft
      <3>2. {d \in Conn : link[d].peer = "gone"}' = {d \in Conn : link[d].peer = "gone"}
        BY <1>5, <2>3, <2>4 DEF HasLeft
      <3> QED
        BY <1>4, <2>2, <3>1, <3>2 DEF Exchange!vars
    <2>5. CASE HasLeft(c)'
      <3>1. {d \in Conn : link[d].peer \in {"fin", "gone"}}'
              = {d \in Conn : link[d].peer \in {"fin", "gone"}} \cup {c}
        BY <1>5, <2>5 DEF HasLeft
      <3>2. {d \in Conn : link[d].peer = "gone"}'
              \in {{d \in Conn : link[d].peer = "gone"},
                   {d \in Conn : link[d].peer = "gone"} \cup {c}}
        <4>1. CASE link'[c].peer = "gone"
          <5>1. {d \in Conn : link[d].peer = "gone"}'
                  = {d \in Conn : link[d].peer = "gone"} \cup {c}
            BY <1>5, <4>1
          <5> QED
            BY <5>1
        <4>2. CASE link'[c].peer # "gone"
          <5>1. {d \in Conn : link[d].peer = "gone"}' = {d \in Conn : link[d].peer = "gone"}
            BY <1>5, <2>3, <4>2 DEF HasLeft
          <5> QED
            BY <5>1
        <4> QED
          BY <4>1, <4>2
      <3>3. Exchange!Quit(c)
        BY <1>4, <2>2, <3>1, <3>2 DEF Exchange!Quit
      <3> QED
        BY <3>3 DEF Exchange!Next
    <2> QED
      BY <2>4, <2>5
  <1>7. CASE link'[c].said # link[c].said
    <2>1. /\ link[c].peer = "open" /\ link'[c].peer = "open"
          /\ link'[c].said = link[c].said + 1 /\ link[c].said < Len(link[c].segs)
      BY <1>1, <1>7, ClientEffect
    <2>2. link[c].said = 0
      <3>1. Scripted(c)' /\ Len(link[c].segs) \in Nat /\ Len(link[c].segs) <= 1
        <4>1. link[c].segs \in Scripts /\ Scripted(c)'
          BY DEF Answers, Answer, Scripted
        <4>2. link[c].segs \in Seq(Seq(Line) \ {<<>>})
          BY <4>1, ServerAssumption
        <4> QED
          BY <4>1, <4>2, LenProperties DEF OneScript
      <3> QED
        BY <1>2, <2>1, <3>1
    <2>3. Request(c) = "nothing"
      BY <2>2 DEF Request
    <2>4. Request(c)' \in Line
      <3>1. Scripted(c) /\ Scripted(c)'
        BY DEF Answers, Answer
      <3>2. link'[c].said # 0 /\ 0 < Len(link[c].segs)
        BY <2>1, <2>2
      <3>3. Request(c)' = FirstLine(link'[c].segs[1],
                                    CHOOSE i \in Taken(link'[c].segs[1]) : TRUE)
        BY <3>2 DEF Request
      <3> QED
        BY <1>2, <3>1, <3>2, <3>3, FirstTaken
    <2>5. [d \in Conn |-> Request(d)]' = [[d \in Conn |-> Request(d)] EXCEPT ![c] = Request(c)']
      BY <1>5
    <2>6. {d \in Conn : link[d].peer \in {"fin", "gone"}}'
            = {d \in Conn : link[d].peer \in {"fin", "gone"}}
      BY <1>5, <2>1 DEF HasLeft
    <2>7. {d \in Conn : link[d].peer = "gone"}' = {d \in Conn : link[d].peer = "gone"}
      BY <1>5, <2>1
    <2>8. Exchange!Ask(c)
      BY <1>4, <2>1, <2>3, <2>4, <2>5, <2>6, <2>7 DEF Exchange!Ask
    <2> QED
      BY <2>8 DEF Exchange!Next
  <1> QED
    BY <1>6, <1>7

(* What the end of the process leaves of the connections, and what it takes.*)
Falls ==
  /\ \A d \in Conn : /\ Kept(d) /\ link'[d].stream = link[d].stream
                     /\ job'[d].held = job[d].held
  /\ \E d \in Conn : link[d].peer = "gone" \/ Request(d) \in Lethal

LEMMA FallsOnly ==
  ASSUME Inv, Inv', OneScript, Answers, \A c \in Conn : FirstSegment(c) /\ OneRequest(c),
         server = "up", server' # "up", Next
  PROVE  Falls
  <1>1. CASE Crash
    <2>1. UNCHANGED <<os, proxy, link, job>>
      BY <1>1 DEF Crash
    <2>2. \A d \in Conn : /\ Kept(d) /\ link'[d].stream = link[d].stream
                         /\ job'[d].held = job[d].held
      BY <2>1 DEF Kept
    <2>3. CASE server' = "sigpipe"
      BY <1>1, <2>2, <2>3 DEF Crash, Falls
    <2>4. CASE server' \in {"freed", "stray"}
      <3>1. PICK c \in Conn : proxy[c].loads > 1
        BY <2>1, <2>4 DEF Inv, FaultNeedsSecondLoad
      <3>2. /\ Len(link[c].segs) \in Nat /\ Len(link[c].segs) <= 1
            /\ link[c].said \in 0..Len(link[c].segs)
        <4>1. link[c].segs \in Scripts /\ link[c].said \in 0..Len(link[c].segs)
          BY DEF Answers, Answer, Scripted
        <4>2. link[c].segs \in Seq(Seq(Line) \ {<<>>})
          BY <4>1, ServerAssumption
        <4> QED
          BY <4>1, <4>2, LenProperties DEF OneScript
      <3>3. proxy[c].loads \in Nat
        BY ConnFacts
      <3>4. Len(link[c].segs) = 1 => proxy[c].loads <= 1
        BY <3>3 DEF OneRequest
      <3>5. Len(link[c].segs) = 0 => proxy[c].loads = 0
        <4>1. Len(link[c].segs) = 0 => link[c].said = 0
          BY <3>2
        <4> QED
          BY <4>1 DEF FirstSegment, Untouched
      <3>6. Len(link[c].segs) \in {0, 1}
        <4> DEFINE n == Len(link[c].segs)
        <4>1. n \in Nat /\ n <= 1
          BY <3>2
        <4> HIDE DEF n
        <4>2. n \in {0, 1}
          BY <4>1
        <4> QED
          BY <4>2 DEF n
      <3>7. ~(proxy[c].loads > 1)
        BY <3>3, <3>4, <3>5, <3>6
      <3> QED
        BY <3>1, <3>7
    <2> QED
      BY <1>1, <2>3, <2>4 DEF Crash
  <1>2. ASSUME NEW c \in Conn, ReadCallback(c) PROVE Falls
    <2>1. /\ OthersKept(c) /\ Kept(c) /\ link'[c].stream = link[c].stream
      BY <1>2, ReadEffect DEF Kept
    <2>2. Outcome(c, Request(c))
      BY <1>2, SaidOnce, RequestRead DEF Answers
    <2>3. TakesDown(Request(c))
      BY <2>2 DEF Outcome, Refuses, Opens, Starts
    <2> QED
      BY <2>1, <2>3 DEF Falls, OthersKept, Kept, TakesDown
  <1>3. ASSUME NEW c \in Conn, JobWrite(c) PROVE Falls
    <2>1. OthersKept(c) /\ Kept(c) /\ job'[c].held = job[c].held
      BY <1>3, JobWriteEffect DEF Kept
    <2>2. link' = link /\ \E d \in Receivers(c) : link[d].peer = "gone"
      BY <1>3 DEF JobWrite
    <2>3. \E d \in Conn : link[d].peer = "gone"
      BY <2>2 DEF Receivers
    <2> QED
      BY <2>1, <2>2, <2>3 DEF Falls, OthersKept, Kept
  <1>4. ASSUME NEW c \in Conn,
               \/ AcceptCallback(c) \/ WriteCallback(c) \/ ErrorCallback(c) \/ JobExit(c)
               \/ Connect(c) \/ Send(c) \/ Leave(c)
        PROVE  FALSE
    BY <1>4, AcceptEffect, WriteEffect, ErrorEffect, JobExitEffect, ClientEffect
  <1>5. ASSUME NEW e \in os.reg, FileWriteCallback(e) PROVE FALSE
    BY <1>5, FileWriteEffect
  <1> QED
    BY <1>1, <1>2, <1>3, <1>4, <1>5 DEF Next, Client, Callback, Worker

(* The end of the process is a step Fail of the promise: what had ended     *)
(* stays ended, and the others end as their clients connected.              *)
LEMMA FallMaps ==
  ASSUME Inv, Answers, server = "up", server' # "up", Falls
  PROVE  Exchange!Fail
  <1>1. /\ [d \in Conn |-> Request(d)]' = [d \in Conn |-> Request(d)]
        /\ [d \in Conn |-> link[d].size]' = [d \in Conn |-> link[d].size]
        /\ [d \in Conn |-> link[d].stream]' = [d \in Conn |-> link[d].stream]
        /\ {d \in Conn : link[d].peer \in {"fin", "gone"}}'
             = {d \in Conn : link[d].peer \in {"fin", "gone"}}
        /\ {d \in Conn : link[d].peer = "gone"}' = {d \in Conn : link[d].peer = "gone"}
    <2>1. \A d \in Conn : Request(d)' = Request(d)
      BY KeptFacts DEF Falls
    <2>2. \A d \in Conn : /\ link'[d].size = link[d].size /\ link'[d].peer = link[d].peer
                         /\ link'[d].stream = link[d].stream
      BY DEF Falls, Kept
    <2> QED
      BY <2>1, <2>2
  <1>2. ASSUME NEW d \in Conn, Over(d) PROVE Over(d)'
    <2>1. proxy[d].obj = "deleted" /\ \A e \in Conn : d \notin job[e].held
      BY <1>2, OverUp DEF EndedFor, Ended
    <2>2. link[d].peer # "new"
      BY <2>1 DEF Answers, Answer, Scripted, Unread, Waiting, HasLeft
    <2>3. link'[d].peer # "new" /\ \A e \in Conn : d \notin job'[e].held
      BY <2>1, <2>2 DEF Falls, Kept
    <2> QED
      BY <2>3 DEF Over
  <1>3. \/ {d \in Conn : link[d].peer = "gone"} # {}
        \/ \E d \in Conn : Request(d) \in Lethal
    BY DEF Falls
  <1> QED
    BY <1>1, <1>2, <1>3 DEF Exchange!Fail

(* Every step is a step of the promise or a stutter.                        *)
LEMMA PromiseNext ==
  ASSUME Inv, Inv', OneScript, Answers, Answers', Begun',
         \A c \in Conn : FirstSegment(c) /\ OneRequest(c), [Next]_vars
  PROVE  [Exchange!Next]_Exchange!vars
  <1>1. CASE Next /\ server' # "up"
    <2>1. server = "up"
      BY <1>1 DEF Next
    <2> QED
      BY <1>1, <2>1, FallsOnly, FallMaps DEF Exchange!Next
  <1>2. CASE Next /\ server' = "up" /\ (Callback \/ Worker)
    <2>1. server = "up"
      BY <1>2 DEF Next
    <2> QED
      BY <1>2, <2>1, ServerServes, ServeMaps DEF Exchange!Next
  <1>3. CASE Next /\ Client
    <2>1. server = "up"
      BY <1>3 DEF Next
    <2> QED
      BY <1>3, <2>1, ClientMaps
  <1>4. CASE UNCHANGED vars
    <2>1. UNCHANGED <<os, proxy, link, job, server>>
      BY <1>4 DEF vars
    <2>2. \A c \in Conn : Request(c)' = Request(c) /\ Over(c)' = Over(c)
      BY <2>1 DEF Request, Over, Ended
    <2> QED
      BY <2>1, <2>2 DEF Exchange!vars
  <1>5. Crash => server' # "up"
    BY DEF Crash
  <1> QED
    BY <1>1, <1>2, <1>3, <1>4, <1>5 DEF Next

LEMMA PromiseInit ==
  ASSUME Init
  PROVE  Exchange!Init
  <1>1. \A c \in Conn : /\ link[c].said = 0 /\ link[c].stream = <<>> /\ link[c].peer = "new"
                        /\ link[c].size \in Nat /\ proxy[c].obj = "none"
                        /\ server = "up"
    BY ServerAssumption DEF Init, NoProxy
  <1>2. \A c \in Conn : Request(c) = "nothing"
    BY <1>1 DEF Request
  <1>3. server = "up"
    BY DEF Init
  <1>4. \A c \in Conn : ~Over(c)
    BY <1>1, <1>3 DEF Over
  <1> QED
    BY <1>1, <1>2, <1>3, <1>4 DEF Exchange!Init

-----------------------------------------------------------------------------
(* Whatever was delivered to a client begins the answer to its own request, *)
(* for clients of one segment (server.cpp:88-164).                          *)
LEMMA AnswersAlways ==
  ASSUME OneScript
  PROVE  Spec => [](Answers /\ Begun)
  <1> DEFINE S == \A c \in Conn : FirstSegment(c)
  <1>1. Init => Answers
    BY AnswersInit
  <1>2. Inv /\ S /\ Answers /\ [Next]_vars => Answers'
    BY AnswersNext
  <1>3. Inv /\ Answers => Begun
    BY AnswerBegins DEF Answers, Begun
  <1> HIDE DEF S
  <1> QED
    BY <1>1, <1>2, <1>3, SegmentsAlways, Invariance, PTL DEF Spec, S

(* The detailed server implements the promise of HttpExchange to clients    *)
(* that send one segment: what the callbacks deliver to each client is the  *)
(* beginning of the answer to its own request and nothing else, and the     *)
(* connection of a client that stays is not closed before the answer is     *)
(* whole (server.cpp:88-164), unless a gateway program was to answer or the *)
(* process ends, with every connection it has; and it ends by nothing but   *)
(* some client's reset or lethal line.                                      *)
THEOREM PromiseKept ==
  ASSUME OneScript
  PROVE  Spec => KeepsPromise
  <1> DEFINE S == \A c \in Conn : FirstSegment(c)
             U == \A c \in Conn : FirstSegment(c) /\ OneRequest(c)
  <1>1. Init => Exchange!Init
    BY PromiseInit
  <1>2. Inv /\ Inv' /\ Answers /\ Answers' /\ Begun' /\ U /\ [Next]_vars
          => [Exchange!Next]_Exchange!vars
    BY PromiseNext
  <1>3. S /\ UpInv => U
    BY DEF UpInv
  <1> HIDE DEF S, U
  <1> QED
    BY <1>1, <1>2, <1>3, AnswersAlways, SegmentsAlways, UpAlways, Invariance, PTL
    DEF Spec, KeepsPromise, Exchange!Spec, S
=============================================================================
