--------------------------- MODULE PageWriterProofs ---------------------------
(****************************************************************************)
(* What reaches the reader of a page, for pages, pieces and sockets of any  *)
(* size: its bytes once and in order, what fits the socket without a hole,  *)
(* and a child's page without any.                                          *)
(****************************************************************************)
EXTENDS PageWriter, SequenceTheorems, TLAPS

Written == (next - 1) * Size

(* The shape of the state.                                                  *)
Shape ==
  /\ kind \in Kinds /\ next \in 1..(Pieces + 1)
  /\ bad \in BOOLEAN /\ (bad => kind = "child")
  /\ socket \in Seq(Nat) /\ got \in Seq(Nat) /\ Len(socket) <= Room
  /\ client \in {"here", "gone"}
  /\ writer \in {"writing", "closed", "killed"}

(* s holds some of the first w bytes, in order.                             *)
Ordered(s, w) ==
  /\ Len(s) <= w
  /\ \A i \in 1..Len(s) : s[i] \in 1..w
  /\ \A i, j \in 1..Len(s) : i < j => s[i] < s[j]

(* Up to n there is no hole.                                                *)
Solid(s, n) == \A i \in 1..Len(s) : i <= n => s[i] = i

(* A hole comes only behind what filled the socket, and a child then stops. *)
Complete == client = "here" => \/ Len(Stream) = Written /\ ~bad
                               \/ Len(Stream) >= Room /\ (kind = "child" => bad)

WriterInv ==
  /\ Shape
  /\ Ordered(Stream, Written)
  /\ Solid(Stream, Room)
  /\ kind = "child" => Solid(Stream, Written)
  /\ Complete

-----------------------------------------------------------------------------
(* Sequences and sizes.                                                     *)

(* One piece more is Size bytes more, and no more than the page has.        *)
LEMMA Sizes ==
  ASSUME NEW n \in 1..(Pieces + 1), WriterAssumption
  PROVE  /\ (n - 1) * Size \in Nat
         /\ ((n + 1) - 1) * Size = (n - 1) * Size + Size
         /\ (n - 1) * Size <= Pieces * Size
  <1>1. Size \in Nat \ {0} /\ Pieces \in Nat \ {0}
    BY WriterAssumption DEF WriterAssumption
  <1>2. \A a, b \in Nat : a <= b => a * Size <= b * Size /\ a * Size \in Nat
    BY <1>1
  <1>3. \A a \in Nat : (a + 1) * Size = a * Size + Size
    BY <1>1
  <1>4. n - 1 \in Nat /\ n - 1 <= Pieces /\ (n + 1) - 1 = (n - 1) + 1 /\ Pieces \in Nat
    BY <1>1
  <1> QED
    BY <1>2, <1>3, <1>4

(* The places of a concatenation.                                           *)
LEMMA Places ==
  ASSUME NEW s \in Seq(Nat), NEW t \in Seq(Nat)
  PROVE  /\ s \o t \in Seq(Nat) /\ Len(s \o t) = Len(s) + Len(t)
         /\ Len(s) \in Nat /\ Len(t) \in Nat
         /\ \A i \in 1..Len(s) : (s \o t)[i] = s[i]
         /\ \A i \in 1..(Len(s) + Len(t)) : i > Len(s) => (s \o t)[i] = t[i - Len(s)]
  BY ConcatProperties, LenProperties

(* Concatenation, for the sequences at hand.                                *)
LEMMA Associative ==
  \A s, t, u \in Seq(Nat) : (s \o t) \o u = s \o (t \o u)
  <1> DEFINE N == Nat
  <1> HIDE DEF N
  <1>1. \A s, t, u \in Seq(N) : (s \o t) \o u = s \o (t \o u)
    BY ConcatAssociative
  <1> QED
    BY <1>1, Zenon DEF N

(* What was cut is put together again.                                      *)
LEMMA Cut ==
  ASSUME NEW s \in Seq(Nat), NEW k \in 1..Len(s)
  PROVE  SubSeq(s, 1, k) \o SubSeq(s, k + 1, Len(s)) = s
  OBVIOUS

(* A piece, as far as it was taken, behind what is there.                   *)
LEMMA Appended ==
  ASSUME NEW s \in Seq(Nat), NEW t \in Seq(Nat), NEW w \in Nat, NEW k \in Nat, NEW n \in Nat,
         Ordered(s, w), Len(t) <= k, \A j \in 1..Len(t) : t[j] = w + j
  PROVE  /\ Ordered(s \o t, w + k)
         /\ Solid(s, n) /\ (Len(s) = w \/ Len(s) >= n) => Solid(s \o t, n)
  <1>1. PICK a \in Nat, b \in Nat, u \in Seq(Nat) :
          a = Len(s) /\ b = Len(t) /\ u = s \o t
    BY Places
  <1>2. /\ Len(u) = a + b /\ b <= k /\ a <= w
        /\ \A i \in 1..a : u[i] = s[i] /\ s[i] \in 1..w
        /\ \A i, j \in 1..a : i < j => u[i] < u[j]
    BY <1>1, Places DEF Ordered
  <1>3. ASSUME NEW i \in 1..(a + b), i > a
        PROVE  u[i] = w + (i - a)
    <2>1. u[i] = t[i - a]
      BY <1>1, <1>3, Places
    <2>2. i - a \in 1..b
      BY <1>3
    <2> QED
      BY <1>1, <2>1, <2>2
  <1>4. \A i \in 1..(a + b) : i \in 1..a \/ i > a
    OBVIOUS
  <1>5. ASSUME NEW i \in 1..(a + b)
        PROVE  u[i] \in 1..(w + k)
    <2>1. CASE i \in 1..a
      <3>1. u[i] \in 1..w
        BY <1>2, <2>1
      <3> QED
        BY <3>1
    <2>2. CASE i > a
      <3>1. i - a \in 1..b
        BY <2>2
      <3>2. u[i] = w + (i - a)
        BY <1>3, <2>2
      <3> QED
        BY <1>2, <3>1, <3>2
    <2> QED
      BY <1>4, <2>1, <2>2
  <1>6. ASSUME NEW i \in 1..(a + b), NEW j \in 1..(a + b), i < j
        PROVE  u[i] < u[j]
    <2>1. CASE j \in 1..a
      <3>1. i \in 1..a
        BY <1>6, <2>1
      <3> QED
        BY <1>2, <1>6, <2>1, <3>1
    <2>2. CASE j > a /\ i \in 1..a
      <3>1. u[i] \in 1..w
        BY <1>2, <2>2
      <3>2. u[j] = w + (j - a)
        BY <1>3, <2>2
      <3> QED
        BY <2>2, <3>1, <3>2
    <2>3. CASE j > a /\ i > a
      <3>1. u[i] = w + (i - a) /\ u[j] = w + (j - a)
        BY <1>3, <2>3
      <3> QED
        BY <1>6, <3>1
    <2> QED
      BY <1>4, <2>1, <2>2, <2>3
  <1>7. Ordered(u, w + k)
    <2>1. a + b <= w + k
      BY <1>2
    <2> QED
      BY <1>2, <1>5, <1>6, <2>1 DEF Ordered
  <1>8. ASSUME Solid(s, n), Len(s) = w \/ Len(s) >= n
        PROVE  Solid(u, n)
    <2>1. ASSUME NEW i \in 1..(a + b), i <= n
          PROVE  u[i] = i
      <3>1. CASE i \in 1..a
        BY <1>1, <1>2, <1>8, <2>1, <3>1 DEF Solid
      <3>2. CASE i > a
        <4>1. a = w
          BY <1>1, <1>8, <2>1, <3>2
        <4> QED
          BY <1>3, <3>2, <4>1
      <3> QED
        BY <1>4, <3>1, <3>2
    <2> QED
      BY <1>2, <2>1 DEF Solid
  <1> QED
    BY <1>1, <1>7, <1>8

(* The first of two parts, when the second is lost.                         *)
LEMMA Beginning ==
  ASSUME NEW s \in Seq(Nat), NEW t \in Seq(Nat), NEW w \in Nat, NEW n \in Nat,
         Ordered(s \o t, w)
  PROVE  /\ Ordered(s, w)
         /\ Solid(s \o t, n) => Solid(s, n)
  <1>1. /\ Len(s \o t) = Len(s) + Len(t) /\ Len(s) \in Nat /\ Len(t) \in Nat
        /\ \A i \in 1..Len(s) : (s \o t)[i] = s[i] /\ i \in 1..Len(s \o t)
    BY Places
  <1> QED
    BY <1>1 DEF Ordered, Solid

(* More may be written without more being taken.                            *)
LEMMA Later ==
  ASSUME NEW s \in Seq(Nat), NEW w \in Nat, NEW k \in Nat, Ordered(s, w)
  PROVE  /\ Ordered(s, w + k)
         /\ Solid(s, w) => Solid(s, w + k)
  BY LenProperties DEF Ordered, Solid

(* What write takes.                                                        *)
LEMMA TakenIs ==
  ASSUME NEW n \in 1..Pieces, NEW k \in Nat, WriterAssumption
  PROVE  /\ Taken(n, k) \in Seq(Nat)
         /\ Len(Taken(n, k)) = IF k < Size THEN k ELSE Size
         /\ \A j \in 1..Len(Taken(n, k)) : Taken(n, k)[j] = (n - 1) * Size + j
  <1>1. Size \in Nat /\ Pieces \in Nat
    BY DEF WriterAssumption
  <1>2. PICK w \in Nat : w = (n - 1) * Size
    <2>1. n \in 1..(Pieces + 1)
      BY <1>1
    <2> QED
      BY <2>1, Sizes
  <1>3. PICK m \in Nat : m = IF k < Size THEN k ELSE Size
    BY <1>1
  <1>4. Taken(n, k) = [i \in 1..m |-> w + i]
    BY <1>2, <1>3 DEF Taken
  <1>5. [i \in 1..m |-> w + i] \in Seq(Nat) /\ Len([i \in 1..m |-> w + i]) = m
    OBVIOUS
  <1> QED
    BY <1>2, <1>3, <1>4, <1>5

-----------------------------------------------------------------------------
(* The invariant.                                                           *)

LEMMA InvInit ==
  ASSUME WriterAssumption, Init
  PROVE  WriterInv
  <1>1. /\ kind \in Kinds /\ next = 1 /\ bad = FALSE /\ client = "here"
        /\ writer = "writing" /\ socket = <<>> /\ got = <<>>
    BY DEF Init
  <1>2. Room \in Nat /\ Size \in Nat /\ Pieces \in Nat
    BY DEF WriterAssumption
  <1>3. Stream = <<>> /\ Written = 0
    BY <1>1, <1>2 DEF Stream, Written
  <1>4. Shape
    <2>1. <<>> \in Seq(Nat) /\ Len(<<>>) = 0
      OBVIOUS
    <2>2. Len(socket) <= Room /\ 1 \in 1..(Pieces + 1)
      BY <1>1, <1>2, <2>1
    <2> QED
      BY <1>1, <2>1, <2>2 DEF Shape
  <1>5. Ordered(<<>>, 0) /\ Solid(<<>>, Room) /\ Solid(<<>>, 0)
    BY DEF Ordered, Solid
  <1>6. Complete
    BY <1>1, <1>3 DEF Complete
  <1> QED
    BY <1>3, <1>4, <1>5, <1>6 DEF WriterInv

(* A piece goes to the socket, as far as there is room.                     *)
LEMMA PieceTaken ==
  ASSUME WriterAssumption, WriterInv, Working,
         socket' = socket \o Taken(next, Free), next' = next + 1, got' = got
  PROVE  /\ socket' \in Seq(Nat) /\ Len(socket') <= Room /\ next' \in 1..(Pieces + 1)
         /\ Ordered(Stream', Written')
         /\ \A n \in Nat : Solid(Stream, n) /\ (Len(Stream) = Written \/ Len(Stream) >= n)
                           => Solid(Stream', n)
         /\ Written' = Written + Size /\ Written \in Nat
         /\ Len(Stream) \in Nat
         /\ IF Free < Size THEN Len(Stream') >= Room
            ELSE Len(Stream') = Len(Stream) + Size
  <1>1. /\ socket \in Seq(Nat) /\ got \in Seq(Nat) /\ Len(socket) <= Room
        /\ next \in 1..Pieces /\ Room \in Nat /\ Size \in Nat /\ Pieces \in Nat
    BY DEF WriterInv, Shape, Working, WriterAssumption
  <1>2. Free \in Nat /\ Free = Room - Len(socket)
    BY <1>1, LenProperties DEF Free
  <1> DEFINE t == Taken(next, Free)
  <1>3. /\ t \in Seq(Nat) /\ Len(t) = IF Free < Size THEN Free ELSE Size
        /\ \A j \in 1..Len(t) : t[j] = Written + j
    BY <1>1, <1>2, TakenIs DEF Written
  <1> HIDE DEF t
  <1>4. Len(t) <= Size /\ Len(t) <= Free
    BY <1>1, <1>2, <1>3
  <1>5. socket' = socket \o t /\ Stream' = Stream \o t /\ Stream \in Seq(Nat)
    <2>1. Stream' = got \o (socket \o t)
      BY DEF Stream, t
    <2>2. (got \o socket) \o t = got \o (socket \o t)
      BY <1>1, <1>3, Associative
    <2> QED
      BY <1>1, <2>1, <2>2, Places DEF Stream, t
  <1>6. Written' = Written + Size /\ Written \in Nat
    BY <1>1, Sizes DEF Written
  <1>7. Ordered(Stream, Written)
    BY DEF WriterInv
  <1>8. Ordered(Stream', Written')
    BY <1>1, <1>3, <1>4, <1>5, <1>6, <1>7, Appended
  <1>9. ASSUME NEW n \in Nat, Solid(Stream, n), Len(Stream) = Written \/ Len(Stream) >= n
        PROVE  Solid(Stream', n)
    <2>1. /\ Stream \in Seq(Nat) /\ t \in Seq(Nat) /\ Written \in Nat /\ Size \in Nat
          /\ Ordered(Stream, Written) /\ Len(t) <= Size
          /\ \A j \in 1..Len(t) : t[j] = Written + j
      BY <1>1, <1>3, <1>4, <1>5, <1>6, <1>7
    <2>2. Solid(Stream \o t, n)
      BY <1>9, <2>1, Appended
    <2> QED
      BY <1>5, <2>2
  <1>10. Len(Stream') = Len(Stream) + Len(t) /\ Len(Stream) = Len(got) + Len(socket)
         /\ Len(socket') = Len(socket) + Len(t) /\ socket' \in Seq(Nat)
         /\ {Len(Stream), Len(got), Len(socket), Len(t)} \subseteq Nat
    <2>1. /\ Stream = got \o socket /\ Len(got \o socket) = Len(got) + Len(socket)
          /\ {Len(got), Len(socket)} \subseteq Nat
      BY <1>1, Places DEF Stream
    <2>2. /\ Len(socket \o t) = Len(socket) + Len(t) /\ socket \o t \in Seq(Nat)
          /\ Len(t) \in Nat
      BY <1>1, <1>3, Places
    <2>3. Len(Stream \o t) = Len(Stream) + Len(t) /\ Len(Stream) \in Nat
      BY <1>3, <1>5, Places
    <2> QED
      BY <1>5, <2>1, <2>2, <2>3
  <1>11. next' \in 1..(Pieces + 1)
    BY <1>1
  <1>12. IF Free < Size THEN Len(Stream') >= Room ELSE Len(Stream') = Len(Stream) + Size
    BY <1>1, <1>2, <1>3, <1>10
  <1>13. Len(socket') <= Room
    BY <1>1, <1>2, <1>4, <1>10
  <1> QED
    BY <1>6, <1>8, <1>9, <1>10, <1>11, <1>12, <1>13

(* A piece goes nowhere.                                                    *)
LEMMA PieceLost ==
  ASSUME WriterAssumption, WriterInv, Working,
         socket' = socket, next' = next + 1, got' = got
  PROVE  /\ next' \in 1..(Pieces + 1) /\ Stream' = Stream
         /\ Ordered(Stream', Written')
         /\ Solid(Stream, Written) => Solid(Stream', Written')
  <1>1. /\ socket \in Seq(Nat) /\ got \in Seq(Nat)
        /\ next \in 1..Pieces /\ Size \in Nat /\ Pieces \in Nat
    BY DEF WriterInv, Shape, Working, WriterAssumption
  <1>2. Written' = Written + Size /\ Written \in Nat
    BY <1>1, Sizes DEF Written
  <1>3. Stream' = Stream /\ Stream \in Seq(Nat)
    BY <1>1, Places DEF Stream
  <1>4. Ordered(Stream, Written)
    BY DEF WriterInv
  <1>5. next' \in 1..(Pieces + 1)
    BY <1>1
  <1> QED
    BY <1>1, <1>2, <1>3, <1>4, <1>5, Later

LEMMA WriteKeeps ==
  ASSUME WriterAssumption, WriterInv, Write
  PROVE  WriterInv'
  <1>1. /\ Working /\ socket' = socket \o Taken(next, Free) /\ next' = next + 1 /\ got' = got
        /\ kind' = kind /\ bad' = bad /\ client' = client /\ writer' = writer
        /\ kind = "thread" /\ client = "here"
    BY DEF Write
  <1>2. Shape /\ Solid(Stream, Room) /\ Complete
    BY DEF WriterInv
  <1>3. Room \in Nat /\ Size \in Nat
    BY DEF WriterAssumption
  <1>4. Shape'
    BY <1>1, <1>2, PieceTaken DEF Shape
  <1>5. Solid(Stream', Room)
    BY <1>1, <1>2, <1>3, PieceTaken DEF Complete
  <1>6. Complete'
    <2>1. bad = FALSE
      BY <1>1, <1>2 DEF Shape
    <2>2. Len(Stream) = Written \/ Len(Stream) >= Room
      BY <1>1, <1>2 DEF Complete
    <2>3. /\ Written' = Written + Size /\ Written \in Nat /\ Len(Stream) \in Nat
          /\ IF Free < Size THEN Len(Stream') >= Room ELSE Len(Stream') = Len(Stream) + Size
      BY <1>1, PieceTaken
    <2>4. Len(Stream') = Written' \/ Len(Stream') >= Room
      <3>1. CASE Free < Size
        BY <2>3, <3>1
      <3>2. CASE ~(Free < Size)
        BY <1>3, <2>2, <2>3, <3>2
      <3> QED
        BY <3>1, <3>2
    <2> QED
      BY <1>1, <2>1, <2>4 DEF Complete
  <1> QED
    BY <1>1, <1>4, <1>5, <1>6, PieceTaken DEF WriterInv

LEMMA PutKeeps ==
  ASSUME WriterAssumption, WriterInv, Put
  PROVE  WriterInv'
  <1>1. /\ Working /\ next' = next + 1 /\ got' = got /\ kind = "child"
        /\ kind' = kind /\ client' = client /\ writer' = writer
    BY DEF Put
  <1>2. Shape /\ Solid(Stream, Room) /\ Solid(Stream, Written) /\ Complete /\ Ordered(Stream, Written)
    BY <1>1 DEF WriterInv
  <1>3. Room \in Nat /\ Size \in Nat /\ Stream \in Seq(Nat)
    BY <1>2, Places DEF WriterAssumption, Shape, Stream
  <1>4. CASE bad
    <2>1. socket' = socket /\ bad' = bad
      BY <1>4 DEF Put
    <2>2. Stream' = Stream
      BY <1>1, <2>1, PieceLost
    <2>3. Shape'
      BY <1>1, <1>2, <2>1, PieceLost DEF Shape
    <2>4. Complete'
      BY <1>1, <1>2, <1>4, <2>1, <2>2 DEF Complete
    <2> QED
      BY <1>1, <1>2, <2>1, <2>2, <2>3, <2>4, PieceLost DEF WriterInv
  <1>5. CASE ~bad
    <2>1. client = "here" /\ socket' = socket \o Taken(next, Free) /\ bad' = (Free < Size)
      BY <1>5 DEF Put
    <2>2. Len(Stream) = Written
      BY <1>1, <1>2, <1>5, <2>1 DEF Complete
    <2>3. Solid(Stream', Room)
      BY <1>1, <1>2, <1>3, <2>1, <2>2, PieceTaken
    <2>4. Written \in Nat /\ Written' = Written + Size
      BY <1>1, <2>1, PieceTaken
    <2>5. Solid(Stream, Written')
      BY <1>2, <1>3, <2>4, Later
    <2>6. Written' \in Nat
      BY <1>3, <2>4
    <2>7. Solid(Stream', Written')
      BY <1>1, <2>1, <2>2, <2>5, <2>6, PieceTaken
    <2>8. Shape'
      BY <1>1, <1>2, <2>1, PieceTaken DEF Shape
    <2>9. Complete'
      BY <1>1, <1>3, <2>1, <2>2, PieceTaken DEF Complete
    <2> QED
      BY <1>1, <2>1, <2>3, <2>7, <2>8, <2>9, PieceTaken DEF WriterInv
  <1> QED
    BY <1>4, <1>5

LEMMA LostKeeps ==
  ASSUME WriterAssumption, WriterInv, Lost
  PROVE  WriterInv'
  <1>1. /\ Working /\ next' = next + 1 /\ got' = got /\ socket' = socket
        /\ kind' = kind /\ client' = client /\ writer' = writer
        /\ client = "gone" /\ bad' = (kind = "child")
    BY DEF Lost
  <1>2. Shape /\ Solid(Stream, Room)
    BY DEF WriterInv
  <1>3. Shape'
    BY <1>1, <1>2, PieceLost DEF Shape
  <1>4. Complete'
    BY <1>1 DEF Complete
  <1>5. Stream' = Stream /\ Ordered(Stream', Written')
    BY <1>1, PieceLost
  <1>6. kind' = "child" => Solid(Stream', Written')
    BY <1>1, PieceLost DEF WriterInv
  <1> QED
    BY <1>2, <1>3, <1>4, <1>5, <1>6 DEF WriterInv

(* Reading moves bytes from the socket to the reader, in their order.       *)
LEMMA ReadKeeps ==
  ASSUME WriterAssumption, WriterInv, Read
  PROVE  WriterInv'
  <1>1. PICK k \in 1..Len(socket) :
          /\ got' = got \o SubSeq(socket, 1, k)
          /\ socket' = SubSeq(socket, k + 1, Len(socket))
    BY DEF Read
  <1>2. UNCHANGED <<kind, next, bad, client, writer>>
    BY DEF Read
  <1>3. Shape /\ Room \in Nat
    BY DEF WriterInv, WriterAssumption
  <1>4. socket \in Seq(Nat) /\ got \in Seq(Nat) /\ Len(socket) <= Room /\ Len(socket) \in Nat
    BY <1>3, LenProperties DEF Shape
  <1>5. /\ SubSeq(socket, 1, k) \in Seq(Nat)
        /\ socket' \in Seq(Nat) /\ Len(socket') <= Room
    <2>1. \A i \in 1..Len(socket) : socket[i] \in Nat
      BY <1>4, LenProperties
    <2>2. \A i \in 1..k : socket[i] \in Nat
      BY <1>4, <2>1
    <2>3. SubSeq(socket, 1, k) \in Seq(Nat)
      BY <2>2, <1>4, SubSeqProperties
    <2>4. \A i \in (k + 1)..Len(socket) : socket[i] \in Nat
      BY <1>4, <2>1
    <2>5. /\ socket' \in Seq(Nat)
          /\ Len(socket') = IF k + 1 <= Len(socket) THEN Len(socket) - (k + 1) + 1 ELSE 0
      BY <1>1, <1>4, <2>4, SubSeqProperties
    <2>6. Len(socket') <= Len(socket) /\ Len(socket') \in Nat
      BY <1>4, <2>5
    <2>7. Len(socket') <= Room
      BY <1>3, <1>4, <2>6
    <2> QED
      BY <2>3, <2>5, <2>7
  <1>6. SubSeq(socket, 1, k) \o socket' = socket
    BY <1>1, <1>4, Cut
  <1>7. Stream' = Stream /\ got' \in Seq(Nat)
    <2>1. got' \in Seq(Nat)
      BY <1>1, <1>4, <1>5, Places
    <2>2. Stream' = (got \o SubSeq(socket, 1, k)) \o socket'
      BY <1>1 DEF Stream
    <2>3. (got \o SubSeq(socket, 1, k)) \o socket' = got \o (SubSeq(socket, 1, k) \o socket')
      BY <1>4, <1>5, Associative
    <2> QED
      BY <1>6, <2>1, <2>2, <2>3 DEF Stream
  <1>8. Shape'
    BY <1>2, <1>3, <1>5, <1>7 DEF Shape
  <1> QED
    BY <1>2, <1>7, <1>8 DEF WriterInv, Written, Complete

(* A reset takes what waits in the socket.                                  *)
LEMMA ResetKeeps ==
  ASSUME WriterAssumption, WriterInv, Reset
  PROVE  WriterInv'
  <1>1. /\ client' = "gone" /\ socket' = <<>>
        /\ UNCHANGED <<kind, next, bad, got, writer>>
    BY DEF Reset
  <1>2. Shape /\ Room \in Nat /\ socket \in Seq(Nat) /\ got \in Seq(Nat) /\ Size \in Nat
    BY DEF WriterInv, WriterAssumption, Shape
  <1>3. Stream' = got
    BY <1>1, <1>2, ConcatEmptySeq DEF Stream
  <1>4. Written \in Nat /\ Written' = Written
    BY <1>1, <1>2, Sizes DEF Written, Shape
  <1>5. Ordered(got, Written) /\ Solid(got, Room) /\ (kind = "child" => Solid(got, Written))
    BY <1>2, <1>4, Beginning DEF WriterInv, Stream
  <1>6. Shape'
    BY <1>1, <1>2 DEF Shape
  <1>7. Complete'
    BY <1>1 DEF Complete
  <1> QED
    BY <1>1, <1>3, <1>4, <1>5, <1>6, <1>7 DEF WriterInv

LEMMA InvNext ==
  ASSUME WriterAssumption, WriterInv, [Next]_vars
  PROVE  WriterInv'
  <1>1. CASE Write
    BY <1>1, WriteKeeps
  <1>2. CASE Put
    BY <1>2, PutKeeps
  <1>3. CASE Lost
    BY <1>3, LostKeeps
  <1>4. CASE Sigpipe \/ Close
    <2>1. UNCHANGED <<kind, next, bad, socket, got, client>> /\ writer' \in {"closed", "killed"}
      BY <1>4 DEF Sigpipe, Close
    <2>2. Stream' = Stream /\ Written' = Written
      BY <2>1 DEF Stream, Written
    <2>3. Shape /\ Complete
      BY DEF WriterInv
    <2>4. Shape'
      BY <2>1, <2>3 DEF Shape
    <2>5. Complete'
      BY <2>1, <2>2, <2>3 DEF Complete
    <2> QED
      BY <2>1, <2>2, <2>4, <2>5 DEF WriterInv
  <1>5. CASE Read
    BY <1>5, ReadKeeps
  <1>6. CASE Reset
    BY <1>6, ResetKeeps
  <1>7. CASE UNCHANGED vars
    BY <1>7 DEF vars, WriterInv, Shape, Stream, Written, Complete
  <1> QED
    BY <1>1, <1>2, <1>3, <1>4, <1>5, <1>6, <1>7 DEF Next, Program

LEMMA InvAlways == Spec => []WriterInv
  <1>1. Init => WriterInv
    BY WriterAssumption, InvInit
  <1>2. WriterInv /\ [Next]_vars => WriterInv'
    BY WriterAssumption, InvNext
  <1> QED
    BY <1>1, <1>2, PTL DEF Spec

-----------------------------------------------------------------------------
(* The properties.                                                          *)

(* What is in the socket and what was read are bytes of the page.           *)
LEMMA BytesOfPage ==
  ASSUME WriterAssumption, WriterInv
  PROVE  /\ Stream \in Seq(Nat) /\ Len(Stream) \in Nat /\ DOMAIN Stream = 1..Len(Stream)
         /\ Written \in Nat /\ Written <= Pieces * Size /\ Pieces * Size \in Nat
         /\ Ordered(Stream, Written)
         /\ socket \in Seq(1..(Pieces * Size)) /\ got \in Seq(1..(Pieces * Size))
  <1>1. /\ socket \in Seq(Nat) /\ got \in Seq(Nat) /\ next \in 1..(Pieces + 1)
        /\ Size \in Nat /\ Pieces \in Nat /\ Ordered(Stream, Written)
    BY DEF WriterInv, Shape, WriterAssumption
  <1>2. Stream \in Seq(Nat) /\ Len(Stream) \in Nat /\ DOMAIN Stream = 1..Len(Stream)
    BY <1>1, Places, LenProperties DEF Stream
  <1>3. Written \in Nat /\ Written <= Pieces * Size
    BY <1>1, Sizes DEF Written
  <1>4. PICK p \in Nat : p = Pieces * Size
    BY <1>1
  <1>5. \A i \in 1..Len(Stream) : Stream[i] \in 1..p
    BY <1>1, <1>3, <1>4 DEF Ordered
  <1>6. /\ Len(Stream) = Len(got) + Len(socket) /\ Len(got) \in Nat /\ Len(socket) \in Nat
        /\ \A i \in 1..Len(got) : Stream[i] = got[i]
        /\ \A i \in 1..Len(Stream) : i > Len(got) => Stream[i] = socket[i - Len(got)]
    BY <1>1, Places DEF Stream
  <1>7. \A i \in 1..Len(got) : got[i] \in 1..p
    BY <1>5, <1>6
  <1>8. ASSUME NEW i \in 1..Len(socket)
        PROVE  socket[i] \in 1..p
    <2>1. Len(got) + i \in 1..Len(Stream) /\ Len(got) + i > Len(got)
          /\ (Len(got) + i) - Len(got) = i
      BY <1>6
    <2>2. Stream[Len(got) + i] = socket[i]
      BY <1>6, <2>1
    <2> QED
      BY <1>5, <2>1, <2>2
  <1>9. got \in Seq(1..p) /\ socket \in Seq(1..p)
    <2>1. \A s \in Seq(Nat) : (\A i \in 1..Len(s) : s[i] \in 1..p) => s \in Seq(1..p)
      <3>1. ASSUME NEW s \in Seq(Nat), \A i \in 1..Len(s) : s[i] \in 1..p
            PROVE  s \in Seq(1..p)
        <4>1. Len(s) \in Nat /\ s = [i \in 1..Len(s) |-> s[i]]
          BY LenProperties
        <4>2. PICK m \in Nat : m = Len(s)
          BY <4>1
        <4>3. s \in [1..m -> 1..p]
          BY <3>1, <4>1, <4>2
        <4>4. [1..m -> 1..p] \subseteq Seq(1..p)
          OBVIOUS
        <4> QED
          BY <4>3, <4>4
      <3> QED
        BY <3>1
    <2> QED
      BY <1>1, <1>7, <1>8, <2>1
  <1> QED
    BY <1>1, <1>2, <1>3, <1>4, <1>9

(* Two beginnings of the same length whose bytes are in place are equal.    *)
LEMMA SamePrefix ==
  ASSUME WriterAssumption, NEW n \in Nat, n <= Pieces * Size, n <= Len(Stream),
         WriterInv, Solid(Stream, n)
  PROVE  SubSeq(Stream, 1, n) = SubSeq(Page, 1, n)
  <1>1. Stream \in Seq(Nat) /\ Len(Stream) \in Nat /\ Pieces * Size \in Nat
    BY BytesOfPage
  <1>2. \A i \in 1..n : Stream[i] = i
    BY <1>1 DEF Solid
  <1>3. \A i \in 1..n : Page[i] = i
    BY <1>1 DEF Page
  <1>4. \A i \in 1..n : Stream[i] \in Nat /\ Page[i] \in Nat
    BY <1>2, <1>3
  <1> QED
    BY <1>2, <1>3

(* The state keeps its shape: whatever the pages and the clients do, the    *)
(* socket never holds more than its room, and only bytes of the page.       *)
THEOREM WriterTyped == Spec => []TypeOK
  <1>1. WriterInv => TypeOK
    BY WriterAssumption, BytesOfPage DEF WriterInv, Shape, TypeOK
  <1> QED
    BY <1>1, InvAlways, PTL

(* However the client reads and the writer loses, no byte of a page comes   *)
(* twice or out of order.                                                   *)
THEOREM BytesInOrder == Spec => []OnceInOrder
  <1>1. WriterInv => OnceInOrder
    BY WriterAssumption, BytesOfPage DEF OnceInOrder, Ordered
  <1> QED
    BY <1>1, InvAlways, PTL

(* A CGI program's page arrives without a hole.                             *)
THEOREM ChildHasNoHole == Spec => []ChildWritesPrefix
  <1>1. ASSUME WriterInv, kind = "child"
        PROVE  Stream = SubSeq(Page, 1, Len(Stream))
    <2>1. /\ Stream \in Seq(Nat) /\ Len(Stream) \in Nat /\ Written \in Nat
          /\ Len(Stream) <= Written /\ Written <= Pieces * Size /\ Pieces * Size \in Nat
      BY <1>1, WriterAssumption, BytesOfPage DEF Ordered
    <2>2. Solid(Stream, Len(Stream)) /\ Len(Stream) <= Pieces * Size
      BY <1>1, <2>1 DEF WriterInv, Solid
    <2>3. SubSeq(Stream, 1, Len(Stream)) = SubSeq(Page, 1, Len(Stream))
      BY <1>1, <2>1, <2>2, WriterAssumption, SamePrefix
    <2> QED
      BY <2>1, <2>3, SubSeqFull
  <1>2. WriterInv => ChildWritesPrefix
    BY <1>1 DEF ChildWritesPrefix
  <1> QED
    BY <1>2, InvAlways, PTL

(* What fits the socket arrives whole, if the client stays.                 *)
THEOREM FitsArrivesWhole == Spec => []BeginsWhole
  <1> DEFINE safe == IF Written < Room THEN Written ELSE Room
  <1>1. ASSUME WriterInv, client = "here"
        PROVE  Len(Stream) >= safe /\ SubSeq(Stream, 1, safe) = SubSeq(Page, 1, safe)
    <2>1. /\ Stream \in Seq(Nat) /\ Len(Stream) \in Nat /\ Written \in Nat
          /\ Written <= Pieces * Size /\ Pieces * Size \in Nat /\ Room \in Nat
      BY <1>1, WriterAssumption, BytesOfPage DEF WriterAssumption
    <2>2. Len(Stream) = Written \/ Len(Stream) >= Room
      BY <1>1 DEF WriterInv, Complete
    <2>3. safe \in Nat /\ Len(Stream) >= safe /\ safe <= Pieces * Size /\ safe <= Room
      BY <1>1, <2>1, <2>2
    <2> HIDE DEF safe
    <2>4. Solid(Stream, safe)
      BY <1>1, <2>1, <2>3 DEF WriterInv, Solid
    <2> QED
      BY <1>1, <2>1, <2>3, <2>4, WriterAssumption, SamePrefix
  <1>2. WriterInv => BeginsWhole
    BY <1>1 DEF BeginsWhole, Written
  <1> QED
    BY <1>2, InvAlways, PTL
=============================================================================
