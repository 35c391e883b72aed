------------------------------ MODULE TextProofs ------------------------------
(****************************************************************************)
(* What the searches of Text find in any text, and what the parts they cut  *)
(* out hold.                                                                *)
(****************************************************************************)
EXTENDS Text, SequenceTheorems, WellFoundedInduction, TLAPS

(* A set of naturals that is not empty has a least element.                 *)
LEMMA LeastPlace ==
  ASSUME NEW T, T \subseteq Nat, T # {}
  PROVE  \E x \in T : \A y \in T : x <= y
  <1> DEFINE R == {ss \in Nat \X Nat : ss[1] < ss[2]}
  <1>1. IsWellFoundedOn(R, Nat)
    BY NatLessThanWellFounded DEF OpToRel
  <1> HIDE DEF R
  <1>2. PICK x \in T : \A y \in T : ~ (<<y, x>> \in R)
    BY <1>1, WFMin
  <1>3. \A a, b \in Nat : b < a => <<b, a>> \in R
    BY DEF R
  <1>4. ASSUME NEW y \in T PROVE x <= y
    <2>1. x \in Nat /\ y \in Nat /\ ~ (y < x)
      BY <1>2, <1>3
    <2> QED
      BY <2>1
  <1> QED
    BY <1>4

(* std::find returns the first place of the character, or the range's end.  *)
LEMMA FindFacts ==
  ASSUME NEW s, NEW x, NEW from \in Nat, NEW to \in Nat, from <= to
  PROVE  LET i == Find(s, from, to, x)
         IN  /\ i \in Nat /\ from <= i /\ i <= to
             /\ i = to \/ s[i] = x
             /\ \A j \in from..(i - 1) : s[j] # x
  <1> DEFINE T == {i \in from..to : i = to \/ s[i] = x}
             P(i) == /\ i = to \/ s[i] = x
                     /\ \A j \in from..(i - 1) : s[j] # x
  <1>1. T \subseteq Nat /\ to \in T
    OBVIOUS
  <1>2. PICK i \in T : \A j \in T : i <= j
    BY <1>1, LeastPlace
  <1>3. i \in from..to /\ P(i)
    <2>1. ASSUME NEW j \in from..(i - 1), s[j] = x PROVE FALSE
      <3>1. j \in T /\ j < i
        BY <1>2, <2>1
      <3> QED
        BY <1>1, <1>2, <3>1
    <2> QED
      BY <1>2, <2>1
  <1>4. Find(s, from, to, x) = CHOOSE k \in from..to : P(k)
    BY DEF Find
  <1> HIDE DEF P
  <1>5. Find(s, from, to, x) \in from..to /\ P(Find(s, from, to, x))
    BY <1>3, <1>4
  <1> QED
    BY <1>5 DEF P

(* The search from the end returns the place after the last one, or 1.      *)
LEMMA FindAfterLastFacts ==
  ASSUME NEW s, NEW x, Len(s) \in Nat
  PROVE  LET i == FindAfterLast(s, x)
         IN  /\ i \in 1..End(s)
             /\ i = 1 \/ s[i - 1] = x
             /\ \A j \in i..Len(s) : s[j] # x
  <1> DEFINE n == Len(s)
             T == {k \in 0..n : k = n \/ s[n - k] = x}
             P(i) == /\ i = 1 \/ s[i - 1] = x
                     /\ \A j \in i..n : s[j] # x
  <1>1. T \subseteq Nat /\ n \in T /\ n \in Nat
    OBVIOUS
  <1>2. PICK k \in T : \A j \in T : k <= j
    BY <1>1, LeastPlace
  <1> DEFINE m == n + 1 - k
  <1>3. m \in 1..(n + 1) /\ P(m)
    <2>1. k \in 0..n /\ (k = n \/ s[n - k] = x)
      BY <1>2
    <2> HIDE DEF n
    <2>2. m \in 1..(n + 1) /\ m - 1 = n - k /\ (k = n => m = 1)
      BY <1>1, <2>1
    <2>3. ASSUME NEW j \in m..n, s[j] = x PROVE FALSE
      <3>1. n - j \in 0..n /\ n - (n - j) = j /\ n - j < k
        BY <1>1, <2>1, <2>2, <2>3
      <3>2. n - j \in T
        BY <2>3, <3>1
      <3>3. k <= n - j
        BY <1>2, <3>2
      <3> QED
        BY <1>1, <2>1, <3>1, <3>3
    <2> HIDE DEF m
    <2> QED
      BY <2>1, <2>2, <2>3
  <1> HIDE DEF m
  <1>4. FindAfterLast(s, x) = CHOOSE i \in 1..(n + 1) : P(i)
    BY DEF FindAfterLast, End
  <1> HIDE DEF P
  <1>5. FindAfterLast(s, x) \in 1..(n + 1) /\ P(FindAfterLast(s, x))
    BY <1>3, <1>4
  <1> QED
    BY <1>5 DEF P, End

(* A stretch of s between separators x: it begins at lo or after a          *)
(* separator, and ends at one or at n.                                      *)
Stretch(s, x, lo, n, b, e) ==
  /\ lo \in Nat /\ n \in Nat /\ b \in lo..n /\ e \in b..n
  /\ b = lo \/ s[b - 1] = x
  /\ e = n \/ s[e] = x
  /\ \A k \in b..(e - 1) : s[k] # x

(* Stretches do not overlap: one lies before another, is it, or lies behind.*)
LEMMA StretchOrder ==
  ASSUME NEW s, NEW x, NEW lo, NEW n, NEW b, NEW e, NEW i, NEW j,
         Stretch(s, x, lo, n, b, e), Stretch(s, x, lo, n, i, j)
  PROVE  /\ i < b => j < b
         /\ i = b => j = e
         /\ i > b => i > e
  <1> USE DEF Stretch
  <1>1. ASSUME i < b PROVE j < b
    <2>1. s[b - 1] = x /\ b - 1 >= i
      BY <1>1
    <2>2. ~ (b - 1 \in i..(j - 1))
      BY <2>1
    <2> QED
      BY <1>1, <2>1, <2>2
  <1>2. ASSUME i = b PROVE j = e
    <2>1. ~ (j < e) /\ ~ (e < j)
      BY <1>2
    <2> QED
      BY <2>1
  <1>3. ASSUME i > b PROVE i > e
    <2>1. s[i - 1] = x /\ i - 1 >= b
      BY <1>3
    <2>2. ~ (i - 1 \in b..(e - 1))
      BY <2>1
    <2> QED
      BY <1>3, <2>1, <2>2
  <1> QED
    BY <1>1, <1>2, <1>3

(* A part of a text.                                                        *)
LEMMA PartFacts ==
  ASSUME NEW S, NEW s \in Seq(S), NEW from \in Nat, NEW to \in Nat,
         1 <= from, from <= to, to <= Len(s) + 1
  PROVE  /\ Part(s, from, to) \in Seq(S)
         /\ Len(Part(s, from, to)) = to - from
         /\ \A i \in 1..(to - from) : Part(s, from, to)[i] = s[from + i - 1]
  <1>1. Len(s) \in Nat /\ from \in 1..(Len(s) + 1) /\ to - 1 \in (from - 1)..Len(s)
    BY LenProperties
  <1> DEFINE n == to - 1
  <1>2. /\ SubSeq(s, from, n) \in Seq(S)
        /\ Len(SubSeq(s, from, n)) = IF from <= n THEN n - from + 1 ELSE 0
        /\ \A i \in 1..(n - from + 1) : SubSeq(s, from, n)[i] = s[from + i - 1]
    BY <1>1
  <1>3. (IF from <= n THEN n - from + 1 ELSE 0) = to - from /\ n - from + 1 = to - from
    BY <1>1
  <1> QED
    BY <1>2, <1>3 DEF Part

(* Two texts with a character between them.                                 *)
LEMMA JoinFacts ==
  ASSUME NEW S, NEW s \in Seq(S), NEW c \in S, NEW t \in Seq(S)
  PROVE  /\ s \o <<c>> \o t \in Seq(S)
         /\ Len(s \o <<c>> \o t) = Len(s) + 1 + Len(t)
         /\ \A k \in 1..Len(s) : (s \o <<c>> \o t)[k] = s[k]
         /\ (s \o <<c>> \o t)[Len(s) + 1] = c
         /\ \A k \in 1..Len(t) : (s \o <<c>> \o t)[Len(s) + 1 + k] = t[k]
         /\ SubSeq(s \o <<c>> \o t, Len(s) + 2, Len(s \o <<c>> \o t)) = t
  OBVIOUS

LEMMA Regroup ==
  ASSUME NEW S
  PROVE  \A s, t \in Seq(S), c \in S : s \o <<c>> \o t = s \o (<<c>> \o t)
  OBVIOUS

(* A text is the join of its parts around a character, and of no others.    *)
LEMMA CutAround ==
  ASSUME NEW S, NEW s \in Seq(S), NEW i \in 1..Len(s), NEW t \in Seq(S)
  PROVE  s = SubSeq(s, 1, i - 1) \o <<s[i]>> \o t <=> t = SubSeq(s, i + 1, Len(s))
  <1> DEFINE p == SubSeq(s, 1, i - 1)
             r == SubSeq(s, i + 1, Len(s))
  <1>1. /\ p \in Seq(S) /\ Len(p) = i - 1 /\ s[i] \in S
        /\ r \in Seq(S) /\ <<s[i]>> \in Seq(S)
    OBVIOUS
  <1>2. s = p \o SubSeq(s, i, Len(s)) /\ SubSeq(s, i, Len(s)) = <<s[i]>> \o r
    OBVIOUS
  <1>3. ASSUME s = p \o <<s[i]>> \o t PROVE t = r
    <2>1. SubSeq(p \o <<s[i]>> \o t, Len(p) + 2, Len(p \o <<s[i]>> \o t)) = t
      BY <1>1
    <2>2. Len(p) + 2 = i + 1
      BY <1>1
    <2> QED
      BY <1>3, <2>1, <2>2
  <1> HIDE DEF p, r
  <1>4. p \o <<s[i]>> \o r = p \o (<<s[i]>> \o r)
    BY <1>1, Regroup
  <1> QED
    BY <1>2, <1>3, <1>4 DEF p, r

LEMMA CutAt ==
  ASSUME NEW S, NEW s \in Seq(S), NEW i \in 1..Len(s)
  PROVE  s = SubSeq(s, 1, i - 1) \o <<s[i]>> \o SubSeq(s, i + 1, Len(s))
  <1> DEFINE r == SubSeq(s, i + 1, Len(s))
  <1>1. r \in Seq(S) /\ r = SubSeq(s, i + 1, Len(s))
    OBVIOUS
  <1> HIDE DEF r
  <1>2. s = SubSeq(s, 1, i - 1) \o <<s[i]>> \o r
    BY <1>1, CutAround
  <1> QED
    BY <1>2 DEF r

LEMMA Widen ==
  ASSUME NEW S, NEW T, S \subseteq T, NEW s \in Seq(S)
  PROVE  s \in Seq(T)
  OBVIOUS
=============================================================================
