-------------------------- MODULE QueryStringProofs --------------------------
(****************************************************************************)
(* parse_request on a text of any length: what it keeps and what it refuses.*)
(****************************************************************************)
EXTENDS QueryString, TextProofs

(* The pieces that the loop has behind it.                                  *)
Passed == {p \in Pieces : p.end < pos \/ (pos = End(request) /\ p.end = pos)}

(* Those of them whose key does not occur in an earlier piece.              *)
Firsts(pieces) ==
  {p \in pieces : \A q \in pieces : q.begin < p.begin => Of(q).key # Of(p).key}

(* The loop stands where a piece begins, or at the end.                     *)
AtPiece ==
  pos # 0 =>
    /\ pos \in (Query + 1)..End(request)
    /\ pos = Query + 1 \/ pos = End(request) \/ request[pos - 1] = "&"

(* Before the '?' is found there are no parameters, and if there is none    *)
(* there are no pieces.                                                     *)
BeforeMark == pos = 0 => parameters = {} /\ (verdict = "running" \/ Pieces = {})

(* Only well-formed pieces are passed, and each has left its key.           *)
PassedWell ==
  \A p \in Passed : WellFormed(p) /\ \E a \in parameters : a.key = Of(p).key

(* What the verdict is about.                                               *)
Verdict ==
  /\ verdict = "accepted" => pos = 0 \/ pos = End(request)
  /\ verdict = "refused" => \E p \in Pieces : ~WellFormed(p)

QueryInv ==
  /\ TypeOK /\ AtPiece /\ BeforeMark
  /\ PassedWell /\ FirstOfEachKey /\ Verdict

-----------------------------------------------------------------------------
(* Pieces.                                                                  *)

LEMMA RequestText ==
  ASSUME request \in Requests
  PROVE  /\ request \in Seq(STRING) /\ Len(request) \in Nat
         /\ End(request) = Len(request) + 1
  BY QueryAssumption, LenProperties DEF End

(* The reference finds the '?' that the code finds.                         *)
LEMMA QueryIsFind ==
  ASSUME request \in Requests
  PROVE  /\ Query = Find(request, 1, End(request), "?")
         /\ Query \in 1..End(request)
         /\ Query # End(request) => request[Query] = "?"
  <1>1. Query = Find(request, 1, End(request), "?")
    BY DEF Query, Find
  <1>2. 1 \in Nat /\ End(request) \in Nat /\ 1 <= End(request)
    BY RequestText
  <1> QED
    BY <1>1, <1>2, FindFacts

LEMMA PieceFacts ==
  ASSUME request \in Requests, NEW p \in Pieces
  PROVE  /\ p.begin \in (Query + 1)..Len(request) /\ p.end \in (Query + 1)..End(request)
         /\ p = [begin |-> p.begin, end |-> p.end]
         /\ p.begin = Query + 1 \/ request[p.begin - 1] = "&"
         /\ p.begin <= p.end
         /\ p.end = End(request) \/ request[p.end] = "&"
         /\ \A i \in p.begin..(p.end - 1) : request[i] # "&"
         /\ p.begin \in Nat /\ p.end \in Nat
  <1>1. Query \in Nat /\ Len(request) \in Nat /\ End(request) \in Nat
    BY QueryIsFind, RequestText
  <1> QED
    BY <1>1 DEF Pieces

(* The piece at pos, as the loop finds it.                                  *)
Here == [begin |-> pos, end |-> Find(request, pos, End(request), "&")]

LEMMA HereFacts ==
  ASSUME request \in Requests, AtPiece, pos # 0, pos # End(request)
  PROVE  /\ Here \in Pieces /\ Here.begin = pos /\ pos \in 1..Len(request)
         /\ Here.end \in pos..End(request)
         /\ \A q \in Pieces : /\ q.begin < pos => q.end < pos
                              /\ q.begin = pos => q = Here
                              /\ q.begin > pos => q.begin > Here.end /\ Here.end < End(request)
  <1> DEFINE end == Find(request, pos, End(request), "&")
  <1>1. /\ Query \in 1..End(request) /\ Len(request) \in Nat
        /\ End(request) = Len(request) + 1
    BY QueryIsFind, RequestText
  <1>2. /\ pos \in (Query + 1)..Len(request)
        /\ pos = Query + 1 \/ request[pos - 1] = "&"
    BY <1>1 DEF AtPiece
  <1>3. /\ end \in Nat /\ pos <= end /\ end <= End(request)
        /\ end = End(request) \/ request[end] = "&"
        /\ \A i \in pos..(end - 1) : request[i] # "&"
    BY <1>1, <1>2, FindFacts
  <1>4. Here = [begin |-> pos, end |-> end] /\ Here.begin = pos /\ Here.end = end
    BY DEF Here
  <1> HIDE DEF end
  <1>5. Here \in Pieces
    <2>1. Here \in [begin : (Query + 1)..Len(request), end : (Query + 1)..End(request)]
      BY <1>1, <1>2, <1>3, <1>4 DEF Here
    <2> QED
      BY <1>2, <1>3, <1>4, <2>1 DEF Pieces
  <1>6. ASSUME NEW q \in Pieces
        PROVE  /\ q.begin < pos => q.end < pos
               /\ q.begin = pos => q = Here
               /\ q.begin > pos => q.begin > end /\ end < End(request)
    <2>1. /\ q.begin \in (Query + 1)..Len(request) /\ q.end \in Nat /\ q.begin \in Nat
          /\ q.end <= End(request)
          /\ q = [begin |-> q.begin, end |-> q.end]
          /\ q.begin = Query + 1 \/ request[q.begin - 1] = "&"
          /\ q.begin <= q.end
          /\ q.end = End(request) \/ request[q.end] = "&"
          /\ \A i \in q.begin..(q.end - 1) : request[i] # "&"
      BY <1>1, PieceFacts
    <2>2. /\ Stretch(request, "&", Query + 1, End(request), pos, end)
          /\ Stretch(request, "&", Query + 1, End(request), q.begin, q.end)
      BY <1>1, <1>2, <1>3, <2>1 DEF Stretch
    <2>3. /\ q.begin < pos => q.end < pos
          /\ q.begin = pos => q.end = end
          /\ q.begin > pos => q.begin > end
      BY <2>2, StretchOrder
    <2>4. q.begin = pos => q = Here
      BY <1>4, <2>1, <2>3
    <2> QED
      BY <1>1, <1>3, <2>1, <2>3, <2>4
  <1> QED
    BY <1>1, <1>2, <1>3, <1>4, <1>5, <1>6

(* The loop refuses the piece exactly if it is not well formed, and takes   *)
(* its key and value otherwise.                                             *)
LEMMA HereSeparated ==
  ASSUME request \in Requests, AtPiece, pos # 0, pos # End(request),
         NEW end, end = Find(request, pos, End(request), "&"),
         NEW sep, sep = Find(request, pos, end, "=")
  PROVE  /\ WellFormed(Here) <=> ~NoKeyOrValue(pos, sep, end)
         /\ ~NoKeyOrValue(pos, sep, end) =>
              /\ Of(Here) = [key |-> Part(request, pos, sep),
                             value |-> Part(request, sep + 1, end)]
              /\ Of(Here).key \in Seq(STRING) /\ Of(Here).value \in Seq(STRING)
  <1>1. /\ Here.begin = pos /\ Here.end = end
        /\ pos \in 1..Len(request) /\ end \in pos..End(request)
        /\ Len(request) \in Nat /\ End(request) = Len(request) + 1
        /\ request \in Seq(STRING)
    BY HereFacts, RequestText DEF Here
  <1>2. /\ sep \in Nat /\ pos <= sep /\ sep <= end
        /\ sep = end \/ request[sep] = "="
        /\ \A i \in pos..(sep - 1) : request[i] # "="
    BY <1>1, FindFacts
  <1>3. ASSUME NEW k \in pos..end, Separates(Here, k) PROVE k = sep
    <2>1. /\ k > pos /\ k < end - 1 /\ request[k] = "="
          /\ \A i \in pos..(k - 1) : request[i] # "="
      BY <1>1, <1>3 DEF Separates
    <2>2. ~ (k < sep) /\ ~ (sep < k)
      BY <1>1, <1>2, <2>1
    <2> QED
      BY <1>1, <1>2, <2>2
  <1>4. Separates(Here, sep) <=> sep > pos /\ sep < end - 1
    BY <1>1, <1>2 DEF Separates
  <1>5. sep > pos /\ sep < end - 1 <=> ~NoKeyOrValue(pos, sep, end)
    <2>1. \A a, b, c \in Nat :
            a <= b /\ b <= c => ((b > a /\ b < c - 1) <=> ~(a = b \/ b = c \/ b + 1 = c))
      OBVIOUS
    <2>2. pos \in Nat /\ sep \in Nat /\ end \in Nat /\ pos <= sep /\ sep <= end
      BY <1>1, <1>2
    <2> QED
      BY <2>1, <2>2 DEF NoKeyOrValue
  <1>6. sep \in pos..end
    BY <1>1, <1>2
  <1>7. WellFormed(Here) <=> ~NoKeyOrValue(pos, sep, end)
    BY <1>1, <1>3, <1>4, <1>5, <1>6 DEF WellFormed
  <1>8. ASSUME ~NoKeyOrValue(pos, sep, end)
        PROVE  /\ Of(Here) = [key |-> Part(request, pos, sep),
                              value |-> Part(request, sep + 1, end)]
               /\ Of(Here).key \in Seq(STRING) /\ Of(Here).value \in Seq(STRING)
    <2>1. sep = CHOOSE k \in Here.begin..Here.end : Separates(Here, k)
      BY <1>1, <1>3, <1>4, <1>5, <1>6, <1>8
    <2>2. Of(Here) = [key |-> Part(request, pos, sep),
                      value |-> Part(request, sep + 1, end)]
      BY <1>1, <2>1 DEF Of
    <2>3. sep + 1 <= end /\ end <= Len(request) + 1 /\ sep + 1 \in Nat /\ end \in Nat
          /\ pos \in Nat /\ 1 <= pos /\ sep <= Len(request) + 1 /\ 1 <= sep + 1
      BY <1>1, <1>2, <1>5, <1>8
    <2>4. Part(request, pos, sep) \in Seq(STRING) /\ Part(request, sep + 1, end) \in Seq(STRING)
      BY <1>1, <1>2, <2>3, PartFacts
    <2> QED
      BY <2>2, <2>4
  <1> QED
    BY <1>7, <1>8

-----------------------------------------------------------------------------
(* Steps.                                                                   *)

LEMMA QueryInit == Init => QueryInv
  <1> SUFFICES ASSUME Init PROVE QueryInv
    OBVIOUS
  <1>1. /\ request \in Requests /\ pos = 0 /\ path = <<>> /\ parameters = {}
        /\ verdict = "running"
    BY DEF Init
  <1>2. End(request) \in Nat /\ End(request) # 0
    BY <1>1, RequestText
  <1>3. TypeOK
    BY <1>1, <1>2 DEF TypeOK
  <1>4. Passed = {}
    BY <1>1, <1>2, PieceFacts DEF Passed
  <1>5. FirstOfEachKey
    BY <1>1, <1>4 DEF FirstOfEachKey, Passed
  <1> QED
    BY <1>1, <1>3, <1>4, <1>5 DEF QueryInv, AtPiece, BeforeMark, PassedWell, Verdict

(* The text stays, and with it everything that is said of the text alone.   *)
LEMMA TextKept ==
  ASSUME request' = request
  PROVE  /\ Query' = Query /\ Pieces' = Pieces
         /\ \A p : WellFormed(p)' <=> WellFormed(p)
         /\ \A p : Of(p)' = Of(p)
  <1>1. Query' = Query
    BY DEF Query
  <1>2. \A p, k : Separates(p, k)' <=> Separates(p, k)
    BY DEF Separates
  <1>3. Pieces' = Pieces
    BY <1>1 DEF Pieces
  <1>4. \A p : WellFormed(p)' <=> WellFormed(p)
    BY DEF WellFormed, Separates
  <1>5. \A p : Of(p)' = Of(p)
    BY DEF Of, Separates
  <1> QED
    BY <1>1, <1>3, <1>4, <1>5

LEMMA SplitPathKeeps == QueryInv /\ SplitPath => QueryInv'
  <1> SUFFICES ASSUME QueryInv, SplitPath PROVE QueryInv'
    OBVIOUS
  <1>1. /\ TypeOK /\ request \in Requests /\ request' = request /\ parameters' = parameters
        /\ parameters = {} /\ pos = 0
    BY DEF QueryInv, TypeOK, BeforeMark, SplitPath
  <1>2. /\ Query \in 1..End(request) /\ Len(request) \in Nat
        /\ End(request) = Len(request) + 1 /\ request \in Seq(STRING)
        /\ Query = Find(request, 1, End(request), "?")
    BY <1>1, QueryIsFind, RequestText
  <1>3. path' = Part(request, 1, Query)
    BY <1>2 DEF SplitPath
  <1>4. \/ Query = End(request) /\ pos' = 0 /\ verdict' = "accepted"
        \/ Query # End(request) /\ pos' = Query + 1 /\ verdict' = "running"
    BY <1>1, <1>2 DEF SplitPath
  <1>5. path' \in Seq(STRING)
    BY <1>2, <1>3, PartFacts
  <1>6. TypeOK'
    <2>1. pos' \in 0..End(request)
      BY <1>2, <1>4
    <2> QED
      BY <1>1, <1>4, <1>5, <2>1 DEF TypeOK
  <1>7. ASSUME NEW p \in Pieces
        PROVE  Query # End(request) /\ ~ (p.end < pos' \/ (pos' = End(request) /\ p.end = pos'))
    <2>1. /\ p.begin \in (Query + 1)..Len(request) /\ p.end \in Nat /\ p.begin \in Nat
          /\ p.begin <= p.end
      BY <1>1, PieceFacts
    <2> QED
      BY <1>2, <1>4, <2>1
  <1>8. Passed' = {}
    BY <1>1, <1>7, TextKept DEF Passed
  <1>9. FirstOfEachKey'
    BY <1>1, <1>8 DEF FirstOfEachKey, Passed
  <1>10. AtPiece'
    <2>1. pos' # 0 => pos' \in (Query + 1)..End(request) /\ pos' = Query + 1
      BY <1>2, <1>4
    <2> QED
      BY <1>1, <2>1, TextKept DEF AtPiece
  <1>11. BeforeMark'
    <2>1. pos' = 0 => Pieces = {}
      BY <1>2, <1>4, <1>7
    <2> QED
      BY <1>1, <2>1, TextKept DEF BeforeMark
  <1>12. Verdict'
    BY <1>1, <1>4 DEF Verdict
  <1> QED
    BY <1>6, <1>8, <1>9, <1>10, <1>11, <1>12 DEF QueryInv, PassedWell

(* A turn of the loop passes the piece it is at and no other.               *)
LEMMA PassesHere ==
  ASSUME QueryInv, pos # 0, pos # End(request), request' = request,
         pos' = Step(Here.end)
  PROVE  /\ Passed' = Passed \cup {Here} /\ Here \in Pieces
         /\ \A q \in Passed : q.begin < Here.begin
         /\ pos' \in (Query + 1)..End(request)
         /\ pos' = End(request) \/ request[pos' - 1] = "&"
  <1>1. /\ request \in Requests /\ Len(request) \in Nat
        /\ End(request) = Len(request) + 1 /\ AtPiece /\ Query \in 1..End(request)
    BY RequestText, QueryIsFind DEF QueryInv, TypeOK
  <1>2. /\ Here \in Pieces /\ Here.begin = pos /\ pos \in 1..Len(request)
        /\ Here.end \in pos..End(request)
        /\ \A q \in Pieces : /\ q.begin < pos => q.end < pos
                             /\ q.begin = pos => q = Here
                             /\ q.begin > pos => q.begin > Here.end /\ Here.end < End(request)
    BY <1>1, HereFacts
  <1>4. Here.end = End(request) \/ request[Here.end] = "&"
    BY <1>1, <1>2, PieceFacts
  <1>3. \/ Here.end < End(request) /\ pos' = Here.end + 1
        \/ Here.end = End(request) /\ pos' = Here.end
    BY <1>1, <1>2, <1>4, QueryAssumption DEF Step
  <1>5. ASSUME NEW q \in Pieces
        PROVE  /\ (q.end < pos' \/ (pos' = End(request) /\ q.end = pos')) <=>
                     (q.end < pos \/ q = Here)
               /\ q.end < pos => q.begin < pos
    <2>1. /\ q.begin \in Nat /\ q.end \in Nat /\ q.begin <= q.end
          /\ q.begin <= Len(request)
      BY <1>1, PieceFacts
    <2>2. CASE q.begin < pos
      BY <1>1, <1>2, <1>3, <2>1, <2>2
    <2>3. CASE q.begin = pos
      BY <1>1, <1>2, <1>3, <2>1, <2>3
    <2>4. CASE q.begin > pos
      BY <1>1, <1>2, <1>3, <2>1, <2>4
    <2> QED
      BY <1>1, <1>2, <2>1, <2>2, <2>3, <2>4
  <1>6. Passed = {q \in Pieces : q.end < pos}
    BY DEF Passed
  <1>7. Passed' = {q \in Pieces : q.end < pos' \/ (pos' = End(request) /\ q.end = pos')}
    BY TextKept DEF Passed
  <1>8. Passed' = Passed \cup {Here}
    BY <1>2, <1>5, <1>6, <1>7
  <1>9. pos' \in (Query + 1)..End(request)
    BY <1>1, <1>2, <1>3 DEF AtPiece
  <1>10. pos' = End(request) \/ request[pos' - 1] = "&"
    BY <1>1, <1>2, <1>3, <1>4
  <1> QED
    BY <1>2, <1>5, <1>6, <1>8, <1>9, <1>10

(* map::insert adds the piece's value exactly if its key is new.            *)
LEMMA InsertFirst ==
  ASSUME \A q \in Passed : q.begin < Here.begin,
         Here.begin \in Nat, \A q \in Passed : q.begin \in Nat,
         parameters = {Of(p) : p \in Firsts(Passed)},
         \A p \in Passed : \E a \in parameters : a.key = Of(p).key
  PROVE  /\ Insert(parameters, Of(Here)) = {Of(p) : p \in Firsts(Passed \cup {Here})}
         /\ \A p \in Passed \cup {Here} : \E a \in Insert(parameters, Of(Here)) : a.key = Of(p).key
  <1>1. Here \notin Passed /\ \A p \in Passed : ~ (Here.begin < p.begin)
    OBVIOUS
  <1>2. \A p \in Passed : p \in Firsts(Passed \cup {Here}) <=> p \in Firsts(Passed)
    BY <1>1 DEF Firsts
  <1>3. Here \in Firsts(Passed \cup {Here}) <=> \A q \in Passed : Of(q).key # Of(Here).key
    BY <1>1 DEF Firsts
  <1>4. (\E a \in parameters : a.key = Of(Here).key) <=> \E q \in Passed : Of(q).key = Of(Here).key
    BY DEF Firsts
  <1>5. Firsts(Passed \cup {Here}) =
          IF \E a \in parameters : a.key = Of(Here).key THEN Firsts(Passed)
          ELSE Firsts(Passed) \cup {Here}
    <2>1. \A p \in Firsts(Passed \cup {Here}) : p \in Passed \/ p = Here
      BY DEF Firsts
    <2>2. \A p \in Firsts(Passed) : p \in Passed
      BY DEF Firsts
    <2>3. CASE \E a \in parameters : a.key = Of(Here).key
      <3>1. \A p : p \in Firsts(Passed \cup {Here}) <=> p \in Firsts(Passed)
        BY <1>2, <1>3, <1>4, <2>1, <2>2, <2>3
      <3>2. Firsts(Passed \cup {Here}) = Firsts(Passed)
        BY <3>1
      <3> QED
        BY <2>3, <3>2
    <2>4. CASE ~ \E a \in parameters : a.key = Of(Here).key
      <3>1. \A p : p \in Firsts(Passed \cup {Here}) <=> p \in Firsts(Passed) \cup {Here}
        BY <1>2, <1>3, <1>4, <2>1, <2>2, <2>4
      <3>2. Firsts(Passed \cup {Here}) = Firsts(Passed) \cup {Here}
        BY <3>1
      <3> QED
        BY <2>4, <3>2
    <2> QED
      BY <2>3, <2>4
  <1>6. Insert(parameters, Of(Here)) = {Of(p) : p \in Firsts(Passed \cup {Here})}
    BY <1>5 DEF Insert
  <1> QED
    BY <1>6 DEF Insert

LEMMA ParameterKeeps == QueryInv /\ Parameter => QueryInv'
  <1> SUFFICES ASSUME QueryInv, Parameter PROVE QueryInv'
    OBVIOUS
  <1> DEFINE end == Find(request, pos, End(request), "&")
             sep == Find(request, pos, end, "=")
  <1>1. /\ TypeOK /\ AtPiece /\ request \in Requests /\ pos # 0 /\ pos # End(request)
        /\ request' = request /\ path' = path /\ verdict = "running"
        /\ End(request) \in Nat /\ End(request) = Len(request) + 1 /\ Query \in Nat
    BY RequestText, QueryIsFind DEF QueryInv, TypeOK, Parameter
  <1>2. \/ /\ NoKeyOrValue(pos, sep, end)
           /\ verdict' = "refused" /\ pos' = pos /\ parameters' = parameters
        \/ /\ ~NoKeyOrValue(pos, sep, end)
           /\ parameters' = Insert(parameters, [key |-> Part(request, pos, sep),
                                                value |-> Part(request, sep + 1, end)])
           /\ pos' = Step(end) /\ verdict' = "running"
    BY <1>1 DEF Parameter
  <1>3. /\ WellFormed(Here) <=> ~NoKeyOrValue(pos, sep, end)
        /\ ~NoKeyOrValue(pos, sep, end) =>
             /\ Of(Here) = [key |-> Part(request, pos, sep),
                            value |-> Part(request, sep + 1, end)]
             /\ Of(Here).key \in Seq(STRING) /\ Of(Here).value \in Seq(STRING)
    BY <1>1, HereSeparated
  <1>4. Here.end = end /\ Here.begin = pos /\ Here \in Pieces
    BY <1>1, HereFacts DEF Here
  <1> HIDE DEF end, sep
  <1>5. CASE verdict' = "refused"
    <2>1. pos' = pos /\ parameters' = parameters /\ ~WellFormed(Here)
      BY <1>2, <1>3, <1>5
    <2>2. Passed' = Passed
      BY <1>1, <2>1, TextKept DEF Passed
    <2>3. TypeOK'
      BY <1>1, <1>5, <2>1 DEF TypeOK
    <2>4. AtPiece'
      BY <1>1, <2>1, TextKept DEF AtPiece
    <2>5. BeforeMark' /\ Verdict'
      BY <1>1, <1>4, <1>5, <2>1, TextKept DEF BeforeMark, Verdict
    <2>6. PassedWell'
      BY <1>1, <2>1, <2>2, TextKept DEF QueryInv, PassedWell
    <2>7. FirstOfEachKey'
      BY <1>1, <2>1, <2>2, TextKept DEF QueryInv, FirstOfEachKey, Passed
    <2> QED
      BY <2>3, <2>4, <2>5, <2>6, <2>7 DEF QueryInv
  <1>6. CASE verdict' # "refused"
    <2>1. /\ parameters' = Insert(parameters, Of(Here)) /\ pos' = Step(Here.end)
          /\ verdict' = "running" /\ WellFormed(Here)
          /\ Of(Here).key \in Seq(STRING) /\ Of(Here).value \in Seq(STRING)
      BY <1>2, <1>3, <1>4, <1>6
    <2>2. /\ Passed' = Passed \cup {Here}
          /\ \A q \in Passed : q.begin < Here.begin
          /\ pos' \in (Query + 1)..End(request)
          /\ pos' = End(request) \/ request[pos' - 1] = "&"
      BY <1>1, <2>1, PassesHere
    <2>3. /\ parameters' = {Of(p) : p \in Firsts(Passed \cup {Here})}
          /\ \A p \in Passed \cup {Here} : \E a \in parameters' : a.key = Of(p).key
      <3>1. parameters = {Of(p) : p \in Firsts(Passed)}
        BY DEF QueryInv, FirstOfEachKey, Firsts, Passed
      <3>2. \A p \in Passed : \E a \in parameters : a.key = Of(p).key
        BY DEF QueryInv, PassedWell
      <3>3. Here.begin \in Nat /\ \A q \in Passed : q.begin \in Nat
        BY <1>1, <1>4, PieceFacts DEF Passed
      <3>4. /\ Insert(parameters, Of(Here)) = {Of(p) : p \in Firsts(Passed \cup {Here})}
            /\ \A p \in Passed \cup {Here} :
                 \E a \in Insert(parameters, Of(Here)) : a.key = Of(p).key
        BY <2>2, <3>1, <3>2, <3>3, InsertFirst
      <3> QED
        BY <2>1, <3>4
    <2>4. TypeOK'
      <3>1. pos' \in 0..End(request)
        BY <1>1, <2>2
      <3>2. \A a \in parameters' : a.key \in Seq(STRING) /\ a.value \in Seq(STRING)
        BY <1>1, <2>1 DEF TypeOK, Insert
      <3>3. \A a, b \in parameters' : a.key = b.key => a = b
        BY <1>1, <2>1 DEF TypeOK, Insert
      <3> QED
        BY <1>1, <2>1, <3>1, <3>2, <3>3 DEF TypeOK
    <2>5. AtPiece'
      BY <1>1, <2>2, TextKept DEF AtPiece
    <2>6. BeforeMark' /\ Verdict'
      BY <1>1, <2>1, <2>2 DEF BeforeMark, Verdict
    <2>7. PassedWell'
      BY <1>1, <2>1, <2>2, <2>3, TextKept DEF QueryInv, PassedWell
    <2>8. FirstOfEachKey'
      <3>1. parameters' = {Of(p) : p \in Firsts(Passed')}
        BY <2>2, <2>3
      <3>2. Firsts(Passed') = {p \in Passed' : \A q \in Passed' : q.begin < p.begin => Of(q).key # Of(p).key}
        BY DEF Firsts
      <3> QED
        BY <1>1, <3>1, <3>2, TextKept DEF FirstOfEachKey, Passed
    <2> QED
      BY <2>4, <2>5, <2>6, <2>7, <2>8 DEF QueryInv
  <1> QED
    BY <1>5, <1>6

(* Steps that move nothing but the verdict.                                 *)
LEMMA FinishKeeps ==
  QueryInv /\ (Finish \/ UNCHANGED vars) => QueryInv'
  <1> SUFFICES ASSUME QueryInv, Finish \/ UNCHANGED vars PROVE QueryInv'
    OBVIOUS
  <1>1. /\ request' = request /\ pos' = pos /\ path' = path /\ parameters' = parameters
        /\ verdict' = verdict \/ (verdict = "running" /\ verdict' = "accepted" /\ pos = End(request))
    BY DEF Finish, vars
  <1>2. Passed' = Passed
    BY <1>1, TextKept DEF Passed
  <1>3. TypeOK' /\ AtPiece'
    BY <1>1, TextKept DEF QueryInv, TypeOK, AtPiece
  <1>4. BeforeMark' /\ Verdict'
    <2>1. pos = End(request) => pos # 0
      BY RequestText DEF QueryInv, TypeOK
    <2> QED
      BY <1>1, <2>1, TextKept DEF QueryInv, BeforeMark, Verdict
  <1>5. PassedWell'
    BY <1>1, <1>2, TextKept DEF QueryInv, PassedWell
  <1>6. FirstOfEachKey'
    BY <1>1, <1>2, TextKept DEF QueryInv, FirstOfEachKey, Passed
  <1> QED
    BY <1>3, <1>4, <1>5, <1>6 DEF QueryInv

-----------------------------------------------------------------------------
(* What holds of every text.                                                *)

LEMMA QueryAlways == Spec => []QueryInv
  <1>1. QueryInv /\ [Next]_vars => QueryInv'
    BY SplitPathKeeps, ParameterKeeps, FinishKeeps DEF Next
  <1> QED
    BY <1>1, QueryInit, PTL DEF Spec

(* The positions stay in the text, the parameters are texts, and no key is  *)
(* kept twice (request.cpp:30, a std::map).                                 *)
THEOREM QueryTyped == Spec => []TypeOK
  <1>1. QueryInv => TypeOK
    BY DEF QueryInv
  <1> QED
    BY <1>1, QueryAlways, PTL

(* After any number of turns the parameters are those of the pieces passed, *)
(* each key with the value of its first piece (request.cpp:24-31).          *)
THEOREM FirstValueKept == Spec => []FirstOfEachKey
  <1>1. QueryInv => FirstOfEachKey
    BY DEF QueryInv
  <1> QED
    BY <1>1, QueryAlways, PTL

(* A text is accepted exactly if each of its pieces has a key and a value,  *)
(* however many there are (request.cpp:27-29).                              *)
THEOREM AcceptedIffWellFormed == Spec => []AcceptsWellFormed
  <1>1. QueryInv => AcceptsWellFormed
    <2> SUFFICES ASSUME QueryInv, verdict # "running"
                 PROVE  verdict = "accepted" <=> \A p \in Pieces : WellFormed(p)
      BY DEF AcceptsWellFormed
    <2>1. CASE verdict = "refused"
      BY <2>1 DEF QueryInv, Verdict
    <2>2. CASE verdict = "accepted"
      <3>1. CASE pos = 0
        BY <2>2, <3>1 DEF QueryInv, BeforeMark
      <3>2. CASE pos = End(request)
        <4>1. \A p \in Pieces : p \in Passed
          <5>1. request \in Requests /\ End(request) \in Nat
            BY RequestText DEF QueryInv, TypeOK
          <5>2. \A p \in Pieces : p.end \in Nat /\ p.end <= End(request)
            BY <5>1, PieceFacts
          <5> QED
            BY <3>2, <5>1, <5>2 DEF Passed
        <4> QED
          BY <2>2, <4>1 DEF QueryInv, PassedWell
      <3> QED
        BY <2>2, <3>1, <3>2 DEF QueryInv, Verdict
    <2> QED
      BY <2>1, <2>2 DEF QueryInv, TypeOK
  <1> QED
    BY <1>1, QueryAlways, PTL
=============================================================================
