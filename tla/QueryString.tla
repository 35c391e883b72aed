----------------------------- MODULE QueryString -----------------------------
(****************************************************************************)
(* parse_request: a request's path and its parameters, one turn of the loop *)
(* per step.  No caller uses it yet; the reactor passes queries on unread.  *)
(****************************************************************************)
EXTENDS Text

CONSTANTS
  Requests,  \* texts over "?", "&", "=" and other characters
  Behind     \* the character in memory after the text

(* Nobody calls parse_request: that a caller gives it a C string, with its  *)
(* NUL after it, or anything that no '&' follows, is assumed.               *)
ASSUME QueryAssumption == Requests \subseteq Seq(STRING) /\ Behind # "&"

VARIABLES
  request,  \* the text
  pos,      \* where the loop is, 0 before the '?' is looked for
  path, parameters,  \* the result: pReq
  verdict   \* "running", or what parse_request returned

vars == <<request, pos, path, parameters, verdict>>

Init ==
  /\ request \in Requests /\ pos = 0
  /\ path = <<>> /\ parameters = {} /\ verdict = "running"

(* The part before the first '?'.                                           *)
SplitPath ==
  LET mark == Find(request, 1, End(request), "?")
  IN  /\ verdict = "running" /\ pos = 0
      /\ path' = Part(request, 1, mark)
      /\ IF mark = End(request) THEN pos' = pos /\ verdict' = "accepted"
         ELSE pos' = mark + 1 /\ verdict' = verdict
      /\ UNCHANGED <<request, parameters>>

(* Mutant: a later value replaces an earlier one (operator[]).              *)
InsertLast(set, param) == {q \in set : q.key # param.key} \cup {param}

(* Mutant: a key may occur twice (a multimap).                              *)
InsertAlways(set, param) == set \cup {param}

(* map::insert: nothing happens if the key is there.                        *)
Insert(set, param) ==
  IF \E q \in set : q.key = param.key THEN set ELSE set \cup {param}

(* Mutant: sep + 1 = end is not asked for.                                  *)
NoKeyOrValueLax(begin, sep, end) == begin = sep \/ sep = end

NoKeyOrValue(begin, sep, end) == begin = sep \/ sep = end \/ sep + 1 = end

(* Mutant: the search goes on where it started, after the '?'.              *)
StepRestarts(end) == IF end < End(request) THEN Len(path) + 2 ELSE end

(* Past the '&'.  *end is looked at even where the text has ended.          *)
Step(end) ==
  LET char == IF end = End(request) THEN Behind ELSE request[end]
  IN  IF char = "&" THEN end + 1 ELSE end

Parameter ==
  LET end == Find(request, pos, End(request), "&")
      sep == Find(request, pos, end, "=")
  IN  /\ verdict = "running" /\ pos # 0 /\ pos # End(request)
      /\ IF NoKeyOrValue(pos, sep, end)
         THEN verdict' = "refused" /\ UNCHANGED <<pos, parameters>>
         ELSE /\ parameters' = Insert(parameters,
                   [key |-> Part(request, pos, sep), value |-> Part(request, sep + 1, end)])
              /\ pos' = Step(end)
              /\ verdict' = verdict
      /\ UNCHANGED <<request, path>>

Finish ==
  /\ verdict = "running" /\ pos = End(request)
  /\ verdict' = "accepted"
  /\ UNCHANGED <<request, pos, path, parameters>>

Next == SplitPath \/ Parameter \/ Finish
Spec == Init /\ [][Next]_vars
FairSpec == Spec /\ WF_vars(Next)

-----------------------------------------------------------------------------
(* The reference: the pieces between the '&'s of the query.                 *)

Query == CHOOSE i \in 1..End(request) :
           /\ i = End(request) \/ request[i] = "?"
           /\ \A j \in 1..(i - 1) : request[j] # "?"

(* A piece begins after the '?' or an '&' and reaches to an '&' or the end; *)
(* there is none after a last '&'.                                          *)
Pieces ==
  {p \in [begin : (Query + 1)..Len(request), end : (Query + 1)..End(request)] :
     /\ p.begin = Query + 1 \/ request[p.begin - 1] = "&"
     /\ p.end >= p.begin
     /\ p.end = End(request) \/ request[p.end] = "&"
     /\ \A i \in p.begin..(p.end - 1) : request[i] # "&"}

(* k separates a key and a value that are not empty.                        *)
Separates(p, k) ==
  /\ k > p.begin /\ k < p.end - 1 /\ request[k] = "="
  /\ \A i \in p.begin..(k - 1) : request[i] # "="

WellFormed(p) == \E k \in p.begin..p.end : Separates(p, k)

Of(p) == LET k == CHOOSE k \in p.begin..p.end : Separates(p, k)
         IN  [key |-> Part(request, p.begin, k), value |-> Part(request, k + 1, p.end)]

(* The variables have their types; a key occurs once among the parameters.  *)
TypeOK ==
  /\ request \in Requests
  /\ pos \in 0..End(request)
  /\ path \in Seq(STRING)
  /\ \A a \in parameters : a.key \in Seq(STRING) /\ a.value \in Seq(STRING)
  /\ \A a, b \in parameters : a.key = b.key => a = b
  /\ verdict \in {"running", "accepted", "refused"}

(* At every turn the parameters are those of the pieces already passed, for *)
(* each key the value of its first piece ("duplicated parameter" is a TODO  *)
(* at request.cpp:24; map::insert decides it).                              *)
FirstOfEachKey ==
  LET passed == {p \in Pieces : p.end < pos \/ (pos = End(request) /\ p.end = pos)}
  IN  parameters = {Of(p) : p \in {p \in passed :
                      \A q \in passed : q.begin < p.begin => Of(q).key # Of(p).key}}

(* A request is accepted exactly when each of its pieces has a key and a    *)
(* value (request.cpp:27): an empty piece is refused anywhere but last,     *)
(* where the comment at line 22 would have it passed over.                  *)
AcceptsWellFormed ==
  verdict # "running" => (verdict = "accepted" <=> \A p \in Pieces : WellFormed(p))

(* The loop ends for every text.                                            *)
Ends == <>(verdict # "running")
=============================================================================
