----------------------------- MODULE RequestLine -----------------------------
(****************************************************************************)
(* From the text of a line to what client_read_callback does about it, in a *)
(* server whose configuration is loaded (Config): parse_url, a step of its  *)
(* scan at a time, then the look at the file.  EventedServer starts from    *)
(* the outcome.                                                             *)
(****************************************************************************)
EXTENDS Config

CONSTANTS
  Cases,   \* a configuration and a text each; "GET", with the space after
           \* it, and "HTTP" count as one character
  Beyond,  \* what memory may hold after a line and its terminator
  Directory,   \* get_directory(): "cgi" or "cgi-bin"
  Regular,     \* the regular files there are
  Unreachable  \* names that exists() throws at: one too long, or through a
               \* directory that may not be searched or a loop of links

ASSUME RequestLineAssumption ==
  /\ \A case \in Cases : case.ini \in Inis /\ case.line \in Seq(STRING)
  /\ Beyond \cup Regular \cup Unreachable \cup {Directory} \subseteq Seq(STRING)
  /\ Regular \cap Unreachable = {}
  /\ \A case \in Cases : \A i \in DOMAIN case.line : case.line[i] # "NUL"
  /\ Directory # <<>> /\ \A i \in DOMAIN Directory : Directory[i] \notin {"NUL", ".", "/"}

(* They are characters: true of any literal, but not by a rule the provers  *)
(* know.                                                                    *)
ASSUME TerminatorAssumption == "NUL" \in STRING /\ "/" \in STRING

VARIABLES
  line,     \* the line without its end
  memory,   \* what is at its address: the line, NUL, and whatever follows
  request,  \* parse_url's pointer, 0 before it has looked at the method
  path, query,  \* what parse_url assigns
  outcome   \* what becomes of the request; "fault": the scan left the memory,
            \* "unreachable": an exception that nobody catches

requestVars == <<line, memory, request, path, query, outcome>>
vars == <<configVars, requestVars>>

Init ==
  /\ ConfigInit
  /\ \E case \in Cases : ini = case.ini /\ line = case.line
  /\ memory \in {line \o <<"NUL">> \o rest : rest \in Beyond}
  /\ request = 0 /\ path = <<>> /\ query = <<>> /\ outcome = "parsing"

Method ==
  /\ outcome = "parsing" /\ request = 0
  /\ IF memory[1] = "GET" THEN request' = 2 /\ UNCHANGED outcome
     ELSE outcome' = "malformed" /\ UNCHANGED request
  /\ UNCHANGED <<line, memory, path, query>>

(* Mutant: the scan waits for the query to be split off first.              *)
ScanToQuery ==
  /\ outcome = "parsing" /\ request \in 1..Len(memory)
  /\ memory[request] \notin {"SP", "?"}
  /\ request' = request + 1
  /\ UNCHANGED <<line, memory, path, query, outcome>>

(* The scan for a space, which does not ask for the size of the line.       *)
Scan ==
  /\ outcome = "parsing" /\ request > 0
  /\ IF request > Len(memory) THEN outcome' = "fault" /\ UNCHANGED request
     ELSE memory[request] # "SP" /\ request' = request + 1 /\ UNCHANGED outcome
  /\ UNCHANGED <<line, memory, path, query>>

(* Mutant: the protocol is looked for at the space.                         *)
IsProtocolHere(m, space) == m[space] = "HTTP"

(* equal(PROTOCOL, ..., request + 1).                                       *)
IsProtocol(m, space) == space < Len(m) /\ m[space + 1] = "HTTP"

(* Mutant: the query starts at the '?'.                                     *)
QueryWithMark(delim, end) == Part(memory, delim, end)

(* The query is what follows the first '?', if there is one.                *)
QueryPart(delim, end) ==
  IF delim = end THEN <<>> ELSE Part(memory, delim + 1, end)

Split ==
  LET delim == Find(memory, 2, request, "?")
  IN  /\ outcome = "parsing" /\ request \in 2..Len(memory) /\ memory[request] = "SP"
      /\ IF IsProtocol(memory, request)
         THEN /\ path' = Part(memory, 2, delim)
              /\ query' = QueryPart(delim, request)
              /\ outcome' = "parsed"
         ELSE outcome' = "malformed" /\ UNCHANGED <<path, query>>
      /\ UNCHANGED <<line, memory, request>>

(* c_str(): the name up to the first NUL.                                   *)
CStr(name) == Part(name, 1, Find(name, 1, End(name), "NUL"))

(* operator/=: a separator, if the path does not begin with one.            *)
Join(directory, name) ==
  IF name = <<>> \/ name[1] = "/" THEN directory \o name
  ELSE directory \o <<"/">> \o name

(* Mutant: the ResourceType itself is the outcome.                          *)
KindRaw(name) ==
  CASE name \in Unreachable -> "unreachable"
    [] name \notin Regular \cup Unreachable -> "missing"
    [] OTHER -> FileType(name, static_files, cgi_files)

(* exists, is_regular_file, get_file_type, and which load follows.          *)
Kind(name) ==
  CASE name \in Unreachable -> "unreachable"
    [] name \notin Regular \cup Unreachable -> "missing"
    [] OTHER -> [invalid |-> "denied", static |-> "static", cgi |-> "dynamic"]
                  [FileType(name, static_files, cgi_files)]

Resolve ==
  /\ outcome = "parsed"
  /\ outcome' = Kind(CStr(Join(Directory, path)))
  /\ UNCHANGED <<line, memory, request, path, query>>

Read == Method \/ Scan \/ Split \/ Resolve

(* The constructor returns before the server reads anything.  A fault or an *)
(* exception is the end of the process.                                     *)
Next ==
  \/ Configure /\ UNCHANGED requestVars
  \/ phase = "ready" /\ Read /\ UNCHANGED configVars

Spec == Init /\ [][Next]_vars
FairSpec == Spec /\ WF_vars(Next)

-----------------------------------------------------------------------------
Answered == outcome \in {"malformed", "missing", "denied", "static", "dynamic"}

(* The line is a request: a method, a target and a space before "HTTP".     *)
Target(t) ==
  /\ "SP" \notin {t[i] : i \in DOMAIN t}
  /\ Len(line) >= Len(t) + 3
  /\ SubSeq(line, 1, Len(t) + 3) = <<"GET">> \o t \o <<"SP", "HTTP">>

Targets == {SubSeq(line, 2, i) : i \in 1..Len(line)}
IsRequest == \E t \in Targets : Target(t)

(* What the line's end keeps apart: nothing after it was looked at.         *)
InLine == request <= Len(line)

(* The variables have their types; the pointer does not leave the memory    *)
(* by more than one.                                                        *)
TypeOK ==
  /\ ConfigTypeOK
  /\ line \in Seq(STRING) /\ memory \in Seq(STRING)
  /\ request \in 0..End(memory)
  /\ path \in Seq(STRING) /\ query \in Seq(STRING)
  /\ outcome \in {"parsing", "parsed", "malformed", "missing", "denied",
                  "static", "dynamic", "fault", "unreachable"}

(* A line is refused as malformed only if it is no request; a request is    *)
(* read to its end at most, whatever follows it in memory; and a line read  *)
(* no further than its end is looked up only if it is a request             *)
(* (request.cpp:51-61).  A line without a space is read past its end, with  *)
(* any outcome: that case is EventedServer's line "overrun".                *)
RefusedUnlessRequest ==
  /\ outcome = "malformed" => ~IsRequest
  /\ InLine /\ outcome \in {"parsed", "missing", "denied", "static", "dynamic", "unreachable"}
       => IsRequest
  /\ IsRequest => outcome # "fault" /\ InLine

(* A request is answered by the file that its target names before the first *)
(* '?', whatever the rest says: a static file or a program if that is what  *)
(* the configuration's text makes its ending, and the target's two parts    *)
(* give the target back.  A request stays without an answer, and ends the   *)
(* server, only if the system cannot tell whether there is such a file      *)
(* (server.cpp:113).                                                        *)
AnsweredByFile ==
  (Answered \/ outcome = "unreachable") /\ IsRequest =>
    \E t \in Targets :
      /\ Target(t)
      /\ t = path \o (IF "?" \in {t[i] : i \in DOMAIN t} THEN <<"?">> \o query ELSE <<>>)
      /\ "?" \notin {path[i] : i \in DOMAIN path}
      /\ LET name    == Join(Directory, path)
             regular == name \in Regular
             static  == EndsIn(path, Words(ini.static))
         IN  /\ outcome = "unreachable" <=> name \in Unreachable
             /\ outcome = "missing" <=> name \notin Regular \cup Unreachable
             /\ outcome = "static" <=> regular /\ static
             /\ outcome = "dynamic" <=> regular /\ EndsIn(path, Words(ini.cgi)) /\ ~static

(* Every line that is a request is answered, if there is a server and it    *)
(* does not end in exists().                                                *)
Answers == IsRequest ~> (Answered \/ outcome = "unreachable" \/ phase = "thrown")
=============================================================================
