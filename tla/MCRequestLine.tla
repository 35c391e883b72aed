---------------------------- MODULE MCRequestLine ----------------------------
(* Every configuration with some requests, and every line of at most four   *)
(* characters after the method, with some others, in a server with the      *)
(* configuration Usual.                                                     *)
EXTENDS RequestLine, SequencesExt

(* Lists of at most four characters, trimmed, and some whose words have a   *)
(* dot, with a key of the same name or without; a section or a key missing. *)
Trimmed == {s \in SeqOf({"h", "p", "SP"}, 4) :
              s = <<>> \/ (s[1] # "SP" /\ s[Len(s)] # "SP")}
Dotted == {<<"h", ".", "p">>, <<"h", ".">>, <<"p", "SP", "h", ".">>, <<".">>, <<".", "h">>}
Keys == {{<<"h">>}, {<<"h">>, <<"p">>, <<"b">>, <<"h", "p">>, <<"h", ".", "p">>, <<"h", ".">>}}

(* "b" is in both lists.                                                    *)
Usual == [static |-> <<"h", "SP", "b">>, cgi |-> <<"p", "SP", "b">>,
          keys |-> {<<"h">>, <<"b">>}]

AllInis ==
  [static : Trimmed \cup Dotted \cup {Missing}, cgi : {<<>>, <<"h">>, <<"p", "SP", "b">>, <<"p", ".", "h">>, Missing},
   keys : Keys] \cup {Usual}

ShortNames == SeqOf({"h", "p", "."}, 3)

Dir == <<"c">>

(* Names with one dot, two dots, or none.                                   *)
Targets0 == {<<"h", ".", "h">>, <<"h", ".", "p", ".", "h">>, <<".", "h">>,
             <<"h", ".", "p">>, <<"h", ".", "b">>, <<"h">>}
Files == {<<"c", "/">> \o f : f \in Targets0 \cup {<<"p", ".", "h", ".", "p">>}}

(* A name too long.                                                         *)
TooLong == {<<"c", "/", "h", "h">>}

Characters == {"h", ".", "?", "SP", "HTTP"}
AllLines == {<<"GET">> \o s : s \in SeqOf(Characters, 4)}
            \cup {<<>>, <<"h", "SP", "HTTP">>}
            \cup {<<"GET">> \o f \o q \o <<"SP", "HTTP", "h">> :
                    f \in Targets0 \cup {<<"p">>, <<"h", "h">>, <<"/", "h", ".", "h">>, <<"/">>},
                    q \in {<<>>, <<"?">>, <<"?", "h">>, <<"?", "h", "?">>}}

Pairs == [ini : {Usual}, line : AllLines]
         \cup [ini : AllInis,
               line : {<<"GET">> \o f \o <<"SP", "HTTP">> :
                         f \in {<<"h", ".", "p", ".", "h">>, <<"h", ".", "p">>}}]

Rests == {<<>>, <<"h">>, <<"h", "SP", "HTTP">>, <<"SP", "HTTP">>, <<"?", "SP", "h">>}
=============================================================================
