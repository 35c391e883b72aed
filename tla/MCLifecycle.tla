----------------------------- MODULE MCLifecycle -----------------------------
(* Instances of Lifecycle for model checking.                               *)
EXTENDS Lifecycle

CONSTANTS c1, c2, p1, p2

Clients == {c1, c2}
Pids    == {p1, p2}

(* The two modes, the optional mode left out, no arguments, and a           *)
(* configuration that cannot be loaded.                                     *)
CommandLines ==
  {[argc |-> 2, port |-> 8080, cgi |-> FALSE, ini |-> "good"],
   [argc |-> 3, port |-> 8080, cgi |-> FALSE, ini |-> "good"],
   [argc |-> 4, port |-> 8080, cgi |-> FALSE, ini |-> "good"],
   [argc |-> 2, port |-> 8080, cgi |-> FALSE, ini |-> "bad"],
   [argc |-> 1, port |-> 0, cgi |-> FALSE, ini |-> "good"]}
=============================================================================
