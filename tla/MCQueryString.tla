---------------------------- MODULE MCQueryString ----------------------------
(* Texts for the parser: every short one, and three pieces of every kind,   *)
(* so that keys repeat and the last piece may be empty.                     *)
EXTENDS QueryString, SequencesExt

Characters == {"a", "=", "&", "?"}

Kinds == {<<>>, <<"a">>, <<"=">>, <<"a", "=">>, <<"=", "b">>, <<"a", "=", "a">>,
          <<"a", "=", "b">>, <<"b", "=", "=">>, <<"b", "=", "?", "a">>}

Queries == SeqOf(Characters, 4) \cup
           {<<"a", "?">> \o p \o <<"&">> \o q \o <<"&">> \o r : p, q, r \in Kinds}
=============================================================================
