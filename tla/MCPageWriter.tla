----------------------------- MODULE MCPageWriter -----------------------------
(* Six pieces of two bytes into a socket that holds five bytes: a piece may *)
(* fit, fit in part, or not at all.                                         *)
EXTENDS PageWriter
=============================================================================
