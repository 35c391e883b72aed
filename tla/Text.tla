--------------------------------- MODULE Text ---------------------------------
(* Half-open ranges [from, to) of a text, as the C++ code uses them.  "SP"  *)
(* and "NUL" are characters, like any other.                                *)
EXTENDS Integers, Sequences

End(s) == Len(s) + 1

(* std::find: the first place of x in the range, or its end.                *)
Find(s, from, to, x) ==
  CHOOSE i \in from..to : /\ i = to \/ s[i] = x
                          /\ \A j \in from..(i - 1) : s[j] # x

(* string(from, to).                                                        *)
Part(s, from, to) == SubSeq(s, from, to - 1)

(* std::find through reverse iterators, then base(): the place after the    *)
(* last x, or the beginning.                                                *)
FindAfterLast(s, x) ==
  CHOOSE i \in 1..End(s) : /\ i = 1 \/ s[i - 1] = x
                           /\ \A j \in i..Len(s) : s[j] # x
=============================================================================
