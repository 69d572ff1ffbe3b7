------------------------------- MODULE Sublists -------------------------------
(***************************************************************************)
(* The elements of a sequence at certain positions, in their order: what   *)
(* [x for x in s if ...] keeps of s.  SelectSeq says the same with a test  *)
(* for a parameter, and so nothing can be proved about it.                 *)
(***************************************************************************)
EXTENDS Integers, Sequences

Picked(s, I) ==
    LET kept[i \in 0 .. Len(s)] ==
            IF i = 0 THEN <<>>
            ELSE LET before == kept[i - 1]
                 IN IF i \in I THEN Append(before, s[i]) ELSE before
    IN kept[Len(s)]
=============================================================================
