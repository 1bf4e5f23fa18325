-------------------------------- MODULE Filters ---------------------------------
(***************************************************************************)
(* The members of a sequence that are in a set, in their order.  The folds *)
(* and SelectSeq say the same to TLC; a function that is defined by its    *)
(* value at the prefix before can also be reasoned about.                  *)
(***************************************************************************)
EXTENDS Integers, Sequences

\* For every n, what is kept of the first n members of s.
KeptOf(s, S) ==
  LET kept[n \in 0 .. Len(s)] ==
        IF n = 0 THEN <<>>
        ELSE IF s[n] \in S THEN Append(kept[n - 1], s[n]) ELSE kept[n - 1]
  IN  kept

Keep(s, S) == KeptOf(s, S)[Len(s)]
================================================================================
