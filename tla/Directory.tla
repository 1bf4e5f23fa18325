------------------------------- MODULE Directory --------------------------------
(***************************************************************************)
(* What both versions of the subscriber directory promise: a list of       *)
(* people in the order they were added, from which all those of one name   *)
(* are removed at once and the others keep their order.                    *)
(***************************************************************************)
EXTENDS Sequences, Filters

CONSTANT Names

VARIABLE people

Init == people = <<>>

Add(n) == people' = Append(people, n)

Remove(n) == people' = Keep(people, Names \ {n})

Next == \E n \in Names : Add(n) \/ Remove(n)

Spec == Init /\ [][Next]_people
================================================================================
