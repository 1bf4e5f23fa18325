-------------------------------- MODULE ChatRoom --------------------------------
(***************************************************************************)
(* What a chat promises: the lines said are in one order, the same for     *)
(* everybody, and each client sees them from the first on, without a gap.  *)
(***************************************************************************)
EXTENDS Naturals, Sequences, FiniteSets

CONSTANTS Clients, Places

VARIABLES
  said,     \* the lines, in their order
  present,  \* the clients in the room
  seen      \* client -> the lines it has seen

vars == <<said, present, seen>>

Init == said = <<>> /\ present = {} /\ seen = [c \in Clients |-> <<>>]

Enter(c) ==
  /\ c \notin present /\ Cardinality(present) < Places
  /\ present' = present \cup {c}
  /\ UNCHANGED <<said, seen>>

Depart(c) ==
  /\ c \in present
  /\ present' = present \ {c}
  /\ UNCHANGED <<said, seen>>

Put(line) ==
  /\ said' = Append(said, line)
  /\ UNCHANGED <<present, seen>>

See(c) ==
  /\ Len(seen[c]) < Len(said)
  /\ seen' = [seen EXCEPT ![c] = Append(@, said[Len(@) + 1])]
  /\ UNCHANGED <<said, present>>

\* The line put is whatever now ends the list.
Next ==
  \/ \E c \in Clients : Enter(c) \/ Depart(c) \/ See(c)
  \/ said' # <<>> /\ Put(said'[Len(said')])

Spec == Init /\ [][Next]_vars
================================================================================
