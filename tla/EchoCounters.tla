------------------------------ MODULE EchoCounters ------------------------------
(***************************************************************************)
(* What the echo server promises: of the datagrams it takes, in the order  *)
(* they came, it numbers those of each address 1, 2, 3 ... from the first, *)
(* or from the last CLOSE of that address.                                 *)
(***************************************************************************)
EXTENDS Naturals, Sequences

CONSTANTS Ports, CLOSE

VARIABLES
  count,    \* address -> the last number
  pending   \* what came and was not taken

vars == <<count, pending>>

Init == count = [p \in Ports |-> 0] /\ pending = <<>>

\* A datagram comes, at the end.
Come ==
  /\ Len(pending') = Len(pending) + 1
  /\ SubSeq(pending', 1, Len(pending)) = pending
  /\ UNCHANGED count

Take ==
  /\ pending # <<>> /\ pending' = Tail(pending)
  /\ LET d == Head(pending) IN
       count' = [count EXCEPT ![d.port] = IF d.text = CLOSE THEN 0 ELSE @ + 1]

Restart == count' = [p \in Ports |-> 0] /\ pending' = <<>>

Next == Come \/ Take \/ Restart

Spec == Init /\ [][Next]_vars
================================================================================
