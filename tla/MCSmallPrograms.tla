----------------------------- MODULE MCSmallPrograms -----------------------------
(* Pipelines of up to four commands, three clients for two descriptors and two
   threads, two clients of each kind for the select() server, two clients and two receivers for one server. *)
EXTENDS SmallPrograms

CONSTANTS c1, c2, c3, t1, t2, f1, f2, d1, d2, u1, u2, a, b, r1, r2

Starts == {"make", "missing"}
Rest == {"copy", "first", "missing"}
MCLines ==
  {<<"exit">>} \cup {<<x>> : x \in Starts} \cup {<<x, y>> : x \in Starts, y \in Rest}
    \cup {<<x, y, z>> : x \in Starts, y \in Rest, z \in Rest}
    \cup {<<"make", y, z, "copy">> : y \in Rest, z \in Rest}
MCClients == {c1, c2, c3}
MCThreads == {t1, t2}
MCFds == {f1, f2}
MCTcp == {d1, d2}
MCUdp == {u1, u2}
MCAskers == {a, b}
MCReceivers == {r1, r2}
================================================================================
