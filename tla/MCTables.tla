-------------------------------- MODULE MCTables --------------------------------
(* Two echo clients that share the default port and one with its own; two workers,
   three clients and as many descriptors; three small file trees; up to five
   plugins; two customers and the supplier in two shops; words of three bits. *)
EXTENDS Tables, TLC

CONSTANTS
  e1, e2, e3, c1, c2, c3, f1, f2, f3, s1, s2, k1, k2, w

MCEchoClients == {e1, e2, e3}
MCPortOf(c) == IF c = e3 THEN 9999 ELSE 8888
MCClients == {c1, c2, c3}
MCFds == {f1, f2, f3}
MCStores == {s1, s2}
MCCustomers == {k1, k2}
MCStocks == {2}
MCDesires == {3}
Symmetry ==
  Permutations({e1, e2}) \cup Permutations(MCClients) \cup Permutations(MCFds)

(* A directory and a file; a directory and a link that leads nowhere; a directory
   whose name comes before "." and a fifo. *)
File(name, ord, len, kind) == [name |-> name, ord |-> ord, len |-> len, kind |-> kind]
Tree(home, sub) == [home |-> home, sub |-> sub]
MCWorlds ==
  <<Tree({File("d", 6, 1, "dir"), File("a", 4, 1, "file")},
         {File("x", 7, 1, "exec")}),
    Tree({File("d", 6, 1, "dir"), File("b", 5, 1, "broken")}, {}),
    Tree({File("+", 1, 1, "dir"), File("p", 5, 2, "other")}, {})>>

UpTo(n, S) == UNION {[1 .. k -> S] : k \in 0 .. n}
MCArrays == UpTo(3, 0 .. 7)
MCHeaders == [1 .. 4 -> {0, 1, 6, 7}]
MCStrings == UpTo(3, {"a", "b", "\n"})
MCSizes == 1 .. 6
================================================================================
