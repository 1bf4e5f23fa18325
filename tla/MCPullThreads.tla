----------------------------- MODULE MCPullThreads -----------------------------
(* Two workers, four clients and three descriptors. *)
EXTENDS PullThreads, TLC

CONSTANTS c1, c2, c3, c4, f1, f2, f3
MCClients == {c1, c2, c3, c4}
MCFds == {f1, f2, f3}
Symmetry == Permutations(MCClients) \cup Permutations(MCFds)
================================================================================
