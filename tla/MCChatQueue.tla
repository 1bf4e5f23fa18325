------------------------------ MODULE MCChatQueue -------------------------------
(* Clients for a list of two or three entries. *)
EXTENDS ChatQueue, TLC

CONSTANTS c1, c2, c3
MCClients == {c1, c2, c3}
Symmetry == Permutations(MCClients)
================================================================================
