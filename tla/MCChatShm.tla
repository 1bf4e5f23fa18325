------------------------------- MODULE MCChatShm --------------------------------
(* Two clients, for a list of two: a doubled request finds it full. *)
EXTENDS ChatShm, TLC

CONSTANTS c1, c2
MCClients == {c1, c2}
Symmetry == Permutations(MCClients)
================================================================================
