--------------------------------- MODULE MCTaxi ---------------------------------
(* Two drivers, one restart, tasks of no time and of two seconds. *)
EXTENDS Taxi

CONSTANTS d1, d2, m1, m2
MCPids == {d1, d2}
MCMains == {m1, m2}
MCTimes == {0, 2}
================================================================================
