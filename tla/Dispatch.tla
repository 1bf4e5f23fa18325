-------------------------------- MODULE Dispatch --------------------------------
(***************************************************************************)
(* What the taxi manager promises about each driver: a task goes only to a *)
(* free driver and the driver is free again only after it finished it.  A  *)
(* task of no positive length is accepted too, and lost.                   *)
(***************************************************************************)
CONSTANT Drivers

VARIABLE job  \* each driver: "none", "free", "assigned", "running", "done", "lost"

Init == job = [d \in Drivers |-> "none"]

Move(d, from, to) ==
  /\ job[d] = from
  /\ job' = [job EXCEPT ![d] = to]

Hire(d) == Move(d, "none", "free")
Assign(d) == Move(d, "free", "assigned")
Start(d) == Move(d, "assigned", "running")
Lose(d) == Move(d, "assigned", "lost") \/ Move(d, "running", "lost")
Finish(d) == Move(d, "running", "done")
Release(d) == Move(d, "done", "free")

\* The manager is gone, and what it knew.
Stop == job' = [d \in Drivers |-> "none"]

Next ==
  \/ \E d \in Drivers :
       Hire(d) \/ Assign(d) \/ Start(d) \/ Lose(d) \/ Finish(d) \/ Release(d)
  \/ Stop

Spec == Init /\ [][Next]_job
================================================================================
