-------------------------- MODULE MCProducerConsumer ---------------------------
(* Two workers, a ring of two and three descriptors for three clients: the
   third can find the ring full, and a closed descriptor is given out again. *)
EXTENDS ProducerConsumer, TLC

CONSTANTS w1, w2, main, c1, c2, c3, f1, f2, f3

MCWorkers == {w1, w2}
MCClients == {c1, c2, c3}
MCFds == {f1, f2, f3}
================================================================================
