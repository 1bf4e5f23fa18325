---------------------------------- MODULE Shops ----------------------------------
(***************************************************************************)
(* Threads/main.c: customers go round the shops at random and empty those  *)
(* they enter until they have spent what they want to, one supplier goes   *)
(* round and adds to the stock, a mutex per shop keeps them apart; main    *)
(* waits for the customers and then cancels the supplier.                  *)
(***************************************************************************)
EXTENDS Integers, FiniteSetsExt

CONSTANTS
  Stores, Customers, Supplier,
  Stocks,     \* the stock a shop may start with (900 to 1099)
  Desires,    \* what a customer may want to spend (9900 to 10099)
  Load,       \* what the supplier adds to a shop (200)
  MaxLoads,   \* a bound: the loads the supplier delivers
  Nobody

Actors == Customers \cup {Supplier}

ShopsAssumption ==
  /\ Supplier \notin Customers /\ Nobody \notin Actors \cup Stores
  /\ Stocks \subseteq Nat /\ Desires \subseteq Nat \ {0}
  /\ Load \in Nat \ {0} /\ MaxLoads \in Nat
  /\ IsFiniteSet(Stores) /\ IsFiniteSet(Customers)

VARIABLES
  Store,         \* Store[s]: the stock of shop s
  desire_spend,  \* desire_spend[c]: what customer c still wants to spend
  mutex,         \* mutex[s]: who holds it
  numberStore,   \* numberStore[a]: the shop a has chosen, or Nobody
  pc,            \* pc[a]: "choose", "lock", "in", "bought", "unlock", "gone"
  seen,          \* the stock the supplier's addition has read
  loads,         \* how many loads were delivered
  total          \* stock and desires at the start

vars == <<Store, desire_spend, mutex, numberStore, pc, seen, loads, total>>

SumOf(f) == MapThenSumSet(LAMBDA x : f[x], DOMAIN f)

Init ==
  /\ Store \in [Stores -> Stocks]
  /\ desire_spend \in [Customers -> Desires]
  /\ mutex = [s \in Stores |-> Nobody]
  /\ numberStore = [a \in Actors |-> Nobody]
  /\ pc = [a \in Actors |-> "choose"]
  /\ seen = 0
  /\ loads = 0
  /\ total = SumOf(Store) - SumOf(desire_spend)

Choose(a) ==
  /\ pc[a] = "choose"
  /\ a = Supplier => loads < MaxLoads
  /\ \E s \in Stores : numberStore' = [numberStore EXCEPT ![a] = s]
  /\ pc' = [pc EXCEPT ![a] = "lock"]
  /\ UNCHANGED <<Store, desire_spend, mutex, seen, loads, total>>

\* Mistake: nobody takes the mutex.
LockNothing(a) ==
  /\ pc[a] = "lock"
  /\ pc' = [pc EXCEPT ![a] = "in"]
  /\ UNCHANGED <<Store, desire_spend, mutex, numberStore, seen, loads, total>>

Lock(a) ==
  /\ pc[a] = "lock"
  /\ mutex[numberStore[a]] = Nobody
  /\ mutex' = [mutex EXCEPT ![numberStore[a]] = a]
  /\ pc' = [pc EXCEPT ![a] = "in"]
  /\ UNCHANGED <<Store, desire_spend, numberStore, seen, loads, total>>

\* The shop is empty, or its whole stock is bought: desire_spend goes below zero.
Buy(c) ==
  /\ pc[c] = "in"
  /\ desire_spend' = [desire_spend EXCEPT ![c] = @ - Store[numberStore[c]]]
  /\ pc' = [pc EXCEPT ![c] = IF Store[numberStore[c]] = 0 THEN "unlock" ELSE "bought"]
  /\ UNCHANGED <<Store, mutex, numberStore, seen, loads, total>>

Empty(c) ==
  /\ pc[c] = "bought"
  /\ Store' = [Store EXCEPT ![numberStore[c]] = 0]
  /\ pc' = [pc EXCEPT ![c] = "unlock"]
  /\ UNCHANGED <<desire_spend, mutex, numberStore, seen, loads, total>>

\* Store[numberStore] += 200 reads, then writes.
Look ==
  /\ pc[Supplier] = "in"
  /\ seen' = Store[numberStore[Supplier]]
  /\ pc' = [pc EXCEPT ![Supplier] = "bought"]
  /\ UNCHANGED <<Store, desire_spend, mutex, numberStore, loads, total>>

Deliver ==
  /\ pc[Supplier] = "bought"
  /\ Store' = [Store EXCEPT ![numberStore[Supplier]] = seen + Load]
  /\ loads' = loads + 1
  /\ pc' = [pc EXCEPT ![Supplier] = "unlock"]
  /\ UNCHANGED <<desire_spend, mutex, numberStore, seen, total>>

Unlock(a) ==
  /\ pc[a] = "unlock"
  /\ mutex' = [mutex EXCEPT ![numberStore[a]] = Nobody]
  /\ numberStore' = [numberStore EXCEPT ![a] = Nobody]
  /\ pc' = [pc EXCEPT ![a] = IF a \in Customers /\ desire_spend[a] <= 0 THEN "gone" ELSE "choose"]
  /\ UNCHANGED <<Store, desire_spend, seen, loads, total>>

\* Every customer has been joined: the supplier is cancelled, or the process ends
\* before it notices, wherever it stands.
Cancel ==
  /\ \A c \in Customers : pc[c] = "gone"
  /\ pc[Supplier] # "gone"
  /\ pc' = [pc EXCEPT ![Supplier] = "gone"]
  /\ UNCHANGED <<Store, desire_spend, mutex, numberStore, seen, loads, total>>

Next ==
  \/ \E a \in Actors : Choose(a) \/ Lock(a) \/ Unlock(a)
  \/ \E c \in Customers : Buy(c) \/ Empty(c)
  \/ Look \/ Deliver \/ Cancel

--------------------------------------------------------------------------------
TypeOK ==
  /\ Store \in [Stores -> Nat] /\ desire_spend \in [Customers -> Int]
  /\ mutex \in [Stores -> Actors \cup {Nobody}]
  /\ numberStore \in [Actors -> Stores \cup {Nobody}]
  /\ pc \in [Actors -> {"choose", "lock", "in", "bought", "unlock", "gone"}]
  /\ seen \in Nat /\ loads \in 0 .. MaxLoads /\ total \in Int

\* What a customer has just been charged for and not yet taken off the shelf.
OnTheCounter ==
  SumOf([c \in Customers |-> IF pc[c] = "bought" THEN Store[numberStore[c]] ELSE 0])

\* Nothing is sold twice and no delivery is lost: what stands in the shops and what
\* the customers have been charged always come to what there was at the start and
\* what was delivered, whoever runs between the steps of a purchase or of a
\* delivery (lines 33-47, 72-78); with the types.
Conserved ==
  /\ TypeOK
  /\ SumOf(Store) - OnTheCounter - SumOf(desire_spend) = total + Load * loads
================================================================================
