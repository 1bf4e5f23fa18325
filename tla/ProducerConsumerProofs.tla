------------------------ MODULE ProducerConsumerProofs -------------------------
(***************************************************************************)
(* Proofs about ProducerConsumer for any number of workers, clients,       *)
(* descriptors and any ring size: the variables keep their types, every    *)
(* open connection is held in exactly one place, no wakeup is lost, every  *)
(* client gets one answer, and the whole implements TimeService.           *)
(***************************************************************************)
EXTENDS ProducerConsumer, FiniteSetTheorems, SequenceTheorems, TLAPS

USE DEF Threads, Slots

\* The ring index moves on by one and wraps around at MAX_QUEUE.
LEMMA Advance ==
  ASSUME NEW x \in Slots
  PROVE  /\ (x + 1) % MaxQueue = IF x + 1 = MaxQueue THEN 0 ELSE x + 1
         /\ (x + 1) % MaxQueue \in Slots
<1>1. MaxQueue \in Nat /\ MaxQueue > 0
  BY MaxQueueAssumption
<1>2. CASE x + 1 = MaxQueue
  <2>1. (x + 1) % MaxQueue = 0
    BY <1>1, <1>2
  <2> QED BY <1>1, <1>2, <2>1
<1>3. CASE x + 1 < MaxQueue
  <2>1. (x + 1) % MaxQueue = x + 1
    BY <1>1, <1>3
  <2> QED BY <1>1, <1>3, <2>1
<1> QED BY <1>1, <1>2, <1>3

--------------------------------------------------------------------------------
LEMMA TypeInit == Init => TypeOK
  BY MaxQueueAssumption, ThreadAssumption, SpuriousAssumption DEF Init, TypeOK, Pcs, Outcomes

\* Leaving a pc for another of the same thread keeps the type of pc.
LEMMA PcType ==
  ASSUME TypeOK, NEW t \in Threads, NEW to \in Pcs(t),
         pc' = [pc EXCEPT ![t] = to]
  PROVE  /\ pc' \in [Threads -> UNION {Pcs(u) : u \in Threads}]
         /\ \A u \in Threads : pc'[u] \in Pcs(u)
BY DEF TypeOK

LEMMA SignalType ==
  ASSUME TypeOK, Signal(Main, "unlock")
  PROVE  /\ pc' \in [Threads -> UNION {Pcs(u) : u \in Threads}]
         /\ \A u \in Threads : pc'[u] \in Pcs(u)
<1>1. "unlock" \in Pcs(Main) /\ Main \in Threads
  BY DEF Pcs
<1>2. CASE pc' = [pc EXCEPT ![Main] = "unlock"]
  BY <1>1, <1>2, PcType
<1>3. CASE \E w \in Sleeping : pc' = [pc EXCEPT ![Main] = "unlock", ![w] = "idle"]
  <2>1. PICK w \in Workers : pc' = [pc EXCEPT ![Main] = "unlock", ![w] = "idle"]
    BY <1>3 DEF Sleeping
  <2>2. "idle" \in Pcs(w) /\ w \in Threads
    BY ThreadAssumption DEF Pcs
  <2> QED BY <1>1, <2>1, <2>2 DEF TypeOK
<1> QED BY <1>2, <1>3 DEF Signal

\* Every action keeps the types.
LEMMA TypeStep == TypeOK /\ CheckedHolds /\ [Next]_vars => TypeOK'
<1> SUFFICES ASSUME TypeOK, CheckedHolds, [Next]_vars PROVE TypeOK'
  OBVIOUS
<1> USE MaxQueueAssumption, ThreadAssumption, SpuriousAssumption
<1>1. ASSUME NEW c \in Clients, Connect(c) PROVE TypeOK'
  BY <1>1 DEF Connect, TypeOK, ring, Pcs
<1>2. ASSUME NEW c \in Clients, NEW f \in Fds, Accept(c, f) PROVE TypeOK'
  BY <1>2, PcType DEF Accept, Go, TypeOK, ring, Pcs
<1>3. CASE EnqueueLock
  BY <1>3, PcType DEF EnqueueLock, Lock, Go, TypeOK, ring, Pcs
<1>4. CASE EnqueueFull
  BY <1>4, PcType DEF EnqueueFull, Go, TypeOK, ring, Pcs, Outcomes
<1>5. CASE CloseRefused
  BY <1>5, PcType DEF CloseRefused, Hangup, Go, TypeOK, ring, Pcs
<1>6. CASE EnqueueRoom
  BY <1>6, PcType DEF EnqueueRoom, Go, TypeOK, ring, Pcs
<1>7. CASE EnqueuePut
  BY <1>7, SignalType, Advance DEF EnqueuePut, CheckedHolds, TypeOK, ring
<1>8. CASE EnqueueUnlock
  BY <1>8, PcType DEF EnqueueUnlock, Go, TypeOK, ring, Pcs
<1>9. ASSUME NEW w \in Workers, WorkerStep(w) \/ SpuriousWakeup(w) PROVE TypeOK'
  <2>1. w \in Threads /\ w # Main
    OBVIOUS
  <2>2. Pcs(w) = {"idle", "test", "wait", "take", "taken", "send", "close"}
    BY <2>1 DEF Pcs
  <2> USE <2>1, <2>2, PcType DEF Go, TypeOK, ring
  <2>3. CASE WorkerLock(w)      BY <2>3 DEF WorkerLock, Lock
  <2>4. CASE Wait(w)            BY <2>4 DEF Wait
  <2>5. CASE SomethingToDo(w)   BY <2>5 DEF SomethingToDo
  <2>6. CASE Dequeue(w)         BY <2>6, Advance DEF Dequeue, CheckedHolds
  <2>7. CASE WorkerUnlock(w)    BY <2>7 DEF WorkerUnlock
  <2>8. CASE Send(w)            BY <2>8 DEF Send, Outcomes
  <2>9. CASE Close(w)           BY <2>9 DEF Close, Hangup
  <2>10. CASE SpuriousWakeup(w) BY <2>10 DEF SpuriousWakeup
  <2> QED BY <1>9, <2>3, <2>4, <2>5, <2>6, <2>7, <2>8, <2>9, <2>10 DEF WorkerStep
<1>10. CASE Interrupt
  BY <1>10 DEF Interrupt, TypeOK, ring, Outcomes
<1>11. CASE UNCHANGED vars
  BY <1>11 DEF vars, ring, TypeOK
<1> QED
  BY <1>1, <1>2, <1>3, <1>4, <1>5, <1>6, <1>7, <1>8, <1>9, <1>10, <1>11
  DEF Next, MainStep

--------------------------------------------------------------------------------
LEMMA CheckedInit == Init => CheckedHolds
  BY ThreadAssumption DEF Init, CheckedHolds

\* Between lock and unlock a thread keeps the mutex and no other gets in.
LEMMA CheckedStep == TypeOK /\ CheckedHolds /\ [Next]_vars => CheckedHolds'
<1> SUFFICES ASSUME TypeOK, CheckedHolds, [Next]_vars PROVE CheckedHolds'
  OBVIOUS
<1> USE MaxQueueAssumption, ThreadAssumption, NoneAssumption DEF TypeOK, CheckedHolds
<1>1. ASSUME NEW c \in Clients, Connect(c) PROVE CheckedHolds'
  BY <1>1 DEF Connect, ring
<1>2. ASSUME NEW c \in Clients, NEW f \in Fds, Accept(c, f) PROVE CheckedHolds'
  BY <1>2 DEF Accept, Go, ring
<1>3. CASE EnqueueLock
  BY <1>3 DEF EnqueueLock, Lock, Go, ring
<1>4. CASE EnqueueFull
  BY <1>4 DEF EnqueueFull, Go, ring
<1>5. CASE CloseRefused
  BY <1>5 DEF CloseRefused, Hangup, Go, ring
<1>6. CASE EnqueueRoom
  BY <1>6 DEF EnqueueRoom, Go, Full, ring
<1>7. CASE EnqueuePut
  BY <1>7 DEF EnqueuePut, Signal, Sleeping
<1>8. CASE EnqueueUnlock
  BY <1>8 DEF EnqueueUnlock, Go, ring
<1>9. ASSUME NEW w \in Workers, WorkerStep(w) \/ SpuriousWakeup(w) PROVE CheckedHolds'
  <2> USE DEF Go, ring
  <2>3. CASE WorkerLock(w)      BY <2>3 DEF WorkerLock, Lock
  <2>4. CASE Wait(w)            BY <2>4 DEF Wait
  <2>5. CASE SomethingToDo(w)   BY <2>5 DEF SomethingToDo
  <2>6. CASE Dequeue(w)         BY <2>6 DEF Dequeue
  <2>7. CASE WorkerUnlock(w)    BY <2>7 DEF WorkerUnlock
  <2>8. CASE Send(w)            BY <2>8 DEF Send
  <2>9. CASE Close(w)           BY <2>9 DEF Close, Hangup
  <2>10. CASE SpuriousWakeup(w) BY <2>10 DEF SpuriousWakeup
  <2> QED BY <1>9, <2>3, <2>4, <2>5, <2>6, <2>7, <2>8, <2>9, <2>10 DEF WorkerStep
<1>10. CASE Interrupt
  BY <1>10 DEF Interrupt, ring
<1>11. CASE UNCHANGED vars
  BY <1>11 DEF vars, ring
<1> QED
  BY <1>1, <1>2, <1>3, <1>4, <1>5, <1>6, <1>7, <1>8, <1>9, <1>10, <1>11
  DEF Next, MainStep

(* Every variable keeps its type, and what a thread checked under the mutex
   still holds when it acts on it. *)
THEOREM TypeCorrect == Spec => [](TypeOK /\ CheckedHolds)
<1>1. Init => TypeOK /\ CheckedHolds
  BY TypeInit, CheckedInit
<1>2. TypeOK /\ CheckedHolds /\ [Next]_vars => (TypeOK /\ CheckedHolds)'
  BY TypeStep, CheckedStep
<1> QED BY <1>1, <1>2, PTL DEF Spec

--------------------------------------------------------------------------------
IInv == TypeOK /\ CheckedHolds /\ RingClosed /\ HeldOnce

\* A put makes the slot at back live, which was not live before.
LEMMA PutSlot ==
  ASSUME TypeOK, CheckedHolds, RingClosed, EnqueuePut
  PROVE  /\ LiveSlots' = LiveSlots \cup {back}
         /\ back \notin LiveSlots
         /\ RingClosed'
<1>1. count < MaxQueue /\ count' = count + 1 /\ front' = front
  BY DEF EnqueuePut, CheckedHolds
<1>2. back' = IF back + 1 = MaxQueue THEN 0 ELSE back + 1
  BY Advance DEF EnqueuePut, TypeOK
<1>3. front \in Slots /\ back \in Slots /\ count \in Nat /\ MaxQueue \in Nat
  BY MaxQueueAssumption DEF TypeOK
<1>4. back = IF front + count < MaxQueue
             THEN front + count ELSE front + count - MaxQueue
  BY DEF RingClosed
<1>5. RingClosed'
  BY <1>1, <1>2, <1>3, <1>4 DEF RingClosed
<1>6. ~Live(back)
  BY <1>1, <1>3, <1>4 DEF Live
<1>7. ASSUME NEW s \in Slots PROVE Live(s)' <=> Live(s) \/ s = back
  BY <1>1, <1>3, <1>4 DEF Live
<1> QED BY <1>3, <1>5, <1>6, <1>7 DEF LiveSlots

\* Taking makes the slot at front, a live one, dead.
LEMMA TakeSlot ==
  ASSUME TypeOK, CheckedHolds, RingClosed, NEW w \in Workers, Dequeue(w)
  PROVE  /\ LiveSlots' = LiveSlots \ {front}
         /\ front \in LiveSlots
         /\ RingClosed'
<1>1. count > 0 /\ count' = count - 1 /\ back' = back
  BY DEF Dequeue, Go, CheckedHolds
<1>2. front' = IF front + 1 = MaxQueue THEN 0 ELSE front + 1
  BY Advance DEF Dequeue, TypeOK
<1>3. front \in Slots /\ back \in Slots /\ count \in 0 .. MaxQueue /\ MaxQueue \in Nat
  BY MaxQueueAssumption DEF TypeOK
<1>4. back = IF front + count < MaxQueue
             THEN front + count ELSE front + count - MaxQueue
  BY DEF RingClosed
<1>5. RingClosed'
  BY <1>1, <1>2, <1>3, <1>4 DEF RingClosed
<1>6. Live(front)
  BY <1>1, <1>3 DEF Live
<1>7. ASSUME NEW s \in Slots PROVE Live(s)' <=> Live(s) /\ s # front
  BY <1>1, <1>2, <1>3 DEF Live
<1> QED BY <1>3, <1>5, <1>6, <1>7 DEF LiveSlots

\* A step that leaves the ring alone leaves its live slots alone.
LEMMA SameSlots ==
  ASSUME UNCHANGED ring
  PROVE  LiveSlots' = LiveSlots /\ (RingClosed => RingClosed') /\ queue' = queue
BY DEF ring, LiveSlots, Live, RingClosed

\* A step that moves no descriptor keeps every one where it was.
LEMMA SameHolders ==
  ASSUME HeldOnce, UNCHANGED <<ring, fd, conn, running>>, Holders' = Holders
  PROVE  HeldOnce'
BY SameSlots DEF HeldOnce

\* main accepts: the new number was free and main held nothing.
LEMMA HeldAccept ==
  ASSUME TypeOK, HeldOnce, NEW c \in Clients, NEW f \in Fds, Accept(c, f)
  PROVE  HeldOnce'
<1> USE NoneAssumption, ThreadAssumption DEF TypeOK
<1>1. Holders' = Holders \cup {Main} /\ Main \notin Holders
  BY DEF Accept, Go, Holders
<1>2. LiveSlots' = LiveSlots /\ queue' = queue
  BY SameSlots DEF Accept
<1>3. running /\ running' /\ conn[f] = None
  BY DEF Accept, Go
<1>4. fd'[Main] = f /\ \A t \in Holders : fd'[t] = fd[t]
  BY <1>1 DEF Accept, Holders
<1>5. conn'[f] # None /\ \A g \in Fds : g # f => conn'[g] = conn[g]
  BY DEF Accept
<1>6. f \in Fds /\ f # None
  OBVIOUS
<1> QED BY <1>1, <1>2, <1>3, <1>4, <1>5, <1>6 DEF HeldOnce

\* A holder closes the descriptor it holds and forgets it.
LEMMA HeldHangup ==
  ASSUME TypeOK, HeldOnce, running, running' = running,
         NEW t \in Holders, Hangup(fd[t]), UNCHANGED <<ring, fd>>,
         Holders' = Holders \ {t}
  PROVE  HeldOnce'
<1>1. LiveSlots' = LiveSlots /\ queue' = queue
  BY SameSlots
<1>2. \A g \in Fds : conn'[g] = IF g = fd[t] THEN None ELSE conn[g]
  BY DEF Hangup, TypeOK
<1> QED BY <1>1, <1>2 DEF HeldOnce

\* main hands its descriptor over to the ring.
LEMMA HeldPut ==
  ASSUME TypeOK, CheckedHolds, RingClosed, HeldOnce, EnqueuePut
  PROVE  HeldOnce'
<1> USE ThreadAssumption DEF TypeOK
<1>1. Holders' = Holders \ {Main} /\ Main \in Holders
  BY DEF EnqueuePut, Signal, Sleeping, Holders
<1>2. LiveSlots' = LiveSlots \cup {back} /\ back \notin LiveSlots /\ back \in Slots
  BY PutSlot
<1>3. queue'[back] = fd[Main] /\ \A s \in LiveSlots : queue'[s] = queue[s]
  BY <1>2 DEF EnqueuePut, LiveSlots
<1>4. running /\ running' = running /\ fd' = fd /\ conn' = conn
  BY DEF EnqueuePut
<1> HIDE DEF TypeOK, Slots
<1> QED BY <1>1, <1>2, <1>3, <1>4 DEF HeldOnce

\* A worker takes over the descriptor at front.
LEMMA HeldTake ==
  ASSUME TypeOK, CheckedHolds, RingClosed, HeldOnce, NEW w \in Workers, Dequeue(w)
  PROVE  HeldOnce'
<1> USE ThreadAssumption DEF TypeOK
<1>1. Holders' = Holders \cup {w} /\ w \notin Holders
  BY DEF Dequeue, Go, Holders
<1>2. LiveSlots' = LiveSlots \ {front} /\ front \in LiveSlots
  BY TakeSlot
<1>3. fd'[w] = queue[front] /\ \A t \in Holders : fd'[t] = fd[t]
  BY <1>1 DEF Dequeue, Holders
<1>4. running /\ running' = running /\ queue' = queue /\ conn' = conn
  BY DEF Dequeue, Go
<1> HIDE DEF TypeOK, Slots
<1> QED BY <1>1, <1>2, <1>3, <1>4 DEF HeldOnce

LEMMA HeldInit == Init => RingClosed /\ HeldOnce
<1> SUFFICES ASSUME Init PROVE RingClosed /\ HeldOnce
  OBVIOUS
<1>1. front = 0 /\ back = 0 /\ count = 0 /\ MaxQueue \in Nat \ {0}
  BY MaxQueueAssumption DEF Init
<1>2. RingClosed
  BY <1>1 DEF RingClosed
<1>3. LiveSlots = {}
  BY <1>1 DEF LiveSlots, Live
<1>4. Holders = {}
  BY DEF Init, Holders
<1>5. \A f \in Fds : conn[f] = None
  BY DEF Init
<1> QED BY <1>2, <1>3, <1>4, <1>5 DEF HeldOnce

\* Every action hands descriptors on without losing or copying one.
LEMMA HeldStep == IInv /\ [Next]_vars => (RingClosed /\ HeldOnce)'
<1> SUFFICES ASSUME TypeOK, CheckedHolds, RingClosed, HeldOnce, [Next]_vars
             PROVE  (RingClosed /\ HeldOnce)'
  BY DEF IInv
<1> USE ThreadAssumption
<1>1. ASSUME NEW c \in Clients, Connect(c) PROVE (RingClosed /\ HeldOnce)'
  <2>1. Holders' = Holders
    BY <1>1 DEF Connect, Holders
  <2> QED BY <1>1, <2>1, SameHolders, SameSlots DEF Connect
<1>2. ASSUME NEW c \in Clients, NEW f \in Fds, Accept(c, f)
      PROVE  (RingClosed /\ HeldOnce)'
  BY <1>2, HeldAccept, SameSlots DEF Accept
<1>3. CASE EnqueueLock
  <2>1. Holders' = Holders
    BY <1>3 DEF EnqueueLock, Lock, Go, Holders, TypeOK
  <2> QED BY <1>3, <2>1, SameHolders, SameSlots DEF EnqueueLock
<1>4. CASE EnqueueFull
  <2>1. Holders' = Holders /\ running' = running
    BY <1>4 DEF EnqueueFull, Go, Holders, TypeOK
  <2> QED BY <1>4, <2>1, SameHolders, SameSlots DEF EnqueueFull
<1>5. CASE CloseRefused
  <2>1. Holders' = Holders \ {Main} /\ Main \in Holders
    BY <1>5 DEF CloseRefused, Go, Holders, TypeOK
  <2>2. running /\ running' = running
    BY <1>5 DEF CloseRefused, Go
  <2> QED BY <1>5, <2>1, <2>2, HeldHangup, SameSlots DEF CloseRefused
<1>6. CASE EnqueueRoom
  <2>1. Holders' = Holders
    BY <1>6 DEF EnqueueRoom, Go, Holders, TypeOK
  <2> QED BY <1>6, <2>1, SameHolders, SameSlots DEF EnqueueRoom
<1>7. CASE EnqueuePut
  BY <1>7, PutSlot, HeldPut
<1>8. CASE EnqueueUnlock
  <2>1. Holders' = Holders
    BY <1>8 DEF EnqueueUnlock, Go, Holders, TypeOK
  <2> QED BY <1>8, <2>1, SameHolders, SameSlots DEF EnqueueUnlock
<1>9. ASSUME NEW w \in Workers, WorkerStep(w) \/ SpuriousWakeup(w)
      PROVE  (RingClosed /\ HeldOnce)'
  <2>1. CASE Dequeue(w)
    BY <2>1, TakeSlot, HeldTake
  <2>2. CASE Close(w)
    <3>1. Holders' = Holders \ {w} /\ w \in Holders
      BY <2>2 DEF Close, Go, Holders, TypeOK
    <3>2. running /\ running' = running
      BY <2>2 DEF Close, Go
    <3> QED BY <2>2, <3>1, <3>2, HeldHangup, SameSlots DEF Close
  <2>3. ASSUME Holders' = Holders, UNCHANGED <<ring, fd, conn, running>>
        PROVE  (RingClosed /\ HeldOnce)'
    BY <2>3, SameHolders, SameSlots
  <2> USE <2>3 DEF Go, Holders, TypeOK
  <2>4. CASE WorkerLock(w)      BY <2>4 DEF WorkerLock, Lock
  <2>5. CASE Wait(w)            BY <2>5 DEF Wait
  <2>6. CASE SomethingToDo(w)   BY <2>6 DEF SomethingToDo
  <2>7. CASE WorkerUnlock(w)    BY <2>7 DEF WorkerUnlock
  <2>8. CASE Send(w)            BY <2>8 DEF Send
  <2>9. CASE SpuriousWakeup(w)  BY <2>9 DEF SpuriousWakeup
  <2> QED BY <1>9, <2>1, <2>2, <2>4, <2>5, <2>6, <2>7, <2>8, <2>9 DEF WorkerStep
<1>10. CASE Interrupt
  BY <1>10, SameSlots DEF Interrupt, HeldOnce
<1>11. CASE UNCHANGED vars
  <2>1. Holders' = Holders
    BY <1>11 DEF vars, Holders
  <2> QED BY <1>11, <2>1, SameHolders, SameSlots DEF vars
<1> QED
  BY <1>1, <1>2, <1>3, <1>4, <1>5, <1>6, <1>7, <1>8, <1>9, <1>10, <1>11
  DEF Next, MainStep

(* No run leaks a descriptor, closes one twice or uses one that was closed. *)
THEOREM HeldOnceCorrect == Spec => []HeldOnce
<1>1. Init => IInv
  BY TypeInit, CheckedInit, HeldInit DEF IInv
<1>2. IInv /\ [Next]_vars => IInv'
  BY TypeStep, CheckedStep, HeldStep DEF IInv
<1>3. IInv => HeldOnce
  BY DEF IInv
<1> QED BY <1>1, <1>2, <1>3, PTL DEF Spec

\* The ring's indices and its count always agree, whatever the workers and the
\* size of the ring (server.c:43-45, 55-57).
THEOREM RingSoundCorrect == Spec => []RingSound
<1>1. Init => IInv
  BY TypeInit, CheckedInit, HeldInit DEF IInv
<1>2. IInv /\ [Next]_vars => IInv'
  BY TypeStep, CheckedStep, HeldStep DEF IInv
<1>3. IInv => RingSound
  BY DEF IInv, RingSound
<1> QED BY <1>1, <1>2, <1>3, PTL DEF Spec

--------------------------------------------------------------------------------
\* Ready is finite, and one worker more or less changes its size by one.
LEMMA ReadySize ==
  /\ Cardinality(Ready) \in Nat
  /\ \A w \in Workers :
       /\ w \notin Ready => Cardinality(Ready \cup {w}) = Cardinality(Ready) + 1
       /\ w \in Ready => Cardinality(Ready \ {w}) = Cardinality(Ready) - 1
<1>1. IsFiniteSet(Ready)
  BY ThreadAssumption, FS_Subset DEF Ready
<1> QED BY <1>1, FS_CardinalityType, FS_AddElement, FS_RemoveElement

LEMMA WakeInit == Init => NoLostWakeup
  BY ThreadAssumption DEF Init, NoLostWakeup, Sleeping

LEMMA WakeStep ==
  TypeOK /\ CheckedHolds /\ NoLostWakeup /\ [Next]_vars => NoLostWakeup'
<1> SUFFICES ASSUME TypeOK, CheckedHolds, NoLostWakeup, [Next]_vars
             PROVE  NoLostWakeup'
  OBVIOUS
<1> USE ThreadAssumption, ReadySize
<1>1. ASSUME Sleeping' \subseteq Sleeping, count' = count, Ready' = Ready
      PROVE  NoLostWakeup'
  BY <1>1 DEF NoLostWakeup
<1>2. ASSUME NEW w \in Workers, w \notin Ready, Sleeping' \subseteq Sleeping,
             count' = count, Ready' = Ready \cup {w}
      PROVE  NoLostWakeup'
  BY <1>2 DEF NoLostWakeup, TypeOK
<1>3. CASE EnqueuePut
  <2>1. CASE Sleeping = {} /\ pc' = [pc EXCEPT ![Main] = "unlock"]
    BY <2>1 DEF Sleeping, NoLostWakeup, TypeOK
  <2>2. CASE \E w \in Sleeping : pc' = [pc EXCEPT ![Main] = "unlock", ![w] = "idle"]
    <3>1. PICK w \in Sleeping : pc' = [pc EXCEPT ![Main] = "unlock", ![w] = "idle"]
      BY <2>2
    <3>2. Ready' = Ready \cup {w} /\ w \notin Ready /\ w \in Workers
      BY <3>1 DEF Sleeping, Ready, TypeOK
    <3>3. count' = count + 1 /\ count <= Cardinality(Ready)
      BY <1>3, <3>1 DEF EnqueuePut, NoLostWakeup
    <3> QED BY <3>2, <3>3 DEF NoLostWakeup, TypeOK
  <2> QED BY <1>3, <2>1, <2>2 DEF EnqueuePut, Signal
<1>4. ASSUME NEW w \in Workers, WorkerStep(w) \/ SpuriousWakeup(w) PROVE NoLostWakeup'
  <2>1. CASE Dequeue(w)
    <3>1. Ready' = Ready \ {w} /\ w \in Ready /\ Sleeping' = Sleeping
      BY <2>1 DEF Dequeue, Go, Ready, Sleeping, TypeOK
    <3>2. count' = count - 1
      BY <2>1 DEF Dequeue
    <3> QED BY <3>1, <3>2 DEF NoLostWakeup, TypeOK
  <2>2. CASE Wait(w)
    <3>1. count' = 0
      BY <2>2 DEF Wait, ring
    <3>2. IsFiniteSet(Ready')
      BY FS_Subset DEF Ready
    <3>3. Cardinality(Ready') \in Nat
      BY <3>2, FS_CardinalityType
    <3> QED BY <3>1, <3>3 DEF NoLostWakeup
  <2>3. CASE Close(w) \/ SpuriousWakeup(w)
    <3>1. Ready' = Ready \cup {w} /\ w \notin Ready /\ Sleeping' \subseteq Sleeping
      BY <2>3 DEF Close, SpuriousWakeup, Go, Ready, Sleeping, TypeOK
    <3>2. count' = count
      BY <2>3 DEF Close, SpuriousWakeup, ring
    <3> QED BY <1>2, <3>1, <3>2
  <2>4. CASE WorkerLock(w) \/ SomethingToDo(w) \/ WorkerUnlock(w) \/ Send(w)
    <3>1. Ready' = Ready /\ Sleeping' = Sleeping /\ count' = count
      BY <2>4 DEF WorkerLock, Lock, SomethingToDo, WorkerUnlock, Send, Go, Ready,
                  Sleeping, TypeOK, ring
    <3> QED BY <1>1, <3>1
  <2> QED BY <1>4, <2>1, <2>2, <2>3, <2>4 DEF WorkerStep
<1>5. CASE \/ \E c \in Clients, f \in Fds : Accept(c, f)
           \/ EnqueueLock \/ EnqueueFull \/ CloseRefused \/ EnqueueRoom \/ EnqueueUnlock
  <2>1. Ready' = Ready /\ Sleeping' = Sleeping /\ count' = count
    BY <1>5 DEF Accept, EnqueueLock, Lock, EnqueueFull, CloseRefused, EnqueueRoom,
                EnqueueUnlock, Go, Ready, Sleeping, TypeOK, ring
  <2> QED BY <1>1, <2>1
<1>6. CASE (\E c \in Clients : Connect(c)) \/ Interrupt \/ UNCHANGED vars
  <2>1. Ready' = Ready /\ Sleeping' = Sleeping /\ count' = count
    BY <1>6 DEF Connect, Interrupt, vars, ring, Ready, Sleeping
  <2> QED BY <1>1, <2>1
<1> QED BY <1>3, <1>4, <1>5, <1>6 DEF Next, MainStep

(* However the threads interleave, no descriptor waits in the ring while every
   worker that could take it sleeps. *)
THEOREM NoLostWakeupCorrect == Spec => []NoLostWakeup
<1>1. Init => TypeOK /\ CheckedHolds /\ NoLostWakeup
  BY TypeInit, CheckedInit, WakeInit
<1>2. TypeOK /\ CheckedHolds /\ NoLostWakeup /\ [Next]_vars
        => (TypeOK /\ CheckedHolds /\ NoLostWakeup)'
  BY TypeStep, CheckedStep, WakeStep
<1> QED BY <1>1, <1>2, PTL DEF Spec

--------------------------------------------------------------------------------
\* Each open descriptor has a client of its own, and a client is undecided
\* until the thread that holds its descriptor is about to close it.
Account ==
  running =>
    /\ \A f, g \in Fds : conn[f] # None /\ conn[f] = conn[g] => f = g
    /\ \A f \in Fds : conn[f] # None => client[conn[f]] = "open"
    /\ \A c \in Clients : client[c] \in {"away", "backlog"} => outcome[c] = "none"
    /\ \A s \in LiveSlots : outcome[conn[queue[s]]] = "none"
    /\ \A t \in Holders :
         pc[t] \in {"refuse", "close"} <=> outcome[conn[fd[t]]] # "none"

\* Nobody decides, closes or moves anything.
LEMMA SameAccount ==
  ASSUME Account, UNCHANGED <<ring, fd, conn, client, outcome, running>>,
         Holders' = Holders,
         \A t \in Holders : pc'[t] \in {"refuse", "close"} <=> pc[t] \in {"refuse", "close"}
  PROVE  Account'
BY SameSlots DEF Account

\* A holder decides the client it holds and no other.
LEMMA AccountDecide ==
  ASSUME IInv, Account, running, running' = running,
         UNCHANGED <<ring, fd, conn, client>>,
         NEW t \in Holders, NEW o, o # "none",
         outcome' = [outcome EXCEPT ![conn[fd[t]]] = o],
         Holders' = Holders, pc'[t] \in {"refuse", "close"},
         \A u \in Holders : u # t => pc'[u] = pc[u]
  PROVE  Account'
<1> DEFINE d == conn[fd[t]]
<1> USE NoneAssumption
<1>0. LiveSlots' = LiveSlots /\ queue' = queue
  BY SameSlots
<1>1. HeldOnce /\ TypeOK
  BY DEF IInv
<1>2. fd[t] \in Fds /\ d # None /\ d \in Clients
  BY <1>1 DEF HeldOnce, TypeOK
<1>3. client[d] = "open"
  BY <1>2 DEF Account
<1>4. \A c \in Clients : c # d => outcome'[c] = outcome[c]
  BY <1>1 DEF TypeOK
<1>5. outcome'[d] = o
  BY <1>1, <1>2 DEF TypeOK
<1>6. \A s \in LiveSlots : conn[queue[s]] # d /\ conn[queue[s]] \in Clients
  <2>1. TAKE s \in LiveSlots
  <2>2. queue[s] \in Fds /\ conn[queue[s]] # None /\ queue[s] # fd[t]
    BY <1>1 DEF HeldOnce
  <2> QED BY <1>1, <1>2, <2>2 DEF Account, TypeOK
<1>7. \A u \in Holders : u # t => conn[fd[u]] # d /\ conn[fd[u]] \in Clients
  <2>1. TAKE u \in Holders
  <2>2. fd[u] \in Fds /\ conn[fd[u]] # None /\ (u # t => fd[u] # fd[t])
    BY <1>1 DEF HeldOnce
  <2> QED BY <1>1, <1>2, <2>2 DEF Account, TypeOK
<1> HIDE DEF d
<1>8. \A s \in LiveSlots : outcome'[conn[queue[s]]] = "none"
  BY <1>4, <1>6 DEF Account
<1>9. \A u \in Holders :
        pc'[u] \in {"refuse", "close"} <=> outcome'[conn[fd[u]]] # "none"
  BY <1>4, <1>5, <1>7 DEF Account, d
<1>10. \A c \in Clients : client[c] \in {"away", "backlog"} => outcome'[c] = "none"
  BY <1>3, <1>4 DEF Account
<1> QED BY <1>0, <1>8, <1>9, <1>10 DEF Account

\* A holder hangs up on the client it holds.
LEMMA AccountHangup ==
  ASSUME IInv, Account, running, running' = running,
         UNCHANGED <<ring, fd, outcome>>,
         NEW t \in Holders, Hangup(fd[t]),
         Holders' = Holders \ {t},
         \A u \in Holders : u # t => pc'[u] = pc[u]
  PROVE  Account'
<1> USE NoneAssumption
<1>1. LiveSlots' = LiveSlots /\ queue' = queue
  BY SameSlots
<1>2. HeldOnce /\ TypeOK
  BY DEF IInv
<1>3. fd[t] \in Fds /\ conn[fd[t]] # None /\ conn[fd[t]] \in Clients
  BY <1>2 DEF HeldOnce, TypeOK
<1>4. \A g \in Fds : conn'[g] = IF g = fd[t] THEN None ELSE conn[g]
  BY <1>2 DEF Hangup, TypeOK
<1>5. \A c \in Clients : client'[c] = IF c = conn[fd[t]] THEN "closed" ELSE client[c]
  BY <1>2 DEF Hangup, TypeOK
<1>6. \A f \in Fds : conn'[f] # None => f # fd[t] /\ conn[f] \in Clients
  BY <1>2, <1>4 DEF TypeOK
<1>7. \A s \in LiveSlots : conn'[queue[s]] = conn[queue[s]]
  BY <1>2, <1>4 DEF HeldOnce
<1>8. \A u \in Holders \ {t} : conn'[fd[u]] = conn[fd[u]]
  BY <1>2, <1>4 DEF HeldOnce
<1>9. \A f \in Fds : conn'[f] # None => client'[conn'[f]] = "open"
  BY <1>3, <1>4, <1>5, <1>6 DEF Account
<1> QED BY <1>1, <1>4, <1>5, <1>7, <1>8, <1>9 DEF Account

\* The kernel gives a waiting client a free number.
LEMMA AccountAccept ==
  ASSUME IInv, Account, NEW c \in Clients, NEW f \in Fds, Accept(c, f)
  PROVE  Account'
<1> USE NoneAssumption, ThreadAssumption
<1>1. HeldOnce /\ TypeOK
  BY DEF IInv
<1>2. LiveSlots' = LiveSlots /\ queue' = queue
  BY SameSlots DEF Accept
<1>3. Holders' = Holders \cup {Main} /\ Main \notin Holders /\ pc'[Main] = "lock"
  BY <1>1 DEF Accept, Go, Holders, TypeOK
<1>4. running /\ running' /\ conn[f] = None /\ client[c] = "backlog"
  BY DEF Accept, Go
<1>5. fd'[Main] = f /\ \A t \in Holders : fd'[t] = fd[t] /\ pc'[t] = pc[t]
  BY <1>1, <1>3 DEF Accept, Go, Holders, TypeOK
<1>6. \A g \in Fds : conn'[g] = IF g = f THEN c ELSE conn[g]
  BY <1>1 DEF Accept, TypeOK
<1>7. \A d \in Clients : client'[d] = IF d = c THEN "open" ELSE client[d]
  BY <1>1 DEF Accept, TypeOK
<1>8. \A g \in Fds : conn[g] # None => conn[g] \in Clients /\ conn[g] # c
  BY <1>1, <1>4 DEF Account, TypeOK
<1>9. outcome' = outcome /\ outcome[c] = "none"
  BY <1>4 DEF Accept, Account
<1>10. \A s \in LiveSlots : queue[s] \in Fds /\ conn'[queue[s]] = conn[queue[s]]
  BY <1>1, <1>4, <1>6 DEF HeldOnce
<1>11. \A t \in Holders : fd[t] \in Fds /\ conn'[fd[t]] = conn[fd[t]]
  BY <1>1, <1>4, <1>6 DEF HeldOnce
<1>12. \A s \in LiveSlots : outcome'[conn'[queue[s]]] = "none"
  BY <1>4, <1>9, <1>10 DEF Account
<1>13. \A t \in Holders' :
         pc'[t] \in {"refuse", "close"} <=> outcome'[conn'[fd'[t]]] # "none"
  <2>1. TAKE t \in Holders'
  <2>2. CASE t = Main
    BY <2>2, <1>3, <1>5, <1>6, <1>9
  <2>3. CASE t # Main
    BY <2>1, <2>3, <1>3, <1>4, <1>5, <1>9, <1>11 DEF Account
  <2> QED BY <2>2, <2>3
<1>14. \A g, h \in Fds : conn'[g] # None /\ conn'[g] = conn'[h] => g = h
  BY <1>4, <1>6, <1>8 DEF Account
<1>15. \A g \in Fds : conn'[g] # None => client'[conn'[g]] = "open"
  BY <1>4, <1>6, <1>7, <1>8 DEF Account
<1>16. \A d \in Clients : client'[d] \in {"away", "backlog"} => outcome'[d] = "none"
  BY <1>4, <1>7, <1>9 DEF Account
<1> QED BY <1>2, <1>12, <1>13, <1>14, <1>15, <1>16 DEF Account

LEMMA AccountPut ==
  ASSUME IInv, Account, EnqueuePut
  PROVE  Account'
<1>1. HeldOnce /\ TypeOK /\ CheckedHolds /\ RingClosed
  BY DEF IInv
<1>2. LiveSlots' = LiveSlots \cup {back} /\ back \notin LiveSlots /\ back \in Slots
  BY <1>1, PutSlot DEF TypeOK
<1>3. queue'[back] = fd[Main] /\ \A s \in LiveSlots : queue'[s] = queue[s]
  BY <1>1, <1>2 DEF EnqueuePut, LiveSlots, TypeOK
<1>4. /\ Main \in Holders /\ pc[Main] = "put" /\ Holders' = Holders \ {Main}
      /\ \A t \in Holders : t # Main => pc'[t] = pc[t]
  BY <1>1, ThreadAssumption DEF EnqueuePut, Signal, Sleeping, Holders, TypeOK
<1>5. running /\ running' = running
  BY DEF EnqueuePut
<1>6. fd' = fd /\ conn' = conn /\ client' = client /\ outcome' = outcome
  BY DEF EnqueuePut
<1>7. outcome[conn[fd[Main]]] = "none"
  BY <1>4, <1>5 DEF Account
<1> HIDE DEF Slots
<1> QED BY <1>2, <1>3, <1>4, <1>5, <1>6, <1>7 DEF Account

LEMMA AccountTake ==
  ASSUME IInv, Account, NEW w \in Workers, Dequeue(w)
  PROVE  Account'
<1>1. HeldOnce /\ TypeOK /\ CheckedHolds /\ RingClosed
  BY DEF IInv
<1>2. LiveSlots' = LiveSlots \ {front} /\ front \in LiveSlots
  BY <1>1, TakeSlot
<1>3. /\ Holders' = Holders \cup {w} /\ w \notin Holders /\ pc'[w] = "taken"
      /\ \A t \in Holders : pc'[t] = pc[t]
  BY <1>1, ThreadAssumption DEF Dequeue, Go, Holders, TypeOK
<1>4. fd'[w] = queue[front] /\ \A t \in Holders : fd'[t] = fd[t]
  BY <1>1, <1>3 DEF Dequeue, Holders, TypeOK
<1>5. running /\ running'
  BY DEF Dequeue, Go
<1>6. queue' = queue /\ conn' = conn /\ client' = client /\ outcome' = outcome
  BY DEF Dequeue
<1>7. outcome[conn[queue[front]]] = "none"
  BY <1>2, <1>5 DEF Account
<1> HIDE DEF Slots
<1> QED BY <1>2, <1>3, <1>4, <1>5, <1>6, <1>7 DEF Account

LEMMA AccountInit == Init => Account
<1> SUFFICES ASSUME Init PROVE Account
  OBVIOUS
<1>1. Holders = {} /\ LiveSlots = {}
  BY MaxQueueAssumption, ThreadAssumption DEF Init, Holders, LiveSlots, Live
<1> QED BY <1>1 DEF Init, Account

LEMMA AccountStep == IInv /\ Account /\ [Next]_vars => Account'
<1> SUFFICES ASSUME IInv, TypeOK, HeldOnce, Account, [Next]_vars PROVE Account'
  BY DEF IInv
<1> USE ThreadAssumption
<1>1. ASSUME NEW c \in Clients, Connect(c) PROVE Account'
  <2>1. Holders' = Holders /\ LiveSlots' = LiveSlots /\ queue' = queue
    BY <1>1, SameSlots DEF Connect, Holders
  <2>2. client[c] = "away" /\ client' = [client EXCEPT ![c] = "backlog"]
    BY <1>1 DEF Connect
  <2>3. \A f \in Fds : conn[f] # None => conn[f] \in Clients
    BY DEF TypeOK
  <2> QED BY <1>1, <2>1, <2>2, <2>3 DEF Connect, Account, TypeOK
<1>2. ASSUME NEW c \in Clients, NEW f \in Fds, Accept(c, f) PROVE Account'
  BY <1>2, AccountAccept
<1>3. CASE EnqueueFull
  <2>1. Main \in Holders /\ Holders' = Holders /\ running /\ running' = running
    BY <1>3 DEF EnqueueFull, Go, Holders, TypeOK
  <2>2. pc'[Main] = "refuse" /\ \A u \in Threads : u # Main => pc'[u] = pc[u]
    BY <1>3 DEF EnqueueFull, Go, TypeOK
  <2> QED BY <1>3, <2>1, <2>2, AccountDecide DEF EnqueueFull, Holders
<1>4. CASE CloseRefused
  <2>1. /\ Main \in Holders /\ Holders' = Holders \ {Main} /\ running /\ running' = running
        /\ \A u \in Threads : u # Main => pc'[u] = pc[u]
    BY <1>4 DEF CloseRefused, Go, Holders, TypeOK
  <2> QED BY <1>4, <2>1, AccountHangup DEF CloseRefused, Holders
<1>5. CASE EnqueuePut
  BY <1>5, AccountPut
<1>6. CASE EnqueueLock \/ EnqueueRoom \/ EnqueueUnlock
  <2>1. /\ Holders' = Holders
        /\ \A t \in Holders :
             pc'[t] \in {"refuse", "close"} <=> pc[t] \in {"refuse", "close"}
    BY <1>6 DEF EnqueueLock, Lock, EnqueueRoom, EnqueueUnlock, Go, Holders, TypeOK
  <2> QED BY <1>6, <2>1, SameAccount DEF EnqueueLock, EnqueueRoom, EnqueueUnlock
<1>7. ASSUME NEW w \in Workers, WorkerStep(w) \/ SpuriousWakeup(w) PROVE Account'
  <2>1. CASE Dequeue(w)
    BY <2>1, AccountTake
  <2>2. CASE Close(w)
    <3>1. /\ w \in Holders /\ Holders' = Holders \ {w} /\ running /\ running' = running
          /\ \A u \in Threads : u # w => pc'[u] = pc[u]
      BY <2>2 DEF Close, Go, Holders, TypeOK
    <3> QED BY <2>2, <3>1, AccountHangup DEF Close, Holders
  <2>3. CASE Send(w)
    <3>1. /\ w \in Holders /\ Holders' = Holders /\ running /\ running' = running
          /\ pc'[w] = "close" /\ \A u \in Threads : u # w => pc'[u] = pc[u]
      BY <2>3 DEF Send, Go, Holders, TypeOK
    <3> QED BY <2>3, <3>1, AccountDecide DEF Send, Holders
  <2>4. CASE \/ WorkerLock(w) \/ Wait(w) \/ SomethingToDo(w) \/ WorkerUnlock(w)
             \/ SpuriousWakeup(w)
    <3>1. /\ Holders' = Holders
          /\ \A t \in Holders :
               pc'[t] \in {"refuse", "close"} <=> pc[t] \in {"refuse", "close"}
      BY <2>4 DEF WorkerLock, Lock, Wait, SomethingToDo, WorkerUnlock, SpuriousWakeup,
                  Go, Holders, TypeOK
    <3> QED BY <2>4, <3>1, SameAccount
        DEF WorkerLock, Wait, SomethingToDo, WorkerUnlock, SpuriousWakeup
  <2> QED BY <1>7, <2>1, <2>2, <2>3, <2>4 DEF WorkerStep
<1>8. CASE Interrupt
  BY <1>8 DEF Interrupt, Account
<1>9. CASE UNCHANGED vars
  <2>1. /\ Holders' = Holders /\ pc' = pc
        /\ UNCHANGED <<ring, fd, conn, client, outcome, running>>
    BY <1>9 DEF vars, Holders
  <2> QED BY <2>1, SameAccount
<1> QED BY <1>1, <1>2, <1>3, <1>4, <1>5, <1>6, <1>7, <1>8, <1>9 DEF Next, MainStep

\* The client a holder is about to decide is undecided; the one it is about to
\* hang up on is not.
LEMMA OneAnswerStep == IInv /\ Account /\ [Next]_vars => [OneAnswer]_vars
<1> SUFFICES ASSUME IInv, TypeOK, HeldOnce, Account, Next PROVE OneAnswer
  BY DEF IInv
<1> USE ThreadAssumption
<1>1. ASSUME NEW t \in Threads, running, pc[t] \in {"check", "send"}, NEW o,
             outcome' = [outcome EXCEPT ![conn[fd[t]]] = o], client' = client
      PROVE  OneAnswer
  <2>1. t \in Holders
    BY <1>1 DEF Holders
  <2>2. outcome[conn[fd[t]]] = "none"
    BY <1>1, <2>1 DEF Account
  <2> QED BY <1>1, <2>2 DEF OneAnswer, TypeOK
<1>2. ASSUME NEW t \in Threads, running, pc[t] \in {"refuse", "close"},
             Hangup(fd[t]), outcome' = outcome
      PROVE  OneAnswer
  <2>1. t \in Holders
    BY <1>2 DEF Holders
  <2>2. outcome[conn[fd[t]]] # "none"
    BY <1>2, <2>1 DEF Account
  <2> QED BY <1>2, <2>2 DEF Hangup, OneAnswer, TypeOK
<1>3. CASE EnqueueFull
  BY <1>1, <1>3 DEF EnqueueFull, Go
<1>4. CASE CloseRefused
  BY <1>2, <1>4 DEF CloseRefused, Go
<1>5. ASSUME NEW w \in Workers, Send(w) PROVE OneAnswer
  BY <1>1, <1>5 DEF Send, Go
<1>6. ASSUME NEW w \in Workers, Close(w) PROVE OneAnswer
  BY <1>2, <1>6 DEF Close, Go
<1>7. CASE Interrupt
  BY <1>7 DEF Interrupt, OneAnswer, TypeOK
<1>8. ASSUME outcome' = outcome,
             \A c \in Clients : client[c] = "open" => client'[c] = client[c]
      PROVE  OneAnswer
  BY <1>8 DEF OneAnswer
<1>9. ASSUME NEW c \in Clients, Connect(c) PROVE OneAnswer
  BY <1>8, <1>9 DEF Connect, TypeOK
<1>10. ASSUME NEW c \in Clients, NEW f \in Fds, Accept(c, f) PROVE OneAnswer
  BY <1>8, <1>10 DEF Accept, TypeOK
<1>11. CASE EnqueueLock \/ EnqueueRoom \/ EnqueuePut \/ EnqueueUnlock
  BY <1>8, <1>11 DEF EnqueueLock, EnqueueRoom, EnqueuePut, EnqueueUnlock
<1>12. ASSUME NEW w \in Workers,
              \/ WorkerLock(w) \/ Wait(w) \/ SomethingToDo(w) \/ Dequeue(w)
              \/ WorkerUnlock(w) \/ SpuriousWakeup(w)
       PROVE  OneAnswer
  BY <1>8, <1>12
  DEF WorkerLock, Wait, SomethingToDo, Dequeue, WorkerUnlock, SpuriousWakeup
<1> QED
  BY <1>3, <1>4, <1>5, <1>6, <1>7, <1>9, <1>10, <1>11, <1>12
  DEF Next, MainStep, WorkerStep

(* What a client got never changes, and nobody hangs up on an undecided one. *)
THEOREM AnsweredOnceCorrect == Spec => AnsweredOnce
<1>1. Init => IInv /\ Account
  BY TypeInit, CheckedInit, HeldInit, AccountInit DEF IInv
<1>2. IInv /\ Account /\ [Next]_vars => (IInv /\ Account)'
  BY TypeStep, CheckedStep, HeldStep, AccountStep DEF IInv
<1>3. IInv /\ Account /\ [Next]_vars => [OneAnswer]_vars
  BY OneAnswerStep
<1> QED BY <1>1, <1>2, <1>3, PTL DEF Spec, AnsweredOnce

--------------------------------------------------------------------------------
(* The refinement.  Each lemma below says what one action does to the line of *)
(* TimeService and to the status of its clients.                              *)

\* Nobody is hung up on undecided.
Settled ==
  running => \A c \in Clients : client[c] = "closed" => outcome[c] # "none"

RInv == IInv /\ Account /\ Settled

LEMMA SettledStep == IInv /\ Account /\ Settled /\ [Next]_vars => Settled'
<1> SUFFICES ASSUME IInv, TypeOK, Account, Settled, running', [Next]_vars
             PROVE  \A c \in Clients : client'[c] = "closed" => outcome'[c] # "none"
  BY DEF IInv, Settled
<1> USE ThreadAssumption
<1>1. ASSUME NEW t \in Threads, running, pc[t] \in {"refuse", "close"},
             Hangup(fd[t]), outcome' = outcome
      PROVE  \A c \in Clients : client'[c] = "closed" => outcome'[c] # "none"
  <2>1. outcome[conn[fd[t]]] # "none"
    BY <1>1 DEF Account, Holders
  <2> QED BY <1>1, <2>1 DEF Hangup, TypeOK, Settled
<1>2. CASE CloseRefused
  BY <1>1, <1>2 DEF CloseRefused, Go
<1>3. ASSUME NEW w \in Workers, Close(w)
      PROVE  \A c \in Clients : client'[c] = "closed" => outcome'[c] # "none"
  BY <1>1, <1>3 DEF Close, Go
<1>4. ASSUME running, client' = client,
             NEW d, NEW o \in {"refused", "answered", "failed"},
             outcome' = [outcome EXCEPT ![d] = o]
      PROVE  \A c \in Clients : client'[c] = "closed" => outcome'[c] # "none"
  BY <1>4 DEF Settled, TypeOK
<1>5. CASE EnqueueFull
  BY <1>4, <1>5 DEF EnqueueFull, Go
<1>6. ASSUME NEW w \in Workers, Send(w)
      PROVE  \A c \in Clients : client'[c] = "closed" => outcome'[c] # "none"
  BY <1>4, <1>6 DEF Send, Go
<1>7. ASSUME NEW c \in Clients, Connect(c)
      PROVE  \A d \in Clients : client'[d] = "closed" => outcome'[d] # "none"
  BY <1>7 DEF Connect, TypeOK, Settled
<1>8. ASSUME NEW c \in Clients, NEW f \in Fds, Accept(c, f)
      PROVE  \A d \in Clients : client'[d] = "closed" => outcome'[d] # "none"
  BY <1>8 DEF Accept, Go, TypeOK, Settled
<1>9. ASSUME running, UNCHANGED <<client, outcome>>
      PROVE  \A c \in Clients : client'[c] = "closed" => outcome'[c] # "none"
  BY <1>9 DEF Settled
<1>10. CASE EnqueueLock \/ EnqueueRoom \/ EnqueuePut \/ EnqueueUnlock
  BY <1>9, <1>10 DEF EnqueueLock, Lock, EnqueueRoom, EnqueuePut, EnqueueUnlock, Go
<1>11. ASSUME NEW w \in Workers,
              \/ WorkerLock(w) \/ Wait(w) \/ SomethingToDo(w) \/ Dequeue(w)
              \/ WorkerUnlock(w) \/ SpuriousWakeup(w)
       PROVE  \A c \in Clients : client'[c] = "closed" => outcome'[c] # "none"
  BY <1>9, <1>11
  DEF WorkerLock, Lock, Wait, SomethingToDo, Dequeue, WorkerUnlock, SpuriousWakeup, Go
<1>12. CASE Interrupt
  BY <1>12 DEF Interrupt
<1>13. CASE UNCHANGED vars
  BY <1>9, <1>13 DEF vars
<1> QED
  BY <1>2, <1>3, <1>5, <1>6, <1>7, <1>8, <1>10, <1>11, <1>12, <1>13
  DEF Next, MainStep, WorkerStep

--------------------------------------------------------------------------------
\* Place i of the line is in this slot of the ring.
SlotAt(i) == (front + i - 1) % MaxQueue

LEMMA Wrap ==
  ASSUME NEW x \in Nat, x < 2 * MaxQueue
  PROVE  x % MaxQueue = IF x < MaxQueue THEN x ELSE x - MaxQueue
<1>1. MaxQueue \in Nat /\ MaxQueue > 0
  BY MaxQueueAssumption
<1>2. CASE x < MaxQueue
  BY <1>1, <1>2
<1>3. CASE x >= MaxQueue
  <2>1. x = 1 * MaxQueue + (x - MaxQueue) /\ x - MaxQueue \in 0 .. MaxQueue - 1
    BY <1>1, <1>3
  <2> QED BY <1>1, <1>3, <2>1
<1> QED BY <1>1, <1>2, <1>3

\* Places in the line and live slots of the ring correspond one to one.
LEMMA Places ==
  ASSUME TypeOK
  PROVE  /\ \A i \in 1 .. count : SlotAt(i) \in LiveSlots
         /\ \A s \in LiveSlots : \E i \in 1 .. count : SlotAt(i) = s
<1>1. MaxQueue \in Nat \ {0} /\ front \in Slots /\ count \in 0 .. MaxQueue
  BY MaxQueueAssumption DEF TypeOK
<1>2. ASSUME NEW i \in 1 .. count
      PROVE  SlotAt(i) = IF front + i - 1 < MaxQueue
                         THEN front + i - 1 ELSE front + i - 1 - MaxQueue
  BY <1>1, <1>2, Wrap DEF SlotAt
<1>3. ASSUME NEW i \in 1 .. count PROVE SlotAt(i) \in LiveSlots
  BY <1>1, <1>2 DEF LiveSlots, Live
<1>4. ASSUME NEW s \in LiveSlots PROVE \E i \in 1 .. count : SlotAt(i) = s
  <2> DEFINE i == IF front <= s THEN s - front + 1 ELSE s - front + 1 + MaxQueue
  <2>1. i \in 1 .. count /\ s \in Slots
    BY <1>1 DEF LiveSlots, Live
  <2>2. SlotAt(i) = s
    BY <1>1, <1>2, <2>1
  <2> QED BY <2>1, <2>2
<1> QED BY <1>3, <1>4

\* Whether c stands in the line.
Queued(c) == \E i \in 1 .. count : Line[i] = c

LEMMA QueuedSlots ==
  ASSUME TypeOK, running, NEW c
  PROVE  Queued(c) <=> \E s \in LiveSlots : conn[queue[s]] = c
<1>1. \A i \in 1 .. count : Line[i] = conn[queue[SlotAt(i)]]
  BY DEF Line, SlotAt
<1> QED BY <1>1, Places DEF Queued

LEMMA LineType ==
  ASSUME TypeOK, HeldOnce, running
  PROVE  Line \in Seq(Clients) /\ Len(Line) = count
<1>1. count \in Nat
  BY MaxQueueAssumption DEF TypeOK
<1>2. \A i \in 1 .. count : conn[queue[SlotAt(i)]] \in Clients
  BY Places DEF HeldOnce, TypeOK
<1>3. Line = [i \in 1 .. count |-> conn[queue[SlotAt(i)]]]
  BY DEF Line, SlotAt
<1> QED BY <1>1, <1>2, <1>3

\* The ring and the connections in it stay as they are, and so does the line.
LEMMA SameLine ==
  ASSUME TypeOK, UNCHANGED <<ring, running>>,
         \A s \in LiveSlots : conn'[queue[s]] = conn[queue[s]]
  PROVE  Line' = Line /\ \A c : Queued(c)' <=> Queued(c)
<1>1. \A i \in 1 .. count : conn'[queue[SlotAt(i)]] = conn[queue[SlotAt(i)]]
  BY Places
<1>2. Line' = Line /\ count' = count
  BY <1>1 DEF Line, SlotAt, ring
<1> QED BY <1>2 DEF Queued

\* The status is a matter of these four.
LEMMA SameStatus ==
  ASSUME NEW c \in Clients, outcome'[c] = outcome[c],
         client'[c] = "away" <=> client[c] = "away",
         outcome[c] = "none" => (Served(c)' <=> Served(c)) /\ (Queued(c)' <=> Queued(c))
  PROVE  Status(c)' = Status(c)
<1>1. CASE outcome[c] # "none"
  BY <1>1 DEF Status
<1>2. CASE outcome[c] = "none"
  BY <1>2 DEF Status, Queued
<1> QED BY <1>1, <1>2

StatusOf == [c \in Clients |-> Status(c)]

\* One client moves on.
LEMMA OneMoves ==
  ASSUME NEW c \in Clients, NEW to, Status(c)' = to,
         \A d \in Clients \ {c} : Status(d)' = Status(d)
  PROVE  StatusOf' = [StatusOf EXCEPT ![c] = to]
BY DEF StatusOf

\* Somebody serves c, or c is in line, only while c has an open connection.
LEMMA Elsewhere ==
  ASSUME RInv, running, NEW c \in Clients, client[c] # "open"
  PROVE  ~Served(c) /\ ~Queued(c)
<1>1. TypeOK /\ HeldOnce /\ Account
  BY DEF RInv, IInv
<1>2. ~Served(c)
  <2> SUFFICES ASSUME NEW w \in Workers, pc[w] \in {"taken", "send"}, conn[fd[w]] = c
               PROVE  FALSE
    BY DEF Served
  <2>1. fd[w] \in Fds /\ conn[fd[w]] # None
    BY <1>1 DEF HeldOnce, Holders
  <2> QED BY <1>1, <2>1 DEF Account
<1>3. ~Queued(c)
  <2> SUFFICES ASSUME NEW s \in LiveSlots, conn[queue[s]] = c PROVE FALSE
    BY <1>1, QueuedSlots
  <2>1. queue[s] \in Fds /\ conn[queue[s]] # None
    BY <1>1 DEF HeldOnce
  <2> QED BY <1>1, <2>1 DEF Account
<1> QED BY <1>2, <1>3

\* The client whose connection main holds is neither served nor in line.
LEMMA AtTheDoor ==
  ASSUME RInv, running, Main \in Holders
  PROVE  LET d == conn[fd[Main]]
         IN  /\ d \in Clients /\ ~Served(d) /\ ~Queued(d)
             /\ client[d] = "open"
<1> DEFINE d == conn[fd[Main]]
<1>1. TypeOK /\ HeldOnce /\ Account
  BY DEF RInv, IInv
<1>2. fd[Main] \in Fds /\ d # None /\ d \in Clients /\ client[d] = "open"
  BY <1>1 DEF HeldOnce, TypeOK, Account
<1>3. ~Served(d)
  <2> SUFFICES ASSUME NEW w \in Workers, pc[w] \in {"taken", "send"}, conn[fd[w]] = d
               PROVE  FALSE
    BY DEF Served
  <2>1. fd[w] \in Fds /\ fd[w] # fd[Main]
    BY <1>1, ThreadAssumption DEF HeldOnce, Holders
  <2> QED BY <1>1, <1>2, <2>1 DEF Account
<1>4. ~Queued(d)
  <2> SUFFICES ASSUME NEW s \in LiveSlots, conn[queue[s]] = d PROVE FALSE
    BY <1>1, QueuedSlots
  <2>1. queue[s] \in Fds /\ queue[s] # fd[Main]
    BY <1>1 DEF HeldOnce
  <2> QED BY <1>1, <1>2, <2>1 DEF Account
<1> QED BY <1>2, <1>3, <1>4

--------------------------------------------------------------------------------
\* Nothing anybody outside could see.
LEMMA Unseen ==
  ASSUME TypeOK, running, UNCHANGED <<ring, fd, conn, client, outcome, running>>,
         \A w \in Workers :
            pc'[w] \in {"taken", "send"} <=> pc[w] \in {"taken", "send"}
  PROVE  UNCHANGED <<Line, StatusOf, running>>
<1>1. Line' = Line /\ \A c : Queued(c)' <=> Queued(c)
  BY SameLine
<1>2. \A c : Served(c)' <=> Served(c)
  BY DEF Served
<1>3. \A c \in Clients : Status(c)' = Status(c)
  BY <1>1, <1>2, SameStatus
<1> QED BY <1>1, <1>3 DEF StatusOf

LEMMA ConnectArrives ==
  ASSUME RInv, NEW c \in Clients, Connect(c)
  PROVE  Service!Arrive(c)
<1>1. TypeOK /\ Account
  BY DEF RInv, IInv
<1>2. /\ running /\ client[c] = "away" /\ outcome[c] = "none"
      /\ ~Served(c) /\ ~Queued(c)
  BY <1>1, Elsewhere DEF Connect, Account
<1>3. Line' = Line /\ \A d : Queued(d)' <=> Queued(d)
  BY <1>1, SameLine DEF Connect
<1>4. \A d : Served(d)' <=> Served(d)
  BY DEF Served, Connect
<1>5. Status(c) = "new" /\ Status(c)' = "arrived"
  BY <1>1, <1>2, <1>3, <1>4 DEF Connect, Status, Queued, TypeOK
<1>6. \A d \in Clients \ {c} : Status(d)' = Status(d)
  BY <1>1, <1>3, <1>4, SameStatus DEF Connect, TypeOK
<1>7. StatusOf' = [StatusOf EXCEPT ![c] = "arrived"]
  BY <1>5, <1>6, OneMoves
<1> QED BY <1>2, <1>3, <1>5, <1>7 DEF Service!Arrive, StatusOf, Connect

\* Main has the connection, but that shows nowhere yet.
LEMMA AcceptUnseen ==
  ASSUME RInv, NEW c \in Clients, NEW f \in Fds, Accept(c, f)
  PROVE  UNCHANGED <<Line, StatusOf, running>>
<1>1. TypeOK /\ HeldOnce
  BY DEF RInv, IInv
<1>2. running /\ running' = running /\ conn[f] = None
  BY DEF Accept, Go
<1>3. \A g \in Fds : conn[g] # None => conn'[g] = conn[g]
  BY <1>1, <1>2 DEF Accept, TypeOK
<1>4. \A s \in LiveSlots : conn'[queue[s]] = conn[queue[s]]
  BY <1>1, <1>2, <1>3 DEF HeldOnce
<1>5. Line' = Line /\ \A d : Queued(d)' <=> Queued(d)
  BY <1>1, <1>2, <1>4, SameLine DEF Accept
<1>6. ASSUME NEW w \in Workers
      PROVE  /\ pc'[w] = pc[w] /\ fd'[w] = fd[w]
             /\ pc[w] \in {"taken", "send"} => conn'[fd[w]] = conn[fd[w]]
  BY <1>1, <1>2, <1>3, ThreadAssumption DEF Accept, Go, TypeOK, HeldOnce, Holders
<1>7. \A d : Served(d)' <=> Served(d)
  BY <1>6 DEF Served
<1>8. \A d \in Clients : Status(d)' = Status(d)
  BY <1>1, <1>5, <1>7, SameStatus DEF Accept, TypeOK
<1> QED BY <1>2, <1>5, <1>8 DEF StatusOf

LEMMA FullRefuses ==
  ASSUME RInv, EnqueueFull
  PROVE  conn[fd[Main]] \in Clients /\ Service!Refuse(conn[fd[Main]])
<1>1. TypeOK /\ HeldOnce /\ Account
  BY DEF RInv, IInv
<1>2. running /\ running' = running /\ Main \in Holders /\ pc[Main] = "check"
  BY DEF EnqueueFull, Go, Holders
<1>3. PICK d \in Clients : /\ d = conn[fd[Main]] /\ ~Served(d) /\ ~Queued(d)
                           /\ client[d] = "open"
  BY <1>2, AtTheDoor
<1>4. outcome[d] = "none"
  BY <1>1, <1>2, <1>3 DEF Account
<1>5. Line' = Line /\ \A c : Queued(c)' <=> Queued(c)
  BY <1>1, <1>2, SameLine DEF EnqueueFull
<1>6. \A w \in Workers : pc'[w] = pc[w]
  BY <1>1, ThreadAssumption DEF EnqueueFull, Go, TypeOK
<1>7. \A c : Served(c)' <=> Served(c)
  BY <1>6 DEF Served, EnqueueFull
<1>8. outcome' = [outcome EXCEPT ![d] = "refused"]
  BY <1>3 DEF EnqueueFull
<1>9. Status(d) = "arrived"
  BY <1>3, <1>4 DEF Status, Queued
<1>10. Status(d)' = "refused"
  BY <1>1, <1>3, <1>8 DEF Status, TypeOK
<1>11. \A c \in Clients \ {d} : Status(c)' = Status(c)
  BY <1>1, <1>5, <1>7, <1>8, SameStatus DEF EnqueueFull, TypeOK
<1>12. StatusOf' = [StatusOf EXCEPT ![d] = "refused"]
  BY <1>3, <1>10, <1>11, OneMoves
<1>13. Len(Line) = MaxQueue
  BY <1>1, <1>2, LineType, MaxQueueAssumption DEF EnqueueFull, Full, TypeOK
<1>14. Service!Refuse(d)
  BY <1>2, <1>3, <1>5, <1>9, <1>12, <1>13 DEF Service!Refuse, StatusOf
<1> QED BY <1>3, <1>14

\* A client already decided loses its connection, and nobody else does.
LEMMA HangupUnseen ==
  ASSUME RInv, running, running' = running, UNCHANGED <<ring, fd, outcome>>,
         NEW t \in Holders, pc[t] \in {"refuse", "close"}, Hangup(fd[t]),
         pc'[t] \notin {"taken", "send"},
         \A u \in Threads : u # t => pc'[u] = pc[u]
  PROVE  UNCHANGED <<Line, StatusOf, running>>
<1>1. TypeOK /\ HeldOnce /\ Account
  BY DEF RInv, IInv
<1>2. \A g \in Fds : g # fd[t] => conn'[g] = conn[g]
  BY <1>1 DEF Hangup, TypeOK
<1>3. \A s \in LiveSlots : conn'[queue[s]] = conn[queue[s]]
  BY <1>1, <1>2 DEF HeldOnce
<1>4. Line' = Line /\ \A c : Queued(c)' <=> Queued(c)
  BY <1>1, <1>3, SameLine
<1>5. ASSUME NEW w \in Workers
      PROVE  /\ pc'[w] \in {"taken", "send"} <=> pc[w] \in {"taken", "send"}
             /\ pc[w] \in {"taken", "send"} => conn'[fd[w]] = conn[fd[w]]
  <2>1. CASE w = t
    BY <2>1
  <2>2. CASE w # t
    <3>1. pc'[w] = pc[w]
      BY <2>2
    <3>2. pc[w] \in {"taken", "send"} => fd[w] \in Fds /\ fd[w] # fd[t]
      BY <1>1, <2>2 DEF HeldOnce, Holders
    <3> QED BY <1>2, <3>1, <3>2
  <2> QED BY <2>1, <2>2
<1>6. \A c : Served(c)' <=> Served(c)
  BY <1>5 DEF Served
<1>7. \A c \in Clients : client'[c] = client[c] \/ (c = conn[fd[t]] /\ client'[c] = "closed")
  BY <1>1 DEF Hangup, TypeOK
<1>8. client[conn[fd[t]]] = "open"
  BY <1>1 DEF Account, HeldOnce
<1>9. \A c \in Clients : Status(c)' = Status(c)
  BY <1>4, <1>6, <1>7, <1>8, SameStatus
<1> QED BY <1>4, <1>9 DEF StatusOf

LEMMA SendFinishes ==
  ASSUME RInv, NEW w \in Workers, Send(w)
  PROVE  conn[fd[w]] \in Clients /\ Service!Finish(conn[fd[w]])
<1>1. TypeOK /\ HeldOnce /\ Account
  BY DEF RInv, IInv
<1>2. /\ running /\ running' = running /\ w \in Holders /\ pc[w] = "send"
      /\ pc'[w] = "close"
  BY <1>1 DEF Send, Go, Holders, TypeOK
<1>3. PICK d \in Clients : /\ d = conn[fd[w]] /\ d # None /\ client[d] = "open"
                           /\ fd[w] \in Fds
  BY <1>1, <1>2 DEF HeldOnce, TypeOK, Account
<1>4. outcome[d] = "none"
  BY <1>1, <1>2, <1>3 DEF Account
<1>5. Line' = Line /\ \A c : Queued(c)' <=> Queued(c)
  BY <1>1, <1>2, SameLine DEF Send
<1>6. \A u \in Workers \ {w} : pc'[u] = pc[u]
  BY <1>1, ThreadAssumption DEF Send, Go, TypeOK
<1>7. \A c : c # d => (Served(c)' <=> Served(c))
  BY <1>2, <1>3, <1>6 DEF Served, Send
<1>8. PICK o \in {"answered", "failed"} : outcome' = [outcome EXCEPT ![d] = o]
  BY <1>3 DEF Send
<1>9. Served(d)
  BY <1>2, <1>3 DEF Served
<1>10. Status(d) = "serving"
  BY <1>3, <1>4, <1>9 DEF Status
<1>11. Status(d)' = "served"
  BY <1>1, <1>3, <1>8 DEF Status, TypeOK
<1>12. \A c \in Clients \ {d} : Status(c)' = Status(c)
  BY <1>1, <1>5, <1>7, <1>8, SameStatus DEF Send, TypeOK
<1>13. StatusOf' = [StatusOf EXCEPT ![d] = "served"]
  BY <1>3, <1>11, <1>12, OneMoves
<1>14. Service!Finish(d)
  BY <1>2, <1>3, <1>5, <1>10, <1>13 DEF Service!Finish, StatusOf
<1> QED BY <1>3, <1>14

\* SIGINT cuts whoever came and was not decided.
LEMMA InterruptStops ==
  ASSUME RInv, Interrupt
  PROVE  Service!Shutdown
<1>1. TypeOK /\ Account /\ Settled
  BY DEF RInv, IInv
<1>2. running /\ ~running' /\ Line' = <<>>
  BY DEF Interrupt, Line
<1>3. ASSUME NEW c \in Clients
      PROVE  Status(c)' = IF Status(c) \in {"arrived", "queued", "serving"}
                          THEN "cut" ELSE Status(c)
  <2>0. outcome[c] \in Outcomes /\ client[c] \in {"away", "backlog", "open", "closed"}
    BY <1>1 DEF TypeOK
  <2>1. CASE outcome[c] # "none"
    BY <2>0, <2>1 DEF Interrupt, Status, Outcomes
  <2>2. CASE client[c] = "away"
    BY <1>1, <1>2, <2>2 DEF Interrupt, Status, Account
  <2>3. CASE client[c] \in {"backlog", "open"} /\ outcome[c] = "none"
    BY <2>3 DEF Interrupt, Status
  <2> QED BY <1>1, <1>2, <2>0, <2>1, <2>2, <2>3 DEF Settled
<1>4. StatusOf' = [c \in Clients |-> IF StatusOf[c] \in {"arrived", "queued", "serving"}
                                      THEN "cut" ELSE StatusOf[c]]
  BY <1>3 DEF StatusOf
<1> QED BY <1>2, <1>4 DEF Service!Shutdown, StatusOf

--------------------------------------------------------------------------------
\* A put appends to the line.
LEMMA LinePut ==
  ASSUME TypeOK, CheckedHolds, RingClosed, HeldOnce, EnqueuePut
  PROVE  /\ Line' = Append(Line, conn[fd[Main]])
         /\ \A c : Queued(c)' <=> Queued(c) \/ c = conn[fd[Main]]
<1>1. /\ running /\ running' = running /\ front' = front /\ count' = count + 1
      /\ conn' = conn /\ queue' = [queue EXCEPT ![back] = fd[Main]]
  BY DEF EnqueuePut
<1>2. /\ MaxQueue \in Nat \ {0} /\ front \in Slots /\ back \in Slots
      /\ count \in 0 .. MaxQueue /\ count < MaxQueue
  BY MaxQueueAssumption DEF TypeOK, CheckedHolds, EnqueuePut
<1>3. SlotAt(count + 1) = back
  BY <1>2, Wrap DEF SlotAt, RingClosed
<1>4. back \notin LiveSlots
  BY PutSlot
<1>5. \A i \in 1 .. count : SlotAt(i) \in LiveSlots
  BY Places
<1>6. \A s \in LiveSlots : queue'[s] = queue[s]
  BY <1>1, <1>4 DEF TypeOK, LiveSlots
<1>7. queue'[back] = fd[Main]
  BY <1>1, <1>2 DEF TypeOK
<1>8. Line = [i \in 1 .. count |-> conn[queue[SlotAt(i)]]]
  BY <1>1 DEF Line, SlotAt
<1>9. Line' = [i \in 1 .. count + 1 |-> conn[queue'[SlotAt(i)]]]
  BY <1>1 DEF Line, SlotAt
<1> HIDE DEF Slots
<1>10. Line' = [i \in 1 .. count + 1 |->
                  IF i = count + 1 THEN conn[fd[Main]] ELSE conn[queue[SlotAt(i)]]]
  <2>1. ASSUME NEW i \in 1 .. count + 1
        PROVE  conn[queue'[SlotAt(i)]] =
                 IF i = count + 1 THEN conn[fd[Main]] ELSE conn[queue[SlotAt(i)]]
    <3>1. CASE i = count + 1
      BY <3>1, <1>3, <1>7
    <3>2. CASE i # count + 1
      <4>1. i \in 1 .. count
        BY <1>2, <3>2
      <4> QED BY <3>2, <4>1, <1>5, <1>6
    <3> QED BY <3>1, <3>2
  <2> QED BY <1>9, <2>1
<1>11. Line \in Seq(Clients) /\ Len(Line) = count
  BY <1>1, LineType
<1>12. Line' = Append(Line, conn[fd[Main]])
  <2>1. Append(Line, conn[fd[Main]]) =
          [i \in 1 .. count + 1 |-> IF i = count + 1 THEN conn[fd[Main]] ELSE Line[i]]
    BY <1>11
  <2>2. ASSUME NEW i \in 1 .. count + 1
        PROVE  (IF i = count + 1 THEN conn[fd[Main]] ELSE conn[queue[SlotAt(i)]])
                 = (IF i = count + 1 THEN conn[fd[Main]] ELSE Line[i])
    BY <1>2, <1>8
  <2> QED BY <1>10, <2>1, <2>2
<1>13. ASSUME NEW c PROVE Queued(c)' <=> Queued(c) \/ c = conn[fd[Main]]
  <2>1. \A i \in 1 .. count : i \in 1 .. count + 1 /\ i # count + 1 /\ Line'[i] = Line[i]
    BY <1>2, <1>8, <1>10
  <2>2. count + 1 \in 1 .. count + 1 /\ Line'[count + 1] = conn[fd[Main]]
    BY <1>2, <1>10
  <2>3. \A i \in 1 .. count + 1 : i \in 1 .. count \/ i = count + 1
    BY <1>2
  <2> QED BY <1>1, <2>1, <2>2, <2>3 DEF Queued
<1> QED BY <1>12, <1>13

\* Taking removes the first of the line.
LEMMA LineTake ==
  ASSUME TypeOK, CheckedHolds, HeldOnce, NEW w \in Workers, Dequeue(w)
  PROVE  /\ Line # <<>> /\ Head(Line) = conn[queue[front]] /\ Line' = Tail(Line)
         /\ front \in LiveSlots
         /\ \A c : c # conn[queue[front]] => (Queued(c)' <=> Queued(c))
<1>1. /\ running /\ running' = running /\ front' = (front + 1) % MaxQueue
      /\ count' = count - 1 /\ conn' = conn /\ queue' = queue
  BY DEF Dequeue, Go
<1>2. /\ MaxQueue \in Nat \ {0} /\ front \in Slots
      /\ count \in 0 .. MaxQueue /\ count > 0
  BY MaxQueueAssumption DEF TypeOK, CheckedHolds, Dequeue, Go
<1>3. SlotAt(1) = front
  BY <1>2, Wrap DEF SlotAt
<1>4. ASSUME NEW i \in 1 .. count - 1 PROVE SlotAt(i)' = SlotAt(i + 1)
  <2>1. front' = IF front + 1 = MaxQueue THEN 0 ELSE front + 1
    BY <1>1, <1>2, Advance
  <2>2. front' + i - 1 \in Nat /\ front' + i - 1 < 2 * MaxQueue
    BY <1>2, <2>1
  <2>3. SlotAt(i)' = IF front' + i - 1 < MaxQueue
                     THEN front' + i - 1 ELSE front' + i - 1 - MaxQueue
    <3>1. SlotAt(i)' = (front' + i - 1) % MaxQueue
      BY DEF SlotAt
    <3> QED BY <1>2, <2>1, <2>2, <3>1, Wrap
  <2>4. SlotAt(i + 1) = IF front + i < MaxQueue THEN front + i ELSE front + i - MaxQueue
    BY <1>2, Wrap DEF SlotAt
  <2> QED BY <1>2, <2>1, <2>3, <2>4
<1>5. Line = [i \in 1 .. count |-> conn[queue[SlotAt(i)]]]
  BY <1>1 DEF Line, SlotAt
<1>6. Line' = [i \in 1 .. count - 1 |-> conn[queue[SlotAt(i)']]]
  BY <1>1 DEF Line, SlotAt
<1>7. Line \in Seq(Clients) /\ Len(Line) = count
  BY <1>1, LineType
<1>8. Line # <<>> /\ Head(Line) = Line[1]
  BY <1>2, <1>7
<1>9. Tail(Line) = [i \in 1 .. count - 1 |-> Line[i + 1]]
  <2>1. /\ Tail(Line) \in Seq(Clients) /\ Len(Tail(Line)) = count - 1
        /\ \A i \in 1 .. count - 1 : Tail(Line)[i] = Line[i + 1]
    BY <1>7, <1>8, HeadTailProperties
  <2>2. Tail(Line) = [i \in 1 .. count - 1 |-> Tail(Line)[i]]
    <3>1. DOMAIN Tail(Line) = 1 .. count - 1
      BY <2>1
    <3>2. \A f : f \in Seq(Clients) => f = [i \in DOMAIN f |-> f[i]]
      OBVIOUS
    <3> QED BY <2>1, <3>1, <3>2
  <2> QED BY <2>1, <2>2
<1>10. \A i \in 1 .. count - 1 : i + 1 \in 1 .. count
  BY <1>2
<1>11. Line' = Tail(Line)
  BY <1>4, <1>5, <1>6, <1>9, <1>10
<1>12. Head(Line) = conn[queue[front]]
  BY <1>2, <1>3, <1>5, <1>8
<1>13. ASSUME NEW c, c # conn[queue[front]] PROVE Queued(c)' <=> Queued(c)
  <2>1. Line[1] # c
    BY <1>8, <1>12, <1>13
  <2>2. \A i \in 1 .. count - 1 : Line'[i] = Line[i + 1]
    BY <1>9, <1>11
  <2>3. \A i \in 1 .. count : i # 1 => i - 1 \in 1 .. count - 1 /\ i - 1 + 1 = i
    BY <1>2
  <2>4. Queued(c) => Queued(c)'
    BY <1>1, <2>1, <2>2, <2>3 DEF Queued
  <2>5. Queued(c)' => Queued(c)
    BY <1>1, <1>10, <2>2 DEF Queued
  <2> QED BY <2>4, <2>5
<1>14. front \in LiveSlots
  BY <1>2, <1>3, Places
<1> QED BY <1>8, <1>11, <1>12, <1>13, <1>14

LEMMA PutJoins ==
  ASSUME RInv, EnqueuePut
  PROVE  conn[fd[Main]] \in Clients /\ Service!Join(conn[fd[Main]])
<1>1. TypeOK /\ CheckedHolds /\ RingClosed /\ HeldOnce /\ Account
  BY DEF RInv, IInv
<1>2. running /\ running' = running /\ Main \in Holders /\ pc[Main] = "put"
  BY DEF EnqueuePut, Holders
<1>3. PICK d \in Clients : /\ d = conn[fd[Main]] /\ ~Served(d) /\ ~Queued(d)
                           /\ client[d] = "open"
  BY <1>2, AtTheDoor
<1>4. outcome[d] = "none"
  BY <1>1, <1>2, <1>3 DEF Account
<1>5. /\ Line' = Append(Line, d)
      /\ \A c : Queued(c)' <=> Queued(c) \/ c = d
  BY <1>1, <1>3, LinePut
<1>6. \A w \in Workers : pc'[w] \in {"taken", "send"} <=> pc[w] \in {"taken", "send"}
  BY <1>1, ThreadAssumption DEF EnqueuePut, Signal, Sleeping, TypeOK
<1>7. \A c : Served(c)' <=> Served(c)
  BY <1>6 DEF Served, EnqueuePut
<1>8. outcome' = outcome /\ client' = client
  BY DEF EnqueuePut
<1>9. Status(d) = "arrived"
  BY <1>3, <1>4 DEF Status, Queued
<1>10. Status(d)' = "queued"
  BY <1>3, <1>4, <1>5, <1>7, <1>8 DEF Status, Queued
<1>11. \A c \in Clients \ {d} : Status(c)' = Status(c)
  BY <1>5, <1>7, <1>8, SameStatus
<1>12. StatusOf' = [StatusOf EXCEPT ![d] = "queued"]
  BY <1>10, <1>11, OneMoves
<1>13. Len(Line) < MaxQueue
  BY <1>1, <1>2, LineType DEF CheckedHolds
<1>14. Service!Join(d)
  BY <1>2, <1>5, <1>9, <1>12, <1>13 DEF Service!Join, StatusOf
<1> QED BY <1>3, <1>14

LEMMA DequeueTakes ==
  ASSUME RInv, NEW w \in Workers, Dequeue(w)
  PROVE  Service!Take
<1>1. TypeOK /\ CheckedHolds /\ RingClosed /\ HeldOnce /\ Account
  BY DEF RInv, IInv
<1>2. /\ running /\ running' = running /\ pc[w] = "take" /\ pc'[w] = "taken"
      /\ fd'[w] = queue[front]
  BY <1>1 DEF Dequeue, Go, TypeOK
<1>3. /\ Line # <<>> /\ Head(Line) = conn[queue[front]] /\ Line' = Tail(Line)
      /\ front \in LiveSlots
      /\ \A c : c # conn[queue[front]] => (Queued(c)' <=> Queued(c))
  BY <1>1, LineTake
<1>4. PICK d \in Clients : d = conn[queue[front]] /\ client[d] = "open" /\ outcome[d] = "none"
  BY <1>1, <1>2, <1>3 DEF HeldOnce, Account, TypeOK
<1>5. outcome' = outcome /\ client' = client /\ conn' = conn
  BY DEF Dequeue
<1>6. \A u \in Workers \ {w} : pc'[u] = pc[u] /\ fd'[u] = fd[u]
  BY <1>1 DEF Dequeue, Go, TypeOK
<1>7. Served(d)' /\ \A c : c # d => (Served(c)' <=> Served(c))
  BY <1>2, <1>4, <1>5, <1>6 DEF Served
<1>8. Status(d)' = "serving"
  BY <1>4, <1>5, <1>7 DEF Status
<1>9. \A c \in Clients \ {d} : Status(c)' = Status(c)
  BY <1>3, <1>4, <1>5, <1>7, SameStatus
<1>10. StatusOf' = [StatusOf EXCEPT ![d] = "serving"]
  BY <1>8, <1>9, OneMoves
<1>11. Head(Line) = d
  BY <1>3, <1>4
<1> QED BY <1>2, <1>3, <1>10, <1>11 DEF Service!Take, StatusOf

--------------------------------------------------------------------------------
LEMMA ServiceInit == Init => Service!Init
<1> SUFFICES ASSUME Init PROVE Service!Init
  OBVIOUS
<1>1. Line = <<>> /\ running
  BY DEF Init, Line
<1>2. ASSUME NEW c \in Clients PROVE Status(c) = "new"
  BY DEF Init, Status
<1> QED BY <1>1, <1>2 DEF Service!Init

LEMMA ServiceStep == RInv /\ [Next]_vars => [Service!Next]_(Service!vars)
<1> SUFFICES ASSUME RInv, TypeOK, [Next]_vars
             PROVE  Service!Next \/ UNCHANGED <<Line, StatusOf, running>>
  BY DEF RInv, IInv, Service!vars, StatusOf
<1> USE ThreadAssumption
<1>1. ASSUME NEW c \in Clients, Connect(c) PROVE Service!Next
  BY <1>1, ConnectArrives DEF Service!Next
<1>2. ASSUME NEW c \in Clients, NEW f \in Fds, Accept(c, f)
      PROVE  UNCHANGED <<Line, StatusOf, running>>
  BY <1>2, AcceptUnseen
<1>3. CASE EnqueueFull
  BY <1>3, FullRefuses DEF Service!Next
<1>4. CASE EnqueuePut
  BY <1>4, PutJoins DEF Service!Next
<1>5. CASE CloseRefused
  <2>1. /\ running /\ running' = running /\ Main \in Holders /\ pc[Main] = "refuse"
        /\ pc'[Main] = "accept" /\ \A u \in Threads : u # Main => pc'[u] = pc[u]
    BY <1>5 DEF CloseRefused, Go, Holders, TypeOK
  <2> QED BY <1>5, <2>1, HangupUnseen DEF CloseRefused
<1>6. CASE EnqueueLock \/ EnqueueRoom \/ EnqueueUnlock
  <2>1. /\ running
        /\ \A w \in Workers : pc'[w] \in {"taken", "send"} <=> pc[w] \in {"taken", "send"}
    BY <1>6 DEF EnqueueLock, Lock, EnqueueRoom, EnqueueUnlock, Go, TypeOK
  <2> QED BY <1>6, <2>1, Unseen DEF EnqueueLock, EnqueueRoom, EnqueueUnlock
<1>7. ASSUME NEW w \in Workers, Dequeue(w) PROVE Service!Next
  BY <1>7, DequeueTakes DEF Service!Next
<1>8. ASSUME NEW w \in Workers, Send(w) PROVE Service!Next
  BY <1>8, SendFinishes DEF Service!Next
<1>9. ASSUME NEW w \in Workers, Close(w)
      PROVE  UNCHANGED <<Line, StatusOf, running>>
  <2>1. /\ running /\ running' = running /\ w \in Holders /\ pc[w] = "close"
        /\ pc'[w] = "idle" /\ \A u \in Threads : u # w => pc'[u] = pc[u]
    BY <1>9 DEF Close, Go, Holders, TypeOK
  <2> QED BY <1>9, <2>1, HangupUnseen DEF Close
<1>10. ASSUME NEW w \in Workers,
              \/ WorkerLock(w) \/ Wait(w) \/ SomethingToDo(w) \/ WorkerUnlock(w)
              \/ SpuriousWakeup(w)
       PROVE  UNCHANGED <<Line, StatusOf, running>>
  <2>1. /\ running
        /\ \A u \in Workers : pc'[u] \in {"taken", "send"} <=> pc[u] \in {"taken", "send"}
    BY <1>10 DEF WorkerLock, Lock, Wait, SomethingToDo, WorkerUnlock, SpuriousWakeup,
                 Go, TypeOK
  <2> QED BY <1>10, <2>1, Unseen
      DEF WorkerLock, Wait, SomethingToDo, WorkerUnlock, SpuriousWakeup
<1>11. CASE Interrupt
  BY <1>11, InterruptStops DEF Service!Next
<1>12. CASE UNCHANGED vars
  BY <1>12 DEF vars, ring, Line, StatusOf, Status, Served
<1> QED
  BY <1>1, <1>2, <1>3, <1>4, <1>5, <1>6, <1>7, <1>8, <1>9, <1>10, <1>11, <1>12
  DEF Next, MainStep, WorkerStep

(* Threads, ring and descriptors implement the bounded line of TimeService:
   clients are served in the order they were put in the ring, each once, and
   refused only while it is full. *)
THEOREM ImplementsServiceCorrect == Spec => ImplementsService
<1>1. Init => RInv
  BY TypeInit, CheckedInit, HeldInit, AccountInit DEF RInv, IInv, Settled, Init
<1>2. RInv /\ [Next]_vars => RInv'
  BY TypeStep, CheckedStep, HeldStep, AccountStep, SettledStep DEF RInv, IInv
<1>3. Init => Service!Init
  BY ServiceInit
<1>4. RInv /\ [Next]_vars => [Service!Next]_(Service!vars)
  BY ServiceStep
<1> QED BY <1>1, <1>2, <1>3, <1>4, PTL DEF Spec, ImplementsService, Service!Spec
================================================================================
