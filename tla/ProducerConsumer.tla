--------------------------- MODULE ProducerConsumer ----------------------------
(***************************************************************************)
(* Sockets/Task_2/Producer_Consumer/server.c: the main thread accepts      *)
(* connections and puts their descriptors in a ring buffer; ten workers    *)
(* take them out, send the time and close them.  One mutex guards the ring *)
(* (queue, front, back, count), one condition variable wakes workers that  *)
(* found it empty.  A thread's pc names the next thing it does.            *)
(***************************************************************************)
EXTENDS Integers, Sequences, FiniteSets

CONSTANTS
  Workers,     \* the threads running serve_clients
  Main,        \* the thread running main
  Clients,     \* the connections that may be made
  Fds,         \* the descriptors accept() can return
  MaxQueue,    \* MAX_QUEUE
  MaxSpurious, \* bound: spurious returns of pthread_cond_wait
  None         \* no thread, no descriptor, no client

ASSUME MaxQueueAssumption == MaxQueue \in Nat \ {0}
ASSUME ThreadAssumption == Main \notin Workers /\ IsFiniteSet(Workers)
ASSUME SpuriousAssumption == MaxSpurious \in Nat
ASSUME NoneAssumption == None \notin Workers \cup {Main} \cup Clients \cup Fds

VARIABLES
  queue,     \* queue[MAX_QUEUE], slot -> descriptor (None: never written)
  front,     \* next slot to take
  back,      \* next slot to fill
  count,     \* slots in use
  mutex,     \* the thread holding mutex
  pc,        \* where each thread is
  fd,        \* client_fd of each thread
  conn,      \* kernel: the connection behind each descriptor
  client,    \* kernel: "away", "backlog" (connected, not accepted), "open", "closed"
  outcome,   \* what each client got: "none" (so far), "answered", "failed", "refused", "cut"
  spurious,  \* spurious wakeups so far
  running    \* the process has not been interrupted

ring == <<queue, front, back, count>>
vars == <<ring, mutex, pc, fd, conn, client, outcome, spurious, running>>

Threads == Workers \cup {Main}
Slots == 0 .. MaxQueue - 1

Init ==
  /\ queue = [s \in Slots |-> None]
  /\ front = 0 /\ back = 0 /\ count = 0
  /\ mutex = None
  /\ pc = [t \in Threads |-> IF t = Main THEN "accept" ELSE "idle"]
  /\ fd = [t \in Threads |-> None]
  /\ conn = [f \in Fds |-> None]
  /\ client = [c \in Clients |-> "away"]
  /\ outcome = [c \in Clients |-> "none"]
  /\ spurious = 0
  /\ running = TRUE

--------------------------------------------------------------------------------
\* Thread t leaves `from` for `to`.
Go(t, from, to) ==
  /\ running
  /\ pc[t] = from
  /\ pc' = [pc EXCEPT ![t] = to]

\* A mistake: the lock is taken whoever holds it.
LockHeld(t, from, to) ==
  /\ Go(t, from, to)
  /\ mutex' = t

Lock(t, from, to) ==
  /\ Go(t, from, to)
  /\ mutex = None
  /\ mutex' = t

\* close(): the kernel frees the descriptor and the client sees end of file.
Hangup(f) ==
  /\ conn' = [conn EXCEPT ![f] = None]
  /\ client' = [client EXCEPT ![conn[f]] = "closed"]

--------------------------------------------------------------------------------
(* A client connects; until accepted it waits in the listen backlog. *)
Connect(c) ==
  /\ running
  /\ client[c] = "away"
  /\ client' = [client EXCEPT ![c] = "backlog"]
  /\ UNCHANGED <<ring, mutex, pc, fd, conn, outcome, spurious, running>>

(* Main thread: accept() returns some descriptor that is not in use. With no
   descriptor left it fails and the loop calls it again, changing nothing. *)
Accept(c, f) ==
  /\ Go(Main, "accept", "lock")
  /\ client[c] = "backlog"
  /\ conn[f] = None
  /\ client' = [client EXCEPT ![c] = "open"]
  /\ conn' = [conn EXCEPT ![f] = c]
  /\ fd' = [fd EXCEPT ![Main] = f]
  /\ UNCHANGED <<ring, mutex, outcome, spurious, running>>

EnqueueLock ==
  /\ Lock(Main, "lock", "check")
  /\ UNCHANGED <<ring, fd, conn, client, outcome, spurious, running>>

\* A mistake the bound below excludes: it is tested one too late.
FullLate == count > MaxQueue

Full == count >= MaxQueue

\* A mistake: the early return keeps the mutex.
EnqueueFullLocked ==
  /\ Go(Main, "check", "refuse")
  /\ Full
  /\ outcome' = [outcome EXCEPT ![conn[fd[Main]]] = "refused"]
  /\ UNCHANGED <<ring, mutex, fd, conn, client, spurious, running>>

\* enqueue() returns 1: the ring is full.
EnqueueFull ==
  /\ Go(Main, "check", "refuse")
  /\ Full
  /\ mutex' = None
  /\ outcome' = [outcome EXCEPT ![conn[fd[Main]]] = "refused"]
  /\ UNCHANGED <<ring, fd, conn, client, spurious, running>>

\* main closes the connection enqueue() refused.
CloseRefused ==
  /\ Go(Main, "refuse", "accept")
  /\ Hangup(fd[Main])
  /\ UNCHANGED <<ring, mutex, fd, outcome, spurious, running>>

Sleeping == {w \in Workers : pc[w] = "wait"}

\* pthread_cond_signal wakes one waiting worker, if there is one; a woken
\* worker has to take the mutex again and test the count again.
Signal(self, next) ==
  \/ /\ Sleeping = {}
     /\ pc' = [pc EXCEPT ![self] = next]
  \/ \E w \in Sleeping : pc' = [pc EXCEPT ![self] = next, ![w] = "idle"]

\* enqueue() goes on: there is room.
EnqueueRoom ==
  /\ Go(Main, "check", "put")
  /\ ~Full
  /\ UNCHANGED <<ring, mutex, fd, conn, client, outcome, spurious, running>>

\* Mistakes: the descriptor goes in but nobody is woken; the unlocked main
\* thread closes what it has just handed over.
EnqueuePutSilent ==
  /\ Go(Main, "put", "unlock")
  /\ queue' = [queue EXCEPT ![back] = fd[Main]]
  /\ back' = (back + 1) % MaxQueue
  /\ count' = count + 1
  /\ UNCHANGED <<front, mutex, fd, conn, client, outcome, spurious, running>>

EnqueueUnlockAndClose ==
  /\ Go(Main, "unlock", "refuse")
  /\ mutex' = None
  /\ UNCHANGED <<ring, fd, conn, client, outcome, spurious, running>>

\* The descriptor goes in at `back`.
EnqueuePut ==
  /\ running
  /\ pc[Main] = "put"
  /\ queue' = [queue EXCEPT ![back] = fd[Main]]
  /\ back' = (back + 1) % MaxQueue
  /\ count' = count + 1
  /\ Signal(Main, "unlock")
  /\ UNCHANGED <<front, mutex, fd, conn, client, outcome, spurious, running>>

EnqueueUnlock ==
  /\ Go(Main, "unlock", "accept")
  /\ mutex' = None
  /\ UNCHANGED <<ring, fd, conn, client, outcome, spurious, running>>

--------------------------------------------------------------------------------
(* Worker threads *)
WorkerLock(w) ==
  /\ Lock(w, "idle", "test")
  /\ UNCHANGED <<ring, fd, conn, client, outcome, spurious, running>>

\* Nothing to do: pthread_cond_wait releases the mutex and sleeps.
Wait(w) ==
  /\ Go(w, "test", "wait")
  /\ count = 0
  /\ mutex' = None
  /\ UNCHANGED <<ring, fd, conn, client, outcome, spurious, running>>

\* pthread_cond_wait may return without a signal.
SpuriousWakeup(w) ==
  /\ Go(w, "wait", "idle")
  /\ spurious < MaxSpurious
  /\ spurious' = spurious + 1
  /\ UNCHANGED <<ring, mutex, fd, conn, client, outcome, running>>

\* Mistakes: front stays where it is; the newest descriptor is taken.
DequeueStay(w) ==
  /\ Go(w, "take", "taken")
  /\ fd' = [fd EXCEPT ![w] = queue[front]]
  /\ count' = count - 1
  /\ UNCHANGED <<queue, front, back, mutex, conn, client, outcome, spurious, running>>

DequeueNewest(w) ==
  /\ Go(w, "take", "taken")
  /\ back' = IF back = 0 THEN MaxQueue - 1 ELSE back - 1
  /\ fd' = [fd EXCEPT ![w] = queue[back']]
  /\ count' = count - 1
  /\ UNCHANGED <<queue, front, mutex, conn, client, outcome, spurious, running>>

SomethingToDo(w) ==
  /\ Go(w, "test", "take")
  /\ count # 0
  /\ UNCHANGED <<ring, mutex, fd, conn, client, outcome, spurious, running>>

Dequeue(w) ==
  /\ Go(w, "take", "taken")
  /\ fd' = [fd EXCEPT ![w] = queue[front]]
  /\ front' = (front + 1) % MaxQueue
  /\ count' = count - 1
  /\ UNCHANGED <<queue, back, mutex, conn, client, outcome, spurious, running>>

WorkerUnlock(w) ==
  /\ Go(w, "taken", "send")
  /\ mutex' = None
  /\ UNCHANGED <<ring, fd, conn, client, outcome, spurious, running>>

\* send() succeeds or fails; either way it is not retried.
Send(w) ==
  /\ Go(w, "send", "close")
  /\ \E o \in {"answered", "failed"} :
        outcome' = [outcome EXCEPT ![conn[fd[w]]] = o]
  /\ UNCHANGED <<ring, mutex, fd, conn, client, spurious, running>>

Close(w) ==
  /\ Go(w, "close", "idle")
  /\ Hangup(fd[w])
  /\ UNCHANGED <<ring, mutex, fd, outcome, spurious, running>>

(* SIGINT: signalHandler exits the process, and every connection with it. *)
Interrupt ==
  /\ running
  /\ running' = FALSE
  /\ conn' = [f \in Fds |-> None]
  /\ client' = [c \in Clients |->
                  IF client[c] = "away" THEN "away" ELSE "closed"]
  /\ outcome' = [c \in Clients |->
                  IF client[c] \in {"backlog", "open"} /\ outcome[c] = "none"
                  THEN "cut" ELSE outcome[c]]
  /\ UNCHANGED <<ring, mutex, pc, fd, spurious>>

--------------------------------------------------------------------------------
MainStep ==
  \/ \E c \in Clients, f \in Fds : Accept(c, f)
  \/ EnqueueLock \/ EnqueueFull \/ CloseRefused
  \/ EnqueueRoom \/ EnqueuePut \/ EnqueueUnlock

WorkerStep(w) ==
  \/ WorkerLock(w) \/ Wait(w) \/ SomethingToDo(w) \/ Dequeue(w) \/ WorkerUnlock(w)
  \/ Send(w) \/ Close(w)

Next ==
  \/ \E c \in Clients : Connect(c)
  \/ MainStep
  \/ \E w \in Workers : WorkerStep(w) \/ SpuriousWakeup(w)
  \/ Interrupt

Spec == Init /\ [][Next]_vars

\* The operating system runs every thread that can run; no fairness for
\* clients, for SIGINT or for spurious wakeups.
FairSpec ==
  /\ Spec
  /\ WF_vars(MainStep)
  /\ \A w \in Workers : WF_vars(WorkerStep(w))

--------------------------------------------------------------------------------
Pcs(t) == IF t = Main
          THEN {"accept", "lock", "check", "put", "refuse", "unlock"}
          ELSE {"idle", "test", "wait", "take", "taken", "send", "close"}

Outcomes == {"none", "answered", "failed", "refused", "cut"}

(* Every variable has its type; the ring indices stay inside queue[]. *)
TypeOK ==
  /\ queue \in [Slots -> Fds \cup {None}]
  /\ front \in Slots /\ back \in Slots
  /\ count \in 0 .. MaxQueue
  /\ mutex \in Threads \cup {None}
  /\ pc \in [Threads -> UNION {Pcs(t) : t \in Threads}]
  /\ \A t \in Threads : pc[t] \in Pcs(t)
  /\ fd \in [Threads -> Fds \cup {None}]
  /\ conn \in [Fds -> Clients \cup {None}]
  /\ client \in [Clients -> {"away", "backlog", "open", "closed"}]
  /\ outcome \in [Clients -> Outcomes]
  /\ spurious \in 0 .. MaxSpurious
  /\ running \in BOOLEAN

(* What a thread finds out about the ring under the mutex still holds when it
   acts on it: one thread at a time is between lock and unlock, main puts only
   where there is room and a worker takes only what is there. *)
CheckedHolds ==
  /\ \A t \in Threads :
        pc[t] \in {"check", "put", "unlock", "test", "take", "taken"} => mutex = t
  /\ pc[Main] = "put" => count < MaxQueue
  /\ \A w \in Workers : pc[w] = "take" => count > 0

\* The slots from front on, count of them, wrapping around.
Live(s) ==
  IF front + count <= MaxQueue
  THEN front <= s /\ s < front + count
  ELSE front <= s \/ s < front + count - MaxQueue

LiveSlots == {s \in Slots : Live(s)}

\* The threads whose client_fd is theirs to use: main until the descriptor is
\* in the ring, a worker from the moment it took it out until it closed it.
Holders ==
  {t \in Threads :
     pc[t] \in {"lock", "check", "put", "refuse", "taken", "send", "close"}}

(* Nothing of main or of serve_clients checks whose descriptor it uses or
   whether it is still open: every open connection is in exactly one place, a
   live slot of the ring or a thread's client_fd, so no descriptor is leaked,
   closed twice or used after accept() gave its number to another client. *)
HeldOnce ==
  running =>
    /\ \A s \in LiveSlots : queue[s] \in Fds /\ conn[queue[s]] # None
    /\ \A t \in Holders : fd[t] \in Fds /\ conn[fd[t]] # None
    /\ \A s1, s2 \in LiveSlots : queue[s1] = queue[s2] => s1 = s2
    /\ \A t1, t2 \in Holders : fd[t1] = fd[t2] => t1 = t2
    /\ \A s \in LiveSlots, t \in Holders : queue[s] # fd[t]
    /\ \A f \in Fds : conn[f] # None =>
          \/ \E s \in LiveSlots : queue[s] = f
          \/ \E t \in Holders : fd[t] = f

(* count, front and back are updated apart, by different threads: back is
   always the slot after the last live one. *)
RingClosed ==
  back = IF front + count < MaxQueue THEN front + count ELSE front + count - MaxQueue

\* The indices agree and stay in the ring, like everything else in its type
\* (lines 17-18, 43-45, 55-57).
RingSound == TypeOK /\ RingClosed

\* The workers on their way to the ring.
Ready == {w \in Workers : pc[w] \in {"idle", "test", "take"}}

(* enqueue() signals once, after the put, and only a worker that found the
   ring empty waits: while a worker sleeps there is a worker on its way to the
   ring for every descriptor in it, so none is stuck behind a lost wakeup. *)
NoLostWakeup ==
  \/ Sleeping = {}
  \/ count <= Cardinality(Ready)

OneAnswer ==
  \A c \in Clients :
    /\ outcome[c] # "none" => outcome'[c] = outcome[c]
    /\ client[c] = "open" /\ client'[c] = "closed" => outcome'[c] # "none"

(* A client gets one answer: what it got never changes, and nobody hangs up
   on a client before it was answered, refused or cut. *)
AnsweredOnce == [][OneAnswer]_vars

(* Whoever connects is answered, refused or cut: no schedule of the threads
   and no wakeup makes the server forget a client. *)
EveryoneAnswered ==
  \A c \in Clients : client[c] = "backlog" ~> outcome[c] # "none"

--------------------------------------------------------------------------------
\* The line of TimeService: the ring read from front.
Line ==
  IF running
  THEN [i \in 1 .. count |-> conn[queue[(front + i - 1) % MaxQueue]]]
  ELSE <<>>

Served(c) == \E w \in Workers : pc[w] \in {"taken", "send"} /\ conn[fd[w]] = c

Status(c) ==
  IF outcome[c] \in {"answered", "failed"} THEN "served"
  ELSE IF outcome[c] # "none" THEN outcome[c]
  ELSE IF client[c] = "away" THEN "new"
  ELSE IF Served(c) THEN "serving"
  ELSE IF \E i \in 1 .. count : Line[i] = c THEN "queued"
  ELSE "arrived"

Service == INSTANCE TimeService WITH
             Capacity <- MaxQueue,
             line <- Line,
             status <- [c \in Clients |-> Status(c)],
             open <- running

(* The threads, the ring and the descriptors implement the bounded line of
   TimeService: first come, first served; refused only when the ring is full. *)
ImplementsService == Service!Spec
================================================================================
