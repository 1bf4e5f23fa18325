------------------------------ MODULE PullThreads ------------------------------
(***************************************************************************)
(* Sockets/Task_2/Pull_Threads/server.c: main accepts a connection, marks  *)
(* the first idle worker busy in idx_threads, leaves the descriptor in the *)
(* one variable fd_socket and signals that worker's condition variable.    *)
(* idx_threads, count and fd_socket are only touched with the mutex held   *)
(* and nothing blocks while it is, so each critical section is one step.   *)
(***************************************************************************)
EXTENDS Integers, FiniteSets

CONSTANTS
  Threads,     \* MAX_CLIENTS: the workers are 0 .. Threads - 1
  Clients,     \* the connections that may be made
  Fds,         \* the descriptors accept() can return
  MaxSpurious, \* bound: spurious returns of pthread_cond_wait
  MaxBelow,    \* bound: how far below zero count is followed
  None

Workers == 0 .. Threads - 1

\* Assumed where the program is composed with others, in Tables.
PullAssumption ==
  /\ Threads \in Nat \ {0} /\ MaxBelow \in Nat /\ MaxSpurious \in Nat
  /\ None \notin Clients \cup Fds

VARIABLES
  idx_threads, \* worker -> idle?
  count,       \* connections announced and not yet served
  fd_socket,   \* the connection announced last
  at,          \* where main is: "accept", "mark", "refuse", "signal"
  main_fd,     \* main's client_fd
  idx,         \* main's idx: the worker to signal
  pc,          \* where each worker is: "idle", "wait", "send", "close", "done"
  fd,          \* client_fd of each worker
  conn,        \* kernel: the connection behind each descriptor
  client,      \* kernel: "away", "backlog", "open", "closed"
  outcome,     \* what each client got: "none", "answered", "refused"
  spurious,    \* spurious wakeups so far
  disturbed,   \* a client came before the server was at rest, or a wakeup was spurious
  running      \* the process has not been interrupted

shared == <<idx_threads, count, fd_socket>>
main == <<at, main_fd, idx>>
workers == <<pc, fd>>
kernel == <<conn, client, outcome>>
vars == <<shared, main, workers, kernel, spurious, disturbed, running>>

Init ==
  /\ idx_threads = [w \in Workers |-> TRUE]
  /\ count = 0
  /\ fd_socket = None \* zero in the code: standard input, no connection of ours
  /\ at = "accept" /\ main_fd = None /\ idx = 0
  /\ pc = [w \in Workers |-> "idle"]
  /\ fd = [w \in Workers |-> None]
  /\ conn = [f \in Fds |-> None]
  /\ client = [c \in Clients |-> "away"]
  /\ outcome = [c \in Clients |-> "none"]
  /\ spurious = 0
  /\ disturbed = FALSE
  /\ running = TRUE

--------------------------------------------------------------------------------
Connected(f) == f \in Fds /\ conn[f] # None

\* send(): whoever is behind the descriptor hears it.
Answered(f, answer) ==
  IF Connected(f) THEN [outcome EXCEPT ![conn[f]] = answer] ELSE outcome

\* close(): no effect on a number that is not open.
Hangup(f) ==
  IF Connected(f)
  THEN /\ conn' = [conn EXCEPT ![f] = None]
       /\ client' = [client EXCEPT ![conn[f]] = "closed"]
  ELSE UNCHANGED <<conn, client>>

\* Every worker asleep and nobody on the way.
Calm ==
  /\ at = "accept"
  /\ \A w \in Workers : pc[w] = "wait"
  /\ \A c \in Clients : client[c] # "backlog"

Connect(c) ==
  /\ running
  /\ client[c] = "away"
  /\ client' = [client EXCEPT ![c] = "backlog"]
  /\ disturbed' = (disturbed \/ ~Calm)
  /\ UNCHANGED <<shared, main, workers, conn, outcome, spurious, running>>

--------------------------------------------------------------------------------
(* Main thread *)
Accept(c, f) ==
  /\ running
  /\ at = "accept"
  /\ client[c] = "backlog"
  /\ conn[f] = None
  /\ client' = [client EXCEPT ![c] = "open"]
  /\ conn' = [conn EXCEPT ![f] = c]
  /\ main_fd' = f
  /\ at' = "mark"
  /\ UNCHANGED <<shared, idx, workers, outcome, spurious, disturbed, running>>

\* The first worker marked idle gets the connection.
Mark(i) ==
  /\ running
  /\ at = "mark"
  /\ idx_threads[i]
  /\ \A j \in 0 .. i - 1 : ~idx_threads[j]
  /\ idx_threads' = [idx_threads EXCEPT ![i] = FALSE]
  /\ count' = count + 1
  /\ fd_socket' = main_fd
  /\ idx' = i
  /\ at' = "signal"
  /\ UNCHANGED <<main_fd, workers, kernel, spurious, disturbed, running>>

\* No worker is marked idle: the client is turned away, if its connection is
\* still there.
Refuse ==
  /\ running
  /\ at = "mark"
  /\ \A i \in Workers : ~idx_threads[i]
  /\ at' = "refuse"
  /\ outcome' = Answered(main_fd, "refused")
  /\ UNCHANGED <<shared, main_fd, idx, workers, conn, client, spurious, disturbed, running>>

CloseRefused ==
  /\ running
  /\ at = "refuse"
  /\ Hangup(main_fd)
  /\ at' = "accept"
  /\ UNCHANGED <<shared, main_fd, idx, workers, outcome, spurious, disturbed, running>>

\* Mistake: nobody is signalled.
SignalNobody ==
  /\ running
  /\ at = "signal"
  /\ at' = "accept"
  /\ UNCHANGED <<shared, main_fd, idx, workers, kernel, spurious, disturbed, running>>

\* The mutex is free again: the signal finds the worker waiting, or is lost.
Signal ==
  /\ running
  /\ at = "signal"
  /\ pc' = [pc EXCEPT ![idx] = IF @ = "wait" THEN "idle" ELSE @]
  /\ at' = "accept"
  /\ UNCHANGED <<shared, main_fd, idx, fd, kernel, spurious, disturbed, running>>

--------------------------------------------------------------------------------
(* Worker threads *)
Wait(w) ==
  /\ running
  /\ pc[w] = "idle"
  /\ count = 0
  /\ pc' = [pc EXCEPT ![w] = "wait"]
  /\ UNCHANGED <<shared, main, fd, kernel, spurious, disturbed, running>>

SpuriousWakeup(w) ==
  /\ running
  /\ pc[w] = "wait"
  /\ spurious < MaxSpurious
  /\ spurious' = spurious + 1
  /\ disturbed' = TRUE
  /\ pc' = [pc EXCEPT ![w] = "idle"]
  /\ UNCHANGED <<shared, main, fd, kernel, running>>

\* Any worker that finds count # 0 serves fd_socket, signalled or not.
Take(w) ==
  /\ running
  /\ pc[w] = "idle"
  /\ count # 0
  /\ fd' = [fd EXCEPT ![w] = fd_socket]
  /\ pc' = [pc EXCEPT ![w] = "send"]
  /\ UNCHANGED <<shared, main, kernel, spurious, disturbed, running>>

\* Whoever is behind the descriptor by now gets the time.
Send(w) ==
  /\ running
  /\ pc[w] = "send"
  /\ outcome' = Answered(fd[w], "answered")
  /\ pc' = [pc EXCEPT ![w] = "close"]
  /\ UNCHANGED <<shared, main, fd, conn, client, spurious, disturbed, running>>

Close(w) ==
  /\ running
  /\ pc[w] = "close"
  /\ Hangup(fd[w])
  /\ pc' = [pc EXCEPT ![w] = "done"]
  /\ UNCHANGED <<shared, main, fd, outcome, spurious, disturbed, running>>

\* Mistake: count is not taken down.
DoneUncounted(w) ==
  /\ running
  /\ pc[w] = "done"
  /\ idx_threads' = [idx_threads EXCEPT ![w] = TRUE]
  /\ pc' = [pc EXCEPT ![w] = "idle"]
  /\ UNCHANGED <<count, fd_socket, main, fd, kernel, spurious, disturbed, running>>

Done(w) ==
  /\ running
  /\ pc[w] = "done"
  /\ count > -MaxBelow
  /\ count' = count - 1
  /\ idx_threads' = [idx_threads EXCEPT ![w] = TRUE]
  /\ pc' = [pc EXCEPT ![w] = "idle"]
  /\ UNCHANGED <<fd_socket, main, fd, kernel, spurious, disturbed, running>>

(* SIGINT: the process and every connection with it are gone. *)
Interrupt ==
  /\ running
  /\ running' = FALSE
  /\ conn' = [f \in Fds |-> None]
  /\ client' = [c \in Clients |->
                  IF client[c] = "away" THEN "away" ELSE "closed"]
  /\ UNCHANGED <<shared, main, workers, outcome, spurious, disturbed>>

--------------------------------------------------------------------------------
MainStep ==
  \/ \E c \in Clients, f \in Fds : Accept(c, f)
  \/ \E i \in Workers : Mark(i)
  \/ Refuse \/ CloseRefused \/ Signal

WorkerStep(w) == Wait(w) \/ Take(w) \/ Send(w) \/ Close(w) \/ Done(w)

Next ==
  \/ \E c \in Clients : Connect(c)
  \/ MainStep
  \/ \E w \in Workers : WorkerStep(w) \/ SpuriousWakeup(w)
  \/ Interrupt

Spec == Init /\ [][Next]_vars

--------------------------------------------------------------------------------
\* Every variable has its type, and never more connections are announced than
\* there are workers (server.c:101-117).
TypeOK ==
  /\ idx_threads \in [Workers -> BOOLEAN]
  /\ count \in -MaxBelow .. Threads
  /\ fd_socket \in Fds \cup {None}
  /\ at \in {"accept", "mark", "refuse", "signal"}
  /\ main_fd \in Fds \cup {None}
  /\ idx \in Workers
  /\ pc \in [Workers -> {"idle", "wait", "send", "close", "done"}]
  /\ fd \in [Workers -> Fds \cup {None}]
  /\ conn \in [Fds -> Clients \cup {None}]
  /\ client \in [Clients -> {"away", "backlog", "open", "closed"}]
  /\ outcome \in [Clients -> {"none", "answered", "refused"}]
  /\ spurious \in 0 .. MaxSpurious
  /\ disturbed \in BOOLEAN /\ running \in BOOLEAN

(* count and idx_threads are two accounts of the same work and are changed
   together by main but for different connections by the workers: no race
   makes count exceed the number of workers marked busy, so the sum of
   announced connections never outgrows the threads (server.c:100-117, 55-58);
   with the types. *)
CountedAreMarked == TypeOK /\ count <= Cardinality({w \in Workers : ~idx_threads[w]})

(* While clients come one at a time and nobody wakes by itself, none is refused
   and each is answered before it is hung up on; and whenever the server is at
   rest nothing is announced, every worker is marked idle and no connection is
   left open (server.c:100-119, 40-57). *)
RestIsClean ==
  running /\ ~disturbed =>
    /\ \A c \in Clients : client[c] = "closed" => outcome[c] = "answered"
    /\ Calm =>
         /\ count = 0 /\ \A w \in Workers : idx_threads[w]
         /\ \A f \in Fds : conn[f] = None

(* What main prints when it turns a client away, "all threads are busy" (server.c:110):
   when it comes to look for a free worker, its connection accepted and the mutex its
   own, and every one is marked busy (server.c:100-109), not all of them are asleep
   waiting for work.  What the workers do after the decision plays no part. *)
RefusedOnlyWhenBusy ==
  running /\ at = "mark" /\ (\A w \in Workers : ~idx_threads[w])
    => \E w \in Workers : pc[w] # "wait"
================================================================================
