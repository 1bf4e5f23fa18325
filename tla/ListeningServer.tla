----------------------------- MODULE ListeningServer -----------------------------
(***************************************************************************)
(* The time server of Sockets/Task_2/Listening_Server: main accepts a      *)
(* connection, puts its descriptor in a calloc()ed cell and starts a       *)
(* detached thread with it; the thread reads and frees the cell, sends the *)
(* time and closes the connection.                                         *)
(***************************************************************************)
EXTENDS Naturals, Sequences

CONSTANTS
  Clients, Threads, Fds,
  Backlog,   \* listen()'s second argument
  Bad        \* the descriptor -1

ServerAssumption ==
  /\ Bad \notin Fds \cup Clients /\ "main" \notin Threads
  /\ Backlog \in Nat \ {0}

VARIABLES
  main,      \* "accept", "create", or "gone" once the process has ended
  tmp,       \* main's descriptor
  backlog,   \* the clients connected and not accepted, in order
  conn,      \* conn[f]: the client at the other end of descriptor f, or Bad
  pc,        \* pc[t]: "none", "start", "send" or "close"
  cell,      \* cell[t]: the calloc()ed int thread t is started with
  client_fd, \* client_fd[t]: the copy it makes
  client,    \* client[c]: "away" or "waiting"
  got        \* got[c]: the answers that came on c's connection

vars == <<main, tmp, backlog, conn, pc, cell, client_fd, client, got>>
threads == <<pc, cell, client_fd>>
clients == <<client, got>>

Init ==
  /\ main = "accept" /\ tmp = Bad /\ backlog = <<>>
  /\ conn = [f \in Fds |-> Bad]
  /\ pc = [t \in Threads |-> "none"]
  /\ cell = [t \in Threads |-> Bad] /\ client_fd = [t \in Threads |-> Bad]
  /\ client = [c \in Clients |-> "away"] /\ got = [c \in Clients |-> 0]

\* A client connects, again if it likes.
Connect(c) ==
  /\ main # "gone" /\ client[c] = "away" /\ Len(backlog) < Backlog
  /\ client' = [client EXCEPT ![c] = "waiting"]
  /\ got' = [got EXCEPT ![c] = 0]
  /\ backlog' = Append(backlog, c)
  /\ UNCHANGED <<main, tmp, conn, threads>>

Free == {f \in Fds : conn[f] = Bad}

Accept ==
  /\ main = "accept" /\ backlog # <<>>
  /\ \E f \in Free :
       /\ conn' = [conn EXCEPT ![f] = Head(backlog)]
       /\ tmp' = f
  /\ backlog' = Tail(backlog)
  /\ main' = "create"
  /\ UNCHANGED <<threads, clients>>

\* No descriptor is free: accept() fails at once, whoever waits; its result is not
\* looked at.
AcceptFails ==
  /\ main = "accept" /\ Free = {}
  /\ tmp' = Bad
  /\ main' = "create"
  /\ UNCHANGED <<backlog, conn, threads, clients>>

CreateThread ==
  /\ main = "create"
  /\ \E t \in Threads :
       /\ pc[t] = "none"
       /\ pc' = [pc EXCEPT ![t] = "start"]
       /\ cell' = [cell EXCEPT ![t] = tmp]
  /\ main' = "accept"
  /\ UNCHANGED <<tmp, backlog, conn, client_fd, clients>>

\* close(): the client sees the end of the connection and goes.
Closes(f) ==
  IF f = Bad THEN UNCHANGED <<conn, client>>
  ELSE /\ conn' = [conn EXCEPT ![f] = Bad]
       /\ client' = [c \in Clients |-> IF c = conn[f] THEN "away" ELSE client[c]]

CreateFails ==
  /\ main = "create"
  /\ Closes(tmp)
  /\ main' = "accept"
  /\ UNCHANGED <<tmp, backlog, threads, got>>

\* Mistake: the thread is given the address of main's own variable.
StartShared(t) ==
  /\ pc[t] = "start"
  /\ client_fd' = [client_fd EXCEPT ![t] = tmp]
  /\ cell' = [cell EXCEPT ![t] = Bad]
  /\ pc' = [pc EXCEPT ![t] = "send"]
  /\ UNCHANGED <<main, tmp, backlog, conn, clients>>

Start(t) ==
  /\ pc[t] = "start"
  /\ client_fd' = [client_fd EXCEPT ![t] = cell[t]]
  /\ cell' = [cell EXCEPT ![t] = Bad]
  /\ pc' = [pc EXCEPT ![t] = "send"]
  /\ UNCHANGED <<main, tmp, backlog, conn, clients>>

\* send() fails, unseen, on a descriptor that is not open.
Send(t) ==
  /\ pc[t] = "send"
  /\ got' = [c \in Clients |->
              IF client_fd[t] # Bad /\ c = conn[client_fd[t]] THEN got[c] + 1 ELSE got[c]]
  /\ pc' = [pc EXCEPT ![t] = "close"]
  /\ UNCHANGED <<main, tmp, backlog, conn, cell, client_fd, client>>

\* Mistake: what is closed is the descriptor main accepted last.
CloseShared(t) ==
  /\ pc[t] = "close"
  /\ Closes(tmp)
  /\ client_fd' = [client_fd EXCEPT ![t] = Bad]
  /\ pc' = [pc EXCEPT ![t] = "none"]
  /\ UNCHANGED <<main, tmp, backlog, cell, got>>

Close(t) ==
  /\ pc[t] = "close"
  /\ Closes(client_fd[t])
  /\ client_fd' = [client_fd EXCEPT ![t] = Bad]
  /\ pc' = [pc EXCEPT ![t] = "none"]
  /\ UNCHANGED <<main, tmp, backlog, cell, got>>

\* SIGINT: exit() ends every thread and closes every connection (the descriptor
\* the handler closes is the global one, which main's own hides and leaves at 0).
Interrupt ==
  /\ main # "gone"
  /\ main' = "gone" /\ tmp' = Bad /\ backlog' = <<>>
  /\ conn' = [f \in Fds |-> Bad]
  /\ pc' = [t \in Threads |-> "none"]
  /\ cell' = [t \in Threads |-> Bad] /\ client_fd' = [t \in Threads |-> Bad]
  /\ client' = [c \in Clients |-> "away"]
  /\ UNCHANGED got

MainStep == Accept \/ AcceptFails \/ CreateThread \/ CreateFails
ThreadStep(t) == Start(t) \/ Send(t) \/ Close(t)
Next ==
  \/ MainStep \/ Interrupt
  \/ \E c \in Clients : Connect(c)
  \/ \E t \in Threads : ThreadStep(t)

--------------------------------------------------------------------------------
TypeOK ==
  /\ main \in {"accept", "create", "gone"} /\ tmp \in Fds \cup {Bad}
  /\ backlog \in Seq(Clients) /\ Len(backlog) <= Backlog
  /\ conn \in [Fds -> Clients \cup {Bad}]
  /\ pc \in [Threads -> {"none", "start", "send", "close"}]
  /\ cell \in [Threads -> Fds \cup {Bad}] /\ client_fd \in [Threads -> Fds \cup {Bad}]
  /\ client \in [Clients -> {"away", "waiting"}] /\ got \in [Clients -> 0 .. 1]

\* Who is going to close descriptor f.
Holders(f) ==
  {t \in Threads : pc[t] = "start" /\ cell[t] = f}
    \cup {t \in Threads : pc[t] \in {"send", "close"} /\ client_fd[t] = f}
    \cup (IF main = "create" /\ tmp = f THEN {"main"} ELSE {})

\* Every open connection is somebody's to answer and close, and only one's: a
\* descriptor is not leaked, not shared by two threads and not closed while it is
\* another's (lines 61-73, 22-30); with the types.
HeldByOne ==
  /\ TypeOK
  /\ \A f \in Fds :
       IF conn[f] = Bad THEN Holders(f) = {} ELSE \E h \in Holders(f) : Holders(f) = {h}

\* A connection that is closed has been answered, once, unless its thread could not
\* be created or the server was stopped (lines 29-30, 67-71).
ClosedAnswered ==
  \A c \in Clients :
    client[c] = "waiting" /\ client'[c] = "away" /\ main' # "gone" =>
      \/ got[c] = 1
      \/ main = "create" /\ main' = "accept" /\ pc' = pc
================================================================================
