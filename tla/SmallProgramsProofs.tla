--------------------------- MODULE SmallProgramsProofs ---------------------------
(***************************************************************************)
(* What the short programs promise, for every number of clients, threads,  *)
(* descriptors, starts and kills, and every line of commands.  Each        *)
(* program gets an inductive invariant of its own; the programs share no   *)
(* variable, so the composed step changes one of them and leaves the       *)
(* others' invariants alone.                                               *)
(***************************************************************************)
EXTENDS SmallPrograms, DataLemmas

\* Queues.
LEMMA TailOf ==
  ASSUME NEW S, NEW q \in Seq(S), q # <<>>
  PROVE  /\ Tail(q) \in Seq(S) /\ Len(Tail(q)) = Len(q) - 1
         /\ Head(q) = q[1] /\ 1 \in DOMAIN q /\ q[1] \in S
         /\ \A i \in DOMAIN Tail(q) :
              i + 1 \in DOMAIN q /\ Tail(q)[i] = q[i + 1] /\ i + 1 # 1
         /\ \A i, j \in DOMAIN Tail(q) : i + 1 = j + 1 => i = j
OBVIOUS

LEMMA AppendTo ==
  ASSUME NEW S, NEW q \in Seq(S), NEW x \in S
  PROVE  /\ Append(q, x) \in Seq(S) /\ Len(Append(q, x)) = Len(q) + 1
         /\ Append(q, x) # <<>> /\ (q # <<>> => Head(Append(q, x)) = Head(q))
         /\ q = <<>> => Head(Append(q, x)) = x
         /\ \A i \in DOMAIN Append(q, x) :
              \/ i \in DOMAIN q /\ Append(q, x)[i] = q[i]
              \/ i = Len(q) + 1 /\ i \notin DOMAIN q /\ Append(q, x)[i] = x
<1>1. /\ Append(q, x) \in Seq(S) /\ Len(Append(q, x)) = Len(q) + 1
      /\ \A i \in 1 .. Len(q) : Append(q, x)[i] = q[i]
      /\ Append(q, x)[Len(q) + 1] = x
  OBVIOUS
<1>2. Append(q, x) # <<>> /\ Head(Append(q, x)) = Append(q, x)[1] BY <1>1
<1>3. q # <<>> => Head(q) = q[1] /\ 1 \in 1 .. Len(q) OBVIOUS
<1>4. q = <<>> => Len(q) = 0 OBVIOUS
<1>5. ASSUME NEW i \in DOMAIN Append(q, x)
      PROVE  \/ i \in DOMAIN q /\ Append(q, x)[i] = q[i]
             \/ i = Len(q) + 1 /\ i \notin DOMAIN q /\ Append(q, x)[i] = x
  <2>1. i \in 1 .. Len(q) + 1 /\ Len(q) \in Nat /\ DOMAIN q = 1 .. Len(q) BY <1>1
  <2>q. QED BY <1>1, <2>1
<1>q. QED BY <1>1, <1>2, <1>3, <1>4, <1>5

--------------------------------------------------------------------------------
\* The thread-per-connection server (ListeningServer).

\* Who holds a descriptor holds it alone, and it is open.
ListenOwned ==
  \A f \in Fds :
    /\ conn[f] # Bad <=> Listening!Holders(f) # {}
    /\ \A g, h \in Listening!Holders(f) : g = h

\* A client that waits is in the backlog or at the other end of one descriptor.
ListenWaiting ==
  /\ \A i \in DOMAIN backlog :
       /\ client[backlog[i]] = "waiting" /\ got[backlog[i]] = 0
       /\ \A f \in Fds : conn[f] # backlog[i]
  /\ \A i, j \in DOMAIN backlog : backlog[i] = backlog[j] => i = j
  /\ \A f \in Fds : conn[f] # Bad => client[conn[f]] = "waiting"
  /\ \A f, g \in Fds : conn[f] # Bad /\ conn[f] = conn[g] => f = g

\* It has its answer when the thread is about to close.
ListenAnswered ==
  \A f \in Fds : conn[f] # Bad =>
    got[conn[f]] = IF \E t \in Threads : pc[t] = "close" /\ client_fd[t] = f THEN 1 ELSE 0

ListenInv == Listening!TypeOK /\ ListenOwned /\ ListenWaiting /\ ListenAnswered

LEMMA ListenConnect ==
  ASSUME Listening!ServerAssumption, ListenInv, NEW c \in Clients, Listening!Connect(c)
  PROVE  ListenInv'
<1>1. Listening!TypeOK'
  BY DEF ListenInv, Listening!ServerAssumption, Listening!TypeOK, Listening!Connect,
    Listening!threads
<1>2. ListenOwned'
  BY <1>1
  DEF ListenInv, ListenOwned, Listening!Connect, Listening!threads, Listening!Holders
<1>3. ListenWaiting'
  BY <1>1, SMTT(30)
  DEF ListenInv, Listening!ServerAssumption, Listening!TypeOK, ListenWaiting,
    Listening!Connect
<1>4. ListenAnswered'
  BY <1>1
  DEF ListenInv, ListenWaiting, ListenAnswered, Listening!Connect, Listening!threads
<1>q. QED BY <1>1, <1>2, <1>3, <1>4 DEF ListenInv

LEMMA ListenAccept ==
  ASSUME Listening!ServerAssumption, ListenInv, Listening!Accept PROVE ListenInv'
<1>1. Listening!TypeOK'
  BY DEF ListenInv, Listening!ServerAssumption, Listening!TypeOK, Listening!Accept,
    Listening!Free, Listening!threads, Listening!clients
<1>2. ListenOwned'
  BY <1>1
  DEF ListenInv, Listening!ServerAssumption, Listening!TypeOK, ListenOwned,
    Listening!Accept, Listening!Free, Listening!threads, Listening!Holders
<1>3. ListenWaiting'
  BY <1>1
  DEF ListenInv, Listening!TypeOK, ListenWaiting, Listening!Accept, Listening!clients
<1>4. ListenAnswered'
  BY <1>1
  DEF ListenInv, Listening!TypeOK, ListenOwned, ListenWaiting, ListenAnswered,
    Listening!Accept, Listening!Free, Listening!threads, Listening!clients,
    Listening!Holders
<1>q. QED BY <1>1, <1>2, <1>3, <1>4 DEF ListenInv

LEMMA ListenAcceptFails ==
  ASSUME Listening!ServerAssumption, ListenInv, Listening!AcceptFails PROVE ListenInv'
<1>1. Listening!TypeOK'
  BY DEF ListenInv, Listening!TypeOK, Listening!AcceptFails, Listening!threads,
    Listening!clients
<1>2. ListenOwned'
  BY <1>1
  DEF ListenInv, Listening!ServerAssumption, ListenOwned, Listening!AcceptFails,
    Listening!threads, Listening!Holders
<1>3. ListenWaiting'
  BY <1>1 DEF ListenInv, ListenWaiting, Listening!AcceptFails, Listening!clients
<1>4. ListenAnswered'
  BY <1>1
  DEF ListenInv, ListenAnswered, Listening!AcceptFails, Listening!threads,
    Listening!clients
<1>q. QED BY <1>1, <1>2, <1>3, <1>4 DEF ListenInv

LEMMA ListenCreate ==
  ASSUME Listening!ServerAssumption, ListenInv, Listening!CreateThread PROVE ListenInv'
<1>1. Listening!TypeOK'
  BY DEF ListenInv, Listening!TypeOK, Listening!CreateThread, Listening!clients
<1>2. ListenOwned'
  BY <1>1
  DEF ListenInv, Listening!ServerAssumption, Listening!TypeOK, ListenOwned,
    Listening!CreateThread, Listening!Holders
<1>3. ListenWaiting'
  BY <1>1 DEF ListenInv, ListenWaiting, Listening!CreateThread, Listening!clients
<1>4. ListenAnswered'
  BY <1>1 DEF ListenInv, ListenAnswered, Listening!CreateThread, Listening!clients
<1>q. QED BY <1>1, <1>2, <1>3, <1>4 DEF ListenInv

LEMMA ListenCreateFails ==
  ASSUME Listening!ServerAssumption, ListenInv, Listening!CreateFails PROVE ListenInv'
<1>1. Listening!TypeOK'
  BY DEF ListenInv, Listening!TypeOK, Listening!CreateFails, Listening!Closes,
    Listening!threads
<1>2. ListenOwned'
  BY <1>1
  DEF ListenInv, Listening!ServerAssumption, Listening!TypeOK, ListenOwned,
    Listening!CreateFails, Listening!Closes, Listening!threads, Listening!Holders
<1>3. ListenWaiting'
  BY <1>1
  DEF ListenInv, Listening!ServerAssumption, Listening!TypeOK, ListenWaiting,
    Listening!CreateFails, Listening!Closes, Listening!threads
<1>4. ListenAnswered'
  BY <1>1
  DEF ListenInv, Listening!TypeOK, ListenAnswered, Listening!CreateFails,
    Listening!Closes, Listening!threads
<1>q. QED BY <1>1, <1>2, <1>3, <1>4 DEF ListenInv

LEMMA ListenStart ==
  ASSUME Listening!ServerAssumption, ListenInv, NEW t \in Threads, Listening!Start(t)
  PROVE  ListenInv'
<1>1. Listening!TypeOK'
  BY DEF ListenInv, Listening!TypeOK, Listening!Start, Listening!clients
<1>2. ListenOwned'
  BY <1>1
  DEF ListenInv, Listening!ServerAssumption, Listening!TypeOK, ListenOwned,
    Listening!Start, Listening!clients, Listening!Holders
<1>3. ListenWaiting'
  BY <1>1 DEF ListenInv, ListenWaiting, Listening!Start, Listening!clients
<1>4. ListenAnswered'
  BY <1>1 DEF ListenInv, ListenAnswered, Listening!Start, Listening!clients
<1>q. QED BY <1>1, <1>2, <1>3, <1>4 DEF ListenInv

LEMMA ListenSend ==
  ASSUME Listening!ServerAssumption, ListenInv, NEW t \in Threads, Listening!Send(t)
  PROVE  ListenInv'
<1>1. Listening!TypeOK'
  <2>1. ASSUME NEW c \in Clients, client_fd[t] # Bad, c = conn[client_fd[t]]
        PROVE  got[c] = 0
    <3>1. client_fd[t] \in Fds /\ c # Bad
      BY <2>1 DEF ListenInv, Listening!TypeOK, Listening!ServerAssumption
    <3>2. t \in Listening!Holders(client_fd[t]) BY DEF Listening!Send, Listening!Holders
    <3>3. \A u \in Threads : pc[u] = "close" /\ client_fd[u] = client_fd[t] => u = t
      BY <3>1, <3>2 DEF ListenInv, ListenOwned, Listening!Holders
    <3>q. QED BY <2>1, <3>1, <3>3 DEF ListenInv, ListenAnswered, Listening!Send
  <2>2. got' \in [Clients -> 0 .. 1]
    BY <2>1 DEF ListenInv, Listening!TypeOK, Listening!Send
  <2>q. QED BY <2>2 DEF ListenInv, Listening!TypeOK, Listening!Send
<1>2. ListenOwned'
  BY <1>1
  DEF ListenInv, Listening!ServerAssumption, ListenOwned, Listening!Send,
    Listening!Holders
<1>3. ListenWaiting'
  BY <1>1 DEF ListenInv, Listening!TypeOK, ListenWaiting, Listening!Send
<1>4. ListenAnswered'
  BY <1>1
  DEF ListenInv, Listening!ServerAssumption, Listening!TypeOK, ListenWaiting,
    ListenAnswered, Listening!Send
<1>q. QED BY <1>1, <1>2, <1>3, <1>4 DEF ListenInv

LEMMA ListenClose ==
  ASSUME Listening!ServerAssumption, ListenInv, NEW t \in Threads, Listening!Close(t)
  PROVE  ListenInv'
<1>1. Listening!TypeOK'
  BY DEF ListenInv, Listening!ServerAssumption, Listening!TypeOK, Listening!Close,
    Listening!Closes
<1>2. ListenOwned'
  BY <1>1
  DEF ListenInv, Listening!ServerAssumption, Listening!TypeOK, ListenOwned,
    Listening!Close, Listening!Closes, Listening!Holders
<1>3. ListenWaiting'
  BY <1>1
  DEF ListenInv, Listening!ServerAssumption, Listening!TypeOK, ListenWaiting,
    Listening!Close, Listening!Closes
<1>4. ListenAnswered'
  BY <1>1
  DEF ListenInv, Listening!ServerAssumption, Listening!TypeOK, ListenAnswered,
    Listening!Close, Listening!Closes
<1>q. QED BY <1>1, <1>2, <1>3, <1>4 DEF ListenInv

LEMMA ListenInterrupt ==
  ASSUME Listening!ServerAssumption, ListenInv, Listening!Interrupt PROVE ListenInv'
<1>1. Listening!TypeOK'
  BY DEF ListenInv, Listening!ServerAssumption, Listening!TypeOK, Listening!Interrupt
<1>2. ListenOwned' BY <1>1 DEF ListenOwned, Listening!Interrupt, Listening!Holders
<1>3. ListenWaiting' BY <1>1 DEF ListenWaiting, Listening!Interrupt
<1>4. ListenAnswered' BY <1>1 DEF ListenAnswered, Listening!Interrupt
<1>q. QED BY <1>1, <1>2, <1>3, <1>4 DEF ListenInv

LEMMA ListenStutter == ASSUME ListenInv, UNCHANGED Listening!vars PROVE ListenInv'
BY SMTT(30) DEF ListenInv, Listening!vars, Listening!TypeOK, ListenOwned, Listening!Holders,
  ListenWaiting, ListenAnswered

LEMMA ListenInitial == ASSUME Listening!ServerAssumption, Listening!Init PROVE ListenInv
<1>1. Listening!TypeOK
  <2>1. backlog \in Seq(Clients) /\ Len(backlog) = 0 BY DEF Listening!Init
  <2>2. conn \in [Fds -> Clients \cup {Bad}] BY DEF Listening!Init
  <2>3. pc \in [Threads -> {"none", "start", "send", "close"}] BY DEF Listening!Init
  <2>4. client \in [Clients -> {"away", "waiting"}] /\ got \in [Clients -> 0 .. 1]
    BY DEF Listening!Init
  <2>q. QED
    BY <2>1, <2>2, <2>3, <2>4
    DEF Listening!Init, Listening!TypeOK, Listening!ServerAssumption
<1>2. ListenOwned BY DEF Listening!Init, ListenOwned, Listening!Holders
<1>3. ListenWaiting /\ ListenAnswered
  BY DEF Listening!Init, ListenWaiting, ListenAnswered
<1>q. QED BY <1>1, <1>2, <1>3 DEF ListenInv

LEMMA ListenStep ==
  ASSUME Listening!ServerAssumption, ListenInv, [Listening!Next]_listeningVars
  PROVE  ListenInv'
<1>1. CASE Listening!Next
  BY <1>1, ListenConnect, ListenAccept, ListenAcceptFails, ListenCreate,
    ListenCreateFails, ListenStart, ListenSend, ListenClose, ListenInterrupt
  DEF Listening!Next, Listening!MainStep, Listening!ThreadStep
<1>q. QED BY <1>1, ListenStutter DEF listeningVars, Listening!vars

LEMMA ListenHeld ==
  ASSUME Listening!ServerAssumption, ListenInv PROVE Listening!HeldByOne
<1>1. ASSUME NEW f \in Fds, conn[f] # Bad
      PROVE  \E h \in Listening!Holders(f) : Listening!Holders(f) = {h}
  <2>1. PICK h \in Listening!Holders(f) : TRUE BY <1>1 DEF ListenInv, ListenOwned
  <2>2. Listening!Holders(f) = {h} BY <2>1 DEF ListenInv, ListenOwned
  <2>q. QED BY <2>1, <2>2
<1>q. QED BY <1>1 DEF ListenInv, ListenOwned, Listening!HeldByOne

LEMMA ListenClosed ==
  ASSUME Listening!ServerAssumption, ListenInv, [Listening!Next]_listeningVars
  PROVE  Listening!ClosedAnswered
<1> SUFFICES ASSUME NEW c \in Clients, client[c] = "waiting", client'[c] = "away", main' # "gone"
             PROVE  got[c] = 1 \/ (main = "create" /\ main' = "accept" /\ pc' = pc)
  BY DEF Listening!ClosedAnswered
<1>1. CASE Listening!CreateFails BY <1>1 DEF Listening!CreateFails, Listening!threads
<1>2. ASSUME NEW t \in Threads, Listening!Close(t) PROVE got[c] = 1
  <2>1. client_fd[t] # Bad /\ conn[client_fd[t]] = c /\ client_fd[t] \in Fds
    BY <1>2 DEF Listening!Close, Listening!Closes, ListenInv, Listening!TypeOK
  <2>q. QED
    BY <1>2, <2>1
    DEF Listening!Close, ListenInv, ListenAnswered, Listening!ServerAssumption
<1>3. ASSUME NEW d \in Clients, Listening!Connect(d) PROVE FALSE
  BY <1>3 DEF Listening!Connect
<1>q. QED
  BY <1>1, <1>2, <1>3
  DEF Listening!Next, Listening!MainStep, Listening!ThreadStep, Listening!Accept,
    Listening!AcceptFails, Listening!CreateThread, Listening!Start, Listening!Send,
    Listening!Interrupt, Listening!clients, Listening!vars, listeningVars

--------------------------------------------------------------------------------
\* The select() server (Multiplexing).

\* The server goes to a socket because somebody waits there, and after the first one
\* the second still has somebody.
SelectReady ==
  /\ selAt = "tcp" => tcpQueue # <<>> /\ ("udp" \in readfds => datagrams # <<>>)
  /\ selAt = "udp" => datagrams # <<>>

SelectInv == Selecting!TypeOK /\ SelectReady

LEMMA SelectStep ==
  ASSUME Selecting!SelectAssumption, SelectInv, [Selecting!Next]_selectVars
  PROVE  SelectInv'
<1> USE DEF SelectInv, Selecting!TypeOK, SelectReady
<1>1. CASE Selecting!Select BY <1>1 DEF Selecting!Select, Selecting!Readable
<1>2. CASE Selecting!ServeTcp
  <2>1. Tail(tcpQueue) \in Seq(TcpClients) /\ Len(Tail(tcpQueue)) = Len(tcpQueue) - 1
        /\ Head(tcpQueue) \in Selecting!Everyone
    BY <1>2, TailOf DEF Selecting!ServeTcp, Selecting!Everyone
  <2>q. QED BY <1>2, <2>1 DEF Selecting!ServeTcp, Selecting!SelectAssumption
<1>3. CASE Selecting!ServeUdp
  <2>1. Tail(datagrams) \in Seq(UdpClients) /\ Len(Tail(datagrams)) = Len(datagrams) - 1
        /\ Head(datagrams) \in Selecting!Everyone
    BY <1>3, TailOf DEF Selecting!ServeUdp, Selecting!Everyone
  <2>2. asking' \in [Selecting!Everyone -> {"away", "waiting", "lost"}]
    BY <1>3 DEF Selecting!ServeUdp
  <2>q. QED BY <1>3, <2>1, <2>2 DEF Selecting!ServeUdp, Selecting!SelectAssumption
<1>4. CASE Selecting!Interrupt
  <2>1. tcpQueue' \in Seq(TcpClients) /\ datagrams' \in Seq(UdpClients)
        /\ Len(tcpQueue') = 0 /\ Len(datagrams') = 0
    BY <1>4 DEF Selecting!Interrupt
  <2>q. QED BY <1>4, <2>1 DEF Selecting!Interrupt, Selecting!SelectAssumption
<1>5. ASSUME NEW c \in TcpClients, Selecting!Connect(c) PROVE SelectInv'
  <2>1. Append(tcpQueue, c) \in Seq(TcpClients) /\ Len(Append(tcpQueue, c)) = Len(tcpQueue) + 1
        /\ Append(tcpQueue, c) # <<>> /\ c \in Selecting!Everyone
    BY AppendTo DEF Selecting!Everyone
  <2>q. QED BY <1>5, <2>1 DEF Selecting!Connect, Selecting!SelectAssumption
<1>6. ASSUME NEW c \in UdpClients, Selecting!SendDatagram(c) PROVE SelectInv'
  <2>1. Append(datagrams, c) \in Seq(UdpClients) /\ Len(Append(datagrams, c)) = Len(datagrams) + 1
        /\ Append(datagrams, c) # <<>> /\ c \in Selecting!Everyone
    BY AppendTo DEF Selecting!Everyone
  <2>q. QED BY <1>6, <2>1 DEF Selecting!SendDatagram, Selecting!SelectAssumption
<1>7. ASSUME NEW c \in UdpClients, Selecting!LoseDatagram(c) \/ Selecting!Restart(c)
      PROVE  SelectInv'
  BY <1>7 DEF Selecting!LoseDatagram, Selecting!Restart
<1>8. CASE UNCHANGED selectVars BY <1>8 DEF selectVars
<1>q. QED
  BY <1>1, <1>2, <1>3, <1>4, <1>5, <1>6, <1>7, <1>8
  DEF Selecting!Next, Selecting!ServerStep

LEMMA SelectInitial == ASSUME Selecting!SelectAssumption, Selecting!Init PROVE SelectInv
<1>1. tcpQueue \in Seq(TcpClients) /\ datagrams \in Seq(UdpClients)
      /\ Len(tcpQueue) = 0 /\ Len(datagrams) = 0
  BY DEF Selecting!Init
<1>2. asking \in [Selecting!Everyone -> {"away", "waiting", "lost"}]
  BY DEF Selecting!Init
<1>q. QED
  BY <1>1, <1>2 DEF Selecting!Init, SelectInv, Selecting!TypeOK, SelectReady,
    Selecting!SelectAssumption

--------------------------------------------------------------------------------
\* The lines of a queue (QueueTurns).

\* The server's identifier leads to the queue as long as the server runs; an ended
\* program has none; what somebody can reach exists, and what does not exist holds
\* nothing; only kills leave lines behind.
QueueReaches ==
  /\ qOpen["server"] = (qAt["server"] # "off")
  /\ qAt["client"] = "off" => qOpen["client"] = FALSE
  /\ qAt["client"] # "remove"
  /\ \A p \in Queue!Programs : qOpen[p] = TRUE => qExists = TRUE
  /\ qExists = FALSE => queue = <<>> /\ spare = 0
  /\ qKills = 0 => spare = 0

\* A line for a server that waits, the answer a client owes.
QueueAwaited == IF qOpen["server"] = TRUE /\ qAt["server"] = "receive" THEN 1 ELSE 0
QueueOwed == IF qOpen["client"] = TRUE /\ qAt["client"] = "send" THEN 1 ELSE 0

QueueBalance == Len(queue) = QueueAwaited - QueueOwed + spare

QueueInv == Queue!TypeOK /\ QueueReaches /\ QueueBalance

LEMMA QueueInitial == ASSUME Queue!QueueAssumption, Queue!Init PROVE QueueInv
<1>1. Queue!TypeOK
  <2>1. queue \in Seq(Queue!Programs) /\ Len(queue) <= MaxMsg
    BY DEF Queue!QueueAssumption, Queue!Init
  <2>2. qRuns \in
          [Queue!Programs -> 0 .. MaxRuns] /\ qKills \in 0 .. MaxKills /\ spare \in Int
    BY DEF Queue!QueueAssumption, Queue!Init
  <2>3. qOpen \in [Queue!Programs -> BOOLEAN] /\ qExists \in BOOLEAN BY DEF Queue!Init
  <2>q. QED BY <2>1, <2>2, <2>3 DEF Queue!Init, Queue!TypeOK
<1>2. QueueReaches BY DEF Queue!Init, QueueReaches, Queue!Programs
<1>3. QueueBalance
  <2>1. qOpen["server"] = FALSE /\ qOpen["client"] = FALSE
    BY DEF Queue!Init, Queue!Programs
  <2>2. QueueAwaited = 0 BY <2>1 DEF QueueAwaited
  <2>3. QueueOwed = 0 BY <2>1 DEF QueueOwed
  <2>q. QED BY <2>2, <2>3 DEF Queue!Init, QueueBalance
<1>q. QED BY <1>1, <1>2, <1>3 DEF QueueInv

LEMMA QueueChoose ==
  ASSUME QueueInv, NEW a \in {"posix", "sysv"}, Queue!Choose(a) PROVE QueueInv'
<1>1. Queue!TypeOK' BY DEF QueueInv, Queue!TypeOK, Queue!Choose
<1>2. QueueReaches' BY DEF QueueInv, QueueReaches, Queue!Choose
<1>3. QueueBalance' BY DEF QueueInv, QueueBalance, QueueAwaited, QueueOwed, Queue!Choose
<1>q. QED BY <1>1, <1>2, <1>3 DEF QueueInv

LEMMA QueueStart ==
  ASSUME Queue!QueueAssumption, QueueInv, NEW p \in Queue!Programs, Queue!Start(p)
  PROVE  QueueInv'
<1>1. Queue!TypeOK'
  <2>1. qRuns' \in [Queue!Programs -> 0 .. MaxRuns]
    BY DEF Queue!QueueAssumption, QueueInv, Queue!TypeOK, Queue!Start
  <2>2. qOpen' \in [Queue!Programs -> BOOLEAN] /\ qExists' \in BOOLEAN
    BY DEF QueueInv, Queue!TypeOK, Queue!Start
  <2>3. qAt' \in [Queue!Programs -> {"off", "send", "receive", "remove"}]
    BY DEF QueueInv, Queue!TypeOK, Queue!Start
  <2>4. took' \in [Queue!Programs -> Queue!Programs \cup {"nothing", "error"}]
    BY DEF QueueInv, Queue!TypeOK, Queue!Start
  <2>q. QED BY <2>1, <2>2, <2>3, <2>4 DEF QueueInv, Queue!TypeOK, Queue!Start
<1>2. QueueReaches'
  BY DEF QueueInv, Queue!TypeOK, QueueReaches, Queue!Programs, Queue!Start
<1>3. QueueBalance'
  <2>1. QueueAwaited' = QueueAwaited
    BY DEF QueueInv, Queue!TypeOK, QueueReaches, QueueAwaited, Queue!Programs,
      Queue!Start
  <2>2. QueueOwed' = QueueOwed
    BY DEF QueueInv, Queue!TypeOK, QueueReaches, QueueOwed, Queue!Programs, Queue!Start
  <2>q. QED BY <2>1, <2>2 DEF QueueInv, QueueBalance, Queue!Start
<1>q. QED BY <1>1, <1>2, <1>3 DEF QueueInv

LEMMA QueueSend ==
  ASSUME Queue!QueueAssumption, QueueInv, NEW p \in Queue!Programs, Queue!Send(p)
  PROVE  QueueInv'
<1>1. Queue!TypeOK'
  BY DEF Queue!QueueAssumption, QueueInv, Queue!TypeOK, Queue!Programs, Queue!Send,
    Queue!Goes, Queue!After
<1>2. QueueReaches'
  BY DEF QueueInv, Queue!TypeOK, QueueReaches, Queue!Programs, Queue!Send, Queue!Goes,
    Queue!After
<1>3. QueueBalance'
  <2>1. CASE p = "server"
    <3>1. QueueAwaited' = QueueAwaited + 1 /\ QueueOwed' = QueueOwed
      BY <2>1
      DEF QueueInv, Queue!TypeOK, QueueAwaited, QueueOwed, Queue!Programs, Queue!Send,
        Queue!Goes, Queue!After
    <3>q. QED
      BY <3>1
      DEF QueueInv, Queue!TypeOK, QueueBalance, Queue!Send, QueueAwaited, QueueOwed
  <2>2. CASE p = "client"
    <3>1. QueueAwaited' = QueueAwaited /\ QueueOwed' = QueueOwed - 1
      BY <2>2
      DEF QueueInv, Queue!TypeOK, QueueAwaited, QueueOwed, Queue!Programs, Queue!Send,
        Queue!Goes, Queue!After
    <3>q. QED
      BY <3>1
      DEF QueueInv, Queue!TypeOK, QueueBalance, Queue!Send, QueueAwaited, QueueOwed
  <2>q. QED BY <2>1, <2>2 DEF Queue!Programs
<1>q. QED BY <1>1, <1>2, <1>3 DEF QueueInv
LEMMA QueueReceive ==
  ASSUME Queue!QueueAssumption, QueueInv, NEW p \in Queue!Programs, Queue!Receive(p)
  PROVE  QueueInv'
<1>1. Queue!TypeOK'
  <2>1. /\ queue' \in Seq(Queue!Programs) /\ Len(queue') = Len(queue) - 1
        /\ Head(queue) \in Queue!Programs
    BY DEF QueueInv, Queue!TypeOK, Queue!Receive
  <2>2. qOpen' \in [Queue!Programs -> BOOLEAN]
    BY DEF QueueInv, Queue!TypeOK, Queue!Receive, Queue!Goes
  <2>3. qAt' \in [Queue!Programs -> {"off", "send", "receive", "remove"}]
    BY DEF QueueInv, Queue!TypeOK, Queue!Receive, Queue!Goes, Queue!After
  <2>4. took' \in [Queue!Programs -> Queue!Programs \cup {"nothing", "error"}]
    BY <2>1 DEF QueueInv, Queue!TypeOK, Queue!Receive
  <2>q. QED
    BY <2>1, <2>2, <2>3, <2>4
    DEF Queue!QueueAssumption, QueueInv, Queue!TypeOK, Queue!Receive
<1>2. QueueReaches'
  BY DEF QueueInv, Queue!TypeOK, QueueReaches, Queue!Programs, Queue!Receive,
    Queue!Goes, Queue!After
<1>3. QueueBalance'
  <2>1. CASE p = "server"
    <3>1. QueueAwaited' = QueueAwaited - 1 /\ QueueOwed' = QueueOwed
      BY <2>1
      DEF QueueInv, Queue!TypeOK, QueueAwaited, QueueOwed, Queue!Programs,
        Queue!Receive, Queue!Goes, Queue!After
    <3>q. QED
      BY <3>1
      DEF QueueInv, Queue!TypeOK, QueueBalance, Queue!Receive, QueueAwaited, QueueOwed
  <2>2. CASE p = "client"
    <3>1. QueueAwaited' = QueueAwaited /\ QueueOwed' = QueueOwed + 1
      BY <2>2
      DEF QueueInv, Queue!TypeOK, QueueAwaited, QueueOwed, Queue!Programs,
        Queue!Receive, Queue!Goes, Queue!After
    <3>q. QED
      BY <3>1
      DEF QueueInv, Queue!TypeOK, QueueBalance, Queue!Receive, QueueAwaited, QueueOwed
  <2>q. QED BY <2>1, <2>2 DEF Queue!Programs
<1>q. QED BY <1>1, <1>2, <1>3 DEF QueueInv

LEMMA QueueFail ==
  ASSUME QueueInv, NEW p \in Queue!Programs, Queue!Fail(p) PROVE QueueInv'
<1>1. Queue!TypeOK'
  <2>1. qOpen' \in [Queue!Programs -> BOOLEAN]
    BY DEF QueueInv, Queue!TypeOK, Queue!Fail, Queue!Goes
  <2>2. qAt' \in [Queue!Programs -> {"off", "send", "receive", "remove"}]
    BY DEF QueueInv, Queue!TypeOK, Queue!Fail, Queue!Goes, Queue!After
  <2>3. took' \in [Queue!Programs -> Queue!Programs \cup {"nothing", "error"}]
    BY DEF QueueInv, Queue!TypeOK, Queue!Fail
  <2>q. QED BY <2>1, <2>2, <2>3 DEF QueueInv, Queue!TypeOK, Queue!Fail
<1>2. QueueReaches'
  BY DEF QueueInv, Queue!TypeOK, QueueReaches, Queue!Programs, Queue!Fail, Queue!Goes,
    Queue!After
<1>3. QueueBalance'
  <2>1. QueueAwaited' = QueueAwaited
    BY DEF QueueInv, Queue!TypeOK, QueueReaches, QueueAwaited, Queue!Programs,
      Queue!Fail, Queue!Goes, Queue!After
  <2>2. QueueOwed' = QueueOwed
    BY DEF QueueInv, Queue!TypeOK, QueueReaches, QueueOwed, Queue!Programs, Queue!Fail,
      Queue!Goes, Queue!After
  <2>q. QED BY <2>1, <2>2 DEF QueueInv, QueueBalance, Queue!Fail
<1>q. QED BY <1>1, <1>2, <1>3 DEF QueueInv

LEMMA QueueRemove ==
  ASSUME Queue!QueueAssumption, QueueInv, Queue!Remove PROVE QueueInv'
<1>1. Queue!TypeOK'
  <2>1. queue' \in Seq(Queue!Programs) /\ Len(queue') <= MaxMsg
    BY DEF Queue!QueueAssumption, Queue!Remove
  <2>2. qOpen' \in [Queue!Programs -> BOOLEAN] /\ qExists' \in BOOLEAN
    BY DEF Queue!Remove
  <2>3. qAt' \in [Queue!Programs -> {"off", "send", "receive", "remove"}]
    BY DEF QueueInv, Queue!TypeOK, Queue!Remove
  <2>q. QED BY <2>1, <2>2, <2>3 DEF QueueInv, Queue!TypeOK, Queue!Remove
<1>2. QueueReaches'
  BY DEF QueueInv, Queue!TypeOK, QueueReaches, Queue!Programs, Queue!Remove
<1>3. QueueBalance'
  <2>1. qOpen'["server"] = FALSE /\ qOpen'["client"] = FALSE
    BY DEF Queue!Remove, Queue!Programs
  <2>2. QueueAwaited' = 0 /\ QueueOwed' = 0 BY <2>1 DEF QueueAwaited, QueueOwed
  <2>q. QED BY <2>2 DEF QueueBalance, Queue!Remove
<1>q. QED BY <1>1, <1>2, <1>3 DEF QueueInv

LEMMA QueueKill ==
  ASSUME Queue!QueueAssumption, QueueInv, NEW p \in Queue!Programs, Queue!Kill(p)
  PROVE  QueueInv'
<1>1. Queue!TypeOK'
  <2>1. qOpen' \in [Queue!Programs -> BOOLEAN] BY DEF QueueInv, Queue!TypeOK, Queue!Kill
  <2>2. qAt' \in [Queue!Programs -> {"off", "send", "receive", "remove"}]
    BY DEF QueueInv, Queue!TypeOK, Queue!Kill
  <2>3. qKills' \in 0 .. MaxKills
    BY DEF Queue!QueueAssumption, QueueInv, Queue!TypeOK, Queue!Kill
  <2>4. spare' \in {spare, spare + 1, spare - 1}
    BY DEF QueueInv, Queue!TypeOK, Queue!Kill
  <2>q. QED BY <2>1, <2>2, <2>3, <2>4 DEF QueueInv, Queue!TypeOK, Queue!Kill
<1>2. QueueReaches'
  <2>1. qKills' # 0 BY DEF Queue!QueueAssumption, QueueInv, Queue!TypeOK, Queue!Kill
  <2>2. qExists' = FALSE => spare' = 0
    BY DEF QueueInv, Queue!TypeOK, QueueReaches, Queue!Programs, Queue!Kill
  <2>q. QED
    BY <2>1, <2>2 DEF QueueInv, Queue!TypeOK, QueueReaches, Queue!Programs, Queue!Kill
<1>3. QueueBalance'
  <2>1. CASE p = "server"
    <3>1. QueueAwaited' = 0 /\ QueueOwed' = QueueOwed /\ spare' = spare + QueueAwaited
      BY <2>1
      DEF QueueInv, Queue!TypeOK, QueueAwaited, QueueOwed, Queue!Programs, Queue!Kill
    <3>q. QED
      BY <3>1
      DEF QueueInv, Queue!TypeOK, QueueBalance, Queue!Kill, QueueAwaited, QueueOwed
  <2>2. CASE p = "client"
    <3>1. QueueAwaited' = QueueAwaited /\ QueueOwed' = 0 /\ spare' = spare - QueueOwed
      BY <2>2
      DEF QueueInv, Queue!TypeOK, QueueAwaited, QueueOwed, Queue!Programs, Queue!Kill
    <3>q. QED
      BY <3>1
      DEF QueueInv, Queue!TypeOK, QueueBalance, Queue!Kill, QueueAwaited, QueueOwed
  <2>q. QED BY <2>1, <2>2 DEF Queue!Programs
<1>q. QED BY <1>1, <1>2, <1>3 DEF QueueInv

\* Without kills a server that sends finds the queue empty, since no client has
\* been promised anything; and a client that sends has taken the only line.
LEMMA QueueBalanced == ASSUME Queue!QueueAssumption, QueueInv PROVE Queue!LinesBalance
<1>1. QueueAwaited = Queue!Count(qOpen["server"] /\ qAt["server"] = "receive")
  BY Zenon DEF QueueInv, Queue!TypeOK, QueueAwaited, Queue!Count, Queue!Programs
<1>2. QueueOwed = Queue!Count(qOpen["client"] /\ qAt["client"] = "send")
  BY Zenon DEF QueueInv, Queue!TypeOK, QueueOwed, Queue!Count, Queue!Programs
<1>3. ASSUME NEW p \in Queue!Programs, qKills = 0, qAt[p] = "send", qOpen[p]
      PROVE  Len(queue) < MaxMsg
  <2>1. spare = 0 /\ Len(queue) = QueueAwaited - QueueOwed
    BY <1>3
    DEF QueueInv, Queue!TypeOK, QueueReaches, QueueBalance, QueueAwaited, QueueOwed
  <2>2. QueueAwaited = 0 \/ QueueOwed = 1
    BY <1>3 DEF QueueAwaited, QueueOwed, Queue!Programs
  <2>q. QED BY <2>1, <2>2 DEF Queue!QueueAssumption, QueueAwaited, QueueOwed
<1>q. QED BY <1>1, <1>2, <1>3 DEF QueueInv, QueueBalance, Queue!LinesBalance

LEMMA QueueStutter == ASSUME QueueInv, UNCHANGED Queue!vars PROVE QueueInv'
<1>1. Queue!TypeOK' BY DEF QueueInv, Queue!TypeOK, Queue!vars
<1>2. QueueReaches' BY DEF QueueInv, QueueReaches, Queue!vars
<1>3. QueueBalance' BY DEF QueueInv, QueueBalance, QueueAwaited, QueueOwed, Queue!vars
<1>q. QED BY <1>1, <1>2, <1>3 DEF QueueInv

LEMMA QueueStep ==
  ASSUME Queue!QueueAssumption, QueueInv, [Queue!Next]_queueVars PROVE QueueInv'
<1>1. CASE Queue!Next
  BY <1>1, QueueChoose, QueueStart, QueueSend, QueueReceive, QueueFail, QueueRemove,
    QueueKill DEF Queue!Next, Queue!Typed, Queue!Step
<1>q. QED BY <1>1, QueueStutter DEF queueVars, Queue!vars

--------------------------------------------------------------------------------
\* The texts of a segment (SegmentTurns).

\* The client has passed its wait and uses the segment; its semaphores are those that
\* have the name now.
SegmentBusy == sAt["client"] \in {"read", "write", "post"}
SegmentCurrent == has["client"].sems = sems /\ sems # 0

\* It holds the token; a semaphore that has the name is down.
SegmentHolding == SegmentBusy /\ SegmentCurrent
SegmentZero(s) == value[s][sems] = 0

\* Who runs has opened what has the name; the numbers of the objects that there have
\* been are below the next ones.
SegmentOpened ==
  /\ IF sAt["server"] = "off" THEN has["server"] = Segment!Nothing
     ELSE has["server"].sems = sems /\ sems # 0
  /\ sAt["server"] = "map" => has["server"].shm = 0
  /\ sAt["server"] \in {"post", "wait", "read", "shm"} => has["server"].shm = shm
  /\ sAt["server"] \in {"post", "wait", "read", "shm", "sems"} => has["server"].shm # 0
  /\ sAt["server"] = "sems" => shm = 0
  /\ sAt["client"] = "off" => has["client"] = Segment!Nothing
  /\ sApi = "posix" /\ sAt["client"] # "off" => has["client"].sems # 0
  /\ sAt["client"] = "map" => has["client"].shm = 0
  /\ sAt["client"] \in {"write", "post"} => has["client"].shm # 0
  /\ sApi = "none" => sAt["server"] = "off" /\ sAt["client"] = "off"
  /\ sAt["server"] \notin {"write"} /\ sAt["client"] \notin {"shm", "sems"}

SegmentNumbered ==
  /\ sems < Segment!Fresh /\ has["client"].sems < Segment!Fresh
  /\ shm <= sRuns["server"] /\ has["client"].shm <= sRuns["server"]
  /\ sAt["server"] = "map" => shm < sRuns["server"] /\ has["client"].shm < sRuns["server"]

\* Without kills.
SegmentQuiet ==
  sKills = 0 =>
    /\ \A s \in Segment!Semaphores, x \in Segment!Objects : x # sems => value[s][x] = 0
    /\ sAt["server"] \in {"off", "map", "sems"} => shm = 0
    /\ sApi = "posix" /\ SegmentBusy => SegmentCurrent

\* One token at most, and only while the server waits; and who waits for it has the
\* server's segment or none.
SegmentToken ==
  sKills = 0 \/ trusted =>
    /\ sems # 0 /\ sAt["server"] # "wait" =>
         SegmentZero("sem_server") /\ SegmentZero("sem_client") /\ ~SegmentHolding
    /\ sAt["server"] = "wait" =>
         /\ \/ SegmentZero("sem_server")
            \/ value["sem_server"][sems] = 1 /\ SegmentZero("sem_client") /\ ~SegmentHolding
         /\ \/ SegmentZero("sem_client")
            \/ value["sem_client"][sems] = 1 /\ SegmentZero("sem_server") /\ ~SegmentHolding
    /\ SegmentCurrent => has["client"].shm \in
         {0, IF sAt["server"] \in {"off", "map"} THEN shm ELSE has["server"].shm}

\* What a trusted server's segment holds, and that no other client is going to write
\* into it.
SegmentHi == text[has["server"].shm] = "Hi"
SegmentHello == text[has["server"].shm] = "Hello!"
SegmentTrust ==
  trusted =>
    /\ sKills = 0 \/ sApi = "sysv"
    /\ sAt["server"] \in {"post", "wait", "read"} /\ SegmentBusy /\ ~SegmentCurrent
         => has["client"].shm # has["server"].shm
    /\ sKills > 0 /\ sAt["server"] # "off" /\ SegmentBusy => SegmentCurrent
    /\ sAt["server"] \in {"read", "shm", "sems", "off"} => ~SegmentBusy
    /\ sAt["server"] = "wait" /\ ~SegmentZero("sem_client") => ~SegmentBusy
    /\ sAt["server"] = "post" => SegmentHi
    /\ sAt["server"] = "wait" =>
         /\ ~SegmentZero("sem_server") => SegmentHi
         /\ SegmentHolding /\ sAt["client"] # "post" => SegmentHi
         /\ SegmentHolding /\ sAt["client"] = "post" => SegmentHello
         /\ ~SegmentZero("sem_client") => SegmentHello
    /\ sAt["server"] = "read" => SegmentHello

SegmentInv ==
  /\ Segment!TypeOK /\ SegmentOpened /\ SegmentNumbered
  /\ SegmentQuiet /\ SegmentToken /\ SegmentTrust

LEMMA SegmentValue ==
  ASSUME Segment!TypeOK, NEW s \in Segment!Semaphores, NEW x \in Segment!Objects, NEW k \in Nat,
         value' = [value EXCEPT ![s][x] = k]
  PROVE  /\ value' \in [Segment!Semaphores -> [Segment!Objects -> Nat]]
         /\ value'[s][x] = k
         /\ \A t \in Segment!Semaphores, y \in Segment!Objects :
              t # s \/ y # x => value'[t][y] = value[t][y]
BY DEF Segment!TypeOK

LEMMA SegmentNext ==
  ASSUME Segment!SegmentAssumption, Segment!TypeOK, NEW p \in Segment!Programs, sRuns[p] < MaxRuns
  PROVE  /\ Segment!Fresh \in Segment!Objects
         /\ \A q \in Segment!Programs : sRuns[q] \in Int /\ sRuns[q] >= 0
BY DEF Segment!SegmentAssumption, Segment!TypeOK, Segment!Programs, Segment!Objects,
  Segment!Fresh

\* The numbers of the objects are numbers.
LEMMA SegmentNumbers ==
  ASSUME SegmentInv
  PROVE  /\ sems \in Segment!Objects \cup {0} /\ shm \in Segment!Objects \cup {0}
         /\ sKills \in Int /\ sKills >= 0
         /\ sRuns["server"] \in Int /\ sRuns["client"] \in Int
         /\ sRuns["server"] >= 0 /\ sRuns["client"] >= 0
         /\ has["client"].sems \in Segment!Objects \cup {0}
         /\ has["client"].shm \in Segment!Objects \cup {0}
         /\ has["server"].sems \in Segment!Objects \cup {0}
         /\ has["server"].shm \in Segment!Objects \cup {0}
         /\ value \in [Segment!Semaphores -> [Segment!Objects -> Nat]]
         /\ Segment!Objects \subseteq Nat \ {0}
         /\ sems \in Nat /\ shm \in Nat /\ has["client"].sems \in Nat
         /\ has["client"].shm \in Nat
         /\ has["client"].sems # 0 => has["client"].sems \in Segment!Objects
BY DEF SegmentInv, Segment!TypeOK, Segment!Programs, Segment!Objects

LEMMA SegmentChoose ==
  ASSUME Segment!SegmentAssumption, SegmentInv, NEW a \in {"posix", "sysv"}, Segment!Choose(a)
  PROVE  SegmentInv'
<1>1. Segment!TypeOK' BY DEF SegmentInv, Segment!TypeOK, Segment!Choose, Segment!memory
<1>2. SegmentOpened' BY <1>1 DEF SegmentInv, SegmentOpened, Segment!Choose
<1>3. SegmentNumbered'
  BY <1>1 DEF SegmentInv, SegmentNumbered, Segment!Fresh, Segment!Choose, Segment!memory
<1>4. SegmentQuiet'
  BY <1>1
  DEF SegmentInv, SegmentOpened, SegmentQuiet, SegmentBusy, Segment!Choose,
    Segment!memory
<1>5. SegmentToken'
  BY <1>1
  DEF SegmentInv, SegmentToken, SegmentZero, SegmentHolding, SegmentBusy,
    SegmentCurrent, Segment!Choose, Segment!memory
<1>6. SegmentTrust'
  BY <1>1
  DEF SegmentInv, SegmentTrust, SegmentHi, SegmentHello, SegmentZero, SegmentHolding,
    SegmentBusy, SegmentCurrent, Segment!Choose, Segment!memory
<1>q. QED BY <1>1, <1>2, <1>3, <1>4, <1>5, <1>6 DEF SegmentInv

LEMMA SegmentStartServer ==
  ASSUME Segment!SegmentAssumption, SegmentInv, Segment!Start("server")
  PROVE  SegmentInv'
<1>v. /\ Segment!Fresh \in Segment!Objects
      /\ \A q \in Segment!Programs : sRuns[q] \in Int /\ sRuns[q] >= 0
      /\ sems' \in Segment!Objects
      /\ has' = [has EXCEPT !["server"] = [sems |-> sems', shm |-> 0]]
  <2>1. /\ Segment!Fresh \in Segment!Objects
        /\ \A q \in Segment!Programs : sRuns[q] \in Int /\ sRuns[q] >= 0
    BY SegmentNext DEF SegmentInv, Segment!Start, Segment!Programs
  <2>2. sems' \in Segment!Objects BY <2>1 DEF SegmentInv, Segment!TypeOK, Segment!Start
  <2>3. [Segment!Nothing EXCEPT !.sems = sems'] = [sems |-> sems', shm |-> 0]
    BY DEF Segment!Nothing
  <2>5. has' = [has EXCEPT !["server"] = [Segment!Nothing EXCEPT !.sems = sems']]
    BY DEF Segment!Start
  <2>q. QED BY <2>1, <2>2, <2>3, <2>5
<1>a. value' \in [Segment!Semaphores -> [Segment!Objects -> Nat]]
  BY <1>v DEF SegmentInv, Segment!TypeOK, Segment!Start
<1>b. \A s \in Segment!Semaphores : IF sApi = "sysv" THEN value'[s][sems'] = 0 ELSE value' = value
  BY <1>v DEF SegmentInv, Segment!TypeOK, Segment!Start
<1>c. \A s \in Segment!Semaphores, x \in Segment!Objects : x # sems' => value'[s][x] = value[s][x]
  BY <1>v DEF Segment!Start
<1>s. /\ sApi # "none" /\ sAt["server"] = "off"
      /\ sAt'["server"] = "map" /\ sAt'["client"] = sAt["client"]
      /\ has'["client"] = has["client"] /\ has'["server"].sems = sems'
      /\ has'["server"].shm = 0
      /\ sRuns'["server"] = sRuns["server"] + 1 /\ sRuns'["client"] = sRuns["client"]
      /\ sems' = (IF sems = 0 THEN Segment!Fresh ELSE sems)
      /\ trusted' = (sKills = 0 \/ (sApi = "sysv" /\ sAt["client"] = "off"))
      /\ UNCHANGED <<sApi, shm, text, sKills>>
  BY <1>v DEF SegmentInv, Segment!TypeOK, Segment!Programs, Segment!Start
<1>1. Segment!TypeOK'
  <2>a. sApi' \in {"none", "posix", "sysv"} /\ trusted' \in BOOLEAN /\ crashed' \in BOOLEAN
    BY DEF SegmentInv, Segment!TypeOK, Segment!Start
  <2>b. sems' \in Segment!Objects \cup {0} /\ shm' \in Segment!Objects \cup {0}
    BY <1>v DEF SegmentInv, Segment!TypeOK, Segment!Start
  <2>c. value' \in [Segment!Semaphores -> [Segment!Objects -> Nat]]
    BY <1>a
  <2>d. text' \in [Segment!Objects -> {"empty", "Hi", "Hello!"}]
    BY DEF SegmentInv, Segment!TypeOK, Segment!Start
  <2>e. sAt' \in
          [Segment!Programs -> {"off", "map", "post", "wait", "read", "write", "shm", "sems"}]
    BY DEF SegmentInv, Segment!TypeOK, Segment!Start
  <2>f. has' \in
          [Segment!Programs -> [sems : Segment!Objects \cup {0}, shm : Segment!Objects \cup {0}]]
    BY <2>b, <1>v DEF SegmentInv, Segment!TypeOK
  <2>g. sRuns' \in [Segment!Programs -> 0 .. MaxRuns]
    BY DEF SegmentInv, Segment!TypeOK, Segment!Programs, Segment!SegmentAssumption,
      Segment!Start
  <2>h. sKills' \in 0 .. MaxKills
    BY DEF SegmentInv, Segment!TypeOK, Segment!Start
  <2>q. QED BY <2>a, <2>b, <2>c, <2>d, <2>e, <2>f, <2>g, <2>h DEF Segment!TypeOK
<1>2. SegmentOpened'
  BY DEF SegmentInv, Segment!TypeOK, SegmentOpened, Segment!Nothing, Segment!Start,
    Segment!Fresh, Segment!Programs
<1>3. SegmentNumbered'
  BY <1>s, SegmentNumbers DEF SegmentInv, SegmentNumbered, Segment!Fresh
<1>4. SegmentQuiet'
  BY <1>s, SegmentNumbers, <1>c
  DEF SegmentInv, SegmentQuiet, SegmentBusy, SegmentCurrent
<1>5. SegmentToken'
  <2>1. CASE sKills = 0
    <3>1. SegmentZero("sem_server") \/ sems = 0
      BY <2>1, <1>s DEF SegmentInv, SegmentToken
    <3>2. SegmentZero("sem_client") \/ sems = 0
      BY <2>1, <1>s DEF SegmentInv, SegmentToken
    <3>3. \A t \in Segment!Semaphores : value'[t][sems'] = 0
      <4>1. CASE sems = 0
        <5>1. \A t \in Segment!Semaphores : value[t][Segment!Fresh] = 0 /\ Segment!Fresh # 0
          BY <2>1, <4>1, <1>v, SegmentNumbers DEF SegmentInv, SegmentQuiet
        <5>q. QED BY <5>1, <4>1, <1>b, <1>s
      <4>2. CASE sems # 0
        BY <4>2, <3>1, <3>2, <1>b, <1>s DEF SegmentZero, Segment!Semaphores
      <4>q. QED BY <4>1, <4>2
    <3>4. ~SegmentHolding' /\ (SegmentCurrent' => has'["client"].shm \in {0, shm'})
      <4>1. CASE sems = 0
        BY <4>1, <1>s, SegmentNumbers
        DEF SegmentInv, SegmentNumbered, SegmentHolding, SegmentCurrent
      <4>2. CASE sems # 0
        BY <2>1, <4>2, <1>s
        DEF SegmentInv, SegmentToken, SegmentHolding, SegmentBusy, SegmentCurrent
      <4>q. QED BY <4>1, <4>2
    <3>q. QED BY <3>3, <3>4, <1>s DEF SegmentToken, SegmentZero, Segment!Semaphores
  <2>2. CASE sKills # 0 /\ trusted'
    <3>1. sApi = "sysv" /\ sAt["client"] = "off" BY <2>2, <1>s
    <3>2. has'["client"] = Segment!Nothing BY <3>1, <1>s DEF SegmentInv, SegmentOpened
    <3>3. ~SegmentCurrent' BY <3>2 DEF SegmentCurrent, Segment!Nothing
    <3>q. QED
      BY <3>1, <3>3, <1>b
      DEF SegmentToken, SegmentZero, SegmentHolding, Segment!Semaphores
  <2>3. CASE sKills # 0 /\ ~trusted' BY <2>3, <1>s DEF SegmentToken
  <2>q. QED BY <2>1, <2>2, <2>3
<1>6. SegmentTrust' 
  <2>1. trusted' => sKills = 0 \/ (sApi = "sysv" /\ ~SegmentBusy')
    BY <1>s DEF SegmentBusy
  <2>q. QED BY <2>1, <1>s DEF SegmentTrust
<1>q. QED BY <1>1, <1>2, <1>3, <1>4, <1>5, <1>6 DEF SegmentInv

LEMMA SegmentStartClient ==
  ASSUME Segment!SegmentAssumption, SegmentInv, Segment!Start("client")
  PROVE  SegmentInv'
<1>v. /\ Segment!Fresh \in Segment!Objects
      /\ \A q \in Segment!Programs : sRuns[q] \in Int /\ sRuns[q] >= 0
      /\ sems' \in Segment!Objects \cup {0} /\ value' = value
      /\ has' = [has EXCEPT !["client"] = [sems |-> sems', shm |-> 0]]
  <2>1. /\ Segment!Fresh \in Segment!Objects
        /\ \A q \in Segment!Programs : sRuns[q] \in Int /\ sRuns[q] >= 0
    BY SegmentNext DEF SegmentInv, Segment!Start, Segment!Programs
  <2>2. sems' \in Segment!Objects \cup {0}
    BY <2>1 DEF SegmentInv, Segment!TypeOK, Segment!Start
  <2>3. [Segment!Nothing EXCEPT !.sems = sems'] = [sems |-> sems', shm |-> 0]
    BY DEF Segment!Nothing
  <2>4. value' = value BY DEF Segment!Start
  <2>5. has' = [has EXCEPT !["client"] = [Segment!Nothing EXCEPT !.sems = sems']]
    BY DEF Segment!Start
  <2>q. QED BY <2>1, <2>2, <2>3, <2>4, <2>5
<1>s. /\ sApi # "none" /\ sAt["client"] = "off"
      /\ sAt'["client"] = "map" /\ sAt'["server"] = sAt["server"]
      /\ has'["server"] = has["server"] /\ has'["client"].sems = sems'
      /\ has'["client"].shm = 0
      /\ sRuns'["client"] = sRuns["client"] + 1 /\ sRuns'["server"] = sRuns["server"]
      /\ sems' = (IF sems = 0 /\ sApi = "posix" THEN Segment!Fresh ELSE sems)
      /\ UNCHANGED <<sApi, shm, text, sKills, trusted, value>>
  BY <1>v DEF SegmentInv, Segment!TypeOK, Segment!Programs, Segment!Start
<1>1. Segment!TypeOK'
  <2>a. sApi' \in {"none", "posix", "sysv"} /\ trusted' \in BOOLEAN /\ crashed' \in BOOLEAN
    BY DEF SegmentInv, Segment!TypeOK, Segment!Start
  <2>b. sems' \in Segment!Objects \cup {0} /\ shm' \in Segment!Objects \cup {0}
    BY <1>v DEF SegmentInv, Segment!TypeOK, Segment!Start
  <2>c. value' \in [Segment!Semaphores -> [Segment!Objects -> Nat]]
    BY <1>v DEF SegmentInv, Segment!TypeOK
  <2>d. text' \in [Segment!Objects -> {"empty", "Hi", "Hello!"}]
    BY DEF SegmentInv, Segment!TypeOK, Segment!Start
  <2>e. sAt' \in
          [Segment!Programs -> {"off", "map", "post", "wait", "read", "write", "shm", "sems"}]
    BY DEF SegmentInv, Segment!TypeOK, Segment!Start
  <2>f. has' \in
          [Segment!Programs -> [sems : Segment!Objects \cup {0}, shm : Segment!Objects \cup {0}]]
    BY <2>b, <1>v DEF SegmentInv, Segment!TypeOK
  <2>g. sRuns' \in [Segment!Programs -> 0 .. MaxRuns]
    BY DEF SegmentInv, Segment!TypeOK, Segment!Programs, Segment!SegmentAssumption,
      Segment!Start
  <2>h. sKills' \in 0 .. MaxKills
    BY DEF SegmentInv, Segment!TypeOK, Segment!Start
  <2>q. QED BY <2>a, <2>b, <2>c, <2>d, <2>e, <2>f, <2>g, <2>h DEF Segment!TypeOK
<1>2. SegmentOpened'
  <2>1. Segment!Fresh \in Nat /\ Segment!Fresh # 0 BY SegmentNumbers DEF Segment!Fresh
  <2>2. sApi = "posix" => sems' # 0 BY <2>1, <1>s
  <2>q. QED BY <2>2, <1>s DEF SegmentInv, SegmentOpened
<1>3. SegmentNumbered'
  BY <1>s, SegmentNumbers DEF SegmentInv, SegmentNumbered, Segment!Fresh
<1>4. SegmentQuiet' BY <1>s, SegmentNumbers DEF SegmentInv, SegmentQuiet, SegmentBusy
<1>5. SegmentToken'
  BY <1>s, <1>v
  DEF SegmentInv, SegmentQuiet, SegmentToken, SegmentTrust, SegmentZero, SegmentHolding,
    SegmentBusy, Segment!Semaphores
<1>6. SegmentTrust'
  BY <1>s
  DEF SegmentInv, SegmentOpened, SegmentTrust, SegmentHi, SegmentHello, SegmentZero,
    SegmentHolding, SegmentBusy
<1>q. QED BY <1>1, <1>2, <1>3, <1>4, <1>5, <1>6 DEF SegmentInv

LEMMA SegmentMapServer ==
  ASSUME Segment!SegmentAssumption, SegmentInv, Segment!MapServer PROVE SegmentInv'
<1>v. sRuns["server"] \in Segment!Objects /\ shm' \in Segment!Objects
  <2>1. sRuns["server"] \in 0 .. MaxRuns /\ sRuns["server"] > shm /\ shm \in Int /\ shm >= 0
    BY DEF SegmentInv, Segment!TypeOK, SegmentNumbered, Segment!MapServer,
      Segment!Programs, Segment!Objects
  <2>q. QED BY <2>1 DEF Segment!MapServer, Segment!Objects, Segment!SegmentAssumption
<1>1. Segment!TypeOK'
  <2>a. sApi' \in {"none", "posix", "sysv"} /\ trusted' \in BOOLEAN /\ crashed' \in BOOLEAN
    BY DEF SegmentInv, Segment!TypeOK, Segment!MapServer
  <2>b. sems' \in Segment!Objects \cup {0} /\ shm' \in Segment!Objects \cup {0}
    BY <1>v DEF SegmentInv, Segment!TypeOK, Segment!MapServer
  <2>c. value' \in [Segment!Semaphores -> [Segment!Objects -> Nat]]
    BY DEF SegmentInv, Segment!TypeOK, Segment!MapServer
  <2>d. text' \in [Segment!Objects -> {"empty", "Hi", "Hello!"}]
    BY <1>v DEF SegmentInv, Segment!TypeOK, Segment!MapServer
  <2>e. sAt' \in
          [Segment!Programs -> {"off", "map", "post", "wait", "read", "write", "shm", "sems"}]
    BY DEF SegmentInv, Segment!TypeOK, Segment!MapServer
  <2>f. has' \in
          [Segment!Programs -> [sems : Segment!Objects \cup {0}, shm : Segment!Objects \cup {0}]]
    BY <2>b DEF SegmentInv, Segment!TypeOK, Segment!Programs, Segment!MapServer
  <2>g. sRuns' \in [Segment!Programs -> 0 .. MaxRuns]
    BY DEF SegmentInv, Segment!TypeOK, Segment!MapServer
  <2>h. sKills' \in 0 .. MaxKills
    BY DEF SegmentInv, Segment!TypeOK, Segment!MapServer
  <2>q. QED BY <2>a, <2>b, <2>c, <2>d, <2>e, <2>f, <2>g, <2>h DEF Segment!TypeOK
<1>2. SegmentOpened'
  BY <1>1, <1>v
  DEF SegmentInv, Segment!TypeOK, SegmentOpened, Segment!MapServer, Segment!Objects
<1>3. SegmentNumbered'
  BY <1>1, <1>v
  DEF SegmentInv, Segment!TypeOK, SegmentNumbered, Segment!Fresh, Segment!MapServer
<1>4. SegmentQuiet'
  BY <1>1, <1>v
  DEF SegmentInv, Segment!TypeOK, SegmentQuiet, SegmentBusy, SegmentCurrent,
    Segment!MapServer
<1>5. SegmentToken'
  BY <1>1, <1>v
  DEF SegmentInv, Segment!TypeOK, SegmentToken, SegmentZero, SegmentHolding,
    SegmentBusy, SegmentCurrent, Segment!MapServer
<1>6. SegmentTrust'
  BY <1>1, <1>v
  DEF SegmentInv, Segment!TypeOK, SegmentNumbered, SegmentQuiet, SegmentTrust,
    SegmentHi, SegmentBusy, SegmentCurrent, Segment!MapServer
<1>q. QED BY <1>1, <1>2, <1>3, <1>4, <1>5, <1>6 DEF SegmentInv

LEMMA SegmentMapClient ==
  ASSUME Segment!SegmentAssumption, SegmentInv, Segment!MapClient PROVE SegmentInv'
<1>s. /\ sAt["client"] = "map"
      /\ sAt'["server"] = sAt["server"] /\ sAt'["client"] = "wait"
      /\ has'["server"] = has["server"]
      /\ has'["client"] = [has["client"] EXCEPT !.shm = shm]
      /\ UNCHANGED <<sApi, sems, shm, text, value, trusted, sRuns, sKills>>
  BY DEF SegmentInv, Segment!TypeOK, Segment!Programs, Segment!MapClient, Segment!memory
<1>t. has'["client"].sems = has["client"].sems /\ has'["client"].shm = shm
  BY <1>s
<1>1. Segment!TypeOK'
  BY DEF SegmentInv, Segment!TypeOK, Segment!MapClient, Segment!memory
<1>2. SegmentOpened'
  BY DEF SegmentInv, Segment!TypeOK, SegmentOpened, Segment!MapClient, Segment!memory
<1>3. SegmentNumbered' BY <1>s DEF SegmentInv, SegmentNumbered, Segment!Fresh
<1>4. SegmentQuiet' BY <1>s DEF SegmentInv, SegmentQuiet, SegmentBusy
<1>5. SegmentToken'
  <2>1. shm \in {0, IF sAt["server"] \in {"off", "map"} THEN shm ELSE has["server"].shm}
    BY DEF SegmentInv, Segment!TypeOK, SegmentOpened, Segment!Programs
  <2>2. /\ UNCHANGED <<sKills, trusted, sems, value>>
        /\ SegmentCurrent' = SegmentCurrent /\ ~SegmentBusy'
    BY <1>s, <1>t DEF SegmentCurrent, SegmentBusy
  <2>q. QED
    BY <2>1, <2>2, <1>s DEF SegmentInv, SegmentToken, SegmentZero, SegmentHolding
<1>6. SegmentTrust'
  BY <1>s
  DEF SegmentInv, SegmentTrust, SegmentHi, SegmentHello, SegmentZero, SegmentHolding,
    SegmentBusy
<1>q. QED BY <1>1, <1>2, <1>3, <1>4, <1>5, <1>6 DEF SegmentInv

LEMMA SegmentPostServer ==
  ASSUME Segment!SegmentAssumption, SegmentInv, Segment!Post("server") PROVE SegmentInv'
<1>v. /\ value' \in [Segment!Semaphores -> [Segment!Objects -> Nat]]
      /\ value'["sem_server"][sems] = value["sem_server"][sems] + 1
      /\ \A t \in Segment!Semaphores, y \in Segment!Objects :
           t # "sem_server" \/ y # sems => value'[t][y] = value[t][y]
  <2>1. /\ sems \in Segment!Objects /\ "sem_server" \in Segment!Semaphores
        /\ value["sem_server"][sems] + 1 \in Nat
    BY DEF SegmentInv, Segment!TypeOK, SegmentOpened, Segment!Semaphores, Segment!Post
  <2>2. value' = [value EXCEPT !["sem_server"][sems] = value["sem_server"][sems] + 1]
    BY DEF SegmentInv, SegmentOpened, Segment!Post, Segment!Works
  <2>q. QED BY <2>1, <2>2, SegmentValue, ZenonT(60) DEF SegmentInv
<1>1. Segment!TypeOK'
  <2>a. sApi' \in {"none", "posix", "sysv"} /\ trusted' \in BOOLEAN /\ crashed' \in BOOLEAN
    BY DEF SegmentInv, Segment!TypeOK, Segment!Post
  <2>b. sems' \in Segment!Objects \cup {0} /\ shm' \in Segment!Objects \cup {0}
    BY DEF SegmentInv, Segment!TypeOK, Segment!Post
  <2>c. value' \in [Segment!Semaphores -> [Segment!Objects -> Nat]]
    BY <1>v
  <2>d. text' \in [Segment!Objects -> {"empty", "Hi", "Hello!"}]
    BY DEF SegmentInv, Segment!TypeOK, Segment!Post
  <2>e. sAt' \in
          [Segment!Programs -> {"off", "map", "post", "wait", "read", "write", "shm", "sems"}]
    BY DEF SegmentInv, Segment!TypeOK, Segment!Post
  <2>f. has' \in
          [Segment!Programs -> [sems : Segment!Objects \cup {0}, shm : Segment!Objects \cup {0}]]
    BY <2>b DEF SegmentInv, Segment!TypeOK, Segment!Post
  <2>g. sRuns' \in [Segment!Programs -> 0 .. MaxRuns]
    BY DEF SegmentInv, Segment!TypeOK, Segment!Post
  <2>h. sKills' \in 0 .. MaxKills
    BY DEF SegmentInv, Segment!TypeOK, Segment!Post
  <2>q. QED BY <2>a, <2>b, <2>c, <2>d, <2>e, <2>f, <2>g, <2>h DEF Segment!TypeOK
<1>2. SegmentOpened' BY <1>1, <1>v DEF SegmentInv, SegmentOpened, Segment!Post
<1>3. SegmentNumbered'
  BY <1>1, <1>v DEF SegmentInv, SegmentNumbered, Segment!Fresh, Segment!Post
<1>4. SegmentQuiet'
  BY <1>1, <1>v DEF SegmentInv, SegmentQuiet, SegmentBusy, SegmentCurrent, Segment!Post
<1>5. SegmentToken'
  BY <1>1, <1>v
  DEF SegmentInv, Segment!TypeOK, SegmentOpened, SegmentToken, SegmentZero,
    SegmentHolding, SegmentBusy, SegmentCurrent, Segment!Post
<1>6. SegmentTrust'
  BY <1>1, <1>v
  DEF SegmentInv, SegmentOpened, SegmentToken, SegmentTrust, SegmentHi, SegmentZero,
    SegmentHolding, SegmentBusy, SegmentCurrent, Segment!Post
<1>q. QED BY <1>1, <1>2, <1>3, <1>4, <1>5, <1>6 DEF SegmentInv

LEMMA SegmentPostClient ==
  ASSUME Segment!SegmentAssumption, SegmentInv, Segment!Post("client") PROVE SegmentInv'
<1>v. /\ value' \in [Segment!Semaphores -> [Segment!Objects -> Nat]]
      /\ ~Segment!Works("client") => value' = value
      /\ Segment!Works("client") =>
           /\ has["client"].sems \in Segment!Objects
           /\ value'["sem_client"][has["client"].sems] = value["sem_client"][has["client"].sems] + 1
           /\ \A t \in Segment!Semaphores, y \in Segment!Objects :
                t # "sem_client" \/ y # has["client"].sems => value'[t][y] = value[t][y]
  <2>1. CASE ~Segment!Works("client")
    BY <2>1 DEF Segment!Post, Segment!Works, SegmentInv, Segment!TypeOK
  <2>2. CASE Segment!Works("client")
    <3> DEFINE x == has["client"].sems
    <3>1. /\ x \in Segment!Objects /\ "sem_client" \in Segment!Semaphores
          /\ value["sem_client"][x] + 1 \in Nat
      BY <2>2 DEF Segment!Works, SegmentInv, Segment!TypeOK, Segment!Programs, Segment!Semaphores
    <3>2. value' = [value EXCEPT !["sem_client"][x] = value["sem_client"][x] + 1]
      BY <2>2 DEF Segment!Works, Segment!Post
    <3> HIDE DEF x
    <3>3. /\ value' \in [Segment!Semaphores -> [Segment!Objects -> Nat]]
          /\ value'["sem_client"][x] = value["sem_client"][x] + 1
          /\ \A t \in Segment!Semaphores, y \in Segment!Objects :
               t # "sem_client" \/ y # x => value'[t][y] = value[t][y]
      BY <3>1, <3>2, SegmentValue, ZenonT(60) DEF SegmentInv
    <3>q. QED BY <2>2, <3>1, <3>3 DEF x
  <2>q. QED BY <2>1, <2>2
<1>s. /\ sAt["client"] = "post"
      /\ sAt'["server"] = sAt["server"] /\ sAt'["client"] = "off"
      /\ has'["server"] = has["server"] /\ has'["client"] = Segment!Nothing
      /\ UNCHANGED <<sApi, sems, shm, text, trusted, sRuns, sKills>>
  BY DEF SegmentInv, Segment!TypeOK, Segment!Programs, Segment!Post
<1>1. Segment!TypeOK'
  <2>a. sApi' \in {"none", "posix", "sysv"} /\ trusted' \in BOOLEAN /\ crashed' \in BOOLEAN
    BY DEF SegmentInv, Segment!TypeOK, Segment!Post
  <2>b. sems' \in Segment!Objects \cup {0} /\ shm' \in Segment!Objects \cup {0}
    BY DEF SegmentInv, Segment!TypeOK, Segment!Post
  <2>c. value' \in [Segment!Semaphores -> [Segment!Objects -> Nat]]
    BY <1>v
  <2>d. text' \in [Segment!Objects -> {"empty", "Hi", "Hello!"}]
    BY DEF SegmentInv, Segment!TypeOK, Segment!Post
  <2>e. sAt' \in
          [Segment!Programs -> {"off", "map", "post", "wait", "read", "write", "shm", "sems"}]
    BY DEF SegmentInv, Segment!TypeOK, Segment!Post
  <2>f. has' \in
          [Segment!Programs -> [sems : Segment!Objects \cup {0}, shm : Segment!Objects \cup {0}]]
    BY <2>b DEF SegmentInv, Segment!TypeOK, Segment!Nothing, Segment!Post
  <2>g. sRuns' \in [Segment!Programs -> 0 .. MaxRuns]
    BY DEF SegmentInv, Segment!TypeOK, Segment!Post
  <2>h. sKills' \in 0 .. MaxKills
    BY DEF SegmentInv, Segment!TypeOK, Segment!Post
  <2>q. QED BY <2>a, <2>b, <2>c, <2>d, <2>e, <2>f, <2>g, <2>h DEF Segment!TypeOK
<1>2. SegmentOpened' BY DEF SegmentInv, Segment!TypeOK, SegmentOpened, Segment!Post
<1>3. SegmentNumbered'
  BY <1>s, SegmentNumbers
  DEF SegmentInv, SegmentNumbered, Segment!Fresh, Segment!Nothing
<1>4. SegmentQuiet'
  BY <1>s, <1>v DEF Segment!Works, SegmentInv, SegmentQuiet, SegmentBusy, SegmentCurrent
<1>5. SegmentToken'
  BY <1>s, SegmentNumbers, <1>v
  DEF SegmentInv, SegmentOpened, SegmentToken, SegmentZero, SegmentHolding, SegmentBusy,
    SegmentCurrent, Segment!Nothing, Segment!Semaphores
<1>6. SegmentTrust'
  BY <1>s, SegmentNumbers, <1>v
  DEF SegmentInv, SegmentOpened, SegmentTrust, SegmentHi, SegmentHello, SegmentZero,
    SegmentHolding, SegmentBusy, SegmentCurrent, Segment!Semaphores
<1>q. QED BY <1>1, <1>2, <1>3, <1>4, <1>5, <1>6 DEF SegmentInv

LEMMA SegmentWaitServer ==
  ASSUME Segment!SegmentAssumption, SegmentInv, Segment!Wait("server") PROVE SegmentInv'
<1>v. /\ value' \in [Segment!Semaphores -> [Segment!Objects -> Nat]]
      /\ value'["sem_client"][sems] = value["sem_client"][sems] - 1
      /\ \A t \in Segment!Semaphores, y \in Segment!Objects :
           t # "sem_client" \/ y # sems => value'[t][y] = value[t][y]
  <2>1. /\ sems \in Segment!Objects /\ "sem_client" \in Segment!Semaphores
        /\ value["sem_client"][sems] - 1 \in Nat
    BY DEF SegmentInv, Segment!TypeOK, SegmentOpened, Segment!Semaphores, Segment!Wait,
      Segment!Works, Segment!Awaited
  <2>2. value' = [value EXCEPT !["sem_client"][sems] = value["sem_client"][sems] - 1]
    BY DEF SegmentInv, SegmentOpened, Segment!Wait, Segment!Works, Segment!Awaited
  <2>q. QED BY <2>1, <2>2, SegmentValue, ZenonT(60) DEF SegmentInv
<1>s. /\ sAt["server"] = "wait"
      /\ sAt'["server"] = "read" /\ sAt'["client"] = sAt["client"]
      /\ has'["server"] = has["server"] /\ has'["client"] = has["client"]
      /\ UNCHANGED <<sApi, sems, shm, text, sRuns, sKills, has>>
  BY DEF SegmentInv, Segment!TypeOK, Segment!Programs, Segment!Wait
<1>t. trusted' = trusted /\ ~SegmentZero("sem_client")
  BY DEF SegmentInv, Segment!TypeOK, SegmentOpened, Segment!Wait, Segment!Works,
    Segment!Awaited, SegmentZero
<1>1. Segment!TypeOK'
  <2>a. sApi' \in {"none", "posix", "sysv"} /\ trusted' \in BOOLEAN /\ crashed' \in BOOLEAN
    BY DEF SegmentInv, Segment!TypeOK, Segment!Wait
  <2>b. sems' \in Segment!Objects \cup {0} /\ shm' \in Segment!Objects \cup {0}
    BY DEF SegmentInv, Segment!TypeOK, Segment!Wait
  <2>c. value' \in [Segment!Semaphores -> [Segment!Objects -> Nat]]
    BY <1>v
  <2>d. text' \in [Segment!Objects -> {"empty", "Hi", "Hello!"}]
    BY DEF SegmentInv, Segment!TypeOK, Segment!Wait
  <2>e. sAt' \in
          [Segment!Programs -> {"off", "map", "post", "wait", "read", "write", "shm", "sems"}]
    BY DEF SegmentInv, Segment!TypeOK, Segment!Wait
  <2>f. has' \in
          [Segment!Programs -> [sems : Segment!Objects \cup {0}, shm : Segment!Objects \cup {0}]]
    BY <2>b DEF SegmentInv, Segment!TypeOK, Segment!Wait
  <2>g. sRuns' \in [Segment!Programs -> 0 .. MaxRuns]
    BY DEF SegmentInv, Segment!TypeOK, Segment!Wait
  <2>h. sKills' \in 0 .. MaxKills
    BY DEF SegmentInv, Segment!TypeOK, Segment!Wait
  <2>q. QED BY <2>a, <2>b, <2>c, <2>d, <2>e, <2>f, <2>g, <2>h DEF Segment!TypeOK
<1>2. SegmentOpened' BY DEF SegmentInv, SegmentOpened, Segment!Wait
<1>3. SegmentNumbered' BY <1>s DEF SegmentInv, SegmentNumbered, Segment!Fresh
<1>4. SegmentQuiet'
  BY <1>s, <1>v, <1>t
  DEF SegmentInv, SegmentQuiet, SegmentToken, SegmentHolding, SegmentBusy
<1>5. SegmentToken'
  <2> SUFFICES ASSUME sKills = 0 \/ trusted PROVE SegmentToken'
    BY <1>s, <1>t DEF SegmentToken
  <2>1. value["sem_client"][sems] = 1 /\ SegmentZero("sem_server") /\ ~SegmentHolding
    BY <1>s, <1>t DEF SegmentInv, SegmentToken
  <2>2. SegmentZero("sem_server")' /\ SegmentZero("sem_client")'
    BY <2>1, <1>s, <1>v, SegmentNumbers
    DEF SegmentZero, Segment!Semaphores, SegmentInv, SegmentOpened
  <2>3. ~SegmentHolding' /\ (SegmentCurrent' <=> SegmentCurrent)
    BY <2>1, <1>s DEF SegmentHolding, SegmentBusy, SegmentCurrent
  <2>q. QED BY <2>2, <2>3, <1>s DEF SegmentInv, SegmentToken
<1>6. SegmentTrust'
  BY <1>s, <1>t DEF SegmentInv, SegmentTrust, SegmentHello, SegmentBusy
<1>q. QED BY <1>1, <1>2, <1>3, <1>4, <1>5, <1>6 DEF SegmentInv

LEMMA SegmentWaitClient ==
  ASSUME Segment!SegmentAssumption, SegmentInv, Segment!Wait("client") PROVE SegmentInv'
<1>v. /\ value' \in [Segment!Semaphores -> [Segment!Objects -> Nat]]
      /\ ~Segment!Works("client") => value' = value
      /\ Segment!Works("client") =>
           /\ has["client"].sems \in Segment!Objects
           /\ value'["sem_server"][has["client"].sems] = value["sem_server"][has["client"].sems] - 1
           /\ \A t \in Segment!Semaphores, y \in Segment!Objects :
                t # "sem_server" \/ y # has["client"].sems => value'[t][y] = value[t][y]
  <2>1. CASE ~Segment!Works("client")
    BY <2>1 DEF Segment!Wait, Segment!Works, SegmentInv, Segment!TypeOK
  <2>2. CASE Segment!Works("client")
    <3> DEFINE x == has["client"].sems
    <3>1. /\ x \in Segment!Objects /\ "sem_server" \in Segment!Semaphores
          /\ value["sem_server"][x] - 1 \in Nat
      BY <2>2
      DEF SegmentInv, Segment!TypeOK, Segment!Programs, Segment!Semaphores,
        Segment!Wait, Segment!Works, Segment!Awaited
    <3>2. value' = [value EXCEPT !["sem_server"][x] = value["sem_server"][x] - 1]
      BY <2>2 DEF Segment!Works, Segment!Wait, Segment!Awaited
    <3> HIDE DEF x
    <3>3. /\ value' \in [Segment!Semaphores -> [Segment!Objects -> Nat]]
          /\ value'["sem_server"][x] = value["sem_server"][x] - 1
          /\ \A t \in Segment!Semaphores, y \in Segment!Objects :
               t # "sem_server" \/ y # x => value'[t][y] = value[t][y]
      BY <3>1, <3>2, SegmentValue, ZenonT(60) DEF SegmentInv
    <3>q. QED BY <2>2, <3>1, <3>3 DEF x
  <2>q. QED BY <2>1, <2>2
<1>s. /\ sAt["client"] = "wait"
      /\ sAt'["server"] = sAt["server"] /\ sAt'["client"] = "read"
      /\ has'["server"] = has["server"] /\ has'["client"] = has["client"]
      /\ UNCHANGED <<sApi, sems, shm, text, sRuns, sKills, has>>
  BY DEF SegmentInv, Segment!TypeOK, Segment!Programs, Segment!Wait
<1>t. /\ trusted' => trusted /\ Segment!Works("client")
      /\ Segment!Works("client") => value["sem_server"][has["client"].sems] > 0
  BY DEF Segment!Wait, Segment!Works, Segment!Awaited
<1>1. Segment!TypeOK'
  <2>a. sApi' \in {"none", "posix", "sysv"} /\ trusted' \in BOOLEAN /\ crashed' \in BOOLEAN
    BY DEF SegmentInv, Segment!TypeOK, Segment!Wait
  <2>b. sems' \in Segment!Objects \cup {0} /\ shm' \in Segment!Objects \cup {0}
    BY DEF SegmentInv, Segment!TypeOK, Segment!Wait
  <2>c. value' \in [Segment!Semaphores -> [Segment!Objects -> Nat]]
    BY <1>v
  <2>d. text' \in [Segment!Objects -> {"empty", "Hi", "Hello!"}]
    BY DEF SegmentInv, Segment!TypeOK, Segment!Wait
  <2>e. sAt' \in
          [Segment!Programs -> {"off", "map", "post", "wait", "read", "write", "shm", "sems"}]
    BY DEF SegmentInv, Segment!TypeOK, Segment!Wait
  <2>f. has' \in
          [Segment!Programs -> [sems : Segment!Objects \cup {0}, shm : Segment!Objects \cup {0}]]
    BY <2>b DEF SegmentInv, Segment!TypeOK, Segment!Wait
  <2>g. sRuns' \in [Segment!Programs -> 0 .. MaxRuns]
    BY DEF SegmentInv, Segment!TypeOK, Segment!Wait
  <2>h. sKills' \in 0 .. MaxKills
    BY DEF SegmentInv, Segment!TypeOK, Segment!Wait
  <2>q. QED BY <2>a, <2>b, <2>c, <2>d, <2>e, <2>f, <2>g, <2>h DEF Segment!TypeOK
<1>2. SegmentOpened' BY DEF SegmentInv, SegmentOpened, Segment!Wait
<1>3. SegmentNumbered' BY <1>s DEF SegmentInv, SegmentNumbered, Segment!Fresh
<1>u. sKills = 0 /\ Segment!Works("client")
        => has["client"].sems = sems /\ sAt["server"] = "wait" /\ value["sem_server"][sems] = 1
  <2>1. "sem_server" \in Segment!Semaphores BY DEF Segment!Semaphores
  <2>2. sKills = 0 /\ Segment!Works("client")
        => has["client"].sems = sems
    BY <2>1, <1>t, SegmentNumbers DEF Segment!Works, SegmentInv, SegmentQuiet
  <2>q. QED BY <2>2, <1>t DEF Segment!Works, SegmentInv, SegmentToken, SegmentZero
<1>4. SegmentQuiet'
  <2> SUFFICES ASSUME sKills = 0 PROVE SegmentQuiet' BY <1>s DEF SegmentQuiet
  <2>1. \A t \in Segment!Semaphores, y \in Segment!Objects : y # sems => value'[t][y] = 0
    BY <1>u, <1>v DEF SegmentInv, SegmentQuiet
  <2>2. sAt'["server"] \in {"off", "map", "sems"} => shm' = 0
    BY <1>s DEF SegmentInv, SegmentQuiet
  <2>3. sApi' = "posix" => SegmentCurrent'
    <3>1. sApi = "posix" => has["client"].sems # 0
      BY <1>s DEF SegmentInv, SegmentOpened
    <3>q. QED BY <1>u, <1>s, <3>1 DEF Segment!Works, SegmentCurrent
  <2>q. QED BY <2>1, <2>2, <2>3, <1>s DEF SegmentQuiet
<1>5. SegmentToken'
  BY <1>s, SegmentNumbers, <1>v, <1>t
  DEF Segment!Works, SegmentInv, SegmentOpened, SegmentToken, SegmentZero, SegmentHolding,
    SegmentCurrent, Segment!Semaphores
<1>6. SegmentTrust'
  BY <1>u, <1>s, <1>v, <1>t
  DEF Segment!Works, SegmentInv, SegmentToken, SegmentTrust, SegmentHi, SegmentZero, SegmentCurrent,
    Segment!Semaphores
<1>q. QED BY <1>1, <1>2, <1>3, <1>4, <1>5, <1>6 DEF SegmentInv

LEMMA SegmentReadServer ==
  ASSUME Segment!SegmentAssumption, SegmentInv, Segment!ReadServer PROVE SegmentInv'
<1>1. Segment!TypeOK'
  BY DEF SegmentInv, Segment!TypeOK, Segment!ReadServer, Segment!memory
<1>2. SegmentOpened'
  BY <1>1 DEF SegmentInv, SegmentOpened, Segment!ReadServer, Segment!memory
<1>3. SegmentNumbered'
  BY <1>1
  DEF SegmentInv, SegmentNumbered, Segment!Fresh, Segment!ReadServer, Segment!memory
<1>4. SegmentQuiet'
  BY <1>1
  DEF SegmentInv, SegmentQuiet, SegmentBusy, SegmentCurrent, Segment!ReadServer,
    Segment!memory
<1>5. SegmentToken'
  BY <1>1
  DEF SegmentInv, SegmentToken, SegmentZero, SegmentHolding, SegmentBusy,
    SegmentCurrent, Segment!ReadServer, Segment!memory
<1>6. SegmentTrust'
  BY <1>1 DEF SegmentInv, Segment!TypeOK, SegmentTrust, SegmentBusy, Segment!ReadServer
<1>q. QED BY <1>1, <1>2, <1>3, <1>4, <1>5, <1>6 DEF SegmentInv

LEMMA SegmentReadClient ==
  ASSUME Segment!SegmentAssumption, SegmentInv, Segment!ReadClient PROVE SegmentInv'
<1>s. /\ sAt["client"] = "read"
      /\ sAt'["server"] = sAt["server"]
      /\ sAt'["client"] = (IF has["client"].shm = 0 THEN "off" ELSE "write")
      /\ has'["server"] = has["server"]
      /\ has'["client"] = (IF has["client"].shm = 0 THEN Segment!Nothing ELSE has["client"])
      /\ UNCHANGED <<sApi, sems, shm, text, value, trusted, sRuns, sKills>>
  BY DEF SegmentInv, Segment!TypeOK, Segment!Programs, Segment!ReadClient,
    Segment!memory
<1>1. Segment!TypeOK'
  BY DEF SegmentInv, Segment!TypeOK, Segment!ReadClient, Segment!Nothing, Segment!memory
<1>2. SegmentOpened'
  BY DEF SegmentInv, Segment!TypeOK, SegmentOpened, Segment!ReadClient, Segment!memory
<1>3. SegmentNumbered'
  BY <1>s, SegmentNumbers
  DEF SegmentInv, SegmentNumbered, Segment!Fresh, Segment!Nothing
<1>4. SegmentQuiet'
  BY <1>s, SegmentNumbers DEF SegmentInv, SegmentQuiet, SegmentBusy, SegmentCurrent
<1>5. SegmentToken'
  BY <1>s, SegmentNumbers
  DEF SegmentInv, SegmentToken, SegmentZero, SegmentHolding, SegmentBusy,
    SegmentCurrent, Segment!Nothing
<1>6. SegmentTrust'
  BY <1>s, SegmentNumbers
  DEF SegmentInv, SegmentTrust, SegmentHi, SegmentZero, SegmentHolding, SegmentBusy,
    SegmentCurrent
<1>q. QED BY <1>1, <1>2, <1>3, <1>4, <1>5, <1>6 DEF SegmentInv

LEMMA SegmentWrite ==
  ASSUME Segment!SegmentAssumption, SegmentInv, Segment!Write PROVE SegmentInv'
<1>1. Segment!TypeOK' BY DEF SegmentInv, Segment!TypeOK, Segment!Write
<1>2. SegmentOpened' BY <1>1 DEF SegmentInv, SegmentOpened, Segment!Write
<1>3. SegmentNumbered'
  BY <1>1 DEF SegmentInv, SegmentNumbered, Segment!Fresh, Segment!Write
<1>4. SegmentQuiet'
  BY <1>1 DEF SegmentInv, SegmentQuiet, SegmentBusy, SegmentCurrent, Segment!Write
<1>5. SegmentToken'
  BY <1>1
  DEF SegmentInv, SegmentToken, SegmentZero, SegmentHolding, SegmentBusy,
    SegmentCurrent, Segment!Write
<1>6. SegmentTrust'
  BY <1>1
  DEF SegmentInv, Segment!TypeOK, SegmentOpened, SegmentToken, SegmentTrust, SegmentHi,
    SegmentHello, SegmentZero, SegmentHolding, SegmentBusy, SegmentCurrent,
    Segment!Write
<1>q. QED BY <1>1, <1>2, <1>3, <1>4, <1>5, <1>6 DEF SegmentInv

LEMMA SegmentRemoveShm ==
  ASSUME Segment!SegmentAssumption, SegmentInv, Segment!RemoveShm PROVE SegmentInv'
<1>1. Segment!TypeOK' BY DEF SegmentInv, Segment!TypeOK, Segment!RemoveShm
<1>2. SegmentOpened'
  BY <1>1 DEF SegmentInv, Segment!TypeOK, SegmentOpened, Segment!RemoveShm
<1>3. SegmentNumbered'
  BY <1>1
  DEF SegmentInv, Segment!TypeOK, SegmentNumbered, Segment!Fresh, Segment!RemoveShm
<1>4. SegmentQuiet'
  BY <1>1 DEF SegmentInv, SegmentQuiet, SegmentBusy, SegmentCurrent, Segment!RemoveShm
<1>5. SegmentToken'
  BY <1>1
  DEF SegmentInv, SegmentToken, SegmentZero, SegmentHolding, SegmentBusy,
    SegmentCurrent, Segment!RemoveShm
<1>6. SegmentTrust' BY <1>1 DEF SegmentInv, SegmentTrust, SegmentBusy, Segment!RemoveShm
<1>q. QED BY <1>1, <1>2, <1>3, <1>4, <1>5, <1>6 DEF SegmentInv

LEMMA SegmentRemoveSems ==
  ASSUME Segment!SegmentAssumption, SegmentInv, Segment!RemoveSems PROVE SegmentInv'
<1>1. Segment!TypeOK'
  BY DEF SegmentInv, Segment!TypeOK, Segment!RemoveSems, Segment!Nothing
<1>2. SegmentOpened'
  BY <1>1 DEF SegmentInv, Segment!TypeOK, SegmentOpened, Segment!RemoveSems
<1>3. SegmentNumbered'
  BY <1>1
  DEF SegmentInv, Segment!TypeOK, SegmentNumbered, Segment!Fresh, Segment!RemoveSems,
    Segment!Programs
<1>4. SegmentQuiet'
  BY <1>1
  DEF SegmentInv, SegmentQuiet, SegmentToken, SegmentBusy, SegmentCurrent,
    Segment!RemoveSems, Segment!Semaphores, SegmentZero, SegmentHolding
<1>5. SegmentToken' BY <1>1 DEF SegmentToken, SegmentCurrent, Segment!RemoveSems
<1>6. SegmentTrust'
  BY <1>1 DEF SegmentInv, SegmentTrust, SegmentBusy, Segment!RemoveSems
<1>q. QED BY <1>1, <1>2, <1>3, <1>4, <1>5, <1>6 DEF SegmentInv

LEMMA SegmentKillServer ==
  ASSUME Segment!SegmentAssumption, SegmentInv, Segment!Kill("server") PROVE SegmentInv'
<1>1. Segment!TypeOK'
  <2>a. sApi' \in {"none", "posix", "sysv"} /\ trusted' \in BOOLEAN /\ crashed' \in BOOLEAN
    BY DEF SegmentInv, Segment!TypeOK, Segment!Kill
  <2>b. sems' \in Segment!Objects \cup {0} /\ shm' \in Segment!Objects \cup {0}
    BY DEF SegmentInv, Segment!TypeOK, Segment!memory, Segment!Kill
  <2>c. value' \in [Segment!Semaphores -> [Segment!Objects -> Nat]]
    BY DEF SegmentInv, Segment!TypeOK, Segment!memory, Segment!Kill
  <2>d. text' \in [Segment!Objects -> {"empty", "Hi", "Hello!"}]
    BY DEF SegmentInv, Segment!TypeOK, Segment!memory, Segment!Kill
  <2>e. sAt' \in
          [Segment!Programs -> {"off", "map", "post", "wait", "read", "write", "shm", "sems"}]
    BY DEF SegmentInv, Segment!TypeOK, Segment!Kill
  <2>f. has' \in
          [Segment!Programs -> [sems : Segment!Objects \cup {0}, shm : Segment!Objects \cup {0}]]
    BY <2>b DEF SegmentInv, Segment!TypeOK, Segment!Kill, Segment!Nothing
  <2>g. sRuns' \in [Segment!Programs -> 0 .. MaxRuns]
    BY DEF SegmentInv, Segment!TypeOK, Segment!Kill
  <2>h. sKills' \in 0 .. MaxKills
    BY DEF SegmentInv, Segment!TypeOK, Segment!SegmentAssumption, Segment!Kill
  <2>q. QED BY <2>a, <2>b, <2>c, <2>d, <2>e, <2>f, <2>g, <2>h DEF Segment!TypeOK
<1>2. SegmentOpened' BY <1>1 DEF SegmentInv, Segment!TypeOK, SegmentOpened, Segment!Kill
<1>3. SegmentNumbered'
  BY <1>1 DEF SegmentInv, SegmentNumbered, Segment!Fresh, Segment!Kill, Segment!memory
<1>4. SegmentQuiet' BY <1>1 DEF SegmentInv, Segment!TypeOK, SegmentQuiet, Segment!Kill
<1>5. SegmentToken' BY <1>1 DEF SegmentInv, Segment!TypeOK, SegmentToken, Segment!Kill
<1>6. SegmentTrust' BY <1>1 DEF SegmentTrust, Segment!Kill
<1>q. QED BY <1>1, <1>2, <1>3, <1>4, <1>5, <1>6 DEF SegmentInv

LEMMA SegmentKillClient ==
  ASSUME Segment!SegmentAssumption, SegmentInv, Segment!Kill("client") PROVE SegmentInv'
<1>1. Segment!TypeOK'
  <2>a. sApi' \in {"none", "posix", "sysv"} /\ trusted' \in BOOLEAN /\ crashed' \in BOOLEAN
    BY DEF SegmentInv, Segment!TypeOK, Segment!Kill
  <2>b. sems' \in Segment!Objects \cup {0} /\ shm' \in Segment!Objects \cup {0}
    BY DEF SegmentInv, Segment!TypeOK, Segment!memory, Segment!Kill
  <2>c. value' \in [Segment!Semaphores -> [Segment!Objects -> Nat]]
    BY DEF SegmentInv, Segment!TypeOK, Segment!memory, Segment!Kill
  <2>d. text' \in [Segment!Objects -> {"empty", "Hi", "Hello!"}]
    BY DEF SegmentInv, Segment!TypeOK, Segment!memory, Segment!Kill
  <2>e. sAt' \in
          [Segment!Programs -> {"off", "map", "post", "wait", "read", "write", "shm", "sems"}]
    BY DEF SegmentInv, Segment!TypeOK, Segment!Kill
  <2>f. has' \in
          [Segment!Programs -> [sems : Segment!Objects \cup {0}, shm : Segment!Objects \cup {0}]]
    BY <2>b DEF SegmentInv, Segment!TypeOK, Segment!Kill, Segment!Nothing
  <2>g. sRuns' \in [Segment!Programs -> 0 .. MaxRuns]
    BY DEF SegmentInv, Segment!TypeOK, Segment!Kill
  <2>h. sKills' \in 0 .. MaxKills
    BY DEF SegmentInv, Segment!TypeOK, Segment!SegmentAssumption, Segment!Kill
  <2>q. QED BY <2>a, <2>b, <2>c, <2>d, <2>e, <2>f, <2>g, <2>h DEF Segment!TypeOK
<1>2. SegmentOpened'
  BY <1>1 DEF SegmentInv, Segment!TypeOK, SegmentOpened, Segment!Kill, Segment!memory
<1>3. SegmentNumbered'
  BY <1>1
  DEF SegmentInv, Segment!TypeOK, SegmentNumbered, Segment!Fresh, Segment!Kill,
    Segment!Nothing, Segment!memory, Segment!Programs, Segment!Objects
<1>4. SegmentQuiet' BY <1>1 DEF SegmentInv, Segment!TypeOK, SegmentQuiet, Segment!Kill
<1>5. SegmentToken' BY <1>1 DEF SegmentInv, Segment!TypeOK, SegmentToken, Segment!Kill
<1>6. SegmentTrust' BY <1>1 DEF SegmentTrust, Segment!Kill
<1>q. QED BY <1>1, <1>2, <1>3, <1>4, <1>5, <1>6 DEF SegmentInv

LEMMA SegmentInitial == ASSUME Segment!SegmentAssumption, Segment!Init PROVE SegmentInv
<1>1. Segment!TypeOK
  <2>1. value \in
          [Segment!Semaphores -> [Segment!Objects -> Nat]]
        /\ text \in [Segment!Objects -> {"empty", "Hi", "Hello!"}]
    BY DEF Segment!Init
  <2>2. sRuns \in [Segment!Programs -> 0 .. MaxRuns] /\ sKills \in 0 .. MaxKills
    BY DEF Segment!Init, Segment!SegmentAssumption
  <2>q. QED BY <2>1, <2>2 DEF Segment!Init, Segment!TypeOK, Segment!Nothing
<1>2. SegmentOpened /\ SegmentNumbered
  BY DEF Segment!Init, SegmentOpened, SegmentNumbered, Segment!Fresh, Segment!Nothing,
    Segment!Programs
<1>3. SegmentQuiet BY DEF Segment!Init, SegmentQuiet
<1>4. SegmentToken /\ SegmentTrust
  <2>1. sAt["server"] = "off" /\ ~SegmentCurrent /\ sems = 0 /\ ~trusted
    BY DEF Segment!Init, SegmentCurrent, Segment!Programs
  <2>q. QED BY <2>1 DEF SegmentToken, SegmentTrust
<1>q. QED BY <1>1, <1>2, <1>3, <1>4 DEF SegmentInv

LEMMA SegmentStutter == ASSUME SegmentInv, UNCHANGED Segment!vars PROVE SegmentInv'
<1>1. Segment!TypeOK' /\ SegmentOpened' /\ SegmentNumbered' /\ SegmentQuiet'
  BY DEF SegmentInv, Segment!vars, Segment!TypeOK, SegmentOpened, SegmentNumbered,
    SegmentQuiet, Segment!Fresh, SegmentBusy, SegmentCurrent
<1>2. SegmentToken' /\ SegmentTrust'
  BY DEF SegmentInv, Segment!vars, SegmentToken, SegmentTrust, SegmentZero,
    SegmentHolding, SegmentBusy, SegmentCurrent, SegmentHi, SegmentHello
<1>q. QED BY <1>1, <1>2 DEF SegmentInv

LEMMA SegmentRead ==
  ASSUME Segment!SegmentAssumption, SegmentInv PROVE Segment!AnswerRead
<1>1. trusted /\ sAt["server"] = "read" => text[has["server"].shm] = "Hello!"
  BY DEF SegmentInv, SegmentTrust, SegmentHello
<1>2. ASSUME trusted, sAt["client"] = "read", has["client"] = has["server"]
      PROVE  text[has["client"].shm] = "Hi"
  <2>1. sAt["server"] # "off" /\ SegmentBusy
    BY <1>2 DEF SegmentInv, SegmentTrust, SegmentBusy
  <2>2. SegmentHolding
    BY <1>2, <2>1 DEF SegmentInv, SegmentOpened, SegmentHolding, SegmentCurrent
  <2>3. sAt["server"] = "wait"
    BY <1>2, <2>2 DEF SegmentInv, SegmentToken, SegmentHolding, SegmentCurrent
  <2>q. QED BY <1>2, <2>2, <2>3 DEF SegmentInv, SegmentTrust, SegmentHi
<1>q. QED BY <1>1, <1>2 DEF SegmentInv, Segment!AnswerRead

LEMMA SegmentStep ==
  ASSUME Segment!SegmentAssumption, SegmentInv, [Segment!Next]_segmentVars
  PROVE  SegmentInv'
<1>1. CASE Segment!Next
  BY <1>1, SegmentChoose, SegmentStartServer, SegmentStartClient, SegmentMapServer,
    SegmentMapClient, SegmentPostServer, SegmentPostClient, SegmentWaitServer,
    SegmentWaitClient, SegmentReadServer, SegmentReadClient, SegmentWrite,
    SegmentRemoveShm, SegmentRemoveSems, SegmentKillServer, SegmentKillClient
  DEF Segment!Next, Segment!ServerStep, Segment!ClientStep, Segment!Programs
<1>q. QED BY <1>1, SegmentStutter DEF segmentVars, Segment!vars

--------------------------------------------------------------------------------
\* The exchanges over sockets (Exchanges).

\* Nothing happens before the user has chosen.
ExchangeIdle ==
  kind = "none" =>
    /\ socket = "free" /\ socket2 = "free" /\ server = "off" /\ requests = <<>>
    /\ heard = {}
    /\ \A c \in Askers : xAt[c] = "off" /\ box[c] = <<>> /\ xShown[c] = "none"

\* A client asks once.
ExchangeAsked ==
  /\ \A i \in DOMAIN requests : requests[i] \notin heard /\ xAt[requests[i]] \notin {"off", "send"}
  /\ \A i, j \in DOMAIN requests : requests[i] = requests[j] => i = j
  /\ \A c \in Askers : xAt[c] \in {"off", "send"} => c \notin heard

\* Who is answered, or has been, was heard.
ExchangeAnswers ==
  /\ server \in {"answer", "close"} => asked \in heard
  /\ \A c \in Askers :
       xShown[c] = "answer" \/ (\E i \in DOMAIN box[c] : box[c][i] = "answer")
         => IF kind = "raw" THEN heard # {} ELSE c \in heard
  /\ \A c \in Askers :
       xShown[c] = "nothing" \/ (\E i \in DOMAIN box[c] : box[c][i] = "nothing")
         => kind \in Exchange!Streams

\* Without kills a connection brings the answer before its end, unless it ends unheard.
ExchangeStreams ==
  kind \in Exchange!Streams /\ xKills = 0 =>
    /\ server = "answer" => xAt[asked] = "receive" /\ box[asked] = <<>>
    /\ \A i \in DOMAIN requests : xAt[requests[i]] = "receive" /\ box[requests[i]] = <<>>
    /\ \A c \in Askers :
         /\ xAt[c] \in {"off", "send"} => box[c] = <<>>
         /\ xAt[c] = "receive" /\ c \in heard /\ ~(server = "answer" /\ c = asked)
              => box[c] # <<>> /\ Head(box[c]) = "answer"
         /\ xShown[c] = "nothing" => c \notin heard /\ xAt[c] \in {"close", "gone"}

\* Who has a name runs, unless somebody is killed.
ExchangeNames ==
  /\ kind # "local_dgram" => socket2 = "free"
  /\ kind \notin Exchange!Locals => socket = "free"
  /\ xKills = 0 =>
       /\ kind \in Exchange!Locals => (socket = "free" <=> server = "off")
       /\ socket2 \in {c \in Askers : Exchange!Running(c) \/ xAt[c] = "close"} \cup {"free"}

ExchangeInv ==
  /\ Exchange!TypeOK /\ ExchangeIdle /\ ExchangeAsked /\ ExchangeAnswers
  /\ ExchangeStreams /\ ExchangeNames

\* What is put into the boxes of some clients.
LEMMA ExchangePut ==
  ASSUME Exchange!TypeOK, NEW C \in SUBSET Askers,
         NEW what \in {"answer", "request", "nothing"}, box' = Exchange!Put(C, what)
  PROVE  /\ box' \in [Askers -> Seq({"answer", "request", "nothing"})]
         /\ \A c \in Askers \ C : box'[c] = box[c]
         /\ \A c \in C : box'[c] # <<>>
         /\ \A c \in C : box[c] # <<>> => Head(box'[c]) = Head(box[c])
         /\ \A c \in C : box[c] = <<>> => Head(box'[c]) = what
<1>1. \A c \in Askers : box[c] \in Seq({"answer", "request", "nothing"})
  BY DEF Exchange!TypeOK
<1>2. \A c \in C : /\ Append(box[c], what) \in Seq({"answer", "request", "nothing"})
                   /\ Append(box[c], what) # <<>>
                   /\ box[c] # <<>> => Head(Append(box[c], what)) = Head(box[c])
                   /\ box[c] = <<>> => Head(Append(box[c], what)) = what
  BY <1>1, AppendTo
<1>q. QED BY <1>1, <1>2 DEF Exchange!Put

LEMMA ExchangeChoose ==
  ASSUME Exchange!ExchangeAssumption, ExchangeInv, NEW k \in Exchange!Kinds, Exchange!Choose(k)
  PROVE  ExchangeInv'
<1>1. Exchange!TypeOK' BY DEF ExchangeInv, Exchange!TypeOK, Exchange!Choose
<1>2. ExchangeIdle' BY <1>1 DEF ExchangeInv, ExchangeIdle, Exchange!Choose
<1>3. ExchangeAsked' BY <1>1 DEF ExchangeInv, ExchangeAsked, Exchange!Choose
<1>4. ExchangeAnswers'
  BY <1>1 DEF ExchangeInv, ExchangeAnswers, Exchange!Choose, Exchange!Streams
<1>5. ExchangeStreams'
  BY <1>1 DEF ExchangeInv, ExchangeIdle, ExchangeStreams, Exchange!Choose
<1>6. ExchangeNames'
  BY <1>1 DEF ExchangeInv, ExchangeIdle, ExchangeNames, Exchange!Choose
<1>q. QED BY <1>1, <1>2, <1>3, <1>4, <1>5, <1>6 DEF ExchangeInv

LEMMA ExchangeStartServer ==
  ASSUME Exchange!ExchangeAssumption, ExchangeInv, Exchange!StartServer
  PROVE  ExchangeInv'
<1>1. Exchange!TypeOK'
  BY DEF ExchangeInv, Exchange!TypeOK, Exchange!StartServer, Exchange!ExchangeAssumption
<1>2. ExchangeIdle' BY <1>1 DEF ExchangeIdle, Exchange!StartServer
<1>3. ExchangeAsked' BY <1>1 DEF ExchangeInv, ExchangeAsked, Exchange!StartServer
<1>4. ExchangeAnswers' BY <1>1 DEF ExchangeInv, ExchangeAnswers, Exchange!StartServer
<1>5. ExchangeStreams' BY <1>1 DEF ExchangeInv, ExchangeStreams, Exchange!StartServer
<1>6. ExchangeNames'
  BY <1>1 DEF ExchangeInv, ExchangeNames, Exchange!StartServer, Exchange!Running
<1>q. QED BY <1>1, <1>2, <1>3, <1>4, <1>5, <1>6 DEF ExchangeInv

LEMMA ExchangeTake ==
  ASSUME Exchange!ExchangeAssumption, ExchangeInv, Exchange!Take PROVE ExchangeInv'
<1>1. Exchange!TypeOK' BY DEF ExchangeInv, Exchange!TypeOK, Exchange!Take
<1>2. ExchangeIdle' BY <1>1 DEF ExchangeInv, ExchangeIdle, Exchange!Take
<1>3. ExchangeAsked'
  <2>1. /\ Head(requests) = requests[1] /\ 1 \in DOMAIN requests
        /\ requests[1] \in Askers
        /\ \A i \in DOMAIN requests' :
             i + 1 \in DOMAIN requests /\ requests'[i] = requests[i + 1] /\ i + 1 # 1
        /\ \A i, j \in DOMAIN requests' : i + 1 = j + 1 => i = j
    BY TailOf DEF ExchangeInv, Exchange!TypeOK, Exchange!Take
  <2>2. heard' = heard \cup {requests[1]} /\ xAt' = xAt BY <2>1 DEF Exchange!Take
  <2>q. QED BY <2>1, <2>2 DEF ExchangeInv, ExchangeAsked
<1>4. ExchangeAnswers' BY <1>1 DEF ExchangeInv, ExchangeAnswers, Exchange!Take
<1>5. ExchangeStreams'
  BY <1>1, SMTT(30)
  DEF ExchangeInv, ExchangeAsked, ExchangeStreams, ExchangeNames, Exchange!Take,
    Exchange!Locals
<1>6. ExchangeNames'
  BY <1>1 DEF ExchangeInv, ExchangeNames, Exchange!Take, Exchange!Running
<1>q. QED BY <1>1, <1>2, <1>3, <1>4, <1>5, <1>6 DEF ExchangeInv

LEMMA ExchangeAnswer ==
  ASSUME Exchange!ExchangeAssumption, ExchangeInv, Exchange!AnswerRequest
  PROVE  ExchangeInv'
<1>1. Exchange!TypeOK'
  BY DEF ExchangeInv, Exchange!TypeOK, Exchange!AnswerRequest, Exchange!Put
<1>2. ExchangeIdle' BY <1>1 DEF ExchangeInv, ExchangeIdle, Exchange!AnswerRequest
<1>3. ExchangeAsked' BY <1>1 DEF ExchangeInv, ExchangeAsked, Exchange!AnswerRequest
<1>4. ExchangeAnswers'
  BY <1>1
  DEF ExchangeInv, ExchangeAnswers, Exchange!AnswerRequest, Exchange!Put,
    Exchange!Addressees
<1>5. ExchangeStreams'
  <2> SUFFICES ASSUME kind \in Exchange!Streams, xKills = 0 PROVE ExchangeStreams'
    BY DEF ExchangeStreams, Exchange!AnswerRequest
  <2>1. asked \in Askers /\ asked \in heard /\ xAt[asked] = "receive" /\ box[asked] = <<>>
    BY DEF ExchangeInv, Exchange!TypeOK, ExchangeAnswers, ExchangeStreams,
      Exchange!AnswerRequest
  <2>2. Exchange!Addressees = {asked}
    BY <2>1 DEF Exchange!Addressees, Exchange!Running, Exchange!Streams
  <2>3. /\ \A c \in Askers \ {asked} : box'[c] = box[c]
        /\ box'[asked] # <<>> /\ Head(box'[asked]) = "answer"
    <3>1. {asked} \in SUBSET Askers /\ box' = Exchange!Put({asked}, "answer")
      BY <2>1, <2>2 DEF Exchange!AnswerRequest
    <3>q. QED BY <2>1, <3>1, ExchangePut DEF ExchangeInv
  <2>4. \A i \in DOMAIN requests : requests[i] \in Askers \ {asked}
    BY <2>1 DEF ExchangeInv, Exchange!TypeOK, ExchangeAsked
  <2>5. /\ server = "answer" /\ server' = "close"
        /\ UNCHANGED <<kind, xKills, xAt, requests, heard, asked, xShown>>
    BY DEF Exchange!AnswerRequest
  <2>q. QED BY <2>3, <2>4, <2>5 DEF ExchangeInv, ExchangeStreams
<1>6. ExchangeNames'
  BY <1>1 DEF ExchangeInv, ExchangeNames, Exchange!AnswerRequest, Exchange!Running
<1>q. QED BY <1>1, <1>2, <1>3, <1>4, <1>5, <1>6 DEF ExchangeInv

LEMMA ExchangeCloseServer ==
  ASSUME Exchange!ExchangeAssumption, ExchangeInv, Exchange!CloseServer
  PROVE  ExchangeInv'
<1>0. /\ box' \in [Askers -> Seq({"answer", "request", "nothing"})]
      /\ \A c \in Askers : box'[c] # box[c] => c \in Exchange!Hanging
      /\ \A c \in Askers : box[c] # <<>> => box'[c] # <<>> /\ Head(box'[c]) = Head(box[c])
  <2>1. Exchange!Hanging \subseteq Askers BY DEF Exchange!Hanging
  <2>q. QED BY <2>1, ExchangePut DEF ExchangeInv, Exchange!CloseServer
<1>1. Exchange!TypeOK'
  <2>1. requests' \in Seq(Askers) BY DEF Exchange!CloseServer
  <2>q. QED BY <1>0, <2>1 DEF ExchangeInv, Exchange!TypeOK, Exchange!CloseServer
<1>2. ExchangeIdle' BY <1>1 DEF ExchangeInv, ExchangeIdle, Exchange!CloseServer
<1>3. ExchangeAsked' BY <1>1 DEF ExchangeInv, ExchangeAsked, Exchange!CloseServer
<1>4. ExchangeAnswers'
  BY <1>1
  DEF ExchangeInv, ExchangeAnswers, Exchange!CloseServer, Exchange!Put, Exchange!Hanging
<1>5. ExchangeStreams'
  <2>1. UNCHANGED <<kind, xKills, xAt, heard, xShown>> /\ requests' = <<>>
        /\ server = "close" /\ server' # "answer"
    BY DEF Exchange!CloseServer
  <2>q. QED BY <1>0, <2>1 DEF ExchangeInv, ExchangeStreams, Exchange!Hanging
<1>6. ExchangeNames'
  BY <1>1 DEF ExchangeInv, ExchangeNames, Exchange!CloseServer, Exchange!Running
<1>q. QED BY <1>1, <1>2, <1>3, <1>4, <1>5, <1>6 DEF ExchangeInv

LEMMA ExchangeUnlink ==
  ASSUME Exchange!ExchangeAssumption, ExchangeInv, Exchange!Unlink PROVE ExchangeInv'
<1>1. Exchange!TypeOK' BY DEF ExchangeInv, Exchange!TypeOK, Exchange!Unlink
<1>2. ExchangeIdle' BY <1>1 DEF ExchangeInv, ExchangeIdle, Exchange!Unlink
<1>3. ExchangeAsked' BY <1>1 DEF ExchangeInv, ExchangeAsked, Exchange!Unlink
<1>4. ExchangeAnswers' BY <1>1 DEF ExchangeInv, ExchangeAnswers, Exchange!Unlink
<1>5. ExchangeStreams' BY <1>1 DEF ExchangeInv, ExchangeStreams, Exchange!Unlink
<1>6. ExchangeNames'
  BY <1>1 DEF ExchangeInv, ExchangeNames, Exchange!Unlink, Exchange!Running
<1>q. QED BY <1>1, <1>2, <1>3, <1>4, <1>5, <1>6 DEF ExchangeInv

\* A server that is ended by a signal, with somebody killed before or now.
LEMMA ExchangeServerDies ==
  ASSUME Exchange!ExchangeAssumption, ExchangeInv, server # "off", Exchange!ServerDies,
         xKills' \in 0 .. MaxKills, xKills' > 0
  PROVE  ExchangeInv'
<1>1. Exchange!TypeOK'
  <2>1. Exchange!Hanging \subseteq Askers BY DEF Exchange!Hanging
  <2>2. box' \in [Askers -> Seq({"answer", "request", "nothing"})]
    BY <2>1, ExchangePut DEF ExchangeInv, Exchange!ServerDies
  <2>3. requests' \in Seq(Askers) BY DEF Exchange!ServerDies
  <2>q. QED BY <2>2, <2>3 DEF ExchangeInv, Exchange!TypeOK, Exchange!ServerDies
<1>2. ExchangeIdle' BY <1>1 DEF ExchangeInv, ExchangeIdle, Exchange!ServerDies
<1>3. ExchangeAsked' BY <1>1 DEF ExchangeInv, ExchangeAsked, Exchange!ServerDies
<1>4. ExchangeAnswers'
  BY <1>1
  DEF ExchangeInv, ExchangeAnswers, Exchange!ServerDies, Exchange!Put, Exchange!Hanging
<1>5. ExchangeStreams'
  BY <1>1 DEF ExchangeInv, Exchange!TypeOK, ExchangeStreams, Exchange!ServerDies
<1>6. ExchangeNames'
  BY <1>1 DEF ExchangeInv, Exchange!TypeOK, ExchangeNames, Exchange!ServerDies
<1>q. QED BY <1>1, <1>2, <1>3, <1>4, <1>5, <1>6 DEF ExchangeInv

LEMMA ExchangeKillServer ==
  ASSUME Exchange!ExchangeAssumption, ExchangeInv, Exchange!KillServer
  PROVE  ExchangeInv'
<1>1. xKills' \in 0 .. MaxKills /\ xKills' > 0
  BY DEF ExchangeInv, Exchange!TypeOK, Exchange!KillServer, Exchange!ExchangeAssumption
<1>2. server # "off" /\ Exchange!ServerDies BY DEF Exchange!KillServer
<1>q. QED BY <1>1, <1>2, ExchangeServerDies

\* Without kills the client whose connection was taken still waits for its answer.
LEMMA ExchangeAnswerBroken ==
  ASSUME Exchange!ExchangeAssumption, ExchangeInv, Exchange!AnswerBroken
  PROVE  ExchangeInv'
<1>1. server # "off" /\ Exchange!ServerDies /\ xKills' = xKills
  BY DEF Exchange!AnswerBroken
<1>2. xKills \in 0 .. MaxKills BY DEF ExchangeInv, Exchange!TypeOK
<1>3. xKills # 0
  BY DEF ExchangeInv, ExchangeStreams, Exchange!AnswerBroken, Exchange!Broken,
    Exchange!Streams, Exchange!Running
<1>q. QED BY <1>1, <1>2, <1>3, ExchangeServerDies

LEMMA ExchangeStartClient ==
  ASSUME Exchange!ExchangeAssumption, ExchangeInv, NEW c \in Askers, Exchange!StartClient(c)
  PROVE  ExchangeInv'
<1>1. Exchange!TypeOK' BY DEF ExchangeInv, Exchange!TypeOK, Exchange!StartClient
<1>2. ExchangeIdle' BY <1>1 DEF ExchangeIdle, Exchange!StartClient
<1>3. ExchangeAsked' BY <1>1 DEF ExchangeInv, ExchangeAsked, Exchange!StartClient
<1>4. ExchangeAnswers' BY <1>1 DEF ExchangeInv, ExchangeAnswers, Exchange!StartClient
<1>5. ExchangeStreams' BY <1>1 DEF ExchangeInv, ExchangeStreams, Exchange!StartClient
<1>6. ExchangeNames'
  BY <1>1
  DEF ExchangeInv, Exchange!TypeOK, ExchangeNames, Exchange!StartClient,
    Exchange!Running
<1>q. QED BY <1>1, <1>2, <1>3, <1>4, <1>5, <1>6 DEF ExchangeInv

LEMMA ExchangeSend ==
  ASSUME Exchange!ExchangeAssumption, ExchangeInv, NEW c \in Askers, Exchange!Send(c)
  PROVE  ExchangeInv'
<1>0. /\ requests' = (IF Exchange!Reachable THEN Append(requests, c) ELSE requests)
      /\ \A i \in DOMAIN Append(requests, c) :
           \/ i \in DOMAIN requests /\ Append(requests, c)[i] = requests[i]
           \/ i = Len(requests) + 1 /\ i \notin DOMAIN requests /\ Append(requests, c)[i] = c
  <2>1. requests \in Seq(Askers) BY DEF ExchangeInv, Exchange!TypeOK
  <2>2. requests' = (IF Exchange!Reachable THEN Append(requests, c) ELSE requests)
    BY DEF Exchange!Send
  <2>q. QED BY <2>1, <2>2, AppendTo
<1>1. Exchange!TypeOK'
  BY DEF ExchangeInv, Exchange!TypeOK, Exchange!Send, Exchange!Streams, Exchange!Put
<1>2. ExchangeIdle' BY <1>1 DEF ExchangeInv, ExchangeIdle, Exchange!Send
<1>3. ExchangeAsked'
  <2>1. xAt[c] = "send" /\ heard' = heard /\ xAt'[c] \notin {"off", "send"}
        /\ \A d \in Askers : d # c => xAt'[d] = xAt[d]
    BY DEF ExchangeInv, Exchange!TypeOK, Exchange!Send, Exchange!Streams
  <2>2. c \notin heard /\ \A i \in DOMAIN requests : requests[i] \in Askers /\ requests[i] # c
    BY <2>1 DEF ExchangeInv, Exchange!TypeOK, ExchangeAsked
  <2>3. \A i \in DOMAIN requests' : \/ i \in DOMAIN requests /\ requests'[i] = requests[i]
                                    \/ i = Len(requests) + 1 /\ requests'[i] = c
    <3>1. CASE Exchange!Reachable BY <1>0, <3>1
    <3>2. CASE ~Exchange!Reachable BY <1>0, <3>2
    <3>q. QED BY <3>1, <3>2
  <2>q. QED BY <2>1, <2>2, <2>3 DEF ExchangeInv, ExchangeAsked
<1>4. ExchangeAnswers'
  <2>1. UNCHANGED <<kind, heard, server, asked>> BY DEF Exchange!Send
  <2>2. \A d \in Askers : /\ xShown'[d] = "answer" => xShown[d] = "answer"
                          /\ xShown'[d] = "nothing" =>
                              xShown[d] = "nothing" \/ kind \in Exchange!Streams
    BY DEF ExchangeInv, Exchange!TypeOK, Exchange!Send, Exchange!Streams
  <2>3. \A d \in Askers : \A i \in DOMAIN box'[d] :
          box'[d][i] = "request" \/ (i \in DOMAIN box[d] /\ box'[d][i] = box[d][i])
    <3>1. \A d \in Askers : box[d] \in Seq({"answer", "request", "nothing"})
      BY DEF ExchangeInv, Exchange!TypeOK
    <3>2. \A d \in Askers : box'[d] \in {box[d], Append(box[d], "request")}
      BY DEF ExchangeInv, Exchange!TypeOK, Exchange!Send, Exchange!Put
    <3>3. \A d \in Askers : \A i \in DOMAIN Append(box[d], "request") :
            \/ Append(box[d], "request")[i] = "request"
            \/ i \in DOMAIN box[d] /\ Append(box[d], "request")[i] = box[d][i]
      BY <3>1, AppendTo
    <3>q. QED BY <3>2, <3>3
  <2>4. \A d \in Askers, what \in {"answer", "nothing"} :
          (\E i \in DOMAIN box'[d] : box'[d][i] = what) => \E i \in DOMAIN box[d] : box[d][i] = what
    BY <2>3
  <2>5. ASSUME NEW d \in Askers,
               xShown'[d] = "answer" \/ \E i \in DOMAIN box'[d] : box'[d][i] = "answer"
        PROVE  IF kind = "raw" THEN heard # {} ELSE d \in heard
    BY <2>2, <2>4, <2>5 DEF ExchangeInv, ExchangeAnswers
  <2>6. ASSUME NEW d \in Askers,
               xShown'[d] = "nothing" \/ \E i \in DOMAIN box'[d] : box'[d][i] = "nothing"
        PROVE  kind \in Exchange!Streams
    BY <2>2, <2>4, <2>6 DEF ExchangeInv, ExchangeAnswers
  <2>q. QED BY <2>1, <2>5, <2>6 DEF ExchangeInv, ExchangeAnswers
<1>5. ExchangeStreams'
  <2> SUFFICES ASSUME kind \in Exchange!Streams, xKills = 0 PROVE ExchangeStreams'
    BY DEF ExchangeStreams, Exchange!Send
  <2>1. xAt[c] = "send" /\ UNCHANGED <<kind, xKills, heard, server, asked, box>>
        /\ \A d \in Askers : d # c => xAt'[d] = xAt[d] /\ xShown'[d] = xShown[d]
    BY DEF Exchange!Send, Exchange!Streams
  <2>2. c \notin heard /\ \A i \in DOMAIN requests : requests[i] \in Askers /\ requests[i] # c
    BY <2>1 DEF ExchangeInv, Exchange!TypeOK, ExchangeAsked
  <2>3. server = "answer" => asked \in Askers /\ asked # c
    BY <2>1, <2>2 DEF ExchangeInv, Exchange!TypeOK, ExchangeAnswers
  <2>4. \A i \in DOMAIN requests' : \/ i \in DOMAIN requests /\ requests'[i] = requests[i]
                                    \/ Exchange!Reachable /\ requests'[i] = c
    <3>1. CASE Exchange!Reachable BY <1>0, <3>1
    <3>2. CASE ~Exchange!Reachable BY <1>0, <3>2
    <3>q. QED BY <3>1, <3>2
  <2>5. box[c] = <<>> /\ xShown[c] # "nothing" BY <2>1 DEF ExchangeInv, ExchangeStreams
  <2>6. Exchange!Reachable => xAt'[c] = "receive"
    BY DEF ExchangeInv, Exchange!TypeOK, Exchange!Send
  <2>7. xAt'[c] \in {"receive", "gone", "close"} /\ (xShown'[c] = "nothing" => xAt'[c] = "close")
    BY <2>5 DEF ExchangeInv, Exchange!TypeOK, Exchange!Send, Exchange!Streams
  <2>q. QED BY <2>1, <2>2, <2>3, <2>4, <2>6, <2>7 DEF ExchangeInv, ExchangeStreams
<1>6. ExchangeNames'
  BY <1>1
  DEF ExchangeInv, ExchangeNames, Exchange!Send, Exchange!Running, Exchange!Streams
<1>q. QED BY <1>1, <1>2, <1>3, <1>4, <1>5, <1>6 DEF ExchangeInv

LEMMA ExchangeReceive ==
  ASSUME Exchange!ExchangeAssumption, ExchangeInv, NEW c \in Askers, Exchange!Receive(c)
  PROVE  ExchangeInv'
<1>1. Exchange!TypeOK'
  <2>1. /\ Tail(box[c]) \in Seq({"answer", "request", "nothing"})
        /\ Head(box[c]) \in {"answer", "request", "nothing"}
    BY TailOf DEF ExchangeInv, Exchange!TypeOK, Exchange!Receive
  <2>2. box' \in [Askers -> Seq({"answer", "request", "nothing"})]
    BY <2>1 DEF ExchangeInv, Exchange!TypeOK, Exchange!Receive
  <2>3. xShown' \in [Askers -> {"none", "answer", "nothing"}]
        /\ xAt' \in [Askers -> {"off", "send", "receive", "close", "gone"}]
    BY <2>1 DEF ExchangeInv, Exchange!TypeOK, Exchange!Receive, Exchange!Wanted
  <2>q. QED BY <2>2, <2>3 DEF ExchangeInv, Exchange!TypeOK, Exchange!Receive
<1>2. ExchangeIdle' BY <1>1 DEF ExchangeInv, ExchangeIdle, Exchange!Receive
<1>3. ExchangeAsked'
  BY <1>1 DEF ExchangeInv, Exchange!TypeOK, ExchangeAsked, Exchange!Receive
<1>4. ExchangeAnswers'
  BY <1>1 DEF ExchangeInv, Exchange!TypeOK, ExchangeAnswers, Exchange!Receive
<1>5. ExchangeStreams'
  <2> SUFFICES ASSUME kind \in Exchange!Streams, xKills = 0 PROVE ExchangeStreams'
    BY DEF ExchangeStreams, Exchange!Receive
  <2>1. /\ xAt[c] = "receive" /\ box[c] # <<>>
        /\ UNCHANGED <<kind, xKills, heard, server, asked, requests>>
        /\ \A d \in Askers : d # c => xAt'[d] = xAt[d] /\ box'[d] = box[d] /\ xShown'[d] = xShown[d]
    BY DEF ExchangeInv, Exchange!TypeOK, Exchange!Receive
  <2>2. /\ server = "answer" => asked \in Askers /\ asked # c
        /\ \A i \in DOMAIN requests : requests[i] \in Askers /\ requests[i] # c
    BY <2>1 DEF ExchangeInv, Exchange!TypeOK, ExchangeAnswers, ExchangeStreams
  <2>3. Head(box[c]) = box[c][1] /\ 1 \in DOMAIN box[c]
    BY <2>1, TailOf DEF ExchangeInv, Exchange!TypeOK
  <2>4. Head(box[c]) = "answer" <=> c \in heard
    <3>1. c \in heard => Head(box[c]) = "answer"
      BY <2>1, <2>2 DEF ExchangeInv, ExchangeStreams
    <3>2. Head(box[c]) = "answer" => c \in heard
      BY <2>3 DEF ExchangeInv, ExchangeAnswers, Exchange!Streams
    <3>q. QED BY <3>1, <3>2
  <2>5. xShown[c] # "nothing" BY <2>1 DEF ExchangeInv, ExchangeStreams
  <2>6. /\ xAt'[c] \in {"receive", "close"}
        /\ (xAt'[c] = "receive" => Head(box[c]) = "request")
        /\ xShown'[c] = "nothing" => Head(box[c]) = "nothing" /\ xAt'[c] = "close"
    BY <2>1, <2>5 DEF ExchangeInv, Exchange!TypeOK, Exchange!Receive, Exchange!Wanted
  <2>q. QED BY <2>1, <2>2, <2>4, <2>6 DEF ExchangeInv, ExchangeStreams
<1>6. ExchangeNames'
  BY <1>1
  DEF ExchangeInv, Exchange!TypeOK, ExchangeNames, Exchange!Receive, Exchange!Running
<1>q. QED BY <1>1, <1>2, <1>3, <1>4, <1>5, <1>6 DEF ExchangeInv

LEMMA ExchangeCloseClient ==
  ASSUME Exchange!ExchangeAssumption, ExchangeInv, NEW c \in Askers, Exchange!CloseClient(c)
  PROVE  ExchangeInv'
<1>1. Exchange!TypeOK' BY DEF ExchangeInv, Exchange!TypeOK, Exchange!CloseClient
<1>2. ExchangeIdle' BY <1>1 DEF ExchangeInv, ExchangeIdle, Exchange!CloseClient
<1>3. ExchangeAsked' BY <1>1 DEF ExchangeInv, ExchangeAsked, Exchange!CloseClient
<1>4. ExchangeAnswers' BY <1>1 DEF ExchangeInv, ExchangeAnswers, Exchange!CloseClient
<1>5. ExchangeStreams' BY <1>1 DEF ExchangeInv, ExchangeStreams, Exchange!CloseClient
<1>6. ExchangeNames' BY <1>1 DEF ExchangeInv, ExchangeNames, Exchange!CloseClient
<1>q. QED BY <1>1, <1>2, <1>3, <1>4, <1>5, <1>6 DEF ExchangeInv

LEMMA ExchangeKillClient ==
  ASSUME Exchange!ExchangeAssumption, ExchangeInv, NEW c \in Askers, Exchange!KillClient(c)
  PROVE  ExchangeInv'
<1>1. Exchange!TypeOK'
  BY DEF ExchangeInv, Exchange!TypeOK, Exchange!KillClient, Exchange!ExchangeAssumption
<1>2. ExchangeIdle' BY <1>1 DEF ExchangeInv, ExchangeIdle, Exchange!KillClient
<1>3. ExchangeAsked' BY <1>1 DEF ExchangeInv, ExchangeAsked, Exchange!KillClient
<1>4. ExchangeAnswers' BY <1>1 DEF ExchangeInv, ExchangeAnswers, Exchange!KillClient
<1>5. ExchangeStreams'
  BY <1>1 DEF ExchangeInv, Exchange!TypeOK, ExchangeStreams, Exchange!KillClient
<1>6. ExchangeNames'
  BY <1>1
  DEF ExchangeInv, Exchange!TypeOK, ExchangeNames, Exchange!KillClient,
    Exchange!ExchangeAssumption
<1>q. QED BY <1>1, <1>2, <1>3, <1>4, <1>5, <1>6 DEF ExchangeInv

LEMMA ExchangeLose ==
  ASSUME Exchange!ExchangeAssumption, ExchangeInv, Exchange!Lose PROVE ExchangeInv'
<1>0. /\ box' \in [Askers -> Seq({"answer", "request", "nothing"})]
      /\ requests' \in Seq(Askers)
      /\ \A c \in Askers : \A i \in DOMAIN box'[c] :
           \/ i \in DOMAIN box[c] /\ box'[c][i] = box[c][i]
           \/ i + 1 \in DOMAIN box[c] /\ box'[c][i] = box[c][i + 1]
      /\ \/ requests' = requests
         \/ /\ \A i \in DOMAIN requests' :
                 i + 1 \in DOMAIN requests /\ requests'[i] = requests[i + 1]
            /\ \A i, j \in DOMAIN requests' : i + 1 = j + 1 => i = j
  <2>1. CASE requests # <<>> /\ requests' = Tail(requests) /\ UNCHANGED box
    BY <2>1, TailOf DEF ExchangeInv, Exchange!TypeOK
  <2>2. ASSUME NEW c \in Askers, box[c] # <<>>, box' = [box EXCEPT ![c] = Tail(@)],
               UNCHANGED requests
        PROVE  /\ box' \in [Askers -> Seq({"answer", "request", "nothing"})]
               /\ \A d \in Askers : \A i \in DOMAIN box'[d] :
                    \/ i \in DOMAIN box[d] /\ box'[d][i] = box[d][i]
                    \/ i + 1 \in DOMAIN box[d] /\ box'[d][i] = box[d][i + 1]
    <3>1. /\ Tail(box[c]) \in Seq({"answer", "request", "nothing"})
          /\ \A i \in DOMAIN Tail(box[c]) :
               i + 1 \in DOMAIN box[c] /\ Tail(box[c])[i] = box[c][i + 1]
      BY <2>2, TailOf DEF ExchangeInv, Exchange!TypeOK
    <3>q. QED BY <2>2, <3>1 DEF ExchangeInv, Exchange!TypeOK
  <2>q. QED BY <2>1, <2>2 DEF ExchangeInv, Exchange!TypeOK, Exchange!Lose
<1>1. Exchange!TypeOK'
  BY <1>0 DEF ExchangeInv, Exchange!TypeOK, Exchange!Lose, Exchange!ExchangeAssumption
<1>2. ExchangeIdle' BY <1>1 DEF ExchangeIdle, Exchange!Lose
<1>3. ExchangeAsked'
  <2>1. UNCHANGED <<heard, xAt>> BY DEF Exchange!Lose
  <2>q. QED BY <1>0, <2>1 DEF ExchangeInv, ExchangeAsked
<1>4. ExchangeAnswers'
  <2>1. UNCHANGED <<kind, heard, server, asked, xShown>> BY DEF Exchange!Lose
  <2>q. QED BY <1>0, <2>1 DEF ExchangeInv, ExchangeAnswers
<1>5. ExchangeStreams' BY <1>1 DEF ExchangeStreams, Exchange!Lose, Exchange!Streams
<1>6. ExchangeNames' BY <1>1 DEF ExchangeInv, ExchangeNames, Exchange!Lose
<1>q. QED BY <1>1, <1>2, <1>3, <1>4, <1>5, <1>6 DEF ExchangeInv

LEMMA ExchangeStutter == ASSUME ExchangeInv, UNCHANGED Exchange!vars PROVE ExchangeInv'
<1>1. Exchange!TypeOK' /\ ExchangeIdle' /\ ExchangeAsked'
  BY DEF ExchangeInv, Exchange!vars, Exchange!TypeOK, ExchangeIdle, ExchangeAsked
<1>2. ExchangeAnswers' /\ ExchangeStreams' /\ ExchangeNames'
  BY DEF ExchangeInv, Exchange!vars, ExchangeAnswers, ExchangeStreams, ExchangeNames,
    Exchange!Running
<1>q. QED BY <1>1, <1>2 DEF ExchangeInv

LEMMA ExchangeInit ==
  ASSUME Exchange!ExchangeAssumption, Exchange!Init PROVE ExchangeInv
<1>1. Exchange!TypeOK
  <2>1. xRuns \in 0 .. MaxRuns /\ xKills \in 0 .. MaxKills /\ xLost \in 0 .. MaxLost
    BY DEF Exchange!Init, Exchange!ExchangeAssumption
  <2>2. xAt \in [Askers -> {"off", "send", "receive", "close", "gone"}]
    BY DEF Exchange!Init
  <2>3. box \in [Askers -> Seq({"answer", "request", "nothing"})] BY DEF Exchange!Init
  <2>4. xShown \in [Askers -> {"none", "answer", "nothing"}] BY DEF Exchange!Init
  <2>5. requests \in Seq(Askers) BY DEF Exchange!Init
  <2>q. QED BY <2>1, <2>2, <2>3, <2>4, <2>5 DEF Exchange!Init, Exchange!TypeOK
<1>2. ExchangeIdle /\ ExchangeAsked BY DEF Exchange!Init, ExchangeIdle, ExchangeAsked
<1>3. ExchangeAnswers /\ ExchangeStreams /\ ExchangeNames
  BY DEF Exchange!Init, ExchangeAnswers, ExchangeStreams, ExchangeNames
<1>q. QED BY <1>1, <1>2, <1>3 DEF ExchangeInv

LEMMA ExchangeStep ==
  ASSUME Exchange!ExchangeAssumption, ExchangeInv, [Exchange!Next]_exchangeVars
  PROVE  ExchangeInv'
<1>1. CASE Exchange!Next
  BY <1>1, ExchangeChoose, ExchangeStartServer, ExchangeTake, ExchangeAnswer,
    ExchangeAnswerBroken, ExchangeCloseServer, ExchangeUnlink, ExchangeKillServer, ExchangeStartClient,
    ExchangeSend, ExchangeReceive, ExchangeCloseClient, ExchangeKillClient, ExchangeLose
  DEF Exchange!Next, Exchange!ServerStep, Exchange!ClientStep
<1>q. QED BY <1>1, ExchangeStutter DEF exchangeVars, Exchange!vars

LEMMA ExchangeShown ==
  ASSUME Exchange!ExchangeAssumption, ExchangeInv PROVE Exchange!AnsweredByServer
<1>1. \A c \in Askers :
        /\ xShown[c] = "answer" => IF kind = "raw" THEN heard # {} ELSE c \in heard
        /\ xShown[c] = "nothing" => kind \in Exchange!Streams /\ (c \notin heard \/ xKills > 0)
  <2>1. xKills = 0 \/ xKills > 0 BY DEF ExchangeInv, Exchange!TypeOK
  <2>q. QED BY <2>1 DEF ExchangeInv, ExchangeAnswers, ExchangeStreams
<1>2. xKills = 0 => (socket = "free" <=> server = "off" \/ kind \notin Exchange!Locals)
  BY DEF ExchangeInv, ExchangeNames
<1>3. xKills = 0 =>
        socket2 \in {c \in Askers : Exchange!Running(c) \/ xAt[c] = "close"} \cup {"free"}
  BY DEF ExchangeInv, ExchangeNames
<1>q. QED BY <1>1, <1>2, <1>3 DEF ExchangeInv, Exchange!AnsweredByServer

--------------------------------------------------------------------------------
\* The shell with pipes (Pipeline).

\* What FoldLeft() of the community modules records for every part of a line.
LineStep(l, g, s) == IF s = {} THEN 0 ELSE Passes(g[s \ {Max(s)}], l[Max(s)])
LineFolds(l) == CHOOSE g : g = [s \in SUBSET (DOMAIN l) |-> LineStep(l, g, s)]
LineMakes(l, k) == LineFolds(l)[1 .. k]

LEMMA LastOf ==
  ASSUME NEW m \in Nat, NEW s \in SUBSET (1 .. m), s # {}
  PROVE  Max(s) \in s /\ \A x \in s : x <= Max(s)
<1> DEFINE I == {m - x : x \in s}
<1>1. I \in SUBSET Nat /\ I # {}
  <2>1. \A x \in s : m - x \in Nat OBVIOUS
  <2>2. PICK x \in s : TRUE OBVIOUS
  <2>q. QED BY <2>1, <2>2
<1>2. PICK i \in I : \A j \in I : i <= j BY <1>1, Least
<1>3. PICK y \in s : i = m - y BY <1>2
<1>4. \A x \in s : y >= x BY <1>2, <1>3
<1>5. \A x \in s : \A z \in s : z >= x => z \in Int OBVIOUS
<1>q. QED BY <1>4 DEF Max

LEMMA LineFoldsExist ==
  ASSUME NEW l \in Seq(Kinds)
  PROVE  LineFolds(l) = [s \in SUBSET (DOMAIN l) |-> LineStep(l, LineFolds(l), s)]
<1> DEFINE S == DOMAIN l
           Known(b) == \E g : g = [s \in UpToSize(S, b) |-> LineStep(l, g, s)]
           N == Cardinality(S)
           G == {b \in 0 .. N : Known(b)}
<1>0. Len(l) \in Nat /\ S = 1 .. Len(l) OBVIOUS
<1>f. IsFiniteSet(S) BY <1>0, FS_Interval
<1> HIDE DEF S
<1>1. N \in Nat BY <1>f, FS_CardinalityType
<1>2. 0 \in G
  <2> DEFINE g == [s \in UpToSize(S, 0) |-> 0]
  <2>1. \A s \in UpToSize(S, 0) : s = {} BY <1>f, PartOf DEF UpToSize
  <2>2. g = [s \in UpToSize(S, 0) |-> LineStep(l, g, s)] BY <2>1 DEF LineStep
  <2>q. QED BY <1>1, <2>2
<1>3. ASSUME NEW b \in 1 .. N, b - 1 \in G PROVE b \in G
  <2>1. PICK g : g = [s \in UpToSize(S, b - 1) |-> LineStep(l, g, s)] BY <1>3
  <2> DEFINE h == [s \in UpToSize(S, b) |-> LineStep(l, g, s)]
  <2>2. ASSUME NEW s \in UpToSize(S, b) PROVE h[s] = LineStep(l, h, s)
    <3>1. CASE s = {} BY <3>1 DEF LineStep
    <3>2. CASE s # {}
      <4> DEFINE x == Max(s)
      <4>1. x \in s BY <1>0, <3>2, LastOf DEF UpToSize
      <4> HIDE DEF x
      <4>2. Cardinality(s) \in Nat /\ Cardinality(s) <= b /\ s \ {x} \in SUBSET S
            /\ Cardinality(s \ {x}) = Cardinality(s) - 1
        BY <1>f, <4>1, PartOf DEF UpToSize
      <4>3. s \ {x} \in UpToSize(S, b - 1) /\ s \ {x} \in UpToSize(S, b)
        BY <1>1, <4>2 DEF UpToSize
      <4>4. g[s \ {x}] = LineStep(l, g, s \ {x}) BY <2>1, <4>3
      <4>5. h[s \ {x}] = g[s \ {x}] BY <4>3, <4>4
      <4> HIDE DEF h
      <4>6. LineStep(l, h, s) = LineStep(l, g, s) BY <3>2, <4>5 DEF LineStep, x
      <4>q. QED BY <4>6 DEF h
    <3>q. QED BY <3>1, <3>2
  <2>3. h = [s \in UpToSize(S, b) |-> LineStep(l, h, s)]
    <3>1. h = [s \in UpToSize(S, b) |-> h[s]] OBVIOUS
    <3> HIDE DEF h
    <3>q. QED BY <2>2, <3>1
  <2> HIDE DEF h
  <2>q. QED BY <2>3
<1> HIDE DEF G
<1>4. N \in G
  <2> HIDE DEF N
  <2>1. \A b \in 0 .. N : b \in G BY <1>1, <1>2, <1>3, UpTo
  <2>q. QED BY <1>1, <2>1
<1>5. UpToSize(S, N) = SUBSET S BY <1>f, PartOf DEF UpToSize
<1>6. \E g : g = [s \in SUBSET S |-> LineStep(l, g, s)] BY <1>4, <1>5 DEF G
<1>q. QED BY <1>6 DEF LineFolds, S

LEMMA LineMakesStep ==
  ASSUME NEW l \in Seq(Kinds)
  PROVE  /\ LineMakes(l, 0) = 0
         /\ \A k \in 1 .. Len(l) : LineMakes(l, k) = Passes(LineMakes(l, k - 1), l[k])
         /\ FoldLeft(Passes, 0, l) = LineMakes(l, Len(l))
<1> DEFINE S == DOMAIN l
           g == LineFolds(l)
<1>0. Len(l) \in Nat /\ S = 1 .. Len(l) OBVIOUS
<1>1. \A s \in SUBSET S : g[s] = LineStep(l, g, s)
  <2>1. g = [s \in SUBSET S |-> LineStep(l, g, s)] BY LineFoldsExist
  <2> HIDE DEF g
  <2>q. QED BY <2>1
<1>2. LineMakes(l, 0) = 0
  <2>1. 1 .. 0 = {} OBVIOUS
  <2>q. QED BY <1>1, <2>1 DEF LineMakes, LineStep
<1>3. ASSUME NEW k \in 1 .. Len(l)
      PROVE LineMakes(l, k) = Passes(LineMakes(l, k - 1), l[k])
  <2>1. 1 .. k \subseteq S /\ k \in 1 .. k BY <1>0
  <2>2. Max(1 .. k) \in 1 .. k /\ k <= Max(1 .. k) BY <1>0, <2>1, LastOf
  <2>3. Max(1 .. k) = k BY <2>2
  <2>4. (1 .. k) \ {k} = 1 .. (k - 1) OBVIOUS
  <2>q. QED BY <1>1, <2>1, <2>3, <2>4 DEF LineMakes, LineStep
<1>4. FoldLeft(Passes, 0, l) = LineMakes(l, Len(l))
  <2>1. FoldLeft(Passes, 0, l) = g[S]
    BY DEF FoldLeft, MapThenFoldSet, LineFolds, LineStep
  <2>q. QED BY <1>0, <2>1 DEF LineMakes
<1>q. QED BY <1>2, <1>3, <1>4

LEMMA PassesNat ==
  ASSUME NEW k \in Nat, NEW c \in Kinds \ {"exit"} PROVE Passes(k, c) \in Nat
BY SizesAssumption DEF Passes, Kinds

LEMMA LineMakesNat ==
  ASSUME NEW l \in Seq(Kinds), \A i \in DOMAIN l : l[i] # "exit"
  PROVE  \A k \in 0 .. Len(l) : LineMakes(l, k) \in Nat
<1> DEFINE G == {k \in 0 .. Len(l) : LineMakes(l, k) \in Nat}
<1>1. 0 \in G
  <2>1. LineMakes(l, 0) = 0 BY LineMakesStep
  <2>2. Len(l) \in Nat OBVIOUS
  <2>q. QED BY <2>1, <2>2
<1>2. ASSUME NEW k \in 1 .. Len(l), k - 1 \in G PROVE k \in G
  <2>1. l[k] \in Kinds \ {"exit"} OBVIOUS
  <2>2. LineMakes(l, k) = Passes(LineMakes(l, k - 1), l[k]) BY LineMakesStep
  <2>q. QED BY <1>2, <2>1, <2>2, PassesNat
<1>3. \A k \in 0 .. Len(l) : k \in G
  <2> HIDE DEF G
  <2>1. Len(l) \in Nat OBVIOUS
  <2>q. QED BY <1>1, <1>2, <2>1, UpTo
<1>q. QED BY <1>3
\* The shell holds the ends of all pipes until it has forked everybody; a child holds
\* them until it is its command, which has its neighbours' ends only.
PipeShape ==
  /\ line = <<>> => sh = "prompt"
  /\ \A c \in Children : at[c] # "none" => c <= Len(line) /\ line[c] # "exit"
  /\ \A c \in Children : todo[c] # 0 => at[c] = "run"
  /\ \A c \in Children : at[c] = "run" => line[c] # "missing"
  /\ fds[0] = IF sh \in {"fork", "close"} THEN Ends(Len(line) - 1) ELSE {}
  /\ \A c \in Children :
       /\ fds[c] = IF at[c] \in {"redirect", "exec"} THEN Ends(Len(line) - 1) ELSE {}
       /\ in[c] = IF at[c] \in {"exec", "run"} THEN c - 1 ELSE 0
       /\ out[c] = IF at[c] \in {"exec", "run"} /\ c < Len(line) THEN c ELSE 0

\* Who has been forked, and who has been waited for.
PipeCounted ==
  /\ sh = "prompt" => \A c \in Children : at[c] = "none"
  /\ sh = "fork" => n < Len(line) /\ \A c \in Children : at[c] # "none" <=> c <= n
  /\ sh = "close" => \A c \in Children : at[c] # "none" <=> c <= Len(line)
  /\ sh = "wait" => n < Len(line) /\ n = Cardinality({c \in 1 .. Len(line) : at[c] = "none"})

\* A command has written all it ever will.
Over(c) == at[c] = "dead" \/ (sh = "wait" /\ at[c] = "none")

\* What command c is still to write when more items are still to come to it.
StillWrites(c, more) ==
  IF Over(c) THEN 0
  ELSE IF at[c] = "run" /\ line[c] = "make" THEN todo[c]
  ELSE Passes(todo[c] + more, line[c])

\* r[c] is what command c is still to write.
Flows(r) ==
  /\ r \in [0 .. Len(line) -> Nat] /\ r[0] = 0
  /\ \A c \in 1 .. Len(line) :
       r[c] = StillWrites(c, IF c = 1 THEN 0 ELSE held[c - 1] + r[c - 1])

\* What has been shown and what the last command is still to write are what the
\* line makes.
PipeTotal ==
  /\ sh \in {"fork", "close", "wait"} =>
       /\ \A c \in 1 .. Len(line) : line[c] # "exit"
       /\ \E r : Flows(r) /\ shown + r[Len(line)] = FoldLeft(Passes, 0, line)
  /\ sh = "prompt" /\ line # <<>> => shown = FoldLeft(Passes, 0, line)

PipeInv == TypeOK /\ PipeShape /\ PipeCounted /\ PipeTotal
--------------------------------------------------------------------------------
LEMMA LongestIs ==
  /\ Longest \in Nat \ {0}
  /\ \A l \in Lines : l \in Seq(Kinds) /\ Len(l) \in 1 .. Longest
                      /\ l[1] \notin {"copy", "first"}
<1>1. \A l \in Lines : l \in Seq(Kinds) /\ Len(l) \in Nat \ {0}
                       /\ l[1] \notin {"copy", "first"}
  <2>1. ASSUME NEW l \in Lines
        PROVE  l \in Seq(Kinds) /\ l # <<>> /\ Head(l) \notin {"copy", "first"}
    BY LinesAssumption
  <2>2. ASSUME NEW l \in Lines PROVE Len(l) \in Nat \ {0} /\ Head(l) = l[1]
    BY <2>1
  <2>q. QED BY <2>1, <2>2
<1>2. Longest \in {Len(l) : l \in Lines} /\ \A l \in Lines : Len(l) <= Longest
  BY LinesAssumption DEF Longest
<1>q. QED BY <1>1, <1>2

LEMMA LineIs ==
  ASSUME TypeOK
  PROVE  /\ line \in Seq(Kinds) /\ Len(line) \in 0 .. Longest
         /\ Longest \in Nat \ {0}
         /\ line # <<>> => Len(line) > 0 /\ line[1] \notin {"copy", "first"}
<1>1. CASE line \in Lines BY <1>1, LongestIs
<1>2. CASE line = <<>> BY <1>2, LongestIs
<1>3. ASSUME NEW l \in Lines, line = SubSeq(l, 1, 1)
      PROVE  line \in Seq(Kinds) /\ Len(line) = 1 /\ line[1] = l[1]
  BY <1>3, LongestIs
<1>q. QED BY <1>1, <1>2, <1>3, LongestIs, SMTT(30) DEF TypeOK

LEMMA EndsIn == ASSUME NEW i \in Int, NEW j \in Int, i <= j PROVE Ends(i) \subseteq Ends(j)
BY DEF Ends

LEMMA PipeInitial == Init => PipeInv
<1> SUFFICES ASSUME Init PROVE PipeInv OBVIOUS
<1>1. TypeOK
  BY LongestIs, SizesAssumption DEF Init, TypeOK
<1>2. PipeShape
  <2>1. 0 \in Processes /\ \A c \in Children : c \in Processes
    BY LongestIs DEF Processes, Children
  <2>q. QED BY <2>1 DEF Init, PipeShape
<1>3. PipeCounted /\ PipeTotal BY DEF Init, PipeCounted, PipeTotal
<1>q. QED BY <1>1, <1>2, <1>3 DEF PipeInv

\* A line is run.
LEMMA PipeRun ==
  ASSUME PipeInv, NEW l \in Lines \cup {SubSeq(k, 1, 1) : k \in Lines}, Run(l)
  PROVE  PipeInv'
<1> USE DEF Run, children
<1>1. l \in Seq(Kinds) /\ Len(l) \in 1 .. Longest /\ l # <<>> /\ Longest \in Nat
  <2>1. CASE l \in Lines BY <2>1, LongestIs
  <2>2. ASSUME NEW k \in Lines, l = SubSeq(k, 1, 1) PROVE l \in Seq(Kinds) /\ Len(l) = 1
    BY <2>2, LongestIs
  <2>q. QED BY <2>1, <2>2, LongestIs
<1>e. Contains(l, "exit") <=> \E i \in 1 .. Len(l) : l[i] = "exit" BY DEF Contains
<1>n. \A c \in Children : at[c] = "none" BY DEF PipeInv, PipeCounted
<1>2. TypeOK'
  <2>1. sh' \in {"prompt", "fork", "close", "wait", "gone"} /\ n' \in 0 .. Longest
    BY <1>1
  <2>2. line' \in Lines \cup {<<>>} \cup {SubSeq(k, 1, 1) : k \in Lines} OBVIOUS
  <2>3. fds' \in [Processes -> SUBSET Ends(Longest - 1)]
    <3>1. Ends(Len(l) - 1) \subseteq Ends(Longest - 1) BY <1>1, EndsIn
    <3>q. QED BY <3>1 DEF PipeInv, TypeOK
  <2>4. held' \in [Pipes -> 0 .. PipeSize] BY SizesAssumption
  <2>q. QED BY <2>1, <2>2, <2>3, <2>4 DEF PipeInv, TypeOK
<1>3. PipeShape'
  <2>1. fds'[0] = (IF sh' \in {"fork", "close"} THEN Ends(Len(l) - 1) ELSE {})
        /\ \A c \in Children : fds'[c] = fds[c]
    <3>1. fds \in [Processes -> SUBSET Ends(Longest - 1)] /\ 0 \in Processes
          /\ \A c \in Children : c # 0 /\ c \in Processes
      BY <1>1 DEF PipeInv, TypeOK, Children, Processes
    <3>q. QED BY <3>1
  <2>q. QED BY <1>1, <1>n, <2>1 DEF PipeInv, PipeShape
<1>4. PipeCounted'
  <2>1. \A c \in Children : c > 0 BY <1>1 DEF Children
  <2>q. QED BY <1>1, <1>n, <2>1 DEF PipeCounted, Children
<1>5. PipeTotal'
  <2>1. CASE Contains(l, "exit") BY <2>1 DEF PipeTotal
  <2>2. CASE ~Contains(l, "exit")
    <3>1. sh' = "fork" /\ line' = l /\ shown' = 0 /\ \A i \in 1 .. Len(l) : l[i] # "exit"
      BY <1>e, <2>2
    <3> DEFINE r == [k \in 0 .. Len(l) |-> LineMakes(l, k)]
    <3>2. \A k \in 0 .. Len(l) : LineMakes(l, k) \in Nat BY <1>1, <3>1, LineMakesNat
    <3>3. r \in [0 .. Len(l) -> Nat] BY <3>2
    <3>4. r[0] = 0
      <4>1. LineMakes(l, 0) = 0 BY <1>1, LineMakesStep
      <4>q. QED BY <1>1, <4>1
    <3>5. ASSUME NEW c \in 1 .. Len(l)
          PROVE  r[c] = StillWrites(c, IF c = 1 THEN 0 ELSE held[c - 1] + r[c - 1])'
      <4>1. c \in Children BY <1>1 DEF Children
      <4>2. at'[c] = "none" /\ todo'[c] = 0
        BY <1>n, <4>1 DEF PipeInv, PipeShape
      <4>3. c # 1 => held'[c - 1] = 0 BY <1>1 DEF Pipes
      <4>4. 0 + r[c - 1] = r[c - 1] /\ r[c - 1] = LineMakes(l, c - 1)
        BY <3>3
      <4> DEFINE k == IF c = 1 THEN 0 ELSE held'[c - 1] + r[c - 1]
      <4>5. k = LineMakes(l, c - 1)
        BY <3>4, <4>3, <4>4
      <4>6. ~Over(c)' /\ ~(at'[c] = "run" /\ line'[c] = "make") BY <3>1, <4>2 DEF Over
      <4>7. 0 + k = k /\ c - 1 \in 0 .. Len(l) BY <3>2, <4>5
      <4>8. LineMakes(l, c) = Passes(LineMakes(l, c - 1), l[c]) BY <1>1, LineMakesStep
      <4>9. r[c] = LineMakes(l, c) OBVIOUS
      <4> HIDE DEF r
      <4>q. QED BY <3>1, <4>2, <4>5, <4>6, <4>7, <4>8, <4>9 DEF StillWrites
    <3>6. shown' + r[Len(l)] = FoldLeft(Passes, 0, l)
      <4>1. Len(l) \in 0 .. Len(l) BY <1>1
      <4>2. r[Len(l)] = LineMakes(l, Len(l)) BY <4>1
      <4>3. FoldLeft(Passes, 0, l) = LineMakes(l, Len(l)) BY <1>1, LineMakesStep
      <4> HIDE DEF r
      <4>q. QED BY <3>1, <3>2, <4>1, <4>2, <4>3
    <3> HIDE DEF r
    <3>q. QED BY <3>1, <3>3, <3>4, <3>5, <3>6 DEF PipeTotal, Flows
  <2>q. QED BY <2>1, <2>2
<1>q. QED BY <1>2, <1>3, <1>4, <1>5 DEF PipeInv

LEMMA PipeRead == ASSUME PipeInv, Read \/ ReadNothing PROVE PipeInv'
<1>1. CASE Read BY <1>1, PipeRun DEF Read
<1>2. CASE ReadNothing
  <2>1. SubSeq(line, 1, 1) \in Lines \cup {SubSeq(k, 1, 1) : k \in Lines}
    <3>1. CASE line \in Lines BY <3>1
    <3>2. ASSUME NEW k \in Lines, line = SubSeq(k, 1, 1)
          PROVE  SubSeq(line, 1, 1) = SubSeq(k, 1, 1)
      BY <3>2, LongestIs
    <3>q. QED BY <1>2, <3>1, <3>2 DEF PipeInv, TypeOK, ReadNothing
  <2>q. QED BY <1>2, <2>1, PipeRun DEF ReadNothing
<1>q. QED BY <1>1, <1>2

--------------------------------------------------------------------------------
\* What an unchanged command is still to write depends on what is to come to it.
LEMMA FlowsOn ==
  ASSUME NEW r, Flows(r), NEW q, line' = line,
         q \in [0 .. Len(line) -> Nat], q[0] = 0,
         \A c \in 1 .. Len(line) :
           q[c] = StillWrites(c, IF c = 1 THEN 0 ELSE held[c - 1] + q[c - 1])'
  PROVE  Flows(q)'
BY DEF Flows

LEMMA PipeFork == ASSUME PipeInv, Fork PROVE PipeInv'
<1> USE DEF Fork, pipes
<1>0. /\ line \in Seq(Kinds) /\ Len(line) \in 1 .. Longest /\ n \in Nat /\ n < Len(line)
      /\ Longest \in Nat
  BY LineIs DEF PipeInv, PipeCounted, TypeOK
<1>1. n + 1 \in Children /\ n + 1 \in 1 .. Len(line) /\ n' = n + 1
  BY <1>0 DEF Children
<1>2. /\ at' = [at EXCEPT ![n + 1] = "redirect"] /\ at[n + 1] = "none"
      /\ fds' = [fds EXCEPT ![n + 1] = fds[0]]
      /\ 0 \in Processes /\ n + 1 # 0 /\ n + 1 \in Processes
      /\ \A c \in Children : c \in Processes /\ c # 0
  BY <1>0, <1>1 DEF PipeInv, PipeCounted, Children, Processes
<1>3. TypeOK'
  <2>1. fds' \in [Processes -> SUBSET Ends(Longest - 1)] BY <1>2 DEF PipeInv, TypeOK
  <2>2. at' \in [Children -> {"none", "redirect", "exec", "run", "dead"}]
    BY <1>2 DEF PipeInv, TypeOK
  <2>3. n' \in 0 .. Longest /\ sh' \in {"fork", "close"} BY <1>0, <1>1
  <2>q. QED BY <2>1, <2>2, <2>3 DEF PipeInv, TypeOK
<1>4. line[n + 1] # "exit" BY <1>1 DEF PipeInv, PipeTotal
<1>5. PipeShape'
  <2>1. \A c \in Children : at'[c] = IF c = n + 1 THEN "redirect" ELSE at[c]
    BY <1>2 DEF PipeInv, TypeOK
  <2>2. \A c \in Processes : fds'[c] = IF c = n + 1 THEN fds[0] ELSE fds[c]
    BY <1>2 DEF PipeInv, TypeOK
  <2>3. fds[0] = Ends(Len(line) - 1) BY DEF PipeInv, PipeShape
  <2>q. QED BY <1>0, <1>1, <1>2, <1>4, <2>1, <2>2, <2>3 DEF PipeInv, PipeShape
<1>6. PipeCounted'
  <2>1. \A c \in Children : at'[c] # "none" <=> c <= n + 1
    <3>1. \A c \in Children : at'[c] = IF c = n + 1 THEN "redirect" ELSE at[c]
      BY <1>2 DEF PipeInv, TypeOK
    <3>q. QED BY <1>0, <3>1 DEF PipeInv, PipeCounted, Children
  <2>q. QED BY <1>0, <1>1, <2>1 DEF PipeCounted
<1>7. PipeTotal'
  <2>1. PICK r : Flows(r) /\ shown + r[Len(line)] = FoldLeft(Passes, 0, line)
    BY DEF PipeInv, PipeTotal
  <2>2. ASSUME NEW c \in 1 .. Len(line)
        PROVE  r[c] = StillWrites(c, IF c = 1 THEN 0 ELSE held[c - 1] + r[c - 1])'
    <3>1. c \in Children BY <1>0 DEF Children
    <3>2. at'[c] = IF c = n + 1 THEN "redirect" ELSE at[c]
      BY <1>2, <3>1 DEF PipeInv, TypeOK
    <3>3. (Over(c)' <=> Over(c)) /\ (at'[c] = "run" <=> at[c] = "run")
      BY <1>2, <3>2 DEF Over
    <3>q. QED BY <2>1, <3>3 DEF Flows, StillWrites
  <2>3. Flows(r)' BY <2>1, <2>2, FlowsOn DEF Flows
  <2>q. QED BY <2>1, <2>3 DEF PipeInv, PipeTotal
<1>q. QED BY <1>3, <1>5, <1>6, <1>7 DEF PipeInv

LEMMA PipeForkFails == ASSUME PipeInv, ForkFails PROVE PipeInv'
<1> USE DEF ForkFails, pipes, children
<1>0. 0 \in Processes /\ \A c \in Children : c \in Processes /\ c # 0
  BY LongestIs DEF Processes, Children
<1>1. TypeOK' BY <1>0 DEF PipeInv, TypeOK
<1>2. PipeShape'
  <2>1. fds'[0] = {} /\ \A c \in Children : fds'[c] = fds[c]
    BY <1>0 DEF PipeInv, TypeOK
  <2>q. QED BY <2>1 DEF PipeInv, PipeShape
<1>3. PipeCounted' /\ PipeTotal' BY DEF PipeCounted, PipeTotal
<1>q. QED BY <1>1, <1>2, <1>3 DEF PipeInv

LEMMA PipeClose == ASSUME PipeInv, Close PROVE PipeInv'
<1> USE DEF Close, pipes, children
<1>0. /\ line \in Seq(Kinds) /\ Len(line) \in 1 .. Longest /\ Longest \in Nat
      /\ 0 \in Processes /\ \A c \in Children : c \in Processes /\ c # 0
  BY LineIs, LongestIs DEF PipeInv, PipeShape, Processes, Children
<1>1. fds'[0] = {} /\ \A c \in Children : fds'[c] = fds[c]
  BY <1>0 DEF PipeInv, TypeOK, PipeShape, Closed
<1>2. TypeOK'
  <2>1. fds' \in [Processes -> SUBSET Ends(Longest - 1)]
    BY <1>0 DEF PipeInv, TypeOK, Closed
  <2>2. n' \in 0 .. Longest BY <1>0
  <2>q. QED BY <2>1, <2>2 DEF PipeInv, TypeOK
<1>3. PipeShape' BY <1>1 DEF PipeInv, PipeShape
<1>4. PipeCounted'
  <2>1. {c \in 1 .. Len(line) : at[c] = "none"} = {}
    BY <1>0 DEF PipeInv, PipeCounted, Children
  <2>2. Cardinality({c \in 1 .. Len(line) : at[c] = "none"}) = 0 BY <2>1, FS_EmptySet
  <2>q. QED BY <1>0, <2>2 DEF PipeCounted
<1>5. PipeTotal'
  <2>1. PICK r : Flows(r) /\ shown + r[Len(line)] = FoldLeft(Passes, 0, line)
    BY DEF PipeInv, PipeTotal
  <2>2. ASSUME NEW c \in 1 .. Len(line)
        PROVE  r[c] = StillWrites(c, IF c = 1 THEN 0 ELSE held[c - 1] + r[c - 1])'
    <3>1. c \in Children BY <1>0 DEF Children
    <3>2. at[c] # "none" BY <3>1 DEF PipeInv, PipeCounted
    <3>3. Over(c)' <=> Over(c) BY <3>2 DEF Over
    <3>q. QED BY <2>1, <3>3 DEF Flows, StillWrites
  <2>3. Flows(r)' BY <2>1, <2>2, FlowsOn DEF Flows
  <2>q. QED BY <2>1, <2>3 DEF PipeInv, PipeTotal
<1>q. QED BY <1>2, <1>3, <1>4, <1>5 DEF PipeInv

\* The last child of the line is waited for when all its commands are over.
LEMMA PipeWait == ASSUME PipeInv, Wait PROVE PipeInv'
<1> USE DEF Wait, pipes
<1>0. /\ line \in Seq(Kinds) /\ Len(line) \in 1 .. Longest /\ Longest \in Nat
      /\ n \in Nat /\ n < Len(line) /\ n = Cardinality({c \in 1 .. Len(line) : at[c] = "none"})
  BY LineIs DEF PipeInv, PipeShape, PipeCounted, TypeOK
<1>1. PICK d \in Children : at[d] = "dead" /\ at' = [at EXCEPT ![d] = "none"] OBVIOUS
<1>2. /\ d \in 1 .. Len(line)
      /\ \A c \in Children : at'[c] = IF c = d THEN "none" ELSE at[c]
  BY <1>0, <1>1 DEF PipeInv, TypeOK, PipeShape, Children
<1>3. TypeOK' BY <1>0, <1>1 DEF PipeInv, TypeOK
<1>4. PipeShape' BY <1>0, <1>1, <1>2 DEF PipeInv, PipeShape
<1> DEFINE W == {c \in 1 .. Len(line) : at[c] = "none"}
           V == {c \in 1 .. Len(line) : at'[c] = "none"}
<1>5. V = W \cup {d} /\ d \notin W
  BY <1>0, <1>1, <1>2 DEF Children
<1>6. IsFiniteSet(W) /\ IsFiniteSet(1 .. Len(line)) /\ Cardinality(1 .. Len(line)) = Len(line)
  <2>1. IsFiniteSet(1 .. Len(line)) /\ Cardinality(1 .. Len(line)) = Len(line)
    <3>1. 1 \in Int /\ Len(line) \in Int /\ ~(1 > Len(line)) /\ Len(line) - 1 + 1 = Len(line)
      BY <1>0
    <3> DEFINE m == Len(line)
    <3> HIDE DEF m
    <3>2. IsFiniteSet(1 .. m) /\ Cardinality(1 .. m) = m BY <3>1, FS_Interval DEF m
    <3>q. QED BY <3>2 DEF m
  <2>q. QED BY <2>1, FS_Subset
<1>7. Cardinality(V) = n + 1 BY <1>0, <1>5, <1>6, FS_AddElement
<1>8. n' = Len(line) => V = 1 .. Len(line)
  BY <1>6, <1>7, FS_Subset
<1>9. PipeCounted'
  <2>1. CASE sh' = "wait"
    <3>1. n' < Len(line) BY <1>0, <2>1
    <3>q. QED BY <1>7, <2>1, <3>1 DEF PipeCounted
  <2>2. CASE sh' = "prompt"
    <3>1. n' = Len(line) BY <2>2
    <3>2. ASSUME NEW c \in Children PROVE at'[c] = "none"
      <4>1. CASE c \in 1 .. Len(line) BY <1>8, <3>1, <4>1
      <4>2. CASE c \notin 1 .. Len(line)
        BY <1>0, <1>2, <4>2 DEF PipeInv, PipeShape, Children
      <4>q. QED BY <4>1, <4>2
    <3>q. QED BY <2>2, <3>2 DEF PipeCounted
  <2>q. QED BY <2>1, <2>2
<1>10. PipeTotal'
  <2>1. PICK r : Flows(r) /\ shown + r[Len(line)] = FoldLeft(Passes, 0, line)
    BY DEF PipeInv, PipeTotal
  <2>2. CASE sh' = "wait"
    <3>1. ASSUME NEW c \in 1 .. Len(line)
          PROVE  r[c] = StillWrites(c, IF c = 1 THEN 0 ELSE held[c - 1] + r[c - 1])'
      <4>1. c \in Children BY <1>0 DEF Children
      <4>2. (Over(c)' <=> Over(c)) /\ (at'[c] = "run" <=> at[c] = "run")
        BY <1>1, <1>2, <2>2, <4>1 DEF Over
      <4>q. QED BY <2>1, <4>2 DEF Flows, StillWrites
    <3>2. Flows(r)' BY <2>1, <3>1, FlowsOn DEF Flows
    <3>q. QED BY <2>1, <2>2, <3>2 DEF PipeInv, PipeTotal
  <2>3. CASE sh' = "prompt"
    <3> DEFINE m == Len(line)
    <3>1. m \in V /\ m \in Children BY <1>0, <1>8, <2>3 DEF Children
    <3>2. Over(m) BY <1>1, <1>2, <3>1 DEF Over
    <3>3. r[m] = 0 BY <1>0, <2>1, <3>2 DEF Flows, StillWrites
    <3>4. shown \in Nat BY DEF PipeInv, TypeOK
    <3>5. shown = FoldLeft(Passes, 0, line)
      <4> DEFINE t == FoldLeft(Passes, 0, line)
      <4>1. shown + r[Len(line)] = t BY <2>1
      <4> HIDE DEF t
      <4>2. shown = t BY <3>3, <3>4, <4>1
      <4>q. QED BY <4>2 DEF t
    <3>q. QED BY <2>3, <3>5 DEF PipeTotal
  <2>q. QED BY <2>2, <2>3
<1>q. QED BY <1>3, <1>4, <1>9, <1>10 DEF PipeInv

--------------------------------------------------------------------------------
\* A child's steps change neither the shell nor who is there.
LEMMA ChildIs ==
  ASSUME PipeInv, NEW c \in Children, at[c] # "none"
  PROVE  /\ line \in Seq(Kinds) /\ Len(line) \in 1 .. Longest /\ Longest \in Nat
         /\ c \in 1 .. Len(line) /\ c # 0 /\ c \in Processes /\ 0 \in Processes
         /\ line[c] \in {"make", "copy", "first", "missing"}
         /\ line[1] \notin {"copy", "first"}
         /\ sh # "prompt"
         /\ Pipes \subseteq Children
         /\ \A d \in Children : d \in Processes /\ d # 0 /\ d \in 1 .. Longest
<1>1. /\ line \in Seq(Kinds) /\ Len(line) \in 1 .. Longest /\ Longest \in Nat
      /\ line[1] \notin {"copy", "first"} /\ sh # "prompt"
  BY LineIs DEF PipeInv, PipeShape, PipeCounted
<1>2. c <= Len(line) /\ line[c] # "exit" BY DEF PipeInv, PipeShape
<1>3. c \in 1 .. Len(line) /\ c # 0 BY <1>1, <1>2 DEF Children
<1>4. line[c] \in Kinds BY <1>1, <1>3
<1>q. QED BY <1>1, <1>2, <1>3, <1>4 DEF Kinds, Processes, Children, Pipes

LEMMA CountedOn ==
  ASSUME PipeInv, UNCHANGED <<sh, line, n>>,
         \A d \in Children : at'[d] = "none" <=> at[d] = "none"
  PROVE  PipeCounted'
<1>1. sh = "wait" => {d \in 1 .. Len(line) : at'[d] = "none"}
                       = {d \in 1 .. Len(line) : at[d] = "none"}
  BY LineIs DEF PipeInv, Children
<1>q. QED BY <1>1 DEF PipeInv, PipeCounted

\* What a command is to write stays the same, and with it what the last one is.
LEMMA TotalOn ==
  ASSUME PipeInv, UNCHANGED <<sh, line, shown>>, sh # "prompt",
         \A r : Flows(r) => \A d \in 1 .. Len(line) :
           r[d] = StillWrites(d, IF d = 1 THEN 0 ELSE held[d - 1] + r[d - 1])'
  PROVE  PipeTotal'
<1>1. CASE sh = "gone" BY <1>1 DEF PipeTotal
<1>2. CASE sh \in {"fork", "close", "wait"}
  <2>1. PICK r : Flows(r) /\ shown + r[Len(line)] = FoldLeft(Passes, 0, line)
    BY <1>2 DEF PipeInv, PipeTotal
  <2>2. Flows(r)' BY <2>1, FlowsOn DEF Flows
  <2>q. QED BY <1>2, <2>1, <2>2 DEF PipeInv, PipeTotal
<1>q. QED BY <1>1, <1>2 DEF PipeInv, TypeOK

LEMMA TotalStays ==
  ASSUME PipeInv, UNCHANGED <<sh, line, shown>>, sh # "prompt",
         \A r : Flows(r) => \A d \in 1 .. Len(line) : \A k \in Nat :
           /\ k = (IF d = 1 THEN 0 ELSE held[d - 1] + r[d - 1])
           => /\ k = (IF d = 1 THEN 0 ELSE held'[d - 1] + r[d - 1])
              /\ StillWrites(d, k)' = StillWrites(d, k)
  PROVE  PipeTotal'
<1>1. ASSUME NEW r, Flows(r), NEW d \in 1 .. Len(line)
      PROVE r[d] = StillWrites(d, IF d = 1 THEN 0 ELSE held[d - 1] + r[d - 1])'
  <2>1. ASSUME NEW k, k = (IF d = 1 THEN 0 ELSE held[d - 1] + r[d - 1])
        PROVE  r[d] = StillWrites(d, IF d = 1 THEN 0 ELSE held[d - 1] + r[d - 1])'
    <3>1. k \in Nat
      <4>1. d # 1 => d - 1 \in Pipes /\ d - 1 \in 0 .. Len(line)
        BY LineIs DEF PipeInv, Pipes
      <4>2. d # 1 => held[d - 1] \in Nat /\ r[d - 1] \in Nat
        BY <1>1, <4>1, SMTT(30) DEF PipeInv, TypeOK, Flows
      <4>q. QED BY <2>1, <4>2
    <3>2. r[d] = StillWrites(d, k) BY <1>1, <2>1 DEF Flows
    <3>3. r[d] = StillWrites(d, k)' /\ k = (IF d = 1 THEN 0 ELSE held'[d - 1] + r[d - 1])
      BY <1>1, <2>1, <3>1, <3>2
    <3>q. QED BY <3>3 DEF StillWrites
  <2>q. QED BY <2>1
<1>q. QED BY <1>1, TotalOn

LEMMA PipeRedirect == ASSUME PipeInv, NEW c \in Children, Redirect(c) PROVE PipeInv'
<1> USE DEF Redirect, pipes
<1>0. /\ line \in Seq(Kinds) /\ Len(line) \in 1 .. Longest /\ Longest \in Nat
      /\ c \in 1 .. Len(line) /\ sh # "prompt"
  BY ChildIs
<1>1. \A d \in Children :
        /\ at'[d] = IF d = c THEN "exec" ELSE at[d]
        /\ in'[d] = IF d = c THEN c - 1 ELSE in[d]
        /\ out'[d] = IF d = c THEN IF c < Len(line) THEN c ELSE 0 ELSE out[d]
  BY DEF PipeInv, TypeOK
<1>2. TypeOK'
  <2>1. c - 1 \in Pipes \cup {0} /\ (c < Len(line) => c \in Pipes)
    BY <1>0 DEF Pipes
  <2>2. /\ in' \in [Children -> Pipes \cup {0}] /\ out' \in [Children -> Pipes \cup {0}]
        /\ at' \in [Children -> {"none", "redirect", "exec", "run", "dead"}]
    BY <2>1 DEF PipeInv, TypeOK
  <2>q. QED BY <2>2 DEF PipeInv, TypeOK
<1>3. PipeShape' BY <1>1 DEF PipeInv, PipeShape
<1>4. PipeCounted' BY <1>1, CountedOn
<1>5. \A d \in 1 .. Len(line) : (Over(d)' <=> Over(d)) /\ (at'[d] = "run" <=> at[d] = "run")
  BY <1>0, <1>1 DEF Over, Children
<1>6. PipeTotal' BY <1>0, <1>5, TotalOn DEF Flows, StillWrites
<1>q. QED BY <1>2, <1>3, <1>4, <1>6 DEF PipeInv

LEMMA PipeExec == ASSUME PipeInv, NEW c \in Children, Exec(c) PROVE PipeInv'
<1> USE DEF Exec, pipes
<1>0. /\ line \in Seq(Kinds) /\ Len(line) \in 1 .. Longest /\ Longest \in Nat
      /\ c \in 1 .. Len(line) /\ sh # "prompt" /\ c # 0 /\ c \in Processes
      /\ 0 \in Processes /\ \A d \in Children : d \in Processes
      /\ line[c] \in {"make", "copy", "first", "missing"}
  BY ChildIs
<1>1. \A d \in Children :
        /\ at'[d] = IF d = c THEN "run" ELSE at[d]
        /\ todo'[d] = IF d = c THEN IF line[c] = "make" THEN Output ELSE 0 ELSE todo[d]
        /\ fds'[d] = IF d = c THEN {} ELSE fds[d]
  BY <1>0, ZenonT(60) DEF PipeInv, TypeOK, PipeShape, Closed
<1>2. TypeOK'
  <2>1. Output \in 0 .. Output + 1 /\ 0 \in 0 .. Output + 1 BY SizesAssumption
  <2>2. /\ todo' \in [Children -> 0 .. Output + 1]
        /\ at' \in [Children -> {"none", "redirect", "exec", "run", "dead"}]
    BY <2>1 DEF PipeInv, TypeOK
  <2>3. fds' \in [Processes -> SUBSET Ends(Longest - 1)] BY DEF PipeInv, TypeOK, Closed
  <2>q. QED BY <2>2, <2>3 DEF PipeInv, TypeOK
<1>3. PipeShape'
  <2>1. fds'[0] = fds[0] BY <1>0 DEF PipeInv, TypeOK
  <2>q. QED BY <1>1, <2>1 DEF PipeInv, PipeShape
<1>4. PipeCounted' BY <1>1, CountedOn
<1>5. \A d \in 1 .. Len(line) : \A k :
        StillWrites(d, k)' = StillWrites(d, k)
  <2>1. ASSUME NEW d \in 1 .. Len(line), NEW k
        PROVE StillWrites(d, k)' = StillWrites(d, k)
    <3>0. d \in Children BY <1>0 DEF Children
    <3>1. Over(d)' <=> Over(d) BY <1>1, <3>0 DEF Over
    <3>2. CASE d # c BY <1>1, <3>0, <3>1, <3>2 DEF StillWrites
    <3>3. CASE d = c /\ line[c] = "make"
      BY <1>1, <3>0, <3>1, <3>3 DEF StillWrites, Passes, Over
    <3>4. CASE d = c /\ line[c] # "make"
      <4>1. todo[c] = 0 BY DEF PipeInv, PipeShape
      <4>q. QED BY <1>1, <3>0, <3>1, <3>4, <4>1 DEF StillWrites
    <3>q. QED BY <3>2, <3>3, <3>4
  <2>q. QED BY <2>1
<1>6. PipeTotal' BY <1>0, <1>5, TotalStays
<1>q. QED BY <1>2, <1>3, <1>4, <1>6 DEF PipeInv

--------------------------------------------------------------------------------
LEMMA EndKept ==
  ASSUME PipeInv, NEW c \in Children, at[c] # "none", End(c),
         held' \in [Pipes -> 0 .. PipeSize], shown' \in Nat
  PROVE  /\ TypeOK' /\ PipeShape' /\ PipeCounted'
         /\ \A d \in Children : /\ at'[d] = IF d = c THEN "dead" ELSE at[d]
                                /\ todo'[d] = IF d = c THEN 0 ELSE todo[d]
<1> USE DEF End
<1>0. c # 0 /\ c \in Processes /\ 0 \in Processes /\ \A d \in Children : d \in Processes
  BY ChildIs
<1>1. \A d \in Children :
        /\ at'[d] = IF d = c THEN "dead" ELSE at[d]
        /\ todo'[d] = IF d = c THEN 0 ELSE todo[d]
        /\ fds'[d] = IF d = c THEN {} ELSE fds[d]
        /\ in'[d] = IF d = c THEN 0 ELSE in[d]
        /\ out'[d] = IF d = c THEN 0 ELSE out[d]
  BY <1>0 DEF PipeInv, TypeOK
<1>2. TypeOK'
  <2>1. /\ todo' \in [Children -> 0 .. Output + 1]
        /\ in' \in [Children -> Pipes \cup {0}] /\ out' \in [Children -> Pipes \cup {0}]
    BY SizesAssumption DEF PipeInv, TypeOK
  <2>2. /\ at' \in [Children -> {"none", "redirect", "exec", "run", "dead"}]
        /\ fds' \in [Processes -> SUBSET Ends(Longest - 1)]
    BY DEF PipeInv, TypeOK
  <2>q. QED BY <2>1, <2>2 DEF PipeInv, TypeOK
<1>3. PipeShape'
  <2>1. fds'[0] = fds[0] BY <1>0 DEF PipeInv, TypeOK
  <2>q. QED BY <1>1, <2>1 DEF PipeInv, PipeShape
<1>4. PipeCounted' BY <1>1, CountedOn
<1>q. QED BY <1>1, <1>2, <1>3, <1>4

\* While a line runs, a pipe without a reader, or writer, is one whose reader, or
\* writer, is over: until it is, it holds the end itself, or the shell does for it.
LEMMA EndsHeld ==
  ASSUME PipeInv, sh \in {"fork", "close", "wait"}, NEW j \in Nat, 1 <= j, j < Len(line)
  PROVE  /\ Readers(j) = {} => Over(j + 1)
         /\ Writers(j) = {} => Over(j)
<1>0. /\ Len(line) \in 1 .. Longest /\ Longest \in Nat
      /\ j \in Children /\ j + 1 \in Children
  BY LineIs DEF PipeInv, Children
<1>1. 0 \in Processes /\ \A d \in Children : d \in Processes
  BY <1>0 DEF Processes, Children
<1>2. <<j, "r">> \in Ends(Len(line) - 1) /\ <<j, "w">> \in Ends(Len(line) - 1)
  BY <1>0 DEF Ends
<1>3. CASE sh \in {"fork", "close"}
  <2>1. 0 \in Readers(j) /\ 0 \in Writers(j)
    BY <1>1, <1>2, <1>3 DEF PipeInv, PipeShape, Readers, Writers
  <2>q. QED BY <2>1
<1>4. CASE sh = "wait"
  <2>1. ASSUME NEW d \in Children, ~Over(d) PROVE at[d] \in {"redirect", "exec", "run"}
    BY <1>4, <2>1 DEF Over, PipeInv, TypeOK
  <2>2. ASSUME ~Over(j + 1) PROVE j + 1 \in Readers(j)
    <3>1. CASE at[j + 1] \in {"redirect", "exec"}
      BY <1>0, <1>1, <1>2, <3>1 DEF PipeInv, PipeShape, Readers
    <3>2. CASE at[j + 1] = "run"
      <4>1. in[j + 1] = j BY <1>0, <3>2 DEF PipeInv, PipeShape
      <4>q. QED BY <1>0, <4>1 DEF Readers
    <3>q. QED BY <1>0, <2>1, <2>2, <3>1, <3>2
  <2>3. ASSUME ~Over(j) PROVE j \in Writers(j)
    <3>1. CASE at[j] \in {"redirect", "exec"}
      BY <1>0, <1>1, <1>2, <3>1 DEF PipeInv, PipeShape, Writers
    <3>2. CASE at[j] = "run"
      <4>1. out[j] = j BY <1>0, <3>2 DEF PipeInv, PipeShape
      <4>q. QED BY <1>0, <4>1 DEF Writers
    <3>q. QED BY <1>0, <2>1, <2>3, <3>1, <3>2
  <2>q. QED BY <2>2, <2>3
<1>q. QED BY <1>3, <1>4

LEMMA PipeExecFails == ASSUME PipeInv, NEW c \in Children, ExecFails(c) PROVE PipeInv'
<1> USE DEF ExecFails, pipes
<1>0. /\ line \in Seq(Kinds) /\ Len(line) \in 1 .. Longest /\ c \in 1 .. Len(line)
      /\ Longest \in Nat /\ sh # "prompt" /\ UNCHANGED <<sh, line, n>>
  BY ChildIs DEF End
<1>1. /\ TypeOK' /\ PipeShape' /\ PipeCounted'
      /\ \A d \in Children : /\ at'[d] = IF d = c THEN "dead" ELSE at[d]
                             /\ todo'[d] = IF d = c THEN 0 ELSE todo[d]
  BY EndKept DEF PipeInv, TypeOK
<1>2. \A d \in 1 .. Len(line), k \in Nat : StillWrites(d, k)' = StillWrites(d, k)
  <2>1. ASSUME NEW d \in 1 .. Len(line), NEW k \in Nat
        PROVE StillWrites(d, k)' = StillWrites(d, k)
    <3>0. d \in Children BY <1>0 DEF Children
    <3>1. CASE d # c
      <4>1. Over(d)' <=> Over(d) BY <1>0, <1>1, <3>0, <3>1 DEF Over
      <4>q. QED BY <1>0, <1>1, <3>0, <3>1, <4>1 DEF StillWrites
    <3>2. CASE d = c BY <1>0, <1>1, <3>2 DEF StillWrites, Over, Passes
    <3>q. QED BY <3>1, <3>2
  <2>q. QED BY <2>1
<1>3. PipeTotal' BY <1>0, <1>2, TotalStays
<1>q. QED BY <1>1, <1>3 DEF PipeInv

\* A reader that ends has had everything: nobody is left to write more.
LEMMA PipeFinish == ASSUME PipeInv, NEW c \in Children, Finish(c) PROVE PipeInv'
<1> USE DEF Finish, pipes
<1>0. /\ line \in Seq(Kinds) /\ Len(line) \in 1 .. Longest /\ c \in 1 .. Len(line)
      /\ Longest \in Nat /\ sh # "prompt" /\ UNCHANGED <<sh, line, n>>
      /\ line[1] \notin {"copy", "first"}
  BY ChildIs DEF End
<1>1. /\ TypeOK' /\ PipeShape' /\ PipeCounted'
      /\ \A d \in Children : /\ at'[d] = IF d = c THEN "dead" ELSE at[d]
                             /\ todo'[d] = IF d = c THEN 0 ELSE todo[d]
  BY EndKept DEF PipeInv, TypeOK
<1>2. CASE sh = "gone" BY <1>0, <1>1, <1>2 DEF PipeInv, PipeTotal
<1>3. CASE sh \in {"fork", "close", "wait"}
  <2>1. ASSUME NEW r, Flows(r), NEW d \in 1 .. Len(line), NEW k \in Nat,
               k = (IF d = 1 THEN 0 ELSE held[d - 1] + r[d - 1])
        PROVE  /\ k = (IF d = 1 THEN 0 ELSE held'[d - 1] + r[d - 1])
               /\ StillWrites(d, k)' = StillWrites(d, k)
    <3>0. d \in Children BY <1>0 DEF Children
    <3>1. CASE d # c
      <4>1. Over(d)' <=> Over(d) BY <1>0, <1>1, <3>0, <3>1 DEF Over
      <4>q. QED BY <1>0, <1>1, <2>1, <3>0, <3>1, <4>1 DEF StillWrites
    <3>2. CASE d = c /\ line[c] = "make"
      <4>1. ~Over(c) /\ Over(c)' BY <1>0, <1>1, <3>0, <3>2 DEF Over
      <4>q. QED BY <1>0, <2>1, <3>2, <4>1 DEF StillWrites
    <3>3. CASE d = c /\ line[c] # "make"
      <4>1. c # 1 /\ line[c] \in {"copy", "first"} BY <1>0, <3>3
      <4>2. c - 1 \in Nat /\ 1 <= c - 1 /\ c - 1 < Len(line) /\ c - 1 \in 1 .. Len(line)
        BY <1>0, <4>1
      <4>3. in[c] = c - 1 BY DEF PipeInv, PipeShape
      <4>4. Over(c - 1) /\ held[c - 1] = 0 BY <1>3, <3>3, <4>2, <4>3, EndsHeld
      <4>5. r[c - 1] = 0 BY <2>1, <4>2, <4>4 DEF Flows, StillWrites
      <4>6. k = 0 BY <2>1, <3>3, <4>1, <4>4, <4>5
      <4>7. StillWrites(c, k) = 0
        BY <4>1, <4>6, SizesAssumption DEF StillWrites, Passes
      <4>8. Over(c)' BY <1>1 DEF Over
      <4>q. QED BY <2>1, <3>3, <4>7, <4>8 DEF StillWrites
    <3>q. QED BY <3>1, <3>2, <3>3
  <2>q. QED BY <1>0, <2>1, <1>1, TotalStays DEF PipeInv
<1>q. QED BY <1>0, <1>2, <1>3 DEF PipeInv, TypeOK

\* Who would have read what is not written is over.
LEMMA PipeBroken == ASSUME PipeInv, NEW c \in Children, BrokenPipe(c) PROVE PipeInv'
<1> USE DEF BrokenPipe, pipes
<1>0. /\ line \in Seq(Kinds) /\ Len(line) \in 1 .. Longest /\ c \in 1 .. Len(line)
      /\ Longest \in Nat /\ sh # "prompt" /\ UNCHANGED <<sh, line, n, held, shown>>
  BY ChildIs DEF End
<1>1. /\ TypeOK' /\ PipeShape' /\ PipeCounted'
      /\ \A d \in Children : /\ at'[d] = IF d = c THEN "dead" ELSE at[d]
                             /\ todo'[d] = IF d = c THEN 0 ELSE todo[d]
  BY EndKept DEF PipeInv, TypeOK
<1>2. CASE sh = "gone" BY <1>0, <1>1, <1>2 DEF PipeInv, PipeTotal
<1>3. CASE sh \in {"fork", "close", "wait"}
  <2>0. c < Len(line) /\ out[c] = c BY DEF PipeInv, PipeShape
  <2>1. Over(c + 1) /\ c + 1 \in 1 .. Len(line) BY <1>0, <1>3, <2>0, EndsHeld
  <2>2. PICK r : Flows(r) /\ shown + r[Len(line)] = FoldLeft(Passes, 0, line)
    BY <1>3 DEF PipeInv, PipeTotal
  <2> DEFINE q == [r EXCEPT ![c] = 0]
  <2>3. /\ r \in [0 .. Len(line) -> Nat] /\ q \in [0 .. Len(line) -> Nat]
        /\ \A d \in 0 .. Len(line) : q[d] = IF d = c THEN 0 ELSE r[d]
    BY <2>2 DEF Flows
  <2> HIDE DEF q
  <2>4. ASSUME NEW d \in 1 .. Len(line)
        PROVE  q[d] = StillWrites(d, IF d = 1 THEN 0 ELSE held[d - 1] + q[d - 1])'
    <3>0. d \in Children BY <1>0 DEF Children
    <3>1. CASE d = c BY <1>0, <1>1, <2>3, <3>1 DEF StillWrites, Over
    <3>2. CASE d = c + 1
      <4>1. Over(d)' BY <1>0, <1>1, <2>1, <3>0, <3>2 DEF Over
      <4>2. r[d] = 0 BY <2>1, <2>2, <3>2 DEF Flows, StillWrites
      <4>3. d # c BY <1>0, <3>2
      <4>q. QED BY <2>3, <4>1, <4>2, <4>3 DEF StillWrites
    <3>3. CASE d # c /\ d # c + 1
      <4>1. Over(d)' <=> Over(d) BY <1>0, <1>1, <3>0, <3>3 DEF Over
      <4>2. d # 1 => q[d - 1] = r[d - 1] BY <1>0, <2>3, <3>3
      <4>3. q[d] = r[d] BY <2>3, <3>3
      <4>4. at'[d] = at[d] /\ todo'[d] = todo[d] BY <1>1, <3>0, <3>3
      <4>5. r[d] = StillWrites(d, IF d = 1 THEN 0 ELSE held[d - 1] + r[d - 1])
        BY <2>2 DEF Flows
      <4>q. QED BY <1>0, <4>1, <4>2, <4>3, <4>4, <4>5 DEF StillWrites
    <3>q. QED BY <3>1, <3>2, <3>3
  <2>5. q[0] = 0 /\ q[Len(line)] = r[Len(line)]
    BY <1>0, <2>0, <2>2, <2>3 DEF Flows
  <2>6. Flows(q)' BY <1>0, <2>2, <2>3, <2>4, <2>5, FlowsOn
  <2>7. \E p : Flows(p)' /\ shown' + p[Len(line')] = FoldLeft(Passes, 0, line')
    BY <1>0, <2>2, <2>5, <2>6
  <2>q. QED BY <1>0, <1>1, <1>3, <2>7 DEF PipeInv, PipeTotal
<1>q. QED BY <1>0, <1>2, <1>3 DEF PipeInv, TypeOK

LEMMA PipeTake == ASSUME PipeInv, NEW c \in Children, Take(c) PROVE PipeInv'
<1> USE DEF Take
<1>0. /\ line \in Seq(Kinds) /\ Len(line) \in 1 .. Longest /\ c \in 1 .. Len(line)
      /\ Longest \in Nat /\ sh # "prompt" /\ line[1] \notin {"copy", "first"}
  BY ChildIs
<1>1. in[c] = c - 1 /\ c - 1 \in Pipes /\ c # 1
  BY <1>0 DEF PipeInv, PipeShape, Pipes
<1>2. /\ \A j \in Pipes : held'[j] = IF j = c - 1 THEN held[j] - 1 ELSE held[j]
      /\ \A d \in Children : todo'[d] = IF d = c THEN 1 ELSE todo[d]
      /\ held[c - 1] \in 1 .. PipeSize
  BY <1>1 DEF PipeInv, TypeOK
<1>3. TypeOK'
  <2>1. held' \in [Pipes -> 0 .. PipeSize]
    BY <1>1, <1>2, SizesAssumption DEF PipeInv, TypeOK
  <2>2. todo' \in [Children -> 0 .. Output + 1] BY SizesAssumption DEF PipeInv, TypeOK
  <2>q. QED BY <2>1, <2>2 DEF PipeInv, TypeOK
<1>4. PipeShape' BY <1>2 DEF PipeInv, PipeShape
<1>5. PipeCounted' BY CountedOn
<1>6. PipeTotal'
  <2>1. ASSUME NEW r, Flows(r), NEW d \in 1 .. Len(line)
        PROVE r[d] = StillWrites(d, IF d = 1 THEN 0 ELSE held[d - 1] + r[d - 1])'
    <3>0. d \in Children BY <1>0 DEF Children
    <3>1. r[d] = StillWrites(d, IF d = 1 THEN 0 ELSE held[d - 1] + r[d - 1])
      BY <2>1 DEF Flows
    <3>2. Over(d)' <=> Over(d) BY DEF Over
    <3>3. CASE d # c
      <4>1. d # 1 => held'[d - 1] = held[d - 1]
        <5>1. d # 1 => d - 1 \in Pipes /\ d - 1 # c - 1 BY <1>0, <3>3 DEF Pipes
        <5>q. QED BY <1>2, <5>1
      <4>q. QED BY <1>2, <3>0, <3>1, <3>2, <3>3, <4>1 DEF StillWrites
    <3>4. CASE d = c
      <4>1. c - 1 \in 0 .. Len(line) /\ held'[c - 1] = held[c - 1] - 1
        BY <1>0, <1>1, <1>2
      <4>2. r[c - 1] \in Nat BY <2>1, <4>1 DEF Flows
      <4>3. 0 + (held[c - 1] + r[c - 1]) = 1 + (held'[c - 1] + r[c - 1])
        BY <1>2, <4>1, <4>2
      <4>4. todo'[c] = 1 BY <1>2
      <4>q. QED BY <1>1, <3>1, <3>2, <3>4, <4>3, <4>4 DEF StillWrites
    <3>q. QED BY <3>3, <3>4
  <2>q. QED BY <1>0, <2>1, TotalOn
<1>q. QED BY <1>3, <1>4, <1>5, <1>6 DEF PipeInv

\* An item goes from what a command is to write into what is to come to the next, or
\* onto the terminal.
LEMMA PutWrites ==
  ASSUME PipeInv, NEW c \in Children, Put(c), NEW k \in Nat
  PROVE  StillWrites(c, k) \in Nat \ {0} /\ StillWrites(c, k)' = StillWrites(c, k) - 1
<1> USE DEF Put
<1>0. /\ UNCHANGED <<sh, line>> /\ line[c] \in {"make", "copy", "first"}
      /\ c \in 1 .. Len(line)
  BY ChildIs DEF End, PipeInv, PipeShape
<1>1. todo[c] \in Nat \ {0} /\ ~Over(c) BY DEF PipeInv, TypeOK, Over
<1>2. CASE line[c] = "first"
  <2>1. Over(c)' BY <1>2 DEF End, Over, PipeInv, TypeOK
  <2>2. todo[c] + k > 0 BY <1>1
  <2>q. QED BY <1>1, <1>2, <2>1, <2>2 DEF StillWrites, Passes
<1>3. CASE line[c] # "first"
  <2>1. todo'[c] = todo[c] - 1 /\ at' = at BY <1>3 DEF PipeInv, TypeOK
  <2>2. ~Over(c)' BY <1>0, <1>1, <2>1 DEF Over
  <2>3. CASE line[c] = "make" BY <1>0, <1>1, <2>1, <2>2, <2>3 DEF StillWrites
  <2>4. CASE line[c] = "copy"
    <3>1. StillWrites(c, k) = todo[c] + k BY <1>1, <2>4 DEF StillWrites, Passes
    <3>2. StillWrites(c, k)' = todo[c] - 1 + k
      BY <1>0, <2>1, <2>2, <2>4 DEF StillWrites, Passes
    <3>q. QED BY <1>1, <3>1, <3>2
  <2>q. QED BY <1>0, <1>3, <2>3, <2>4
<1>q. QED BY <1>2, <1>3

LEMMA PipePut == ASSUME PipeInv, NEW c \in Children, Put(c) PROVE PipeInv'
<1> USE DEF Put
<1>0. /\ line \in Seq(Kinds) /\ Len(line) \in 1 .. Longest /\ c \in 1 .. Len(line)
      /\ Longest \in Nat /\ sh # "prompt" /\ UNCHANGED <<sh, line, n>>
  BY ChildIs DEF End
<1>1. out[c] = IF c < Len(line) THEN c ELSE 0 BY DEF PipeInv, PipeShape
<1>2. /\ held' \in [Pipes -> 0 .. PipeSize] /\ shown' \in Nat
      /\ IF c < Len(line)
           THEN /\ shown' = shown /\ c \in Pipes
                /\ \A j \in Pipes : held'[j] = IF j = c THEN held[j] + 1 ELSE held[j]
           ELSE shown' = shown + 1 /\ held' = held
  <2>1. held \in [Pipes -> 0 .. PipeSize] /\ shown \in Nat BY DEF PipeInv, TypeOK
  <2>2. CASE c < Len(line)
    <3>1. c \in Pipes /\ c # 0 BY <1>0, <2>2 DEF Pipes
    <3>2. held[c] < PipeSize /\ held' = [held EXCEPT ![c] = @ + 1] /\ shown' = shown
      BY <1>1, <2>2, <3>1
    <3>3. held[c] + 1 \in 0 .. PipeSize BY <2>1, <3>1, <3>2, SizesAssumption
    <3>q. QED BY <2>1, <2>2, <3>1, <3>2, <3>3
  <2>3. CASE ~(c < Len(line))
    <3>1. shown' = shown + 1 /\ held' = held BY <1>1, <2>3
    <3>q. QED BY <2>1, <2>3, <3>1
  <2>q. QED BY <2>2, <2>3
<1>3. /\ TypeOK' /\ PipeShape' /\ PipeCounted'
      /\ \A d \in Children : d # c =>
           at'[d] = at[d] /\ todo'[d] = todo[d]
  <2>1. CASE line[c] = "first"
    <3>1. /\ TypeOK' /\ PipeShape' /\ PipeCounted'
          /\ \A d \in Children : /\ at'[d] = IF d = c THEN "dead" ELSE at[d]
                                 /\ todo'[d] = IF d = c THEN 0 ELSE todo[d]
      BY <1>2, <2>1, EndKept
    <3>q. QED BY <3>1
  <2>2. CASE line[c] # "first"
    <3>1. /\ todo' \in [Children -> 0 .. Output + 1] /\ at' = at
          /\ \A d \in Children : todo'[d] = IF d = c THEN todo[d] - 1 ELSE todo[d]
      BY <2>2, SizesAssumption DEF PipeInv, TypeOK
    <3>2. TypeOK' BY <1>2, <2>2, <3>1 DEF PipeInv, TypeOK
    <3>3. PipeShape' BY <2>2, <3>1 DEF PipeInv, PipeShape
    <3>4. PipeCounted' BY <2>2, CountedOn
    <3>q. QED BY <3>1, <3>2, <3>3, <3>4
  <2>q. QED BY <2>1, <2>2
<1>4. CASE sh = "gone" BY <1>0, <1>3, <1>4 DEF PipeInv, PipeTotal
<1>5. CASE sh \in {"fork", "close", "wait"}
  <2>1. PICK r : Flows(r) /\ shown + r[Len(line)] = FoldLeft(Passes, 0, line)
    BY <1>5 DEF PipeInv, PipeTotal
  <2> DEFINE q == [r EXCEPT ![c] = @ - 1]
  <2>2. r \in [0 .. Len(line) -> Nat] /\ r[0] = 0 BY <2>1 DEF Flows
  <2>3. PICK k : k = IF c = 1 THEN 0 ELSE held[c - 1] + r[c - 1] OBVIOUS
  <2>4. k \in Nat
    <3>1. c # 1 => c - 1 \in Pipes /\ c - 1 \in 0 .. Len(line) BY <1>0 DEF Pipes
    <3>2. c # 1 => held[c - 1] \in Nat /\ r[c - 1] \in Nat
      BY <2>2, <3>1 DEF PipeInv, TypeOK
    <3>q. QED BY <2>3, <3>2
  <2>5. r[c] \in Nat \ {0} /\ StillWrites(c, k)' = r[c] - 1
    <3>1. r[c] = StillWrites(c, k) BY <1>0, <2>1, <2>3 DEF Flows
    <3>q. QED BY <2>4, <3>1, PutWrites
  <2>6. /\ q \in [0 .. Len(line) -> Nat]
        /\ \A d \in 0 .. Len(line) : q[d] = IF d = c THEN r[c] - 1 ELSE r[d]
    <3>1. r[c] - 1 \in Nat /\ c \in 0 .. Len(line) BY <1>0, <2>5
    <3>q. QED BY <2>2, <3>1
  <2> HIDE DEF q
  <2>7. ASSUME NEW d \in 1 .. Len(line)
        PROVE  q[d] = StillWrites(d, IF d = 1 THEN 0 ELSE held[d - 1] + q[d - 1])'
    <3>0. d \in Children BY <1>0 DEF Children
    <3>1. (IF d = 1 THEN 0 ELSE held'[d - 1] + q[d - 1])
            = (IF d = 1 THEN 0 ELSE held[d - 1] + r[d - 1])
      <4>1. CASE d = 1 BY <4>1
      <4>2. CASE d # 1 /\ d - 1 = c
        <5>1. c < Len(line) BY <4>2
        <5>2. held'[c] = held[c] + 1 /\ held[c] \in Nat
          BY <1>2, <5>1 DEF PipeInv, TypeOK
        <5>3. q[c] = r[c] - 1 BY <1>0, <2>6
        <5>q. QED BY <2>5, <4>2, <5>2, <5>3
      <4>3. CASE d # 1 /\ d - 1 # c
        <5>1. d - 1 \in Pipes /\ d - 1 \in 0 .. Len(line) BY <1>0, <4>3 DEF Pipes
        <5>2. held'[d - 1] = held[d - 1] BY <1>2, <4>3, <5>1
        <5>3. q[d - 1] = r[d - 1] BY <2>6, <4>3, <5>1
        <5>q. QED BY <5>2, <5>3
      <4>q. QED BY <4>1, <4>2, <4>3
    <3>2. CASE d = c
      <4>1. q[c] = StillWrites(c, k)' BY <1>0, <2>5, <2>6
      <4>2. k = (IF c = 1 THEN 0 ELSE held'[c - 1] + q[c - 1]) BY <2>3, <3>1, <3>2
      <4>q. QED BY <3>2, <4>1, <4>2 DEF StillWrites
    <3>3. CASE d # c
      <4>1. Over(d)' <=> Over(d) BY <1>0, <1>3, <3>0, <3>3 DEF Over
      <4>2. r[d] = StillWrites(d, IF d = 1 THEN 0 ELSE held[d - 1] + r[d - 1])
        BY <2>1 DEF Flows
      <4>3. q[d] = r[d] BY <2>6, <3>3
      <4>q. QED BY <1>0, <1>3, <3>0, <3>1, <3>3, <4>1, <4>2, <4>3 DEF StillWrites
    <3>q. QED BY <3>2, <3>3
  <2>8. q[0] = 0 BY <1>0, <2>2, <2>6
  <2>9. Flows(q)' BY <1>0, <2>1, <2>6, <2>7, <2>8, FlowsOn
  <2>10. shown' + q[Len(line)] = shown + r[Len(line)]
    <3>1. shown \in Nat /\ r[Len(line)] \in Nat /\ Len(line) \in 0 .. Len(line)
      BY <1>0, <2>2 DEF PipeInv, TypeOK
    <3>2. CASE c < Len(line) BY <1>2, <2>6, <3>1, <3>2
    <3>3. CASE c = Len(line)
      <4>1. shown' = shown + 1 BY <1>0, <1>2, <3>3
      <4>2. q[Len(line)] = r[Len(line)] - 1 BY <2>6, <3>1, <3>3
      <4>q. QED BY <3>1, <4>1, <4>2
    <3>q. QED BY <1>0, <3>2, <3>3
  <2>11. \E p : Flows(p)' /\ shown' + p[Len(line')] = FoldLeft(Passes, 0, line')
    BY <1>0, <2>1, <2>9, <2>10
  <2>q. QED BY <1>0, <1>3, <1>5, <2>11 DEF PipeInv, PipeTotal
<1>q. QED BY <1>0, <1>4, <1>5 DEF PipeInv, TypeOK

LEMMA PipeStutter == ASSUME PipeInv, UNCHANGED vars PROVE PipeInv'
<1>1. TypeOK' /\ PipeShape' BY DEF PipeInv, vars, TypeOK, PipeShape
<1>2. PipeCounted' BY CountedOn DEF vars
<1>3. PipeTotal'
  <2>1. CASE sh = "prompt" BY <2>1 DEF PipeInv, vars, PipeTotal
  <2>2. CASE sh # "prompt"
    <3>1. \A d \in Children : \A k : StillWrites(d, k)' = StillWrites(d, k)
      BY DEF vars, StillWrites, Over
    <3>q. QED BY <2>2, TotalOn DEF vars, Flows, StillWrites, Over
  <2>q. QED BY <2>1, <2>2
<1>q. QED BY <1>1, <1>2, <1>3 DEF PipeInv

LEMMA PipeStep == ASSUME PipeInv, [Next]_vars PROVE PipeInv'
BY PipeRead, PipeFork, PipeForkFails, PipeClose, PipeWait, PipeRedirect, PipeExec,
  PipeExecFails, PipeTake, PipePut, PipeBroken, PipeFinish, PipeStutter
DEF Next, Shell, Child

LEMMA PipeAnswered == ASSUME PipeInv PROVE LineAnswered
<1>1. TypeOK BY DEF PipeInv
<1>2. ASSUME sh = "prompt"
      PROVE  /\ line # <<>> => shown = FoldLeft(Passes, 0, line)
             /\ \A c \in Children : at[c] = "none" /\ in[c] = 0 /\ out[c] = 0
             /\ \A p \in Processes : fds[p] = {}
  <2>1. line # <<>> => shown = FoldLeft(Passes, 0, line) BY <1>2 DEF PipeInv, PipeTotal
  <2>2. \A c \in Children : at[c] = "none" BY <1>2 DEF PipeInv, PipeCounted
  <2>3. \A c \in Children : in[c] = 0 /\ out[c] = 0 /\ fds[c] = {}
    BY <2>2 DEF PipeInv, PipeShape
  <2>4. fds[0] = {} BY <1>2 DEF PipeInv, PipeShape
  <2>5. \A p \in Processes : p = 0 \/ p \in Children BY LongestIs DEF Processes, Children
  <2>q. QED BY <2>1, <2>2, <2>3, <2>4, <2>5
<1>q. QED BY <1>1, <1>2 DEF LineAnswered

--------------------------------------------------------------------------------
\* The families of processes (Family).

\* Who may have forked whom, and when: only the programs with more than one child
\* have a second generation.
FamilyKin ==
  /\ parent["main"] = "none" /\ parent["p1"] \in {"none", "main"}
  /\ parent["p2"] \in {"none", "main"}
  /\ parent["p3"] \in {"none", "p1"} /\ parent["p4"] \in {"none", "p1"}
  /\ parent["p5"] \in {"none", "p2"}
  /\ parent["p2"] # "none" => family = "tree"
  /\ parent["p3"] # "none" \/ parent["p4"] # "none" => family = "tree" /\ parent["p1"] # "none"
  /\ parent["p5"] # "none" => parent["p2"] # "none"
  /\ family = "fifo" => parent["p1"] = "none"
  /\ family = "none" => /\ parent["p1"] = "none" /\ next["main"] = 1
                        /\ \A p \in Relatives!Processes : state[p] = "none"
  /\ \A q \in Relatives!Processes \ {"main"} :
       state[q] # "none" => parent[q] # "none" \/ (q = "p1" /\ family = "fifo")
  /\ family = "tree" =>
       /\ parent["p1"] = "main" <=> next["main"] > 1
       /\ parent["p2"] # "none" => next["main"] > 2
       /\ parent["p3"] # "none" => next["p1"] > 1
       /\ parent["p4"] # "none" => next["p1"] > 3
       /\ parent["p5"] # "none" => next["p2"] > 1

\* The children that a process may not have waited for yet.
Unwaited(p) ==
  CASE family = "pair" /\ p = "main" /\ next[p] = 2 -> {"p1"}
    [] family = "bash" /\ p = "main" /\ next[p] = 3 -> {"p1"}
    [] family = "pipe" /\ p = "main" /\ next[p] \in {2, 3} -> {"p1"}
    [] family = "tree" /\ p = "main" /\ next[p] = 2 -> {"p1"}
    [] family = "tree" /\ p = "main" /\ next[p] \in {3, 4} -> {"p1", "p2"}
    [] family = "tree" /\ p = "p1" /\ next[p] = 2 -> {"p3"}
    [] family = "tree" /\ p = "p1" /\ next[p] = 4 -> {"p4"}
    [] family = "tree" /\ p = "p2" /\ next[p] = 2 -> {"p5"}
    [] OTHER -> {}

FamilyWaited ==
  /\ \A p, q \in Relatives!Processes :
       parent[q] = p /\ p \notin failed /\ state[q] # "reaped" =>
         Relatives!Alive(p) /\ state[q] \in {"running", "zombie"} /\ q \in Unwaited(p)
  /\ family = "tree" /\ "main" \notin failed /\ next["main"] = 4 =>
       state["p1"] = "reaped" \/ state["p2"] = "reaped"

FamilyInv == Relatives!TypeOK /\ FamilyKin /\ FamilyWaited
\* The calls of the five programs.
LEMMA CallsOfPair ==
  ASSUME Relatives!TypeOK, family \in {"pair", "bash", "pipe"}
  PROVE  /\ family = "pair" => Relatives!Call("main") = IF next["main"] = 1 THEN <<"fork", "p1">>
              ELSE IF next["main"] = 2 THEN <<"wait">> ELSE <<"end">>
         /\ family = "bash" => Relatives!Call("main") = IF next["main"] = 1 THEN <<"prompt">>
              ELSE IF next["main"] = 2 THEN <<"try", "p1">>
              ELSE IF next["main"] = 3 THEN <<"wait">>
              ELSE IF next["main"] = 4 THEN <<"again">> ELSE <<"end">>
         /\ family = "pipe" => Relatives!Call("main") = IF next["main"] = 1 THEN <<"fork", "p1">>
              ELSE IF next["main"] = 2 THEN <<"write">>
              ELSE IF next["main"] = 3 THEN <<"wait">> ELSE <<"end">>
         /\ Relatives!Call("p1") = IF next["p1"] = 1 /\ family = "pipe" THEN <<"read">> ELSE <<"end">>
<1>1. next["main"] \in 1 .. 5 /\ next["p1"] \in 1 .. 5 BY DEF Relatives!TypeOK, Relatives!Processes
<1>2. CASE family = "pair"
  BY <1>1, <1>2 DEF Relatives!Call, Relatives!Scripts, Relatives!Forks, Relatives!Waits
<1>3. CASE family = "bash"
  <2> DEFINE s == Relatives!Scripts["bash"]["main"]
  <2>1. s = <<<<"prompt">>, <<"try", "p1">>, <<"wait">>, <<"again">>>>
    BY DEF Relatives!Scripts, Relatives!TriesToFork, Relatives!Waits, Relatives!Does
  <2>2. Relatives!Scripts["bash"]["p1"] = <<>> BY DEF Relatives!Scripts
  <2>3. Relatives!Call("p1") = <<"end">> BY <1>1, <1>3, <2>2 DEF Relatives!Call
  <2>4. Relatives!Call("main") = IF next["main"] > Len(s) THEN <<"end">> ELSE s[next["main"]]
    BY <1>3 DEF Relatives!Call
  <2> HIDE DEF s
  <2>5. /\ Len(s) = 4 /\ s[1] = <<"prompt">> /\ s[2] = <<"try", "p1">>
        /\ s[3] = <<"wait">> /\ s[4] = <<"again">>
    BY <2>1
  <2>q. QED BY <1>1, <1>3, <2>3, <2>4, <2>5
<1>4. CASE family = "pipe"
  BY <1>1, <1>4, SMTT(30) DEF Relatives!Call, Relatives!Scripts, Relatives!Forks, Relatives!Waits, Relatives!Does
<1>q. QED BY <1>2, <1>3, <1>4

LEMMA CallsOfFifo ==
  ASSUME Relatives!TypeOK, family = "fifo"
  PROVE  /\ Relatives!Call("main") = IF next["main"] = 1 THEN <<"open">>
              ELSE IF next["main"] = 2 THEN <<"write">> ELSE <<"end">>
         /\ Relatives!Call("p1") = IF next["p1"] = 1 THEN <<"open">>
              ELSE IF next["p1"] = 2 THEN <<"read">> ELSE <<"end">>
<1>1. next["main"] \in 1 .. 5 /\ next["p1"] \in 1 .. 5 BY DEF Relatives!TypeOK, Relatives!Processes
<1>q. QED BY <1>1 DEF Relatives!Call, Relatives!Scripts, Relatives!Does

LEMMA CallsOfTree ==
  ASSUME Relatives!TypeOK, family = "tree"
  PROVE  /\ Relatives!Call("main") = IF next["main"] = 1 THEN <<"fork", "p1">>
              ELSE IF next["main"] = 2 THEN <<"fork", "p2">>
              ELSE IF next["main"] \in {3, 4} THEN <<"wait">> ELSE <<"end">>
         /\ Relatives!Call("p1") = IF next["p1"] = 1 THEN <<"fork", "p3">>
              ELSE IF next["p1"] = 2 THEN <<"waitpid", "p3">>
              ELSE IF next["p1"] = 3 THEN <<"fork", "p4">>
              ELSE IF next["p1"] = 4 THEN <<"waitpid", "p4">> ELSE <<"end">>
         /\ Relatives!Call("p2") = IF next["p2"] = 1 THEN <<"fork", "p5">>
              ELSE IF next["p2"] = 2 THEN <<"waitpid", "p5">>
              ELSE IF next["p2"] \in {3, 4} THEN <<"wait">> ELSE <<"end">>
         /\ Relatives!Call("p3") = <<"end">> /\ Relatives!Call("p4") = <<"end">> /\ Relatives!Call("p5") = <<"end">>
<1>1. \A p \in Relatives!Processes : next[p] \in 1 .. 5 BY DEF Relatives!TypeOK
<1> DEFINE tree == Relatives!Scripts["tree"]
<1>2. tree = [main |-> <<<<"fork", "p1">>, <<"fork", "p2">>, <<"wait">>, <<"wait">>>>,
              p1 |-> <<<<"fork", "p3">>, <<"waitpid", "p3">>, <<"fork", "p4">>, <<"waitpid", "p4">>>>,
              p2 |-> <<<<"fork", "p5">>, <<"waitpid", "p5">>, <<"wait">>, <<"wait">>>>,
              p3 |-> <<>>, p4 |-> <<>>, p5 |-> <<>>]
  BY DEF Relatives!Scripts, Relatives!Forks, Relatives!WaitsFor, Relatives!Waits
<1> HIDE DEF tree
<1>3. \A p \in Relatives!Processes :
        Relatives!Call(p) = IF next[p] > Len(tree[p]) THEN <<"end">> ELSE tree[p][next[p]]
  BY DEF Relatives!Call, tree
<1>4. Relatives!Call("main") = IF next["main"] = 1 THEN <<"fork", "p1">>
              ELSE IF next["main"] = 2 THEN <<"fork", "p2">>
              ELSE IF next["main"] \in {3, 4} THEN <<"wait">> ELSE <<"end">>
  <2>1. tree["main"] = <<<<"fork", "p1">>, <<"fork", "p2">>, <<"wait">>, <<"wait">>>>
    BY <1>2
  <2>2. /\ Len(tree["main"]) = 4
        /\ tree["main"][1] = <<"fork", "p1">>
        /\ tree["main"][2] = <<"fork", "p2">>
        /\ tree["main"][3] = <<"wait">>
        /\ tree["main"][4] = <<"wait">>
    BY <2>1
  <2>3. next["main"] \in 1 .. 5
        /\ Relatives!Call("main") = IF next["main"] > Len(tree["main"]) THEN <<"end">> ELSE tree["main"][next["main"]]
    BY <1>1, <1>3 DEF Relatives!Processes
  <2>q. QED BY <2>2, <2>3
<1>5. Relatives!Call("p1") = IF next["p1"] = 1 THEN <<"fork", "p3">>
              ELSE IF next["p1"] = 2 THEN <<"waitpid", "p3">>
              ELSE IF next["p1"] = 3 THEN <<"fork", "p4">>
              ELSE IF next["p1"] = 4 THEN <<"waitpid", "p4">> ELSE <<"end">>
  <2>1. tree["p1"] =
          <<<<"fork", "p3">>, <<"waitpid", "p3">>, <<"fork", "p4">>, <<"waitpid", "p4">>>>
    BY <1>2
  <2>2. /\ Len(tree["p1"]) = 4
        /\ tree["p1"][1] = <<"fork", "p3">>
        /\ tree["p1"][2] = <<"waitpid", "p3">>
        /\ tree["p1"][3] = <<"fork", "p4">>
        /\ tree["p1"][4] = <<"waitpid", "p4">>
    BY <2>1
  <2>3. next["p1"] \in 1 .. 5
        /\ Relatives!Call("p1") = IF next["p1"] > Len(tree["p1"]) THEN <<"end">> ELSE tree["p1"][next["p1"]]
    BY <1>1, <1>3 DEF Relatives!Processes
  <2>q. QED BY <2>2, <2>3
<1>6. Relatives!Call("p2") = IF next["p2"] = 1 THEN <<"fork", "p5">>
              ELSE IF next["p2"] = 2 THEN <<"waitpid", "p5">>
              ELSE IF next["p2"] \in {3, 4} THEN <<"wait">> ELSE <<"end">>
  <2>1. tree["p2"] = <<<<"fork", "p5">>, <<"waitpid", "p5">>, <<"wait">>, <<"wait">>>>
    BY <1>2
  <2>2. /\ Len(tree["p2"]) = 4
        /\ tree["p2"][1] = <<"fork", "p5">>
        /\ tree["p2"][2] = <<"waitpid", "p5">>
        /\ tree["p2"][3] = <<"wait">>
        /\ tree["p2"][4] = <<"wait">>
    BY <2>1
  <2>3. next["p2"] \in 1 .. 5
        /\ Relatives!Call("p2") = IF next["p2"] > Len(tree["p2"]) THEN <<"end">> ELSE tree["p2"][next["p2"]]
    BY <1>1, <1>3 DEF Relatives!Processes
  <2>q. QED BY <2>2, <2>3
<1>7. Relatives!Call("p3") = <<"end">> /\ Relatives!Call("p4") = <<"end">> /\ Relatives!Call("p5") = <<"end">>
  <2>1. tree["p3"] = <<>> /\ tree["p4"] = <<>> /\ tree["p5"] = <<>> BY <1>2
  <2>q. QED BY <1>1, <1>3, <2>1 DEF Relatives!Processes
<1>q. QED BY <1>4, <1>5, <1>6, <1>7

LEMMA WhoRuns ==
  ASSUME FamilyInv, NEW p \in Relatives!Processes, state[p] = "running"
  PROVE  /\ family \in {"pair", "bash", "pipe", "fifo", "tree"}
         /\ family # "tree" => p \in {"main", "p1"}
         /\ parent[p] # p /\ p # "none"
BY DEF FamilyInv, Relatives!TypeOK, FamilyKin, Relatives!Processes, Relatives!Scripts

\* Where each kind of call is made.
LEMMA CallIs ==
  ASSUME FamilyInv, NEW p \in Relatives!Processes, family # "none", state[p] = "running"
  PROVE  /\ Relatives!Call(p)[1] \in {"fork", "try"} => <<family, p, next[p], Relatives!Call(p)[2]>> \in
              {<<"pair", "main", 1, "p1">>, <<"bash", "main", 2, "p1">>,
               <<"pipe", "main", 1, "p1">>, <<"tree", "main", 1, "p1">>,
               <<"tree", "main", 2, "p2">>, <<"tree", "p1", 1, "p3">>,
               <<"tree", "p1", 3, "p4">>, <<"tree", "p2", 1, "p5">>}
         /\ Relatives!Call(p)[1] = "try" => family = "bash" /\ p = "main" /\ next[p] = 2
         /\ Relatives!Call(p)[1] = "wait" => <<family, p, next[p]>> \in
              {<<"pair", "main", 2>>, <<"bash", "main", 3>>, <<"pipe", "main", 3>>,
               <<"tree", "main", 3>>, <<"tree", "main", 4>>,
               <<"tree", "p2", 3>>, <<"tree", "p2", 4>>}
         /\ Relatives!Call(p)[1] = "waitpid" => <<family, p, next[p], Relatives!Call(p)[2]>> \in
              {<<"tree", "p1", 2, "p3">>, <<"tree", "p1", 4, "p4">>, <<"tree", "p2", 2, "p5">>}
         /\ Relatives!Call(p)[1] = "prompt" => family = "bash" /\ p = "main" /\ next[p] = 1
         /\ Relatives!Call(p)[1] = "again" => family = "bash" /\ p = "main" /\ next[p] = 4
         /\ Relatives!Call(p)[1] = "open" => family = "fifo" /\ p \in {"main", "p1"} /\ next[p] = 1
         /\ Relatives!Call(p)[1] = "write" => family \in {"pipe", "fifo"} /\ p = "main" /\ next[p] = 2
         /\ Relatives!Call(p)[1] = "read" => /\ family \in {"pipe", "fifo"} /\ p = "p1"
                                   /\ next[p] \in {1, 2}
         /\ Relatives!Call(p)[1] = "end" => Unwaited(p) = {}
<1>1. Relatives!TypeOK /\ next[p] \in 1 .. 5 BY DEF FamilyInv, Relatives!TypeOK
<1>2. CASE family \in {"pair", "bash", "pipe"}
  <2>1. CASE p = "main" BY <1>1, <1>2, <2>1, CallsOfPair DEF Unwaited
  <2>2. CASE p = "p1" BY <1>1, <1>2, <2>2, CallsOfPair DEF Unwaited
  <2>q. QED BY <1>2, <2>1, <2>2, WhoRuns
<1>3. CASE family = "fifo"
  <2>1. CASE p = "main" BY <1>1, <1>3, <2>1, CallsOfFifo DEF Unwaited
  <2>2. CASE p = "p1" BY <1>1, <1>3, <2>2, CallsOfFifo DEF Unwaited
  <2>q. QED BY <1>3, <2>1, <2>2, WhoRuns
<1>4. CASE family = "tree"
  <2>1. CASE p = "main" BY <1>1, <1>4, <2>1, CallsOfTree DEF Unwaited
  <2>2. CASE p = "p1" BY <1>1, <1>4, <2>2, CallsOfTree DEF Unwaited
  <2>3. CASE p = "p2" BY <1>1, <1>4, <2>3, CallsOfTree DEF Unwaited
  <2>4. CASE p \in {"p3", "p4", "p5"} BY <1>1, <1>4, <2>4, CallsOfTree DEF Unwaited
  <2>q. QED BY <2>1, <2>2, <2>3, <2>4 DEF Relatives!Processes
<1>q. QED BY <1>2, <1>3, <1>4, WhoRuns

\* A process ends when it has waited for everybody, or has failed.
LEMMA EndedKept ==
  ASSUME FamilyInv, NEW p \in Relatives!Processes, family # "none", state[p] = "running",
         state' = Relatives!Ended(p), UNCHANGED <<family, parent, next>>,
         failed' \in {failed, failed \cup {p}}, p \in failed' \/ Unwaited(p) = {}
  PROVE  /\ state' \in [Relatives!Processes -> {"none", "running", "zombie", "reaped", "gone"}]
         /\ failed' \subseteq Relatives!Processes
         /\ FamilyKin' /\ FamilyWaited'
<1>1. /\ \A q \in Relatives!Processes :
           state'[q] = IF q = p THEN IF Relatives!Alive(parent[p]) THEN "zombie" ELSE "gone"
                       ELSE IF parent[q] = p /\ state[q] = "zombie" THEN "gone" ELSE state[q]
      /\ state' \in [Relatives!Processes -> {"none", "running", "zombie", "reaped", "gone"}]
  BY DEF Relatives!Ended, Relatives!Children, FamilyInv, Relatives!TypeOK
<1>2. failed' \subseteq Relatives!Processes BY DEF FamilyInv, Relatives!TypeOK
<1>3. FamilyKin'
  <2>1. \A q \in Relatives!Processes : state'[q] # "none" => state[q] # "none" BY <1>1
  <2>q. QED BY <2>1 DEF FamilyInv, FamilyKin
<1>4. ASSUME NEW r \in Relatives!Processes, NEW q \in Relatives!Processes,
             parent[q] = r, r \notin failed', state'[q] # "reaped"
      PROVE  Relatives!Alive(r)' /\ state'[q] \in {"running", "zombie"} /\ q \in Unwaited(r)'
  <2>0. r \notin failed /\ parent[p] # p /\ r # "none" BY <1>4, WhoRuns DEF Relatives!Processes
  <2>1. r # p
    <3>1. CASE r = p
      <4>1. q # p /\ Unwaited(p) = {} BY <1>4, <2>0, <3>1
      <4>2. state[q] = "reaped" BY <1>4, <2>0, <3>1, <4>1 DEF FamilyInv, FamilyWaited
      <4>q. QED BY <1>1, <1>4, <4>1, <4>2
    <3>q. QED BY <3>1
  <2>2. state[q] # "reaped" BY <1>1, <1>4
  <2>3. Relatives!Alive(r) /\ state[q] \in {"running", "zombie"} /\ q \in Unwaited(r)
    BY <1>4, <2>0, <2>2 DEF FamilyInv, FamilyWaited
  <2>4. Relatives!Alive(r)' BY <1>1, <2>1, <2>3 DEF Relatives!Alive
  <2>5. state'[q] \in {"running", "zombie"} BY <1>1, <1>4, <2>1, <2>3
  <2>q. QED BY <2>3, <2>4, <2>5 DEF Unwaited
<1>5. family = "tree" /\ "main" \notin failed' /\ next["main"] = 4 =>
        state'["p1"] = "reaped" \/ state'["p2"] = "reaped"
  BY <1>1 DEF FamilyInv, FamilyWaited, Relatives!Processes
<1>q. QED BY <1>1, <1>2, <1>3, <1>4, <1>5 DEF FamilyWaited

\* What a call that neither forks nor waits does to next.
LEMMA NextKept ==
  ASSUME FamilyInv, NEW p \in Relatives!Processes, NEW k \in 1 .. 5, family # "tree", family # "none",
         next' = [next EXCEPT ![p] = k],
         UNCHANGED <<family, state, parent, failed>>,
         p = "main" => Unwaited("main") \subseteq Unwaited("main")'
  PROVE  next' \in [Relatives!Processes -> 1 .. 5] /\ FamilyKin' /\ FamilyWaited'
<1>1. next' \in [Relatives!Processes -> 1 .. 5] BY DEF FamilyInv, Relatives!TypeOK
<1>2. FamilyKin' BY DEF FamilyInv, FamilyKin
<1>3. \A r \in Relatives!Processes : Unwaited(r) \subseteq Unwaited(r)'
  <2>1. Unwaited("main") \subseteq Unwaited("main")'
    <3>1. CASE p # "main" BY <3>1 DEF Unwaited, FamilyInv, Relatives!TypeOK, Relatives!Processes
    <3>q. QED BY <3>1
  <2>2. \A r \in Relatives!Processes \ {"main"} : Unwaited(r) = {} BY DEF Unwaited
  <2>q. QED BY <2>1, <2>2
<1>4. FamilyWaited' BY <1>3 DEF FamilyInv, FamilyWaited, Relatives!Alive
<1>q. QED BY <1>1, <1>2, <1>4

LEMMA FamilyInitial ==
  ASSUME Relatives!FamilyAssumption, Relatives!Init PROVE FamilyInv
<1>1. Relatives!TypeOK
  <2>1. 0 \in 0 .. MaxForks /\ 0 \in 0 .. MaxKills BY DEF Relatives!FamilyAssumption
  <2>3. /\ state \in [Relatives!Processes -> {"none", "running", "zombie", "reaped", "gone"}]
        /\ parent \in [Relatives!Processes -> Relatives!Processes \cup {"none"}]
    BY DEF Relatives!Init
  <2>4. next \in [Relatives!Processes -> 1 .. 5]
    <3>1. 1 \in 1 .. 5 OBVIOUS
    <3>q. QED BY <3>1 DEF Relatives!Init
  <2>5. met \subseteq Relatives!Processes /\ data \in BOOLEAN /\ failed \subseteq Relatives!Processes BY DEF Relatives!Init
  <2>6. family \in DOMAIN Relatives!Scripts \cup {"none"} BY DEF Relatives!Init
  <2>q. QED BY <2>1, <2>3, <2>4, <2>5, <2>6 DEF Relatives!Init, Relatives!TypeOK
<1>2. FamilyKin BY DEF Relatives!Init, FamilyKin, Relatives!Processes
<1>3. FamilyWaited BY DEF Relatives!Init, FamilyWaited, Relatives!Processes
<1>q. QED BY <1>1, <1>2, <1>3 DEF FamilyInv

LEMMA FamilyStart ==
  ASSUME FamilyInv, NEW f \in DOMAIN Relatives!Scripts, Relatives!Start(f) PROVE FamilyInv'
<1>1. Relatives!TypeOK' BY DEF FamilyInv, Relatives!TypeOK, Relatives!Start, Relatives!Processes
<1>2. \A q \in Relatives!Processes : parent[q] = "none"
  BY DEF Relatives!Start, FamilyInv, FamilyKin, Relatives!Processes, Relatives!Scripts
<1>3. next["main"] = 1 /\ \A q \in Relatives!Processes \ {"main"} : state'[q] = "none"
  BY DEF Relatives!Start, FamilyInv, Relatives!TypeOK, FamilyKin, Relatives!Processes
<1>4. UNCHANGED <<parent, next, failed>> /\ family' # "none"
  BY DEF Relatives!Start, Relatives!Scripts
<1>5. FamilyKin' BY <1>2, <1>3, <1>4 DEF FamilyKin, Relatives!Processes
<1>6. FamilyWaited' BY <1>2, <1>3, <1>4 DEF FamilyWaited, Relatives!Processes
<1>q. QED BY <1>1, <1>5, <1>6 DEF FamilyInv

LEMMA FamilyStartReader ==
  ASSUME FamilyInv, Relatives!StartReader PROVE FamilyInv'
<1>1. Relatives!TypeOK' BY DEF FamilyInv, Relatives!TypeOK, Relatives!StartReader, Relatives!Processes
<1>2. \A q \in Relatives!Processes : parent[q] = "none"
  BY DEF Relatives!StartReader, FamilyInv, FamilyKin, Relatives!Processes
<1>3. \A q \in Relatives!Processes : state'[q] = IF q = "p1" THEN "running" ELSE state[q]
  BY DEF Relatives!StartReader, FamilyInv, Relatives!TypeOK
<1>4. UNCHANGED <<family, parent, next, failed>> /\ family = "fifo" BY DEF Relatives!StartReader
<1>5. FamilyKin' BY <1>2, <1>3, <1>4 DEF FamilyInv, FamilyKin, Relatives!Processes
<1>6. FamilyWaited' BY <1>2, <1>4 DEF FamilyWaited, Relatives!Processes
<1>q. QED BY <1>1, <1>5, <1>6 DEF FamilyInv

LEMMA FamilyEnd ==
  ASSUME FamilyInv, NEW p \in Relatives!Processes, Relatives!End(p) PROVE FamilyInv'
<1>1. /\ family # "none" /\ state[p] = "running" /\ Relatives!Call(p)[1] = "end"
      /\ state' = Relatives!Ended(p) /\ UNCHANGED <<family, parent, next, met, data, forks, fKills, failed>>
  BY DEF Relatives!End, Relatives!At
<1>2. Unwaited(p) = {} BY <1>1, CallIs
<1>3. /\ state' \in [Relatives!Processes -> {"none", "running", "zombie", "reaped", "gone"}]
      /\ FamilyKin' /\ FamilyWaited'
  BY <1>1, <1>2, EndedKept
<1>4. Relatives!TypeOK' BY <1>1, <1>3 DEF FamilyInv, Relatives!TypeOK
<1>q. QED BY <1>3, <1>4 DEF FamilyInv

\* What a fork() is at: who forks whom at which call.
LEMMA ForkAt ==
  ASSUME FamilyInv, NEW p \in Relatives!Processes, family # "none", state[p] = "running",
         Relatives!Call(p)[1] \in {"fork", "try"}
  PROVE  LET q == Relatives!Call(p)[2] IN
         /\ q \in Relatives!Processes \ {"main"} /\ q # p
         /\ \A r \in Relatives!Processes : parent[r] # q
         /\ Unwaited(p) \cup {q} =
              CASE family = "tree" /\ p = "main" /\ next[p] = 2 -> {"p1", "p2"}
                [] OTHER -> {q}
         /\ next[p] \in 1 .. 3
<1> DEFINE q == Relatives!Call(p)[2]
<1>1. <<family, p, next[p], q>> \in
              {<<"pair", "main", 1, "p1">>, <<"bash", "main", 2, "p1">>,
               <<"pipe", "main", 1, "p1">>, <<"tree", "main", 1, "p1">>,
               <<"tree", "main", 2, "p2">>, <<"tree", "p1", 1, "p3">>,
               <<"tree", "p1", 3, "p4">>, <<"tree", "p2", 1, "p5">>}
  BY CallIs
<1> HIDE DEF q
<1>2. q \in Relatives!Processes \ {"main"} /\ q # p /\ next[p] \in 1 .. 3 BY <1>1 DEF Relatives!Processes
<1>3. \A r \in Relatives!Processes : parent[r] # q
  BY <1>1 DEF FamilyInv, FamilyKin, Relatives!Processes
<1>4. Unwaited(p) \cup {q} =
              CASE family = "tree" /\ p = "main" /\ next[p] = 2 -> {"p1", "p2"}
                [] OTHER -> {q}
  BY <1>1 DEF Unwaited
<1>q. QED BY <1>2, <1>3, <1>4 DEF q

LEMMA FamilyFork ==
  ASSUME Relatives!FamilyAssumption, FamilyInv, NEW p \in Relatives!Processes, Relatives!Fork(p) PROVE FamilyInv'
<1> DEFINE q == Relatives!Call(p)[2]
<1>1. /\ family # "none" /\ state[p] = "running" /\ Relatives!Call(p)[1] \in {"fork", "try"}
      /\ forks < MaxForks /\ forks' = forks + 1
      /\ state' = [state EXCEPT ![q] = "running"]
      /\ parent' = [parent EXCEPT ![q] = p]
      /\ next' = [next EXCEPT ![p] = @ + 1, ![q] = 1]
      /\ UNCHANGED <<family, met, data, fKills, failed>>
  BY DEF Relatives!Fork, Relatives!At
<1>2. <<family, p, next[p], q>> \in
              {<<"pair", "main", 1, "p1">>, <<"bash", "main", 2, "p1">>,
               <<"pipe", "main", 1, "p1">>, <<"tree", "main", 1, "p1">>,
               <<"tree", "main", 2, "p2">>, <<"tree", "p1", 1, "p3">>,
               <<"tree", "p1", 3, "p4">>, <<"tree", "p2", 1, "p5">>}
  BY <1>1, CallIs
<1>3. q \in Relatives!Processes \ {"main"} /\ q # p /\ next[p] \in 1 .. 3
      /\ \A r \in Relatives!Processes : parent[r] # q
  BY <1>1, ForkAt
<1> HIDE DEF q
<1>4. /\ \A r \in Relatives!Processes : state'[r] = IF r = q THEN "running" ELSE state[r]
      /\ \A r \in Relatives!Processes : parent'[r] = IF r = q THEN p ELSE parent[r]
      /\ \A r \in Relatives!Processes :
           next'[r] = IF r = q THEN 1 ELSE IF r = p THEN next[p] + 1 ELSE next[r]
  BY <1>1, <1>3 DEF FamilyInv, Relatives!TypeOK
<1>5. Relatives!TypeOK'
  <2>1. state' \in [Relatives!Processes -> {"none", "running", "zombie", "reaped", "gone"}]
        /\ parent' \in [Relatives!Processes -> Relatives!Processes \cup {"none"}]
    BY <1>1, <1>3 DEF FamilyInv, Relatives!TypeOK
  <2>2. next' \in [Relatives!Processes -> 1 .. 5] BY <1>1, <1>3, <1>4 DEF FamilyInv, Relatives!TypeOK
  <2>3. forks' \in 0 .. MaxForks BY <1>1 DEF Relatives!FamilyAssumption, FamilyInv, Relatives!TypeOK
  <2>q. QED BY <1>1, <2>1, <2>2, <2>3 DEF FamilyInv, Relatives!TypeOK
<1>6. FamilyKin'
  <2>1. CASE family # "tree"
    <3>1. p = "main" /\ q = "p1" /\ family \notin {"none", "fifo"} BY <1>2, <2>1
    <3>q. QED BY <1>1, <1>4, <2>1, <3>1 DEF FamilyInv, FamilyKin, Relatives!Processes
  <2>2. CASE family = "tree"
    <3>1. <<p, next[p], q>> \in
            {<<"main", 1, "p1">>, <<"main", 2, "p2">>, <<"p1", 1, "p3">>,
             <<"p1", 3, "p4">>, <<"p2", 1, "p5">>}
      BY <1>2, <2>2
    <3>2. p # "main" => parent[p] # "none"
      BY <1>1, <2>2 DEF FamilyInv, FamilyKin
    <3>3. \A r \in Relatives!Processes : next[r] \in 1 .. 5 BY DEF FamilyInv, Relatives!TypeOK
    <3>q. QED BY <1>1, <1>3, <1>4, <2>2, <3>1, <3>2, <3>3 DEF FamilyInv, FamilyKin, Relatives!Processes
  <2>q. QED BY <2>1, <2>2
<1>7. FamilyWaited'
  <2>1. \A r \in Relatives!Processes \ {p, q} : Unwaited(r)' = Unwaited(r)
    BY <1>1, <1>4 DEF Unwaited
  <2>2. Unwaited(p) \cup {q} \subseteq Unwaited(p)'
    <3>1. family' = family /\ next'[p] = next[p] + 1 BY <1>1, <1>3, <1>4
    <3>2. CASE family = "tree" BY <1>2, <3>1, <3>2 DEF Unwaited
    <3>3. CASE family # "tree" BY <1>2, <3>1, <3>3 DEF Unwaited
    <3>q. QED BY <3>2, <3>3
  <2>3. ASSUME NEW r \in Relatives!Processes, NEW s \in Relatives!Processes,
               parent'[s] = r, r \notin failed, state'[s] # "reaped"
        PROVE  Relatives!Alive(r)' /\ state'[s] \in {"running", "zombie"} /\ s \in Unwaited(r)'
    <3>1. CASE s = q
      <4>1. r = p BY <1>4, <2>3, <3>1
      <4>q. QED BY <1>1, <1>3, <1>4, <2>2, <3>1, <4>1 DEF Relatives!Alive, Relatives!Processes
    <3>2. CASE s # q
      <4>1. parent[s] = r /\ state[s] # "reaped" /\ r # q BY <1>3, <1>4, <2>3, <3>2
      <4>2. Relatives!Alive(r) /\ state[s] \in {"running", "zombie"} /\ s \in Unwaited(r)
        BY <2>3, <4>1 DEF FamilyInv, FamilyWaited
      <4>3. Relatives!Alive(r)' BY <1>4, <4>2 DEF Relatives!Alive
      <4>q. QED BY <1>4, <2>1, <2>2, <3>2, <4>1, <4>2, <4>3
    <3>q. QED BY <3>1, <3>2
  <2>4. family = "tree" /\ "main" \notin failed /\ next'["main"] = 4 =>
          state'["p1"] = "reaped" \/ state'["p2"] = "reaped"
    BY <1>2, <1>3, <1>4 DEF FamilyInv, FamilyWaited, Relatives!Processes
  <2>q. QED BY <1>1, <2>3, <2>4 DEF FamilyWaited
<1>q. QED BY <1>5, <1>6, <1>7 DEF FamilyInv

LEMMA FamilyForkFails ==
  ASSUME FamilyInv, NEW p \in Relatives!Processes, Relatives!ForkFails(p) PROVE FamilyInv'
<1>1. /\ family # "none" /\ state[p] = "running" /\ Relatives!Call(p)[1] \in {"fork", "try"}
      /\ UNCHANGED <<family, parent, met, data, forks, fKills>>
  BY DEF Relatives!ForkFails, Relatives!At
<1>2. CASE Relatives!Call(p)[1] = "try"
  <2>1. next' = [next EXCEPT ![p] = 1] /\ UNCHANGED <<state, failed>>
    BY <1>2 DEF Relatives!ForkFails
  <2>2. family = "bash" /\ p = "main" /\ Unwaited("main") = {}
    BY <1>1, <1>2, CallIs DEF Unwaited
  <2>3. 1 \in 1 .. 5 /\ (p = "main" => Unwaited("main") \subseteq Unwaited("main")')
    BY <2>2
  <2>4. next' \in [Relatives!Processes -> 1 .. 5] /\ FamilyKin' /\ FamilyWaited'
    BY <1>1, <2>1, <2>2, <2>3, NextKept
  <2>q. QED BY <1>1, <2>1, <2>4 DEF FamilyInv, Relatives!TypeOK
<1>3. CASE Relatives!Call(p)[1] # "try"
  <2>1. state' = Relatives!Ended(p) /\ failed' = failed \cup {p} /\ UNCHANGED next
    BY <1>3 DEF Relatives!ForkFails
  <2>2. /\ state' \in [Relatives!Processes -> {"none", "running", "zombie", "reaped", "gone"}]
        /\ failed' \subseteq Relatives!Processes /\ FamilyKin' /\ FamilyWaited'
    BY <1>1, <2>1, EndedKept
  <2>q. QED BY <1>1, <2>1, <2>2 DEF FamilyInv, Relatives!TypeOK
<1>q. QED BY <1>2, <1>3

LEMMA FamilyWait ==
  ASSUME FamilyInv, NEW p \in Relatives!Processes, Relatives!Wait(p) PROVE FamilyInv'
<1> DEFINE due == IF Relatives!Call(p)[1] = "wait" THEN Relatives!Children(p) ELSE Relatives!Children(p) \cap {Relatives!Call(p)[2]}
<1>1. /\ family # "none" /\ state[p] = "running" /\ Relatives!Call(p)[1] \in {"wait", "waitpid"}
      /\ IF due = {} THEN UNCHANGED state
         ELSE \E q \in due : state[q] = "zombie" /\ state' = [state EXCEPT ![q] = "reaped"]
      /\ next' = [next EXCEPT ![p] = @ + 1]
      /\ UNCHANGED <<family, parent, met, data, forks, fKills, failed>>
  BY DEF Relatives!Wait, Relatives!At, Relatives!Goes
<1>2. <<family, p, next[p]>> \in
        {<<"pair", "main", 2>>, <<"bash", "main", 3>>, <<"pipe", "main", 3>>,
         <<"tree", "main", 3>>, <<"tree", "main", 4>>, <<"tree", "p1", 2>>,
         <<"tree", "p1", 4>>, <<"tree", "p2", 2>>, <<"tree", "p2", 3>>, <<"tree", "p2", 4>>}
  BY <1>1, CallIs
<1>3. \A s \in Relatives!Children(p) : p \notin failed => s \in due
  <2>1. CASE Relatives!Call(p)[1] = "wait" BY <2>1
  <2>2. CASE Relatives!Call(p)[1] = "waitpid"
    <3>1. <<family, p, next[p], Relatives!Call(p)[2]>> \in
            {<<"tree", "p1", 2, "p3">>, <<"tree", "p1", 4, "p4">>, <<"tree", "p2", 2, "p5">>}
      BY <1>1, <2>2, CallIs
    <3>2. Unwaited(p) = {Relatives!Call(p)[2]} BY <3>1 DEF Unwaited
    <3>3. \A s \in Relatives!Children(p) : p \notin failed => s \in Unwaited(p)
      BY DEF Relatives!Children, FamilyInv, FamilyWaited
    <3>q. QED BY <3>2, <3>3
  <2>q. QED BY <1>1, <2>1, <2>2
<1>4. PICK q \in Relatives!Processes \cup {"none"} :
        /\ q = "none" => due = {} /\ UNCHANGED state
        /\ q # "none" => /\ q \in Relatives!Children(p) /\ state[q] = "zombie"
                         /\ state' = [state EXCEPT ![q] = "reaped"]
  <2>1. CASE due = {} BY <1>1, <2>1
  <2>2. CASE due # {}
    <3>1. PICK s \in due : state[s] = "zombie" /\ state' = [state EXCEPT ![s] = "reaped"]
      BY <1>1, <2>2
    <3>2. s \in Relatives!Children(p) /\ s \in Relatives!Processes /\ s # "none"
      BY DEF Relatives!Children, Relatives!Processes
    <3>q. QED BY <3>1, <3>2
  <2>q. QED BY <2>1, <2>2
<1>5. q # "none" => q \in Relatives!Processes /\ parent[q] = p BY <1>4 DEF Relatives!Children
<1> HIDE DEF due
<1>6. /\ \A r \in Relatives!Processes : state'[r] = IF r = q THEN "reaped" ELSE state[r]
      /\ \A r \in Relatives!Processes : next'[r] = IF r = p THEN next[p] + 1 ELSE next[r]
      /\ \A r \in Relatives!Processes : state'[r] = state[r] \/ (state[r] = "zombie" /\ state'[r] = "reaped")
  BY <1>1, <1>4, <1>5 DEF FamilyInv, Relatives!TypeOK, Relatives!Processes
<1>7. Relatives!TypeOK'
  <2>1. state' \in [Relatives!Processes -> {"none", "running", "zombie", "reaped", "gone"}]
    BY <1>4 DEF FamilyInv, Relatives!TypeOK
  <2>2. next[p] + 1 \in 1 .. 5 BY <1>2
  <2>3. next' \in [Relatives!Processes -> 1 .. 5] BY <1>1, <2>2 DEF FamilyInv, Relatives!TypeOK
  <2>q. QED BY <1>1, <2>1, <2>3 DEF FamilyInv, Relatives!TypeOK
<1>8. FamilyKin'
  <2>1. next[p] \in 2 .. 4 BY <1>2
  <2>2. \A r \in Relatives!Processes : next[r] \in 1 .. 5 /\ next'[r] \in 1 .. 5 BY <1>7 DEF FamilyInv, Relatives!TypeOK
  <2>3. \A r \in Relatives!Processes : next'[r] >= next[r] /\ (next'[r] > 1 <=> next[r] > 1)
    BY <1>6, <2>1, <2>2
  <2>4. family # "none" /\ UNCHANGED <<family, parent>> BY <1>1
  <2>5. \A r \in Relatives!Processes : state'[r] # "none" => state[r] # "none" BY <1>6
  <2>q. QED BY <2>2, <2>3, <2>4, <2>5 DEF FamilyInv, FamilyKin, Relatives!Processes
<1>9. \A r \in Relatives!Processes : Relatives!Alive(r) => Relatives!Alive(r)' BY <1>6 DEF Relatives!Alive
\* Whom p still has to wait for after this call, unless somebody else was waited for.
<1>10. ASSUME p \notin failed, NEW s \in Relatives!Processes, parent[s] = p, state'[s] # "reaped"
       PROVE  s \in Unwaited(p)'
  <2>1. s \in Relatives!Children(p) /\ s \in Unwaited(p) /\ s # q
    BY <1>6, <1>10 DEF FamilyInv, FamilyWaited, Relatives!Children
  <2>2. q # "none" /\ q \in Unwaited(p) /\ state[q] = "zombie"
    BY <1>3, <1>4, <1>5, <1>10, <2>1 DEF FamilyInv, FamilyWaited
  <2>3. family = "tree" /\ p = "main" /\ next[p] \in {3, 4} /\ Unwaited(p) = {"p1", "p2"}
    BY <1>2, <2>1, <2>2 DEF Unwaited
  <2>4. next[p] = 3
    BY <1>10, <2>1, <2>2, <2>3, <1>6 DEF FamilyInv, FamilyWaited, Relatives!Processes
  <2>q. QED BY <1>1, <1>6, <2>1, <2>3, <2>4 DEF Unwaited
<1>11. FamilyWaited'
  <2>1. ASSUME NEW r \in Relatives!Processes, NEW s \in Relatives!Processes,
               parent[s] = r, r \notin failed, state'[s] # "reaped"
        PROVE  Relatives!Alive(r)' /\ state'[s] \in {"running", "zombie"} /\ s \in Unwaited(r)'
    <3>1. Relatives!Alive(r) /\ state[s] \in {"running", "zombie"} /\ s \in Unwaited(r)
      BY <1>6, <2>1 DEF FamilyInv, FamilyWaited
    <3>2. r # p => Unwaited(r)' = Unwaited(r) BY <1>1, <1>6 DEF Unwaited
    <3>q. QED BY <1>6, <1>9, <1>10, <2>1, <3>1, <3>2
  <2>2. ASSUME family = "tree", "main" \notin failed, next'["main"] = 4
        PROVE  state'["p1"] = "reaped" \/ state'["p2"] = "reaped"
    <3>1. CASE p # "main"
      BY <1>6, <2>2, <3>1 DEF FamilyInv, FamilyWaited, Relatives!Processes
    <3>2. CASE p = "main"
      <4>1. next["main"] = 3 BY <1>2, <1>6, <2>2, <3>2
      <4>2. Unwaited("main") = {"p1", "p2"} /\ parent["p1"] = "main"
        BY <2>2, <4>1 DEF Unwaited, FamilyInv, FamilyKin
      <4>3. q # "none" => q \in {"p1", "p2"}
        BY <1>4, <1>5, <2>2, <3>2, <4>2 DEF FamilyInv, FamilyWaited
      <4>4. CASE q # "none" BY <1>6, <4>3, <4>4 DEF Relatives!Processes
      <4>5. CASE q = "none"
        <5>1. Relatives!Children("main") = {} BY <1>3, <1>4, <2>2, <3>2, <4>5
        <5>2. state["p1"] \notin {"running", "zombie"}
          BY <4>2, <5>1 DEF Relatives!Children, Relatives!Processes
        <5>3. state["p1"] = "reaped"
          BY <2>2, <4>2, <5>2 DEF FamilyInv, FamilyWaited, Relatives!Processes
        <5>q. QED BY <1>4, <4>5, <5>3
      <4>q. QED BY <4>4, <4>5
    <3>q. QED BY <3>1, <3>2
  <2>q. QED BY <1>1, <2>1, <2>2 DEF FamilyWaited
<1>q. QED BY <1>7, <1>8, <1>11 DEF FamilyInv

LEMMA FamilyPrompt ==
  ASSUME FamilyInv, NEW p \in Relatives!Processes, Relatives!Prompt(p) PROVE FamilyInv'
<1>1. /\ family # "none" /\ state[p] = "running" /\ Relatives!Call(p)[1] = "prompt"
      /\ UNCHANGED <<family, parent, met, data, forks, fKills, failed>>
  BY DEF Relatives!Prompt, Relatives!At
<1>2. family = "bash" /\ p = "main" /\ next[p] = 1 BY <1>1, CallIs
<1>3. Unwaited("main") = {} BY <1>2 DEF Unwaited
<1>4. CASE next' = [next EXCEPT ![p] = @ + 1] /\ UNCHANGED state
  <2>1. 2 \in 1 .. 5 /\ next' = [next EXCEPT ![p] = 2] BY <1>2, <1>4
  <2>2. p = "main" => Unwaited("main") \subseteq Unwaited("main")' BY <1>3
  <2>3. next' \in [Relatives!Processes -> 1 .. 5] /\ FamilyKin' /\ FamilyWaited'
    BY <1>1, <1>2, <1>4, <2>1, <2>2, NextKept
  <2>q. QED BY <1>1, <1>4, <2>3 DEF FamilyInv, Relatives!TypeOK
<1>5. CASE state' = Relatives!Ended(p) /\ UNCHANGED next
  <2>1. /\ state' \in [Relatives!Processes -> {"none", "running", "zombie", "reaped", "gone"}]
        /\ FamilyKin' /\ FamilyWaited'
    BY <1>1, <1>2, <1>3, <1>5, EndedKept
  <2>q. QED BY <1>1, <1>5, <2>1 DEF FamilyInv, Relatives!TypeOK
<1>q. QED BY <1>4, <1>5 DEF Relatives!Prompt, Relatives!Goes

LEMMA FamilyAgain ==
  ASSUME FamilyInv, NEW p \in Relatives!Processes, Relatives!Again(p) PROVE FamilyInv'
<1>1. /\ family # "none" /\ state[p] = "running" /\ Relatives!Call(p)[1] = "again"
      /\ 1 \in 1 .. 5 /\ next' = [next EXCEPT ![p] = 1]
      /\ UNCHANGED <<family, state, parent, met, data, forks, fKills, failed>>
  BY DEF Relatives!Again, Relatives!At
<1>2. family = "bash" /\ p = "main" /\ next[p] = 4 BY <1>1, CallIs
<1>3. p = "main" => Unwaited("main") \subseteq Unwaited("main")' BY <1>2 DEF Unwaited
<1>4. next' \in [Relatives!Processes -> 1 .. 5] /\ FamilyKin' /\ FamilyWaited'
  BY <1>1, <1>2, <1>3, NextKept
<1>q. QED BY <1>1, <1>4 DEF FamilyInv, Relatives!TypeOK

LEMMA FamilyOpen ==
  ASSUME FamilyInv, NEW p \in Relatives!Processes, Relatives!Open(p) PROVE FamilyInv'
<1>1. /\ family # "none" /\ state[p] = "running" /\ Relatives!Call(p)[1] = "open"
      /\ met' = met \cup {p, Relatives!Other(p)} /\ next' = [next EXCEPT ![p] = @ + 1]
      /\ UNCHANGED <<family, state, parent, data, forks, fKills, failed>>
  BY DEF Relatives!Open, Relatives!At, Relatives!Goes
<1>2. family = "fifo" /\ p \in {"main", "p1"} /\ next[p] = 1 BY <1>1, CallIs
<1>3. 2 \in 1 .. 5 /\ next' = [next EXCEPT ![p] = 2] BY <1>1, <1>2
<1>4. p = "main" => Unwaited("main") \subseteq Unwaited("main")' BY <1>2 DEF Unwaited
<1>5. next' \in [Relatives!Processes -> 1 .. 5] /\ FamilyKin' /\ FamilyWaited'
  BY <1>1, <1>2, <1>3, <1>4, NextKept
<1>6. met' \subseteq Relatives!Processes BY <1>1 DEF FamilyInv, Relatives!TypeOK, Relatives!Other, Relatives!Processes
<1>q. QED BY <1>1, <1>5, <1>6 DEF FamilyInv, Relatives!TypeOK

LEMMA FamilyWrite ==
  ASSUME FamilyInv, NEW p \in Relatives!Processes, Relatives!Write(p) PROVE FamilyInv'
<1>1. /\ family # "none" /\ state[p] = "running" /\ Relatives!Call(p)[1] = "write"
      /\ UNCHANGED <<family, parent, met, forks, fKills>>
  BY DEF Relatives!Write, Relatives!At
<1>2. family \in {"pipe", "fifo"} /\ p = "main" /\ next[p] = 2 BY <1>1, CallIs
<1>3. CASE Relatives!Reading(Relatives!Other(p))
  <2>1. /\ data' = TRUE /\ UNCHANGED <<state, failed>>
        /\ 3 \in 1 .. 5 /\ next' = [next EXCEPT ![p] = 3]
    BY <1>2, <1>3 DEF Relatives!Write, Relatives!Goes
  <2>2. p = "main" => Unwaited("main") \subseteq Unwaited("main")'
    BY <1>1, <1>2, <2>1 DEF Unwaited, FamilyInv, Relatives!TypeOK
  <2>3. next' \in [Relatives!Processes -> 1 .. 5] /\ FamilyKin' /\ FamilyWaited'
    BY <1>1, <1>2, <2>1, <2>2, NextKept
  <2>q. QED BY <1>1, <2>1, <2>3 DEF FamilyInv, Relatives!TypeOK
<1>4. CASE ~Relatives!Reading(Relatives!Other(p))
  <2>1. state' = Relatives!Ended(p) /\ failed' = failed \cup {p} /\ UNCHANGED <<data, next>>
    BY <1>4 DEF Relatives!Write
  <2>2. /\ state' \in [Relatives!Processes -> {"none", "running", "zombie", "reaped", "gone"}]
        /\ failed' \subseteq Relatives!Processes /\ FamilyKin' /\ FamilyWaited'
    BY <1>1, <2>1, EndedKept
  <2>q. QED BY <1>1, <2>1, <2>2 DEF FamilyInv, Relatives!TypeOK
<1>q. QED BY <1>3, <1>4

LEMMA FamilyRead ==
  ASSUME FamilyInv, NEW p \in Relatives!Processes, Relatives!Read(p) PROVE FamilyInv'
<1>1. /\ family # "none" /\ state[p] = "running" /\ Relatives!Call(p)[1] = "read"
      /\ data' = FALSE /\ next' = [next EXCEPT ![p] = @ + 1]
      /\ UNCHANGED <<family, state, parent, met, forks, fKills, failed>>
  BY DEF Relatives!Read, Relatives!At, Relatives!Goes
<1>2. family \in {"pipe", "fifo"} /\ p = "p1" /\ next[p] \in {1, 2} BY <1>1, CallIs
<1> DEFINE k == next[p] + 1
<1>3. k \in 1 .. 5 /\ next' = [next EXCEPT ![p] = k] BY <1>1, <1>2
<1> HIDE DEF k
<1>4. p = "main" => Unwaited("main") \subseteq Unwaited("main")' BY <1>2
<1>5. next' \in [Relatives!Processes -> 1 .. 5] /\ FamilyKin' /\ FamilyWaited'
  BY <1>1, <1>2, <1>3, <1>4, NextKept
<1>q. QED BY <1>1, <1>5 DEF FamilyInv, Relatives!TypeOK

LEMMA FamilyKill ==
  ASSUME Relatives!FamilyAssumption, FamilyInv, NEW p \in Relatives!Processes, Relatives!Kill(p) PROVE FamilyInv'
<1>1. /\ state[p] = "running" /\ fKills < MaxKills /\ fKills' = fKills + 1
      /\ failed' = failed \cup {p} /\ state' = Relatives!Ended(p)
      /\ UNCHANGED <<family, parent, next, met, data, forks>>
  BY DEF Relatives!Kill, Relatives!Alive
<1>2. family # "none" BY <1>1 DEF FamilyInv, FamilyKin
<1>3. /\ state' \in [Relatives!Processes -> {"none", "running", "zombie", "reaped", "gone"}]
      /\ failed' \subseteq Relatives!Processes /\ FamilyKin' /\ FamilyWaited'
  BY <1>1, <1>2, EndedKept
<1>4. fKills' \in 0 .. MaxKills BY <1>1 DEF Relatives!FamilyAssumption, FamilyInv, Relatives!TypeOK
<1>q. QED BY <1>1, <1>3, <1>4 DEF FamilyInv, Relatives!TypeOK

LEMMA FamilyStutter == ASSUME FamilyInv, UNCHANGED familyVars PROVE FamilyInv'
BY DEF familyVars, FamilyInv, Relatives!TypeOK, FamilyKin, FamilyWaited, Unwaited, Relatives!Alive

LEMMA FamilyStep == ASSUME Relatives!FamilyAssumption, FamilyInv, [Relatives!Next]_familyVars PROVE FamilyInv'
<1>1. CASE UNCHANGED familyVars BY <1>1, FamilyStutter
<1>2. ASSUME NEW f \in DOMAIN Relatives!Scripts, Relatives!Start(f) PROVE FamilyInv'
  BY <1>2, FamilyStart
<1>3. CASE Relatives!StartReader BY <1>3, FamilyStartReader
<1>4. ASSUME NEW p \in Relatives!Processes, Relatives!Step(p) \/ Relatives!Prompt(p) \/ Relatives!Kill(p) PROVE FamilyInv'
  BY <1>4, FamilyEnd, FamilyFork, FamilyForkFails, FamilyWait, FamilyAgain, FamilyOpen,
     FamilyWrite, FamilyRead, FamilyPrompt, FamilyKill DEF Relatives!Step
<1>5. Relatives!Next => \/ Relatives!StartReader \/ \E f \in DOMAIN Relatives!Scripts : Relatives!Start(f)
              \/ \E p \in Relatives!Processes : Relatives!Step(p) \/ Relatives!Prompt(p) \/ Relatives!Kill(p)
  BY DEF Relatives!Next
<1>q. QED BY <1>1, <1>2, <1>3, <1>4, <1>5, Zenon

LEMMA FamilyReaped == ASSUME FamilyInv PROVE Relatives!ChildrenReaped
BY DEF FamilyInv, FamilyWaited, Relatives!ChildrenReaped

--------------------------------------------------------------------------------
\* The programs side by side: a step of one is a stutter of the others.
LEMMA StepOfOne ==
  ASSUME [AllNext]_allVars
  PROVE  /\ [Listening!Next]_listeningVars /\ [Selecting!Next]_selectVars
         /\ [Queue!Next]_queueVars /\ [Segment!Next]_segmentVars
         /\ [Exchange!Next]_exchangeVars /\ [Relatives!Next]_familyVars /\ [Next]_vars
<1> USE DEF serverVars, pairVars, allVars
<1>1. CASE UseShell BY <1>1 DEF UseShell
<1>2. CASE UseListening BY <1>2 DEF UseListening
<1>3. CASE UseSelect BY <1>3 DEF UseSelect
<1>4. CASE UseQueue BY <1>4 DEF UseQueue
<1>5. CASE UseSegment BY <1>5 DEF UseSegment
<1>6. CASE UseExchange BY <1>6 DEF UseExchange
<1>7. CASE UseCast BY <1>7 DEF UseCast
<1>8. CASE UseFamily BY <1>8 DEF UseFamily
<1>9. CASE UNCHANGED allVars BY <1>9
<1>q. QED BY <1>1, <1>2, <1>3, <1>4, <1>5, <1>6, <1>7, <1>8, <1>9 DEF AllNext

\* What holds of all of them.
AllInv ==
  /\ ListenInv /\ SelectInv /\ QueueInv /\ SegmentInv /\ ExchangeInv
  /\ PipeInv /\ FamilyInv

LEMMA AllInitial == AllInit => AllInv
BY ListeningAssumption, SelectsAssumption, QueuesAssumption, SegmentsAssumption,
  ExchangesAssumption, FamiliesAssumption, ListenInitial, SelectInitial, QueueInitial,
  SegmentInitial, ExchangeInit, PipeInitial, FamilyInitial DEF AllInit, AllInv

LEMMA AllStep == AllInv /\ [AllNext]_allVars => AllInv'
<1> SUFFICES ASSUME AllInv, [AllNext]_allVars PROVE AllInv' OBVIOUS
<1>1. /\ ListenInv /\ SelectInv /\ QueueInv /\ SegmentInv /\ ExchangeInv
      /\ PipeInv /\ FamilyInv
  BY DEF AllInv
<1>2. ListenInv' BY <1>1, ListeningAssumption, StepOfOne, ListenStep
<1>3. SelectInv' BY <1>1, SelectsAssumption, StepOfOne, SelectStep
<1>4. QueueInv' BY <1>1, QueuesAssumption, StepOfOne, QueueStep
<1>5. SegmentInv' BY <1>1, SegmentsAssumption, StepOfOne, SegmentStep
<1>6. ExchangeInv' BY <1>1, ExchangesAssumption, StepOfOne, ExchangeStep
<1>7. PipeInv' BY <1>1, StepOfOne, PipeStep
<1>8. FamilyInv' BY <1>1, FamiliesAssumption, StepOfOne, FamilyStep
<1>q. QED BY <1>2, <1>3, <1>4, <1>5, <1>6, <1>7, <1>8 DEF AllInv

\* A descriptor of the thread-per-connection server has one owner who will close it,
\* and the select() server never blocks on one socket while the other may have
\* clients (Listening_Server/server.c:61-73, Multiplexing_IN_OUT/server.c:81-107).
THEOREM ServersHoldCorrect == AllInit /\ [][AllNext]_allVars => []ServersHold
<1>1. AllInv => ServersHold
  BY ListeningAssumption, ListenHeld
  DEF AllInv, ServersHold, SelectInv, SelectReady, Selecting!NeverBlocks
<1>q. QED BY <1>1, AllInitial, AllStep, PTL

\* A connection is closed only when it has been answered, once, or could not get a
\* thread (Listening_Server/server.c:29-30, 67-71).
THEOREM ClosedAnsweredCorrect == AllInit /\ [][AllNext]_allVars => ClosedAnswered
<1>1. AllInv /\ [AllNext]_allVars => [Listening!ClosedAnswered]_allVars
  BY ListeningAssumption, StepOfOne, ListenClosed DEF AllInv
<1>q. QED BY <1>1, AllInitial, AllStep, PTL DEF ClosedAnswered

\* What is under way between a server and its clients is accounted for, whoever is
\* killed and started again: the lines of the queue, the texts of the segment, the
\* answers and the names of the sockets (Queue_message/Posix/server.c:28-33,
\* Shared_Memory/Home_Work_1, Sockets/Task_1).
THEOREM TurnsTakenCorrect == AllInit /\ [][AllNext]_allVars => []TurnsTaken
<1>1. AllInv => TurnsTaken
  BY QueuesAssumption, SegmentsAssumption, ExchangesAssumption, QueueBalanced,
    SegmentRead, ExchangeShown DEF AllInv, TurnsTaken
<1>q. QED BY <1>1, AllInitial, AllStep, PTL

\* What the shell with pipes promises: when a line has come to its end, its last
\* command has written what the whole line makes of the terminal, through pipes of
\* any size and whatever the order in which the commands run; no process is left, and
\* the shell has closed every end of its pipes (Channels/Bash_with_pipe/main.c:29-97,
\* 100-139).
THEOREM LineAnsweredCorrect == AllInit /\ [][AllNext]_allVars => []LineAnswered
<1>1. AllInv => LineAnswered BY PipeAnswered DEF AllInv
<1>q. QED BY <1>1, AllInitial, AllStep, PTL

\* A process that comes to its end has waited for each of its children, unless a
\* fork() failed for it or a signal ended it (Processes/Second_Task/main.c:17-76,
\* Processes/Bash/main.c:43-57, Channels/First_Task).
THEOREM ChildrenReapedCorrect == AllInit /\ [][AllNext]_allVars => []ChildrenReaped
<1>1. AllInv => ChildrenReaped BY FamilyReaped DEF AllInv, ChildrenReaped
<1>q. QED BY <1>1, AllInitial, AllStep, PTL
================================================================================
