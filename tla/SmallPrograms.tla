------------------------------ MODULE SmallPrograms ------------------------------
(***************************************************************************)
(* The short programs of the course that have nothing to do with one       *)
(* another: the shell with pipes, the two time servers without a queue of   *)
(* their own, and the pairs and families that exchange one message and     *)
(* end.  The user starts one and stays with it.                *)
(***************************************************************************)
EXTENDS Pipeline

CONSTANTS
  Clients, Threads, Fds, ThreadBacklog, Bad,              \* ListeningServer
  TcpClients, UdpClients, SelectBacklog, Buffer,          \* Multiplexing
  MaxRuns, MaxKills,                   \* QueueTurns, SegmentTurns, Exchanges, Casting
  MaxMsg,                                                 \* QueueTurns
  Askers, MaxLost,                                        \* Exchanges, Casting
  Receivers, Times, Room,                                 \* Casting
  MaxForks                                                \* Family

VARIABLES
  program,  \* which one, "none" before
  main, tmp, backlog, conn, pc, cell, client_fd, client, got,
  selAt, readfds, tcpQueue, datagrams, asking,
  qApi, qExists, queue, qAt, qOpen, took, qRuns, qKills, spare,
  sApi, sems, shm, value, text, sAt, has, trusted, sRuns, sKills, crashed,
  kind, socket, socket2, server, bound, requests, asked, xAt, named, box, xShown,
  heard, xRuns, xKills, xLost,
  left, cRuns, cAt, buffer, received, sent, cLost,
  family, state, parent, next, met, data, forks, fKills, failed

Listening == INSTANCE ListeningServer WITH Backlog <- ThreadBacklog
Selecting == INSTANCE Multiplexing WITH
  Backlog <- SelectBacklog, at <- selAt, backlog <- tcpQueue, client <- asking
Queue == INSTANCE QueueTurns WITH
  api <- qApi, exists <- qExists, at <- qAt, open <- qOpen, runs <- qRuns, kills <- qKills
Segment == INSTANCE SegmentTurns WITH
  api <- sApi, at <- sAt, runs <- sRuns, kills <- sKills
Exchange == INSTANCE Exchanges WITH
  Clients <- Askers, queue <- requests, took <- asked, at <- xAt, shown <- xShown,
  runs <- xRuns, kills <- xKills, lost <- xLost
Cast == INSTANCE Casting WITH runs <- cRuns, at <- cAt, lost <- cLost
Relatives == INSTANCE Family WITH kills <- fKills

ASSUME ListeningAssumption == Listening!ServerAssumption
ASSUME SelectsAssumption == Selecting!SelectAssumption
ASSUME QueuesAssumption == Queue!QueueAssumption
ASSUME SegmentsAssumption == Segment!SegmentAssumption
ASSUME ExchangesAssumption == Exchange!ExchangeAssumption
ASSUME FamiliesAssumption == Relatives!FamilyAssumption

listeningVars == <<main, tmp, backlog, conn, pc, cell, client_fd, client, got>>
selectVars == <<selAt, readfds, tcpQueue, datagrams, asking>>
queueVars == <<qApi, qExists, queue, qAt, qOpen, took, qRuns, qKills, spare>>
segmentVars ==
  <<sApi, sems, shm, value, text, sAt, has, trusted, sRuns, sKills, crashed>>
exchangeVars ==
  <<kind, socket, socket2, server, bound, requests, asked, xAt, named, box, xShown,
    heard, xRuns, xKills, xLost>>
castVars == <<left, cRuns, cAt, buffer, received, sent, cLost>>
familyVars == <<family, state, parent, next, met, data, forks, fKills, failed>>
serverVars == <<listeningVars, selectVars>>
pairVars == <<queueVars, segmentVars, exchangeVars, castVars>>
allVars == <<program, vars, serverVars, pairVars, familyVars>>

AllInit ==
  /\ program = "none"
  /\ Init /\ Listening!Init /\ Selecting!Init
  /\ Queue!Init /\ Segment!Init /\ Exchange!Init /\ Cast!Init /\ Relatives!Init

Uses(name) == program \in {"none", name} /\ program' = name

UseShell == Uses("shell") /\ Next /\ UNCHANGED <<serverVars, pairVars, familyVars>>
UseListening ==
  /\ Uses("listening") /\ Listening!Next
  /\ UNCHANGED <<vars, selectVars, pairVars, familyVars>>
UseSelect ==
  /\ Uses("select") /\ Selecting!Next
  /\ UNCHANGED <<vars, listeningVars, pairVars, familyVars>>
UseQueue ==
  /\ Uses("queue") /\ Queue!Next
  /\ UNCHANGED <<vars, serverVars, segmentVars, exchangeVars, castVars, familyVars>>
UseSegment ==
  /\ Uses("segment") /\ Segment!Next
  /\ UNCHANGED <<vars, serverVars, queueVars, exchangeVars, castVars, familyVars>>
UseExchange ==
  /\ Uses("exchange") /\ Exchange!Next
  /\ UNCHANGED <<vars, serverVars, queueVars, segmentVars, castVars, familyVars>>
UseCast ==
  /\ Uses("cast") /\ Cast!Next
  /\ UNCHANGED <<vars, serverVars, queueVars, segmentVars, exchangeVars, familyVars>>
UseFamily == Uses("family") /\ Relatives!Next /\ UNCHANGED <<vars, serverVars, pairVars>>

AllNext ==
  \/ UseShell \/ UseListening \/ UseSelect
  \/ UseQueue \/ UseSegment \/ UseExchange \/ UseCast \/ UseFamily

\* Every process and thread runs on; nobody has to type a line.
AllSpec ==
  /\ AllInit /\ [][AllNext]_allVars
  /\ Fairness
  /\ WF_listeningVars(Listening!MainStep)
  /\ \A t \in Threads : WF_listeningVars(Listening!ThreadStep(t))
  /\ WF_selectVars(Selecting!ServerStep)
  /\ \A p \in {"server", "client"} : WF_queueVars(Queue!Step(p))
  /\ WF_segmentVars(Segment!ServerStep) /\ WF_segmentVars(Segment!ClientStep)
  /\ WF_exchangeVars(Exchange!ServerStep)
  /\ \A c \in Askers : WF_exchangeVars(Exchange!ClientStep(c))
  /\ WF_castVars(Cast!Send)
  /\ \A r \in Receivers : WF_castVars(Cast!Receive(r))
  /\ \A p \in Relatives!Processes : WF_familyVars(Relatives!Step(p))

--------------------------------------------------------------------------------
\* A descriptor has one owner who will close it (Listening_Server/server.c:61-73),
\* and the select() server never blocks on one socket while the other may have
\* clients (Multiplexing_IN_OUT/server.c:81-107).
ServersHold == Listening!HeldByOne /\ Selecting!NeverBlocks

\* A connection is closed only when it has been answered, once, or could not get a
\* thread (Listening_Server/server.c:29-30, 67-71).
ClosedAnswered == [][Listening!ClosedAnswered]_allVars

\* What is under way between a server and its clients is accounted for, whoever is
\* killed and started again: the lines of the queue, the two texts of the segment,
\* the answers and the names of the sockets (Queue_message/Posix and System_V,
\* Shared_Memory/Home_Work_1, Sockets/Task_1, Sockets/Task_4).
TurnsTaken == Queue!LinesBalance /\ Segment!AnswerRead /\ Exchange!AnsweredByServer

\* Nobody leaves a child unwaited for (Processes, Channels).
ChildrenReaped == Relatives!ChildrenReaped

\* Whoever waits for the time gets to the end of its connection or out of the
\* queue: from the thread-per-connection server even when descriptors and threads
\* run out (Listening_Server/server.c:56-74), and from the select() server however
\* busy the other socket is, because it tests both in every turn
\* (Multiplexing_IN_OUT/server.c:68-107).
EveryoneServed ==
  /\ \A c \in Clients : client[c] = "waiting" ~> client[c] = "away"
  /\ \A c \in TcpClients \cup UdpClients : asking[c] = "waiting" ~> asking[c] # "waiting"

\* No wait is for ever that the other side could end: a line of the shell, a client
\* of a server, the turns over a queue, a segment or sockets, a receiver that enough
\* was sent to, a family of processes (Bash_with_pipe/main.c:65-72 and the programs
\* named at the parts).
WaitsEnd ==
  /\ LineEnds /\ EveryoneServed
  /\ Queue!NobodyStuck /\ Segment!ExchangeEnds /\ Exchange!ExchangeEnds
  /\ Cast!ReceiversEnd /\ Relatives!FamilyEnds
================================================================================
