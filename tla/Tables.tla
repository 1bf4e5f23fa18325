---------------------------------- MODULE Tables --------------------------------
(***************************************************************************)
(* The programs whose difficulty is a table that lives through many calls, *)
(* side by side: the numbers of the echo server, the idle marks of the     *)
(* pool of workers, the panels of the file manager, the list of loaded     *)
(* commands, and the small computations; and the stock of the shops.  The  *)
(* user starts one and stays with it.                                      *)
(***************************************************************************)
EXTENDS Integers, Sequences

CONSTANTS
  EchoClients, PortOf(_), MaxLines, MaxRestarts, QueueCap,   \* RawEcho
  Clients, Fds, Threads, MaxSpurious, MaxBelow, None,        \* PullThreads
  Worlds, Capacity, MaxEnters,                               \* Commander
  First, MaxEntries,                                         \* Plugins
  Stores, Customers, Supplier, Stocks, Desires, Load, MaxLoads, Nobody, \* Shops
  Width, Arrays, Headers, Strings, Sizes                     \* Algorithms

VARIABLES
  program,  \* which one, "none" before
  table, toServer, inbox, state, typed, shown, restarts,
  idx_threads, count, fd_socket, at, main_fd, idx, pc, fd, conn, client, outcome,
  spurious, disturbed, running,
  world, removed, scan, dir, pathSize, capacity, list, current_index,
  current_catalog, enters,
  phase, entries, slots, listSize, listCapacity, called,
  Store, desire_spend, mutex, numberStore, actor, seen, loads, total,
  call

Echo == INSTANCE RawEcho WITH Clients <- EchoClients
Pull == INSTANCE PullThreads
Files == INSTANCE Commander WITH next <- scan, size <- pathSize
Commands == INSTANCE Plugins
Shopping == INSTANCE Shops WITH pc <- actor
Computing == INSTANCE Algorithms

ASSUME EchoesAssumption == Echo!EchoAssumption
ASSUME PoolAssumption == Pull!PullAssumption
ASSUME FilesAssumption == Files!CommanderAssumption
ASSUME CommandsAssumption == Commands!PluginsAssumption
ASSUME ShoppingAssumption == Shopping!ShopsAssumption
ASSUME ComputingAssumption == Computing!AlgorithmsAssumption

echoVars == <<table, toServer, inbox, state, typed, shown, restarts>>
pullVars == <<idx_threads, count, fd_socket, at, main_fd, idx, pc, fd, conn, client,
              outcome, spurious, disturbed, running>>
fileVars == <<world, removed, scan, dir, pathSize, capacity, list, current_index,
              current_catalog, enters>>
commandVars == <<phase, entries, slots, listSize, listCapacity, called>>
shopVars == <<Store, desire_spend, mutex, numberStore, actor, seen, loads, total>>
tableVars == <<program, echoVars, pullVars, fileVars, commandVars, shopVars, call>>

TablesInit ==
  /\ program = "none"
  /\ Echo!Init /\ Pull!Init /\ Files!Init /\ Commands!Init /\ Shopping!Init
  /\ Computing!Init

Uses(name) == program \in {"none", name} /\ program' = name

UseEcho ==
  /\ Uses("echo") /\ Echo!Next
  /\ UNCHANGED <<pullVars, fileVars, commandVars, shopVars, call>>
UsePull ==
  /\ Uses("pull") /\ Pull!Next
  /\ UNCHANGED <<echoVars, fileVars, commandVars, shopVars, call>>
UseFiles ==
  /\ Uses("files") /\ Files!Next
  /\ UNCHANGED <<echoVars, pullVars, commandVars, shopVars, call>>
UseCommands ==
  /\ Uses("commands") /\ Commands!Next
  /\ UNCHANGED <<echoVars, pullVars, fileVars, shopVars, call>>
UseShops ==
  /\ Uses("shops") /\ Shopping!Next
  /\ UNCHANGED <<echoVars, pullVars, fileVars, commandVars, call>>
Compute ==
  /\ Uses("computing") /\ Computing!Next
  /\ UNCHANGED <<echoVars, pullVars, fileVars, commandVars, shopVars>>

TablesNext == UseEcho \/ UsePull \/ UseFiles \/ UseCommands \/ UseShops \/ Compute

TablesSpec == TablesInit /\ [][TablesNext]_tableVars

--------------------------------------------------------------------------------
\* A client with its own port reads ever later answers (echo_server.c:121-145).
AnswersInOrder == Echo!AnswersInOrder

\* The table implements one counter per address (echo_server.c:96-121).
ImplementsCounters == Echo!ImplementsCounters

\* No race makes count exceed the workers marked busy (Pull_Threads/server.c:55-58,
\* 100-117).
CountedAreMarked == Pull!CountedAreMarked

\* Clients that come one at a time are answered, and the marks balance at rest
\* (Pull_Threads/server.c:40-57, 100-119).
RestIsClean == Pull!RestIsClean

\* Panels are sorted, the cursor is on a row, the path in its buffer
\* (Midnight_Commander/header.c:24-57, 80, 155-166).
PanelsSound == Files!PanelsSound

\* The counted slots hold the plugins that loaded (Calculator_v3/main.c:17-27).
SlotsAreGood == Commands!SlotsAreGood

\* Goods are neither sold twice nor lost (Threads/main.c:33-47, 72-78).
Conserved == Shopping!Conserved

\* Each computation returns what it is for (Home_Work_1, 2, 3; Sockets/Task_4).
ComputedRight == Computing!ComputedRight

\* The tests expect NULL for a substring that is not there
\* (Home_Work_3/tests/test.c:44-46).
FoundIsThere == Computing!FoundIsThere
================================================================================
