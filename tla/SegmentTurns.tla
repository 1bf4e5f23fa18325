------------------------------ MODULE SegmentTurns ------------------------------
(***************************************************************************)
(* Shared_Memory/Home_Work_1, Posix and System_V: the server writes "Hi"   *)
(* into a segment, posts sem_server and waits for sem_client; the client   *)
(* waits for sem_server, prints the segment, writes "Hello!" and posts     *)
(* sem_client.  No call's result is looked at.  The Posix semaphores are   *)
(* created by whoever comes first; the System V set by the server, which   *)
(* sets both to 0.  The server removes everything at its end.              *)
(*                                                                         *)
(* What is created again under an old name is another object: objects are  *)
(* numbered, 0 is none.  The two semaphores of a pair are created and      *)
(* unlinked together here.                                                 *)
(***************************************************************************)
EXTENDS Integers

CONSTANTS
  MaxRuns,  \* bound: how often each program is started
  MaxKills  \* bound: how often one of them is killed

Programs == {"server", "client"}
Semaphores == {"sem_server", "sem_client"}
Objects == 1 .. 2 * MaxRuns

SegmentAssumption == MaxRuns \in Nat \ {0} /\ MaxKills \in Nat

VARIABLES
  api,     \* "posix" or "sysv", "none" before the user has chosen
  sems,    \* the pair of semaphores with the name; 0: none
  shm,     \* the segment with the name; 0: none
  value,   \* value[s][x]: semaphore s of pair x
  text,    \* text[x]: what segment x holds
  at,      \* at[p]: "off", "map", "post", "wait", "read", "write", "shm", "sems"
  has,     \* has[p].sems, has[p].shm: what p has opened
  trusted, \* no killed process, nor a client too early to wait, disturbs the running server
  runs, kills,
  crashed  \* a client has died on a segment it could not map

vars == <<api, sems, shm, value, text, at, has, trusted, runs, kills, crashed>>
memory == <<sems, shm, value, text>>

Nothing == [sems |-> 0, shm |-> 0]

Init ==
  /\ api = "none" /\ sems = 0 /\ shm = 0
  /\ value = [s \in Semaphores |-> [x \in Objects |-> 0]]
  /\ text = [x \in Objects |-> "empty"]
  /\ at = [p \in Programs |-> "off"]
  /\ has = [p \in Programs |-> Nothing]
  /\ trusted = FALSE
  /\ runs = [p \in Programs |-> 0] /\ kills = 0 /\ crashed = FALSE

Choose(a) ==
  /\ api = "none" /\ api' = a
  /\ UNCHANGED <<memory, at, has, trusted, runs, kills, crashed>>

\* A number no object has had: every run creates at most one pair and one segment.
Fresh == runs["server"] + runs["client"] + 1

\* sem_open(O_CREAT) twice, or semget() and, by the server, SETVAL 0 twice.
Start(p) ==
  /\ api # "none" /\ at[p] = "off" /\ runs[p] < MaxRuns
  /\ runs' = [runs EXCEPT ![p] = @ + 1]
  /\ sems' = IF sems = 0 /\ (api = "posix" \/ p = "server") THEN Fresh ELSE sems
  /\ value' = IF api = "sysv" /\ p = "server"
                THEN [s \in Semaphores |-> [value[s] EXCEPT ![sems'] = 0]] ELSE value
  /\ has' = [has EXCEPT ![p] = [Nothing EXCEPT !.sems = sems']]
  /\ at' = [at EXCEPT ![p] = "map"]
  /\ trusted' = IF p = "client" THEN trusted
                ELSE kills = 0 \/ (api = "sysv" /\ at["client"] = "off")
  /\ UNCHANGED <<api, shm, text, kills, crashed>>

\* The server creates the segment and writes into it; the client maps what there is.
MapServer ==
  /\ at["server"] = "map"
  /\ shm' = IF shm = 0 THEN runs["server"] ELSE shm
  /\ text' = [text EXCEPT ![shm'] = "Hi"]
  /\ has' = [has EXCEPT !["server"].shm = shm']
  /\ at' = [at EXCEPT !["server"] = "post"]
  /\ UNCHANGED <<api, sems, value, trusted, runs, kills, crashed>>

MapClient ==
  /\ at["client"] = "map"
  /\ has' = [has EXCEPT !["client"].shm = shm]
  /\ at' = [at EXCEPT !["client"] = "wait"]
  /\ UNCHANGED <<api, memory, trusted, runs, kills, crashed>>

\* A System V set that is not there, or no longer: semop() fails at once.
Works(p) == has[p].sems # 0 /\ (api = "posix" \/ has[p].sems = sems)

\* sem_post(sem_server) by the server, sem_post(sem_client) by the client.
Post(p) ==
  /\ at[p] = "post"
  /\ value' = IF ~Works(p) THEN value
              ELSE [value EXCEPT ![IF p = "server" THEN "sem_server" ELSE "sem_client"]
                                  [has[p].sems] = @ + 1]
  /\ at' = [at EXCEPT ![p] = IF p = "server" THEN "wait" ELSE "off"]
  /\ has' = IF p = "server" THEN has ELSE [has EXCEPT ![p] = Nothing]
  /\ UNCHANGED <<api, sems, shm, text, trusted, runs, kills, crashed>>

Awaited(p) == IF p = "server" THEN "sem_client" ELSE "sem_server"

Wait(p) ==
  /\ at[p] = "wait"
  /\ IF Works(p)
       THEN /\ value[Awaited(p)][has[p].sems] > 0
            /\ value' = [value EXCEPT ![Awaited(p)][has[p].sems] = @ - 1]
       ELSE UNCHANGED value
  /\ at' = [at EXCEPT ![p] = "read"]
  /\ trusted' = (trusted /\ Works(p))
  /\ UNCHANGED <<api, sems, shm, text, has, runs, kills, crashed>>

ReadServer ==
  /\ at["server"] = "read"
  /\ at' = [at EXCEPT !["server"] = "shm"]
  /\ UNCHANGED <<api, memory, has, trusted, runs, kills, crashed>>

\* Printing a segment that is not mapped ends the client, with the server's token.
ReadClient ==
  /\ at["client"] = "read"
  /\ at' = [at EXCEPT !["client"] = IF has["client"].shm = 0 THEN "off" ELSE "write"]
  /\ crashed' = (crashed \/ has["client"].shm = 0)
  /\ has' = IF has["client"].shm = 0 THEN [has EXCEPT !["client"] = Nothing] ELSE has
  /\ UNCHANGED <<api, memory, trusted, runs, kills>>

Write ==
  /\ at["client"] = "write"
  /\ text' = [text EXCEPT ![has["client"].shm] = "Hello!"]
  /\ at' = [at EXCEPT !["client"] = "post"]
  /\ UNCHANGED <<api, sems, shm, value, has, trusted, runs, kills, crashed>>

\* The segment's name goes first, then the semaphores; who has mapped it keeps it.
RemoveShm ==
  /\ at["server"] = "shm"
  /\ shm' = 0
  /\ at' = [at EXCEPT !["server"] = "sems"]
  /\ UNCHANGED <<api, sems, value, text, has, trusted, runs, kills, crashed>>

RemoveSems ==
  /\ at["server"] = "sems"
  /\ sems' = 0
  /\ at' = [at EXCEPT !["server"] = "off"]
  /\ has' = [has EXCEPT !["server"] = Nothing]
  /\ UNCHANGED <<api, shm, value, text, trusted, runs, kills, crashed>>

Kill(p) ==
  /\ at[p] # "off" /\ kills < MaxKills
  /\ kills' = kills + 1
  /\ trusted' = FALSE
  /\ at' = [at EXCEPT ![p] = "off"]
  /\ has' = [has EXCEPT ![p] = Nothing]
  /\ UNCHANGED <<api, memory, runs, crashed>>

ServerStep ==
  MapServer \/ Post("server") \/ Wait("server") \/ ReadServer \/ RemoveShm \/ RemoveSems
ClientStep == MapClient \/ Wait("client") \/ ReadClient \/ Write \/ Post("client")
Next ==
  \/ \E a \in {"posix", "sysv"} : Choose(a)
  \/ \E p \in Programs : Start(p) \/ Kill(p)
  \/ ServerStep \/ ClientStep

--------------------------------------------------------------------------------
TypeOK ==
  /\ api \in {"none", "posix", "sysv"}
  /\ sems \in Objects \cup {0} /\ shm \in Objects \cup {0}
  /\ value \in [Semaphores -> [Objects -> Nat]]
  /\ text \in [Objects -> {"empty", "Hi", "Hello!"}]
  /\ at \in [Programs -> {"off", "map", "post", "wait", "read", "write", "shm", "sems"}]
  /\ has \in [Programs -> [sems : Objects \cup {0}, shm : Objects \cup {0}]]
  /\ trusted \in BOOLEAN /\ crashed \in BOOLEAN
  /\ runs \in [Programs -> 0 .. MaxRuns] /\ kills \in 0 .. MaxKills

\* A server that nothing old disturbs never reads its own "Hi" back: when its wait
\* ends, a client has answered in its segment.  After a kill that takes a System V
\* server started while no client runs, since it sets its semaphores to 0; a Posix
\* one takes over the values it finds.  And a client that has waited for such a
\* server prints what the server wrote (Posix/server.c:26-32, Posix/client.c:24-33,
\* System_V/server.c:18-33, System_V/client.c:18-31); with the types.
AnswerRead ==
  /\ TypeOK
  /\ trusted /\ at["server"] = "read" => text[has["server"].shm] = "Hello!"
  /\ trusted /\ at["client"] = "read" /\ has["client"] = has["server"]
       => text[has["client"].shm] = "Hi"

\* A client that has mapped the segment of a server nothing disturbs brings the
\* exchange to its end, unless a client that came too early has died with the
\* server's token, or one is killed.
ExchangeEnds ==
  (trusted /\ at["server"] = "wait" /\ at["client"] = "wait" /\ has["client"] = has["server"])
    ~> (at["server"] = "off" \/ crashed \/ kills > 0)
================================================================================
