------------------------------- MODULE QueueTurns -------------------------------
(***************************************************************************)
(* Queue_message/Posix and Queue_message/System_V: a server sends a line   *)
(* and receives one, a client receives a line and sends one, all over one  *)
(* queue, with one priority or one type for both directions.  The Posix    *)
(* queue is created by whoever comes first and never unlinked; the         *)
(* System V queue is created by the server, which removes it at its end.   *)
(***************************************************************************)
EXTENDS Integers, Sequences

CONSTANTS
  MaxMsg,   \* the messages a queue holds (mq_maxmsg, 5)
  MaxRuns,  \* bound: how often each program is started
  MaxKills  \* bound: how often one of them is killed

Programs == {"server", "client"}

QueueAssumption == MaxMsg \in Nat \ {0} /\ MaxRuns \in Nat /\ MaxKills \in Nat

VARIABLES
  api,    \* "posix" or "sysv", "none" before the user has chosen
  exists, \* the queue is there
  queue,  \* whose lines are in it, in order
  at,     \* at[p]: "off", "send", "receive", "remove" (the next call)
  open,   \* open[p]: p's identifier leads to the queue
  took,   \* took[p]: whose line p received, "nothing" before, "error" if it failed
  runs, kills,
  spare   \* lines left by killed servers, less those taken along by killed clients

vars == <<api, exists, queue, at, open, took, runs, kills, spare>>

Init ==
  /\ api = "none" /\ exists = FALSE /\ queue = <<>>
  /\ at = [p \in Programs |-> "off"]
  /\ open = [p \in Programs |-> FALSE]
  /\ took = [p \in Programs |-> "nothing"]
  /\ runs = [p \in Programs |-> 0] /\ kills = 0 /\ spare = 0

Choose(a) == api = "none" /\ api' = a /\ UNCHANGED <<exists, queue, at, open, took, runs, kills, spare>>

\* mq_open(O_CREAT), msgget(IPC_CREAT), or the System V client's msgget(), which
\* ends the client when the queue is not there.
Start(p) ==
  /\ api # "none" /\ at[p] = "off" /\ runs[p] < MaxRuns
  /\ runs' = [runs EXCEPT ![p] = @ + 1]
  /\ took' = [took EXCEPT ![p] = "nothing"]
  /\ IF api = "sysv" /\ p = "client" /\ ~exists
       THEN UNCHANGED <<exists, at, open>>
       ELSE /\ exists' = TRUE
            /\ open' = [open EXCEPT ![p] = TRUE]
            /\ at' = [at EXCEPT ![p] = IF p = "server" THEN "send" ELSE "receive"]
  /\ UNCHANGED <<api, queue, kills, spare>>

\* Mistake: the client ends with its line and does not answer.
AfterSilent(p, call) ==
  CASE p = "server" /\ call = "send" -> "receive"
    [] p = "server" /\ call = "receive" -> IF api = "sysv" THEN "remove" ELSE "off"
    [] OTHER -> "off"

\* What follows a call: the server receives after it has sent, and after that it
\* removes a System V queue; the client sends after it has received.
After(p, call) ==
  CASE p = "server" /\ call = "send" -> "receive"
    [] p = "server" /\ call = "receive" -> IF api = "sysv" THEN "remove" ELSE "off"
    [] p = "client" /\ call = "receive" -> "send"
    [] OTHER -> "off"

Goes(p) ==
  /\ at' = [at EXCEPT ![p] = After(p, @)]
  /\ open' = [open EXCEPT ![p] = @ /\ at'[p] # "off"]

Send(p) ==
  /\ at[p] = "send" /\ open[p] /\ Len(queue) < MaxMsg
  /\ queue' = Append(queue, p)
  /\ Goes(p)
  /\ UNCHANGED <<api, exists, took, runs, kills, spare>>

\* The first line of the queue, whoever sent it.
Receive(p) ==
  /\ at[p] = "receive" /\ open[p] /\ queue # <<>>
  /\ took' = [took EXCEPT ![p] = Head(queue)]
  /\ queue' = Tail(queue)
  /\ Goes(p)
  /\ UNCHANGED <<api, exists, runs, kills, spare>>

\* The queue is gone: msgrcv() and msgsnd() fail, which is reported and passed over.
Fail(p) ==
  /\ at[p] \in {"send", "receive"} /\ ~open[p]
  /\ took' = [took EXCEPT ![p] = IF at[p] = "receive" THEN "error" ELSE @]
  /\ Goes(p)
  /\ UNCHANGED <<api, exists, queue, runs, kills, spare>>

Remove ==
  /\ at["server"] = "remove"
  /\ exists' = FALSE /\ queue' = <<>> /\ spare' = 0
  /\ open' = [p \in Programs |-> FALSE]
  /\ at' = [at EXCEPT !["server"] = "off"]
  /\ UNCHANGED <<api, took, runs, kills>>

Kill(p) ==
  /\ at[p] # "off" /\ kills < MaxKills
  /\ kills' = kills + 1
  /\ spare' = spare + (IF open[p] /\ p = "server" /\ at[p] = "receive" THEN 1
                       ELSE IF open[p] /\ p = "client" /\ at[p] = "send" THEN -1 ELSE 0)
  /\ at' = [at EXCEPT ![p] = "off"]
  /\ open' = [open EXCEPT ![p] = FALSE]
  /\ UNCHANGED <<api, exists, queue, took, runs>>

\* Before it sends, a program waits at a prompt for its user to type the line.
Typed(p) == Send(p) \/ (at[p] = "send" /\ Fail(p))

\* What a program does by itself.
Step(p) ==
  Receive(p) \/ (at[p] = "receive" /\ Fail(p)) \/ (p = "server" /\ Remove)

Next ==
  \/ \E a \in {"posix", "sysv"} : Choose(a)
  \/ \E p \in Programs : Start(p) \/ Typed(p) \/ Step(p) \/ Kill(p)

--------------------------------------------------------------------------------
TypeOK ==
  /\ api \in {"none", "posix", "sysv"} /\ exists \in BOOLEAN
  /\ queue \in Seq(Programs) /\ Len(queue) <= MaxMsg
  /\ at \in [Programs -> {"off", "send", "receive", "remove"}]
  /\ open \in [Programs -> BOOLEAN]
  /\ took \in [Programs -> Programs \cup {"nothing", "error"}]
  /\ runs \in [Programs -> 0 .. MaxRuns] /\ kills \in 0 .. MaxKills /\ spare \in Int

Count(truth) == IF truth THEN 1 ELSE 0

\* Whoever takes whose line, the queue holds one for a server that waits, less one
\* for a client that owes its answer, and what the killed have left or taken along:
\* so without kills a server and a client never wait for each other on an empty
\* queue, a queue that both are done with is empty, and nobody waits for room
\* (Posix/server.c:28-33, Posix/client.c:25-37, System_V/server.c:34-44); with the
\* types.
LinesBalance ==
  /\ TypeOK
  /\ Len(queue) = Count(open["server"] /\ at["server"] = "receive")
                    - Count(open["client"] /\ at["client"] = "send") + spare
  /\ \A p \in Programs : kills = 0 /\ at[p] = "send" /\ open[p] => Len(queue) < MaxMsg

\* Once the server's user has typed, or the client's queue is gone, a client that
\* waits does not wait for ever, though nobody types any more: it gets a line or an
\* error, or the server ends with its own line (Posix: the client then waits on),
\* unless one of them is killed (System_V/server.c:38-44, System_V/client.c:28-30,
\* Posix/server.c:33-36, Posix/client.c:25-28).
NobodyStuck ==
  (/\ kills = 0 /\ at["client"] = "receive"
   /\ at["server"] \in {"receive", "remove"} \/ ~open["client"])
    ~> (at["client"] # "receive" \/ (api = "posix" /\ at["server"] # "receive") \/ kills > 0)
================================================================================
