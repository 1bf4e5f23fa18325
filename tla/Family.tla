--------------------------------- MODULE Family ---------------------------------
(***************************************************************************)
(* The programs that fork, wait and pass one message to a relative:        *)
(* Processes/First_Task, Processes/Second_Task, Processes/Bash (the shell  *)
(* without pipes), Channels/First_Task (a pipe) and Channels/Second_Task   *)
(* (a named pipe between two programs).  Each is a script of calls per     *)
(* process; a process ends at the end of its script.                       *)
(***************************************************************************)
EXTENDS Integers, Sequences

CONSTANTS
  MaxForks, \* bound: forks in all
  MaxKills  \* bound: processes killed

FamilyAssumption == MaxForks \in Nat /\ MaxKills \in Nat

Forks(q) == <<"fork", q>>       \* if it fails: exit(1)
TriesToFork(q) == <<"try", q>>  \* if it fails: back to the prompt
WaitsFor(q) == <<"waitpid", q>>
Waits == <<"wait">>
Does(call) == <<call>>          \* "prompt", "again", "open", "write", "read"

\* Mistake: Second_Task's first process waits for one child.
ScriptsOneWait ==
  [tree |-> [main |-> <<Forks("p1"), Forks("p2"), Waits>>,
             p1 |-> <<Forks("p3"), WaitsFor("p3"), Forks("p4"), WaitsFor("p4")>>,
             p2 |-> <<Forks("p5"), WaitsFor("p5"), Waits, Waits>>,
             p3 |-> <<>>, p4 |-> <<>>, p5 |-> <<>>]]

\* The process Second_Task calls 2 goes on to its parent's two waits, which fail.
Scripts ==
  [pair |-> [main |-> <<Forks("p1"), Waits>>, p1 |-> <<>>],
   tree |-> [main |-> <<Forks("p1"), Forks("p2"), Waits, Waits>>,
             p1 |-> <<Forks("p3"), WaitsFor("p3"), Forks("p4"), WaitsFor("p4")>>,
             p2 |-> <<Forks("p5"), WaitsFor("p5"), Waits, Waits>>,
             p3 |-> <<>>, p4 |-> <<>>, p5 |-> <<>>],
   bash |-> [main |-> <<Does("prompt"), TriesToFork("p1"), Waits, Does("again")>>,
             p1 |-> <<>>],
   pipe |-> [main |-> <<Forks("p1"), Does("write"), Waits>>, p1 |-> <<Does("read")>>],
   fifo |-> [main |-> <<Does("open"), Does("write")>>,
             p1 |-> <<Does("open"), Does("read")>>]]

Processes == {"main", "p1", "p2", "p3", "p4", "p5"}

VARIABLES
  family, \* which program the user has started, "none" before
  state,  \* state[p]: "none", "running", "zombie", "reaped", "gone" (with no parent)
  parent, \* parent[p]: who forked p
  next,   \* next[p]: the call p makes next
  met,    \* who was let through by open(): the other end is there, or was
  data,   \* bytes in the pipe
  forks, kills,
  failed  \* processes a fork() failed for, or a signal ended

vars == <<family, state, parent, next, met, data, forks, kills, failed>>

Init ==
  /\ family = "none" /\ state = [p \in Processes |-> "none"]
  /\ parent = [p \in Processes |-> "none"] /\ next = [p \in Processes |-> 1]
  /\ met = {} /\ data = FALSE /\ forks = 0 /\ kills = 0 /\ failed = {}

Start(f) ==
  /\ family = "none" /\ family' = f
  /\ state' = [state EXCEPT !["main"] = "running"]
  /\ UNCHANGED <<parent, next, met, data, forks, kills, failed>>

\* Channels/Second_Task/client.c is started by the user, before or after the server.
StartReader ==
  /\ family = "fifo" /\ state["p1"] = "none"
  /\ state' = [state EXCEPT !["p1"] = "running"]
  /\ UNCHANGED <<family, parent, next, met, data, forks, kills, failed>>

Call(p) ==
  LET script == Scripts[family][p] IN
  IF next[p] > Len(script) THEN <<"end">> ELSE script[next[p]]

At(p, call) == family # "none" /\ state[p] = "running" /\ Call(p)[1] = call

Goes(p) == next' = [next EXCEPT ![p] = @ + 1]

Children(p) == {q \in Processes : parent[q] = p /\ state[q] \in {"running", "zombie"}}

Alive(p) == p # "none" /\ state[p] = "running"

\* Whoever has a parent stays until that one waits; a process's ended children go
\* with it, its running ones to init.
Ended(p) ==
  [q \in Processes |->
     IF q = p THEN IF Alive(parent[p]) THEN "zombie" ELSE "gone"
     ELSE IF q \in Children(p) /\ state[q] = "zombie" THEN "gone" ELSE state[q]]

End(p) ==
  /\ At(p, "end")
  /\ state' = Ended(p)
  /\ UNCHANGED <<family, parent, next, met, data, forks, kills, failed>>

Fork(p) ==
  /\ At(p, "fork") \/ At(p, "try")
  /\ forks < MaxForks /\ forks' = forks + 1
  /\ LET q == Call(p)[2] IN
       /\ state' = [state EXCEPT ![q] = "running"]
       /\ parent' = [parent EXCEPT ![q] = p]
       /\ next' = [next EXCEPT ![p] = @ + 1, ![q] = 1]
  /\ UNCHANGED <<family, met, data, kills, failed>>

ForkFails(p) ==
  /\ At(p, "fork") \/ At(p, "try")
  /\ IF Call(p)[1] = "try"
       THEN next' = [next EXCEPT ![p] = 1] /\ UNCHANGED <<state, failed>>
       ELSE /\ state' = Ended(p)
            /\ failed' = failed \cup {p}
            /\ UNCHANGED next
  /\ UNCHANGED <<family, parent, met, data, forks, kills>>

\* wait() and waitpid(): a child that has ended, or at once when there is none.
Wait(p) ==
  /\ At(p, "wait") \/ At(p, "waitpid")
  /\ LET asked == IF Call(p)[1] = "wait" THEN Children(p) ELSE Children(p) \cap {Call(p)[2]} IN
     IF asked = {} THEN UNCHANGED state
     ELSE \E q \in asked : state[q] = "zombie" /\ state' = [state EXCEPT ![q] = "reaped"]
  /\ Goes(p)
  /\ UNCHANGED <<family, parent, met, data, forks, kills, failed>>

\* The shell reads a line: a command, "exit", or an empty one, whose first word is
\* NULL and ends the shell in strcmp().
Prompt(p) ==
  /\ At(p, "prompt")
  /\ \/ Goes(p) /\ UNCHANGED state
     \/ state' = Ended(p) /\ UNCHANGED next
  /\ UNCHANGED <<family, parent, met, data, forks, kills, failed>>

Again(p) ==
  /\ At(p, "again") /\ next' = [next EXCEPT ![p] = 1]
  /\ UNCHANGED <<family, state, parent, met, data, forks, kills, failed>>

Other(p) == IF p = "main" THEN "p1" ELSE "main"
Reading(p) == Alive(p) /\ (family = "fifo" => p \in met)

\* open() of one end of the fifo lets both through as soon as both are at it.
Open(p) ==
  /\ At(p, "open")
  /\ p \in met \/ At(Other(p), "open") \/ (Other(p) \in met /\ Alive(Other(p)))
  /\ met' = met \cup {p, Other(p)}
  /\ Goes(p)
  /\ UNCHANGED <<family, state, parent, data, forks, kills, failed>>

\* Writing with no reader left: SIGPIPE.
Write(p) ==
  /\ At(p, "write")
  /\ IF Reading(Other(p))
       THEN data' = TRUE /\ Goes(p) /\ UNCHANGED <<state, failed>>
       ELSE /\ state' = Ended(p) /\ failed' = failed \cup {p}
            /\ UNCHANGED <<data, next>>
  /\ UNCHANGED <<family, parent, met, forks, kills>>

\* A reader has closed its own writing end first: it sees the end of the file when
\* the writer has gone without writing.
Read(p) ==
  /\ At(p, "read")
  /\ data \/ ~Alive(Other(p))
  /\ data' = FALSE
  /\ Goes(p)
  /\ UNCHANGED <<family, state, parent, met, forks, kills, failed>>

Kill(p) ==
  /\ Alive(p) /\ kills < MaxKills
  /\ kills' = kills + 1 /\ failed' = failed \cup {p}
  /\ state' = Ended(p)
  /\ UNCHANGED <<family, parent, next, met, data, forks>>

Step(p) ==
  \/ End(p) \/ Fork(p) \/ ForkFails(p) \/ Wait(p) \/ Again(p)
  \/ Open(p) \/ Write(p) \/ Read(p)
Next ==
  \/ \E f \in DOMAIN Scripts : Start(f)
  \/ StartReader
  \/ \E p \in Processes : Step(p) \/ Prompt(p) \/ Kill(p)

--------------------------------------------------------------------------------
TypeOK ==
  /\ family \in DOMAIN Scripts \cup {"none"}
  /\ state \in [Processes -> {"none", "running", "zombie", "reaped", "gone"}]
  /\ parent \in [Processes -> Processes \cup {"none"}]
  /\ next \in [Processes -> 1 .. 5] /\ met \subseteq Processes
  /\ data \in BOOLEAN /\ failed \subseteq Processes
  /\ forks \in 0 .. MaxForks /\ kills \in 0 .. MaxKills

\* A process that comes to its end has waited for each of its children: nobody is
\* left to init and no zombie remains, unless fork() failed for the parent or a
\* signal ended it.  In particular a wait() for any child never takes the end that a
\* later waitpid() is for, and the two waits too many of Second_Task's process 2 take
\* nobody's (Second_Task/main.c:17-76, Bash/main.c:43-57); with the types.
ChildrenReaped ==
  /\ TypeOK
  /\ \A p, q \in Processes :
       parent[q] = p /\ ~Alive(p) /\ p \notin failed => state[q] = "reaped"

\* Every program comes to its end, or, the shell, back to its prompt; the two programs
\* on the fifo once both have opened it.
FamilyEnds ==
  (family # "none" /\ (family = "fifo" => met # {}))
    ~> \/ \A p \in Processes : ~Alive(p)
       \/ family = "bash" /\ (At("main", "prompt") \/ forks = MaxForks)
================================================================================
