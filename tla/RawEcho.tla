-------------------------------- MODULE RawEcho ---------------------------------
(***************************************************************************)
(* Final_Task1: an echo server and its clients on raw UDP sockets.  The    *)
(* server keeps a table of the addresses it has heard of, each with the    *)
(* number of messages it sent; CLOSE removes an address.  A raw socket     *)
(* sees every datagram of the host and skips those that are not for its    *)
(* port: only the others are queued here, and two clients with one port    *)
(* both read the answers to either.                                        *)
(***************************************************************************)
EXTENDS Integers, Sequences, FiniteSets, SequencesExt

CONSTANTS
  Clients,
  PortOf(_),   \* a client's port (they all run on one host)
  MaxLines,    \* bound: lines typed in all
  MaxRestarts, \* bound: times the server is started again
  QueueCap     \* datagrams a socket holds; one that finds it full is lost

\* Assumed where the program is composed with others, in Tables.
EchoAssumption ==
  MaxLines \in Nat /\ MaxRestarts \in Nat /\ QueueCap \in Nat \ {0}

VARIABLES
  table,     \* the server's clients[], up to client_count
  toServer,  \* the datagrams in the server's socket
  inbox,     \* those in a client's socket
  state,     \* "off", "on", "gone"
  typed,     \* the lines a client has sent
  shown,     \* the answers a client has printed
  restarts   \* how often the server was started again

vars == <<table, toServer, inbox, state, typed, shown, restarts>>

Ports == {PortOf(c) : c \in Clients}

Info(p, n) == [port |-> p, counter |-> n]
Datagram(p, text) == [port |-> p, text |-> text]
CLOSE == 0                     \* the text; other lines are numbered from 1
Answer(text, n) == [text |-> text, n |-> n, life |-> restarts]

Init ==
  /\ table = <<>> /\ toServer = <<>>
  /\ inbox = [c \in Clients |-> <<>>]
  /\ state = [c \in Clients |-> "off"]
  /\ typed = [c \in Clients |-> 0]
  /\ shown = [c \in Clients |-> <<>>]
  /\ restarts = 0

Queued(q, d) == IF Len(q) < QueueCap THEN Append(q, d) ELSE q

--------------------------------------------------------------------------------
(* Clients *)

Start(c) ==
  /\ state[c] = "off"
  /\ state' = [state EXCEPT ![c] = "on"]
  /\ UNCHANGED <<table, toServer, inbox, typed, shown, restarts>>

SendLine(c) ==
  /\ state[c] = "on" /\ SumFunction(typed) < MaxLines
  /\ typed' = [typed EXCEPT ![c] = @ + 1]
  /\ toServer' = Queued(toServer, Datagram(PortOf(c), typed'[c]))
  /\ UNCHANGED <<table, inbox, state, shown, restarts>>

\* CLOSE is sent once and the client ends without an answer.
SendClose(c) ==
  /\ state[c] = "on"
  /\ toServer' = Queued(toServer, Datagram(PortOf(c), CLOSE))
  /\ state' = [state EXCEPT ![c] = "gone"]
  /\ inbox' = [inbox EXCEPT ![c] = <<>>]
  /\ UNCHANGED <<table, typed, shown, restarts>>

Die(c) ==
  /\ state[c] = "on"
  /\ state' = [state EXCEPT ![c] = "gone"]
  /\ inbox' = [inbox EXCEPT ![c] = <<>>]
  /\ UNCHANGED <<table, toServer, typed, shown, restarts>>

ReadAnswer(c) ==
  /\ state[c] = "on" /\ inbox[c] # <<>>
  /\ shown' = [shown EXCEPT ![c] = Append(@, Head(inbox[c]))]
  /\ inbox' = [inbox EXCEPT ![c] = Tail(@)]
  /\ UNCHANGED <<table, toServer, state, typed, restarts>>

--------------------------------------------------------------------------------
(* The server *)

\* find_client(): where the table has p; nowhere is {}.
Have(p) == {i \in DOMAIN table : table[i].port = p}

FirstOf(S) == CHOOSE i \in S : \A j \in S : i <= j

\* Mistake: the entry before is removed.
RemovedBefore(i) == RemoveAt(table, IF i > 1 THEN i - 1 ELSE i)

\* The entries after the i-th move up.
Removed(i) == RemoveAt(table, i)

\* add_client() for one not found, then the counter.
Counted(p) ==
  IF Have(p) = {} THEN Append(table, Info(p, 1))
  ELSE [table EXCEPT ![FirstOf(Have(p))].counter = @ + 1]

\* Mistake: only a new address is counted.
EchoUncounted ==
  /\ toServer # <<>> /\ Head(toServer).text # CLOSE
  /\ toServer' = Tail(toServer)
  /\ LET p == Head(toServer).port
         i == IF Have(p) = {} THEN Len(table) + 1 ELSE FirstOf(Have(p))
     IN  /\ table' = IF Have(p) = {} THEN Counted(p) ELSE table
         /\ inbox' = [c \in Clients |->
              IF state[c] = "on" /\ PortOf(c) = p
                THEN Queued(inbox[c], Answer(Head(toServer).text, table'[i].counter))
                ELSE inbox[c]]
  /\ UNCHANGED <<state, typed, shown, restarts>>

Echo ==
  /\ toServer # <<>> /\ Head(toServer).text # CLOSE
  /\ toServer' = Tail(toServer)
  /\ LET p == Head(toServer).port
         i == IF Have(p) = {} THEN Len(table) + 1 ELSE FirstOf(Have(p))
     IN  /\ table' = Counted(p)
         /\ inbox' = [c \in Clients |->
              IF state[c] = "on" /\ PortOf(c) = p
                THEN Queued(inbox[c], Answer(Head(toServer).text, table'[i].counter))
                ELSE inbox[c]]
  /\ UNCHANGED <<state, typed, shown, restarts>>

\* A CLOSE from an address that is not in the table does nothing.
Close ==
  /\ toServer # <<>> /\ Head(toServer).text = CLOSE
  /\ toServer' = Tail(toServer)
  /\ LET at == Have(Head(toServer).port) IN
       table' = IF at = {} THEN table ELSE Removed(FirstOf(at))
  /\ UNCHANGED <<inbox, state, typed, shown, restarts>>

\* SIGINT, and the server started again: the table and its socket are new.
Restart ==
  /\ restarts < MaxRestarts
  /\ restarts' = restarts + 1
  /\ table' = <<>> /\ toServer' = <<>>
  /\ UNCHANGED <<inbox, state, typed, shown>>

Next ==
  \/ Echo \/ Close \/ Restart
  \/ \E c \in Clients :
       Start(c) \/ SendLine(c) \/ SendClose(c) \/ Die(c) \/ ReadAnswer(c)

Spec == Init /\ [][Next]_vars

--------------------------------------------------------------------------------
Answers == [text : Nat \ {0}, n : Nat, life : 0 .. MaxRestarts]

\* Every variable keeps its type, and no address has two entries: the table
\* never outgrows the addresses that there are (echo_server.c:115-119).
TypeOK ==
  /\ table \in Seq([port : Ports, counter : Nat])
  /\ \A i, j \in DOMAIN table : table[i].port = table[j].port => i = j
  /\ toServer \in Seq([port : Ports, text : Nat])
  /\ inbox \in [Clients -> Seq(Answers)] /\ shown \in [Clients -> Seq(Answers)]
  /\ state \in [Clients -> {"off", "on", "gone"}]
  /\ typed \in [Clients -> Nat]
  /\ restarts \in 0 .. MaxRestarts

Count == [p \in Ports |-> IF Have(p) = {} THEN 0 ELSE table[FirstOf(Have(p))].counter]

Counters == INSTANCE EchoCounters WITH count <- Count, pending <- toServer

\* The table implements one counter per address: removing an address moves the
\* others and disturbs none of their counters, and every datagram counts for
\* the address it came from (echo_server.c:96-121).
ImplementsCounters == Counters!Spec

Alone(c) == \A d \in Clients : d = c \/ PortOf(d) # PortOf(c)

\* A client that has its port for itself reads, from one life of the server,
\* answers to ever later lines with ever greater numbers, whatever is lost;
\* a number is never behind the answers and never ahead of the lines sent
\* (echo_server.c:121-145, echo_client.c:46-66); with the types, and one entry per
\* address.
AnswersInOrder ==
  /\ TypeOK
  /\ \A c \in Clients : Alone(c) =>
       LET a == shown[c] \o inbox[c] IN
       \A i, j \in DOMAIN a :
         /\ a[i].n <= a[i].text /\ a[i].text <= typed[c]
         /\ i < j /\ a[i].life = a[j].life => a[i].n < a[j].n /\ a[i].text < a[j].text
================================================================================
