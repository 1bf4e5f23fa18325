------------------------------ MODULE Multiplexing ------------------------------
(***************************************************************************)
(* The time server of Sockets/Task_2/Multiplexing_IN_OUT: one thread waits *)
(* in select() for a connection on a TCP socket or a datagram on a UDP     *)
(* socket, and answers at most one of each before it selects again.        *)
(***************************************************************************)
EXTENDS Naturals, Sequences

CONSTANTS
  TcpClients, UdpClients,
  Backlog,   \* listen()'s second argument
  Buffer     \* the datagrams the UDP socket can hold

SelectAssumption == Backlog \in Nat /\ Buffer \in Nat

VARIABLES
  at,        \* "select", "tcp", "udp" or "gone"
  readfds,   \* what select() found readable
  backlog,   \* the TCP clients connected and not accepted, in order
  datagrams, \* the senders of the datagrams not received, in order
  client     \* client[c]: "away", "waiting", or "lost" when no answer can come

vars == <<at, readfds, backlog, datagrams, client>>
Everyone == TcpClients \cup UdpClients

Init ==
  /\ at = "select" /\ readfds = {} /\ backlog = <<>> /\ datagrams = <<>>
  /\ client = [c \in Everyone |-> "away"]

Connect(c) ==
  /\ at # "gone" /\ client[c] = "away" /\ Len(backlog) < Backlog
  /\ client' = [client EXCEPT ![c] = "waiting"]
  /\ backlog' = Append(backlog, c)
  /\ UNCHANGED <<at, readfds, datagrams>>

SendDatagram(c) ==
  /\ at # "gone" /\ client[c] = "away"
  /\ client' = [client EXCEPT ![c] = "waiting"]
  /\ Len(datagrams) < Buffer /\ datagrams' = Append(datagrams, c)
  /\ UNCHANGED <<at, readfds, backlog>>

\* The request is lost on the way or for want of room: the client waits in vain,
\* until its user starts it again (a new socket, which no late answer reaches).
LoseDatagram(c) ==
  /\ client[c] = "away"
  /\ client' = [client EXCEPT ![c] = "lost"]
  /\ UNCHANGED <<at, readfds, backlog, datagrams>>

Restart(c) ==
  /\ client[c] = "lost"
  /\ client' = [client EXCEPT ![c] = "away"]
  /\ UNCHANGED <<at, readfds, backlog, datagrams>>

Readable == {s \in {"tcp", "udp"} : (IF s = "tcp" THEN backlog ELSE datagrams) # <<>>}

Select ==
  /\ at = "select"
  /\ Readable # {}
  /\ readfds' = Readable
  /\ at' = IF "tcp" \in readfds' THEN "tcp" ELSE "udp"
  /\ UNCHANGED <<backlog, datagrams, client>>

\* Mistake: "else if": the datagrams wait while there are connections.
ServeTcpOnly ==
  /\ at = "tcp" /\ backlog # <<>>
  /\ backlog' = Tail(backlog)
  /\ client' = [client EXCEPT ![Head(backlog)] = "away"]
  /\ at' = "select"
  /\ UNCHANGED <<readfds, datagrams>>

\* Accept, answer, close.  With the queue empty accept() would wait here.
ServeTcp ==
  /\ at = "tcp" /\ backlog # <<>>
  /\ backlog' = Tail(backlog)
  /\ client' = [client EXCEPT ![Head(backlog)] = "away"]
  /\ at' = IF "udp" \in readfds THEN "udp" ELSE "select"
  /\ UNCHANGED <<readfds, datagrams>>

\* Receive, answer.  The answer goes to the address recvfrom() just filled in, and
\* may be lost.
ServeUdp ==
  /\ at = "udp" /\ datagrams # <<>>
  /\ datagrams' = Tail(datagrams)
  /\ \E fate \in {"away", "lost"} : client' = [client EXCEPT ![Head(datagrams)] = fate]
  /\ at' = "select"
  /\ UNCHANGED <<readfds, backlog>>

\* SIGINT: connections break, datagrams are never answered.
Interrupt ==
  /\ at # "gone"
  /\ at' = "gone" /\ readfds' = {} /\ backlog' = <<>> /\ datagrams' = <<>>
  /\ client' = [c \in Everyone |-> IF client[c] # "waiting" THEN client[c]
                                  ELSE IF c \in TcpClients THEN "away" ELSE "lost"]

ServerStep == Select \/ ServeTcp \/ ServeUdp
Next ==
  \/ ServerStep \/ Interrupt
  \/ \E c \in TcpClients : Connect(c)
  \/ \E c \in UdpClients : SendDatagram(c) \/ LoseDatagram(c) \/ Restart(c)

--------------------------------------------------------------------------------
TypeOK ==
  /\ at \in {"select", "tcp", "udp", "gone"} /\ readfds \subseteq {"tcp", "udp"}
  /\ backlog \in Seq(TcpClients) /\ datagrams \in Seq(UdpClients)
  /\ Len(backlog) <= Backlog /\ Len(datagrams) <= Buffer
  /\ client \in [Everyone -> {"away", "waiting", "lost"}]

\* The one thread never waits for clients of one kind while clients of the other
\* may be there: accept() and recvfrom() are called only when they have something
\* to return, the second of them after the first has been served (lines 81-107);
\* with the types.
NeverBlocks ==
  /\ TypeOK
  /\ at = "tcp" => backlog # <<>>
  /\ at = "udp" => datagrams # <<>>
================================================================================
