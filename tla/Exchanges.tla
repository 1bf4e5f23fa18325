-------------------------------- MODULE Exchanges -------------------------------
(***************************************************************************)
(* Sockets/Task_1 and Sockets/Task_4: a client sends one request, a server *)
(* takes one, answers it and ends, over four kinds of sockets or with a    *)
(* client that builds its packets itself ("raw").  Only the local stream   *)
(* server looks at the result of bind(); connect()'s is never looked at.   *)
(* A local name stays behind when its owner is killed.  The raw clients    *)
(* share port 7777, and their sockets see all UDP packets of the host.     *)
(***************************************************************************)
EXTENDS Integers, Sequences

CONSTANTS
  Clients,
  MaxRuns,  \* bound: how often the server is started
  MaxKills, \* bound: processes killed
  MaxLost   \* bound: packets lost between the hosts of the raw pair

Streams == {"inet_stream", "local_stream"}
Locals == {"local_dgram", "local_stream"}
Kinds == Streams \cup Locals \cup {"inet_dgram", "raw"}

\* No client has the name of a state of "socket2".
ExchangeAssumption ==
  /\ MaxRuns \in Nat /\ MaxKills \in Nat /\ MaxLost \in Nat
  /\ {"free", "stale"} \cap Clients = {}

VARIABLES
  kind,   \* which pair the user has chosen, "none" before
  socket, \* the file "socket": "free", "live", "stale"
  socket2, \* the file "socket2": "free", a client that is bound to it, "stale"
  server, \* "off", "wait", "answer", "close", "unlink"
  bound,  \* the server's socket has its address
  queue,  \* the requests, or connections, at the server's socket
  took,   \* the client whose request it took last
  at,     \* at[c]: "off", "send", "receive", "close", "gone"
  named,  \* the clients whose bind() succeeded
  box,    \* box[c]: what has come to c's socket
  shown,  \* shown[c]: what c has printed, "nothing" after the end of a connection
  heard,  \* the clients whose requests the server has printed
  runs, kills, lost

vars == <<kind, socket, socket2, server, bound, queue, took, at, named, box,
          shown, heard, runs, kills, lost>>

Init ==
  /\ kind = "none" /\ socket = "free" /\ socket2 = "free"
  /\ server = "off" /\ bound = FALSE /\ queue = <<>> /\ took = "nobody"
  /\ at = [c \in Clients |-> "off"] /\ named = {}
  /\ box = [c \in Clients |-> <<>>] /\ shown = [c \in Clients |-> "none"]
  /\ heard = {} /\ runs = 0 /\ kills = 0 /\ lost = 0

Choose(k) ==
  /\ kind = "none" /\ kind' = k
  /\ UNCHANGED <<socket, socket2, server, bound, queue, took, at, named, box,
                 shown, heard, runs, kills, lost>>

--------------------------------------------------------------------------------
(* The server *)

\* With the name taken, the local stream server ends; the local datagram server
\* goes on and waits at a socket without a name.
StartServer ==
  /\ kind # "none" /\ server = "off" /\ runs < MaxRuns
  /\ runs' = runs + 1
  /\ bound' = (kind \in Locals => socket = "free")
  /\ socket' = IF kind \in Locals /\ socket = "free" THEN "live" ELSE socket
  /\ server' = IF kind = "local_stream" /\ ~bound' THEN "off" ELSE "wait"
  /\ UNCHANGED <<kind, socket2, queue, took, at, named, box, shown, heard, kills, lost>>

Take ==
  /\ server = "wait" /\ queue # <<>>
  /\ took' = Head(queue) /\ queue' = Tail(queue)
  /\ heard' = heard \cup {took'}
  /\ server' = "answer"
  /\ UNCHANGED <<kind, socket, socket2, bound, at, named, box, shown, runs, kills, lost>>

Running(c) == at[c] \in {"send", "receive"}

\* Whom the answer reaches: a client without a name cannot be answered; every raw
\* client's socket gets what comes for port 7777.
Addressees ==
  {c \in Clients :
     /\ Running(c)
     /\ kind # "raw" => c = took
     /\ kind = "local_dgram" => socket2 = c}

Put(C, what) == [c \in Clients |-> IF c \in C THEN Append(box[c], what) ELSE box[c]]

\* A write() to a local stream whose other end is closed ends the writer by SIGPIPE.
Broken == kind = "local_stream" /\ ~Running(took)

AnswerRequest ==
  /\ server = "answer" /\ ~Broken
  /\ box' = Put(Addressees, "answer")
  /\ server' = "close"
  /\ UNCHANGED <<kind, socket, socket2, bound, queue, took, at, named, shown, heard,
                 runs, kills, lost>>

\* The clients whose connections end with the server: its own and the waiting ones.
Hanging ==
  IF kind \notin Streams THEN {}
  ELSE {c \in Clients : at[c] = "receive" /\ (c = took \/ \E i \in DOMAIN queue : queue[i] = c)}

\* close() of its sockets: what is still queued there is gone.
CloseServer ==
  /\ server = "close"
  /\ box' = Put(Hanging, "nothing")
  /\ queue' = <<>> /\ took' = "nobody" /\ bound' = FALSE
  /\ server' = IF kind \in Locals THEN "unlink" ELSE "off"
  /\ UNCHANGED <<kind, socket, socket2, at, named, shown, heard, runs, kills, lost>>

Unlink ==
  /\ server = "unlink"
  /\ socket' = "free"
  /\ server' = "off"
  /\ UNCHANGED <<kind, socket2, bound, queue, took, at, named, box, shown, heard,
                 runs, kills, lost>>

\* The server is ended by a signal: its name stays behind.
ServerDies ==
  /\ socket' = IF socket = "live" THEN "stale" ELSE socket
  /\ server' = "off"
  /\ box' = Put(Hanging, "nothing")
  /\ queue' = <<>> /\ took' = "nobody" /\ bound' = FALSE
  /\ UNCHANGED <<kind, socket2, at, named, shown, heard, runs, lost>>

AnswerBroken == server = "answer" /\ Broken /\ ServerDies /\ UNCHANGED kills

KillServer == server # "off" /\ kills < MaxKills /\ kills' = kills + 1 /\ ServerDies

--------------------------------------------------------------------------------
(* The clients *)

StartClient(c) ==
  /\ kind # "none" /\ at[c] = "off"
  /\ at' = [at EXCEPT ![c] = "send"]
  /\ IF kind = "local_dgram" /\ socket2 = "free"
       THEN socket2' = c /\ named' = named \cup {c}
       ELSE UNCHANGED <<socket2, named>>
  /\ UNCHANGED <<kind, socket, server, bound, queue, took, box, shown, heard,
                 runs, kills, lost>>

\* A local name must lead to a living server; an address has to have one.
Reachable == bound /\ server \in {"wait", "answer", "close"} /\ (kind \in Locals => socket = "live")

\* A datagram nobody is there for is lost, and the client waits all the same.  A
\* stream client that could not connect is ended by SIGPIPE at its send(), or, at a
\* local socket, prints nothing.  A raw client's own request comes to every raw socket.
Send(c) ==
  /\ at[c] = "send"
  /\ queue' = IF Reachable THEN Append(queue, c) ELSE queue
  /\ at' = [at EXCEPT ![c] =
              CASE Reachable \/ kind \notin Streams -> "receive"
                [] kind = "inet_stream" /\ ~Reachable -> "gone"
                [] kind = "local_stream" /\ ~Reachable -> "close"]
  /\ shown' = [shown EXCEPT ![c] = IF kind = "local_stream" /\ ~Reachable THEN "nothing" ELSE @]
  /\ box' = IF kind = "raw" THEN Put({d \in Clients : Running(d)}, "request") ELSE box
  /\ UNCHANGED <<kind, socket, socket2, server, bound, took, named, heard, runs, kills, lost>>

\* The raw clients go on until a packet for port 7777 comes.
Wanted(packet) == packet # "request"

Receive(c) ==
  /\ at[c] = "receive" /\ box[c] # <<>>
  /\ box' = [box EXCEPT ![c] = Tail(@)]
  /\ IF Wanted(Head(box[c]))
       THEN /\ shown' = [shown EXCEPT ![c] = Head(box[c])]
            /\ at' = [at EXCEPT ![c] = "close"]
       ELSE UNCHANGED <<shown, at>>
  /\ UNCHANGED <<kind, socket, socket2, server, bound, queue, took, named, heard,
                 runs, kills, lost>>

\* The local datagram client unlinks "socket2".
CloseClient(c) ==
  /\ at[c] = "close"
  /\ at' = [at EXCEPT ![c] = "gone"]
  /\ socket2' = IF kind = "local_dgram" THEN "free" ELSE socket2
  /\ UNCHANGED <<kind, socket, server, bound, queue, took, named, box, shown, heard,
                 runs, kills, lost>>

KillClient(c) ==
  /\ at[c] \in {"send", "receive", "close"} /\ kills < MaxKills
  /\ kills' = kills + 1
  /\ at' = [at EXCEPT ![c] = "gone"]
  /\ socket2' = IF socket2 = c THEN "stale" ELSE socket2
  /\ UNCHANGED <<kind, socket, server, bound, queue, took, named, box, shown, heard,
                 runs, lost>>

(* The network between the raw pair loses a request, or an answer. *)
Lose ==
  /\ kind = "raw" /\ lost < MaxLost
  /\ lost' = lost + 1
  /\ \/ queue # <<>> /\ queue' = Tail(queue) /\ UNCHANGED box
     \/ \E c \in Clients :
          /\ box[c] # <<>> /\ Head(box[c]) = "answer"
          /\ box' = [box EXCEPT ![c] = Tail(@)] /\ UNCHANGED queue
  /\ UNCHANGED <<kind, socket, socket2, server, bound, took, at, named, shown, heard,
                 runs, kills>>

ServerStep == Take \/ AnswerRequest \/ AnswerBroken \/ CloseServer \/ Unlink
ClientStep(c) == Send(c) \/ Receive(c) \/ CloseClient(c)
Next ==
  \/ \E k \in Kinds : Choose(k)
  \/ StartServer \/ ServerStep \/ KillServer \/ Lose
  \/ \E c \in Clients : StartClient(c) \/ ClientStep(c) \/ KillClient(c)

--------------------------------------------------------------------------------
TypeOK ==
  /\ kind \in Kinds \cup {"none"}
  /\ socket \in {"free", "live", "stale"} /\ socket2 \in Clients \cup {"free", "stale"}
  /\ server \in {"off", "wait", "answer", "close", "unlink"} /\ bound \in BOOLEAN
  /\ queue \in Seq(Clients) /\ took \in Clients \cup {"nobody"}
  /\ at \in [Clients -> {"off", "send", "receive", "close", "gone"}]
  /\ named \subseteq Clients /\ heard \subseteq Clients
  /\ box \in [Clients -> Seq({"answer", "request", "nothing"})]
  /\ shown \in [Clients -> {"none", "answer", "nothing"}]
  /\ runs \in 0 .. MaxRuns /\ kills \in 0 .. MaxKills /\ lost \in 0 .. MaxLost

\* What a client prints is the server's answer to its own request, or nothing when
\* its connection ended; a raw client never prints its own request, but may print
\* the answer to another's, which has its port.  No name is left behind unless its
\* owner was killed (Task_1/*/server.c, client.c; Task_4/client_1.c:58-82,
\* client_3.c:108-147); with the types.
AnsweredByServer ==
  /\ TypeOK
  /\ \A c \in Clients :
       /\ shown[c] = "answer" => IF kind = "raw" THEN heard # {} ELSE c \in heard
       /\ shown[c] = "nothing" => kind \in Streams /\ (c \notin heard \/ kills > 0)
  /\ kills = 0 => (socket = "free" <=> server = "off" \/ kind \notin Locals)
  /\ kills = 0 => socket2 \in {c \in Clients : Running(c) \/ at[c] = "close"} \cup {"free"}

\* Who has connected does not wait for ever, whatever becomes of the server; a
\* datagram client that was heard gets its answer unless its name was taken or
\* somebody is killed or a packet lost.
ExchangeEnds ==
  \A c \in Clients :
    (at[c] = "receive" /\ (kind \notin Streams => c \in heard)
       /\ (kind = "local_dgram" => c \in named))
      ~> (at[c] = "gone" \/ (kind \notin Streams /\ kills + lost > 0))
================================================================================
