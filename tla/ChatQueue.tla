------------------------------- MODULE ChatQueue --------------------------------
(***************************************************************************)
(* Queue_message/Message: a chat over two System V queues.  Clients write  *)
(* to the first; the server takes one message at a time, updates its list  *)
(* of clients (infCl) and its store of lines (storeMsg), and answers with  *)
(* a burst of messages on the second, where a message's type is the pid of *)
(* the client it is for.  A client reads in one thread and writes in       *)
(* another; the reading one keeps its own copy of the list.                *)
(*                                                                         *)
(* A line is known by its author and a number; its characters are left     *)
(* out (a replayed line may carry the end of a longer one before it).      *)
(***************************************************************************)
EXTENDS Integers, Sequences, FiniteSets, SequencesExt, Filters

CONSTANTS
  Clients,      \* the client processes, by pid
  SIZE_CLIENTS,
  QueueCap,     \* messages the second queue holds before msgsnd() blocks
  MaxLines      \* bound: lines typed in all

ASSUME SizeAssumption ==
  SIZE_CLIENTS \in Nat \ {0} /\ QueueCap \in Nat \ {0} /\ MaxLines \in Nat

VARIABLES
  up,      \* the first queue: messages to the server, oldest first
  down,    \* the second queue: client -> its messages, oldest first
  infCl,   \* the server's list of clients
  store,   \* the server's storeMsg
  out,     \* what the server's write_queue has still to send
  typed,   \* lines typed so far
  state,   \* client process: "off", "in", "leaving", "left", "dead"
  roster,  \* a client's own infCl
  shown    \* the lines of clients in a client's chat window

server == <<infCl, store, out>>
client == <<state, roster, shown>>
vars == <<up, down, server, typed, client>>

Line(c, n) == [from |-> c, text |-> n]
NoText == 0
Request(kind, c, n) == [kind |-> kind, line |-> Line(c, n)]
Msg(to, cat, line) == [to |-> to, cat |-> cat, line |-> line]

\* What is said of a client, and what a client says.
News == [from : Clients, text : {NoText}]
Lines == [from : Clients, text : 1 .. MaxLines]

Requests ==
  [kind : {"NEW_CLIENT", "CLIENT_LEAVE"}, line : News]
    \cup [kind : {"MESSAGE_FROM_CLIENT"}, line : Lines]

MessagesTo(S) ==
  [to : S, cat : {"NEW_CLIENT", "MESSAGE_FROM_SERVER", "CLIENT_LEAVE"}, line : News]
    \cup [to : S, cat : {"MESSAGE_FROM_CLIENT"}, line : Lines]

Init ==
  /\ up = <<>>
  /\ down = [c \in Clients |-> <<>>]
  /\ infCl = <<>> /\ store = <<>> /\ out = <<>>
  /\ typed = 0
  /\ state = [c \in Clients |-> "off"]
  /\ roster = [c \in Clients |-> <<>>]
  /\ shown = [c \in Clients |-> <<>>]

\* The entry of c goes and those after it move up.
Drop(l, c) == Keep(l, Clients \ {c})

Listed == ToSet(infCl)

--------------------------------------------------------------------------------
(* The writing thread of a client *)

Join(c) ==
  /\ state[c] = "off"
  /\ state' = [state EXCEPT ![c] = "in"]
  /\ up' = Append(up, Request("NEW_CLIENT", c, NoText))
  /\ UNCHANGED <<down, server, typed, roster, shown>>

Say(c) ==
  /\ state[c] = "in" /\ typed < MaxLines
  /\ typed' = typed + 1
  /\ up' = Append(up, Request("MESSAGE_FROM_CLIENT", c, typed'))
  /\ UNCHANGED <<down, server, client>>

\* "exit".  A client the server did not list is taken not to type it: its
\* leave would shift the server's list from the entry before the first.
Leave(c) ==
  /\ state[c] = "in"
  /\ c \in Listed
  /\ state' = [state EXCEPT ![c] = "leaving"]
  /\ up' = Append(up, Request("CLIENT_LEAVE", c, NoText))
  /\ UNCHANGED <<down, server, typed, roster, shown>>

\* main() cancels the reading thread.
Cancel(c) ==
  /\ state[c] = "leaving"
  /\ state' = [state EXCEPT ![c] = "left"]
  /\ UNCHANGED <<up, down, server, typed, roster, shown>>

\* A client is killed: nobody is told.
Die(c) ==
  /\ state[c] \in {"in", "leaving"}
  /\ state' = [state EXCEPT ![c] = "dead"]
  /\ UNCHANGED <<up, down, server, typed, roster, shown>>

--------------------------------------------------------------------------------
(* The reading thread of a client *)

Received(c, cats) ==
  /\ state[c] \in {"in", "leaving"}
  /\ down[c] # <<>> /\ Head(down[c]).cat \in cats
  /\ down' = [down EXCEPT ![c] = Tail(@)]

ReadNew(c) ==
  /\ Received(c, {"NEW_CLIENT"})
  /\ roster' = [roster EXCEPT ![c] = Append(@, Head(down[c]).line.from)]
  /\ UNCHANGED <<up, server, typed, state, shown>>

\* An entry too many is written past the client's array: the client may die.
ReadNewOverrun(c) ==
  /\ Received(c, {"NEW_CLIENT"})
  /\ Len(roster[c]) >= SIZE_CLIENTS
  /\ state' = [state EXCEPT ![c] = "dead"]
  /\ UNCHANGED <<up, server, typed, roster, shown>>

ReadLine(c) ==
  /\ Received(c, {"MESSAGE_FROM_CLIENT"})
  /\ shown' = [shown EXCEPT ![c] = Append(@, Head(down[c]).line)]
  /\ UNCHANGED <<up, server, typed, state, roster>>

\* A line of the server is shown too; only those of clients are recorded.
ReadServerLine(c) ==
  /\ Received(c, {"MESSAGE_FROM_SERVER"})
  /\ UNCHANGED <<up, server, typed, client>>

\* Mistake: the list is not shortened.
ReadLeaveKept(c) ==
  /\ Received(c, {"CLIENT_LEAVE"})
  /\ UNCHANGED <<up, server, typed, client>>

ReadLeave(c) ==
  /\ Received(c, {"CLIENT_LEAVE"})
  /\ roster' = [roster EXCEPT ![c] = Drop(@, Head(down[c]).line.from)]
  /\ UNCHANGED <<up, server, typed, state, shown>>

--------------------------------------------------------------------------------
(* The server *)

\* One message to every client of the list l.
ToAll(l, cat, line) == [i \in DOMAIN l |-> Msg(l[i], cat, line)]

\* Mistake: the newcomer is left out even when it is alone.
AnnounceOthers(l, c) ==
  Keep(ToAll(l, "NEW_CLIENT", Line(c, NoText)), MessagesTo(Clients \ {c}))

\* Everybody but the newcomer hears of it, or it alone if there is nobody else.
Announce(l, c) ==
  LET all == ToAll(l, "NEW_CLIENT", Line(c, NoText)) IN
  IF Len(l) > 1 THEN Keep(all, MessagesTo(Clients \ {c})) ELSE all

\* The newcomer is sent the list ...
SendRoster(l, c) ==
  IF Len(l) > 1 THEN [i \in DOMAIN l |-> Msg(c, "NEW_CLIENT", Line(l[i], NoText))]
  ELSE <<>>

\* Mistake: the replay starts at the second line.
ReplayFromSecond(c) ==
  [i \in 1 .. Len(store) - 1 |-> Msg(c, "MESSAGE_FROM_CLIENT", store[i + 1])]

\* ... and every line of the store.
Replay(c) == [i \in DOMAIN store |-> Msg(c, "MESSAGE_FROM_CLIENT", store[i])]

\* The server takes the next message once it has sent all of the last burst.
Taken(kind) ==
  /\ out = <<>>
  /\ up # <<>> /\ Head(up).kind = kind
  /\ up' = Tail(up)

Full == Len(infCl) >= SIZE_CLIENTS

\* A client that finds the list full is not listed, but announced and sent
\* list and lines all the same.
ServeNew ==
  /\ Taken("NEW_CLIENT")
  /\ LET c == Head(up).line.from IN
       /\ infCl' = IF Full THEN infCl ELSE Append(infCl, c)
       /\ out' = Announce(infCl', c) \o SendRoster(infCl', c) \o Replay(c)
  /\ UNCHANGED <<down, store, typed, client>>

\* Mistake: the loop over the list starts at the second client.
ServeMessageShort ==
  /\ Taken("MESSAGE_FROM_CLIENT") /\ infCl # <<>>
  /\ store' = Append(store, Head(up).line)
  /\ out' = Tail(ToAll(infCl, "MESSAGE_FROM_CLIENT", Head(up).line))
  /\ UNCHANGED <<down, infCl, typed, client>>

ServeMessage ==
  /\ Taken("MESSAGE_FROM_CLIENT")
  /\ store' = Append(store, Head(up).line)
  /\ out' = ToAll(infCl, "MESSAGE_FROM_CLIENT", Head(up).line)
  /\ UNCHANGED <<down, infCl, typed, client>>

\* Those who stay are sent a line of the server, then the leave itself.
ServeLeave ==
  /\ Taken("CLIENT_LEAVE")
  /\ infCl' = Drop(infCl, Head(up).line.from)
  /\ out' = ToAll(infCl', "MESSAGE_FROM_SERVER", Head(up).line)
              \o ToAll(infCl', "CLIENT_LEAVE", Head(up).line)
  /\ UNCHANGED <<down, store, typed, client>>

Held == FoldFunction(LAMBDA q, n : Len(q) + n, 0, down)

\* msgsnd() blocks the server while the second queue is full.
ServerSend ==
  /\ out # <<>>
  /\ Held < QueueCap
  /\ down' = [down EXCEPT ![Head(out).to] = Append(@, Head(out))]
  /\ out' = Tail(out)
  /\ UNCHANGED <<up, infCl, store, typed, client>>

--------------------------------------------------------------------------------
ServerStep == ServeNew \/ ServeMessage \/ ServeLeave \/ ServerSend

ReadStep(c) ==
  ReadNew(c) \/ ReadNewOverrun(c) \/ ReadLine(c) \/ ReadServerLine(c) \/ ReadLeave(c)

Next ==
  \/ ServerStep
  \/ \E c \in Clients :
       ReadStep(c) \/ Join(c) \/ Say(c) \/ Leave(c) \/ Cancel(c) \/ Die(c)

Spec == Init /\ [][Next]_vars

(* Clients that stay: what is owed to a client that is gone fills the queue *)
(* and stops the server for ever, so nothing can be promised with others.   *)
StayNext ==
  \/ ServerStep
  \/ \E c \in Clients : ReadStep(c) \/ Join(c) \/ Say(c)

StaySpec ==
  /\ Init /\ [][StayNext]_vars
  /\ WF_vars(ServerStep) /\ \A c \in Clients : WF_vars(ReadStep(c))

--------------------------------------------------------------------------------
\* Every variable keeps its type, and the server's list never outgrows the
\* SIZE_CLIENTS entries of its array (server.c:63).
TypeOK ==
  /\ up \in Seq(Requests)
  /\ down \in [Clients -> Seq(MessagesTo(Clients))]
  /\ infCl \in Seq(Clients) /\ Len(infCl) <= SIZE_CLIENTS
  /\ store \in Seq(Lines)
  /\ out \in Seq(MessagesTo(Clients))
  /\ typed \in 0 .. MaxLines
  /\ state \in [Clients -> {"off", "in", "leaving", "left", "dead"}]
  /\ roster \in [Clients -> Seq(Clients)]
  /\ shown \in [Clients -> Seq(Lines)]

\* What the server has said to c and c has not read yet, oldest first.
OnTheWay(c) == down[c] \o Keep(out, MessagesTo({c}))

\* The lines among the messages of q.
Saying == {m \in MessagesTo(Clients) : m.cat = "MESSAGE_FROM_CLIENT"}
LinesOf(q) == LET said == Keep(q, Saying) IN [i \in DOMAIN said |-> said[i].line]

\* A listed client's window, with what is on its way to it, is the server's
\* store: replay and broadcast fit together without a gap, a repetition or a
\* swap, whatever the client missed before it joined and however far behind
\* it is (server.c:84-91, 135-151); with the types.
ChatIsStore ==
  /\ TypeOK
  /\ \A c \in Listed : shown[c] \o LinesOf(OnTheWay(c)) = store

\* The list l of a client after it has read the message m, and after it has read
\* the first n messages of q.
After(l, m) ==
  IF m.cat = "NEW_CLIENT" THEN Append(l, m.line.from)
  ELSE IF m.cat = "CLIENT_LEAVE" THEN Drop(l, m.line.from) ELSE l

UpdatedBy(l, q) ==
  LET list[n \in 0 .. Len(q)] == IF n = 0 THEN l ELSE After(list[n - 1], q[n]) IN list

\* A client the server has dealt with and not listed (or one that was killed
\* while it left, which looks the same).
TurnedAway(c) ==
  /\ state[c] \in {"in", "dead"} /\ c \notin Listed
  /\ \A i \in DOMAIN up : up[i] # Request("NEW_CLIENT", c, NoText)

\* As long as the server has turned nobody away, every listed client's own
\* list is, once it has read what is on its way, the server's: the same
\* clients at the same places (server.c:112-131, 153-160; client.c:39-60).
RosterAgrees ==
  (\A c \in Clients : ~TurnedAway(c))
    => \A c \in Listed : LET q == OnTheWay(c) IN UpdatedBy(roster[c], q)[Len(q)] = infCl

Room == INSTANCE ChatRoom
  WITH Places <- SIZE_CLIENTS, said <- store, present <- Listed, seen <- shown

\* The two queues and the replay implement one chat room: even a client that
\* was turned away, that leaves or dies has seen the lines from the first on,
\* in the order of the store.
ImplementsRoom == Room!Spec

\* If nobody leaves or dies (and nobody is turned away, which could kill a
\* client), every line in the store comes to be shown to every listed client,
\* through a second queue that is often full.
EverythingShown ==
  \A c \in Clients, n \in 1 .. MaxLines :
    (c \in Listed /\ Len(store) >= n) ~> Len(shown[c]) >= n
================================================================================
