-------------------------------- MODULE ChatShm ---------------------------------
(***************************************************************************)
(* Shared_Memory/Message: a chat over one shared segment.  It has a slot   *)
(* for requests (under mutex1) and one for what the server says (under     *)
(* mutex2).  The server posts sem_client once for every listed client, and *)
(* collects as many posts of sem_server2 before it writes its slot again.  *)
(* A token is a post of one of the two on its way round: sem_server2, the  *)
(* server's hand, sem_client, a reader's hand, sem_server2.                *)
(*                                                                         *)
(* Nothing blocks while mutex1 is held, so its sections are one step each; *)
(* a reader calls write() with mutex2 held, where it can be cancelled.     *)
(* Not modelled: the window of users, which is drawn from the segment      *)
(* without a lock, and clients that are killed.                            *)
(***************************************************************************)
EXTENDS Integers, Sequences, FiniteSets, SequencesExt

CONSTANTS
  Clients,      \* the client processes, by pid
  SIZE_CLIENTS,
  MaxLines,     \* bound: lines typed in all
  MaxBelow      \* bound: how far below zero the size of the list is followed

ASSUME ShmAssumption ==
  IsFiniteSet(Clients) /\ SIZE_CLIENTS \in Nat \ {0} /\ {MaxLines, MaxBelow} \subseteq Nat

VARIABLES
  request,     \* the slot of the clients
  unread,      \* whether the server has still to copy it
  muddled,     \* whether a request was ever written over an unread one
  sem_server,  \* requests announced
  mutex1,      \* free?
  message,     \* the slot of the server
  sem_client, sem_server2,
  mutex2,      \* free?
  infCl, size, \* the list of clients and shared_sizeInfcl
  store,       \* storeMsg
  spc,         \* server: "rest", "copy", "handle", "gather"
  local,       \* its local_msg
  out,         \* what it has still to say for this request
  hand,        \* tokens it has collected for the next message
  typed,       \* lines typed so far
  wpc,         \* writing thread: "off", "new", "token", "post", "idle", "bye", "left"
  rpc,         \* reading thread: "wait", "taken", "inside", "show"; "off", "lost"
  heard,       \* its local_msg
  shown        \* the last live line in each client's window

slot1 == <<request, unread, muddled, mutex1>>
slot2 == <<message, mutex2>>
list == <<infCl, size>>
server == <<spc, local, out, hand>>
reader == <<rpc, heard, shown>>
vars == <<slot1, sem_server, slot2, sem_client, sem_server2, list, store,
          server, typed, wpc, reader>>

NoText == 0
Request(cat, c, n) == [cat |-> cat, from |-> c, text |-> n]
Message(cat, n) == [cat |-> cat, text |-> n]
Nothing == [cat |-> "none"]

Init ==
  /\ request = Nothing /\ unread = FALSE /\ muddled = FALSE
  /\ mutex1 = TRUE /\ mutex2 = TRUE
  /\ message = Nothing
  /\ sem_server = 0 /\ sem_client = 0 /\ sem_server2 = 0
  /\ infCl = <<>> /\ size = 0 /\ store = <<>>
  /\ spc = "rest" /\ local = Nothing /\ out = <<>> /\ hand = 0
  /\ typed = 0
  /\ wpc = [c \in Clients |-> "off"]
  /\ rpc = [c \in Clients |-> "off"]
  /\ heard = [c \in Clients |-> Nothing]
  /\ shown = [c \in Clients |-> 0]

--------------------------------------------------------------------------------
(* The writing thread of a client *)

Start(c) ==
  /\ wpc[c] = "off"
  /\ wpc' = [wpc EXCEPT ![c] = "new"]
  /\ rpc' = [rpc EXCEPT ![c] = "wait"]
  /\ UNCHANGED <<slot1, sem_server, slot2, sem_client, sem_server2, list, store,
                 server, typed, heard, shown>>

\* The slot is written whether or not the server has read it.
Write(c, r) ==
  /\ mutex1
  /\ request' = r
  /\ muddled' = (muddled \/ unread)
  /\ unread' = TRUE
  /\ UNCHANGED <<mutex1, sem_server, slot2, sem_client, sem_server2, list, store,
                 server, reader>>

Join(c) ==
  /\ wpc[c] = "new"
  /\ Write(c, Request("NEW_CLIENT", c, NoText))
  /\ wpc' = [wpc EXCEPT ![c] = "token"]
  /\ UNCHANGED typed

\* Mistake: the newcomer brings no token.
NoToken(c) ==
  /\ wpc[c] = "token"
  /\ wpc' = [wpc EXCEPT ![c] = "post"]
  /\ UNCHANGED <<slot1, sem_server, slot2, sem_client, sem_server2, list, store,
                 server, typed, reader>>

\* The newcomer brings its token before it announces itself.
Token(c) ==
  /\ wpc[c] = "token"
  /\ sem_server2' = sem_server2 + 1
  /\ wpc' = [wpc EXCEPT ![c] = "post"]
  /\ UNCHANGED <<slot1, sem_server, slot2, sem_client, list, store,
                 server, typed, reader>>

Say(c) ==
  /\ wpc[c] = "idle" /\ typed < MaxLines
  /\ typed' = typed + 1
  /\ Write(c, Request("MESSAGE_FROM_CLIENT", c, typed'))
  /\ wpc' = [wpc EXCEPT ![c] = "post"]

Leave(c) ==
  /\ wpc[c] = "idle"
  /\ Write(c, Request("CLIENT_LEAVE", c, NoText))
  /\ wpc' = [wpc EXCEPT ![c] = "bye"]
  /\ UNCHANGED typed

Post(c) ==
  /\ wpc[c] \in {"post", "bye"}
  /\ sem_server' = sem_server + 1
  /\ wpc' = [wpc EXCEPT ![c] = IF @ = "bye" THEN "left" ELSE "idle"]
  /\ UNCHANGED <<slot1, slot2, sem_client, sem_server2, list, store,
                 server, typed, reader>>

\* Whether the message is drawn in the window, where the thread can be cancelled.
Drawn(c) == heard[c].cat # "none" /\ (heard[c].cat = "LOADING_MESSAGE" => heard[c].to = c)

\* main() cancels the reading thread, and what it held is never given back.
Cancel(c) ==
  /\ wpc[c] = "left"
  /\ \/ rpc[c] = "wait" /\ rpc' = [rpc EXCEPT ![c] = "off"]
     \/ /\ rpc[c] \in {"taken", "inside"} \/ (rpc[c] = "show" /\ Drawn(c))
        /\ rpc' = [rpc EXCEPT ![c] = "lost"]
  /\ UNCHANGED <<slot1, sem_server, slot2, sem_client, sem_server2, list, store,
                 server, typed, wpc, heard, shown>>

--------------------------------------------------------------------------------
(* The reading thread of a client *)

\* Any reader takes any token, also one that has just read.
TakeToken(c) ==
  /\ rpc[c] = "wait" /\ sem_client > 0
  /\ sem_client' = sem_client - 1
  /\ rpc' = [rpc EXCEPT ![c] = "taken"]
  /\ UNCHANGED <<slot1, sem_server, slot2, sem_server2, list, store,
                 server, typed, wpc, heard, shown>>

ReadSlot(c) ==
  /\ rpc[c] = "taken" /\ mutex2
  /\ mutex2' = FALSE
  /\ heard' = [heard EXCEPT ![c] = message]
  /\ rpc' = [rpc EXCEPT ![c] = "inside"]
  /\ UNCHANGED <<slot1, sem_server, message, sem_client, sem_server2, list, store,
                 server, typed, wpc, shown>>

Unlock(c) ==
  /\ rpc[c] = "inside"
  /\ mutex2' = TRUE
  /\ rpc' = [rpc EXCEPT ![c] = "show"]
  /\ UNCHANGED <<slot1, sem_server, message, sem_client, sem_server2, list, store,
                 server, typed, wpc, heard, shown>>

\* Mistake: the token comes back only for what is drawn.
ShowDrawn(c) ==
  /\ rpc[c] = "show"
  /\ shown' = [shown EXCEPT ![c] = IF heard[c].cat = "MESSAGE_FROM_CLIENT"
                                   THEN heard[c].text ELSE @]
  /\ rpc' = [rpc EXCEPT ![c] = "wait"]
  /\ sem_server2' = IF Drawn(c) THEN sem_server2 + 1 ELSE sem_server2
  /\ heard' = [heard EXCEPT ![c] = Nothing]
  /\ UNCHANGED <<slot1, sem_server, slot2, sem_client, list, store,
                 server, typed, wpc>>

\* What is said live is recorded, and the token goes back.
Show(c) ==
  /\ rpc[c] = "show"
  /\ shown' = [shown EXCEPT ![c] = IF heard[c].cat = "MESSAGE_FROM_CLIENT"
                                   THEN heard[c].text ELSE @]
  /\ rpc' = [rpc EXCEPT ![c] = "wait"]
  /\ sem_server2' = sem_server2 + 1
  /\ heard' = [heard EXCEPT ![c] = Nothing]
  /\ UNCHANGED <<slot1, sem_server, slot2, sem_client, list, store,
                 server, typed, wpc>>

--------------------------------------------------------------------------------
(* The server *)

TakeRequest ==
  /\ spc = "rest" /\ sem_server > 0
  /\ sem_server' = sem_server - 1
  /\ spc' = "copy"
  /\ UNCHANGED <<slot1, slot2, sem_client, sem_server2, list, store,
                 local, out, hand, typed, wpc, reader>>

\* Whatever is in the slot by now, for every request announced.
Copy ==
  /\ spc = "copy" /\ mutex1
  /\ local' = request
  /\ unread' = FALSE
  /\ spc' = "handle"
  /\ UNCHANGED <<request, muddled, mutex1, sem_server, slot2, sem_client, sem_server2,
                 list, store, out, hand, typed, wpc, reader>>

Handling(cat) == spc = "handle" /\ local.cat = cat /\ spc' = "gather"

\* Mistake: the replay keeps the category of a live line.
ReplayAsLive ==
  [i \in DOMAIN store |-> Message("MESSAGE_FROM_CLIENT", i)]

\* The store goes to the newcomer line by line.  A line is known by its place.
Replay ==
  [i \in DOMAIN store |-> [cat |-> "LOADING_MESSAGE", text |-> i, to |-> local.from]]

\* The return for a full list keeps mutex1.
HandleNewFull ==
  /\ Handling("NEW_CLIENT") /\ mutex1
  /\ size >= SIZE_CLIENTS
  /\ mutex1' = FALSE
  /\ out' = <<Message(local.cat, NoText)>> \o Replay
  /\ UNCHANGED <<request, unread, muddled, sem_server, slot2, sem_client, sem_server2,
                 list, store, local, hand, typed, wpc, reader>>

\* With a negative size the entry falls on the server's slot.
HandleNew ==
  /\ Handling("NEW_CLIENT") /\ mutex1
  /\ size < SIZE_CLIENTS
  /\ size' = size + 1
  /\ IF size >= 0 THEN infCl' = Append(infCl, local.from) /\ UNCHANGED message
     ELSE message' = Nothing /\ UNCHANGED infCl
  /\ out' = <<Message(local.cat, NoText)>> \o Replay
  /\ UNCHANGED <<slot1, sem_server, mutex2, sem_client, sem_server2,
                 store, local, hand, typed, wpc, reader>>

HandleMessage ==
  /\ Handling("MESSAGE_FROM_CLIENT")
  /\ store' = Append(store, local.text)
  /\ out' = <<Message(local.cat, Len(store'))>>
  /\ UNCHANGED <<slot1, sem_server, slot2, sem_client, sem_server2,
                 list, local, hand, typed, wpc, reader>>

Farewell == <<Message("MESSAGE_FROM_SERVER", NoText), Message(local.cat, NoText)>>

\* Mistake: the list keeps whoever leaves from its end.
HandleLeaveLast ==
  /\ Handling("CLIENT_LEAVE") /\ mutex1
  /\ local.from \in ToSet(infCl)
  /\ infCl' = IF Last(infCl) = local.from THEN infCl
              ELSE RemoveAt(infCl, SelectInSeq(infCl, LAMBDA c : c = local.from))
  /\ size' = Len(infCl')
  /\ out' = Farewell
  /\ UNCHANGED <<slot1, sem_server, slot2, sem_client, sem_server2,
                 store, local, hand, typed, wpc, reader>>

\* The first entry of that pid goes and those after it move up.
HandleLeave ==
  /\ Handling("CLIENT_LEAVE") /\ mutex1
  /\ local.from \in ToSet(infCl)
  /\ infCl' = RemoveAt(infCl, SelectInSeq(infCl, LAMBDA c : c = local.from))
  /\ size' = size - 1
  /\ out' = Farewell
  /\ UNCHANGED <<slot1, sem_server, slot2, sem_client, sem_server2,
                 store, local, hand, typed, wpc, reader>>

\* The leave of somebody not listed: the shift starts before the first entry,
\* which falls on the server's slot.
HandleStrayLeave ==
  /\ Handling("CLIENT_LEAVE") /\ mutex1
  /\ local.from \notin ToSet(infCl)
  /\ size > -MaxBelow
  /\ size' = size - 1
  /\ IF infCl # <<>> THEN infCl' = Tail(infCl) /\ message' = Nothing
     ELSE UNCHANGED <<infCl, message>>
  /\ out' = Farewell
  /\ UNCHANGED <<slot1, sem_server, mutex2, sem_client, sem_server2,
                 store, local, hand, typed, wpc, reader>>

\* A token for each client listed ...
Gather ==
  /\ spc = "gather" /\ hand < size /\ sem_server2 > 0
  /\ sem_server2' = sem_server2 - 1
  /\ hand' = hand + 1
  /\ UNCHANGED <<slot1, sem_server, slot2, sem_client, list, store,
                 spc, local, out, typed, wpc, reader>>

\* Mistake: one token too few is waited for.
PutEarly ==
  /\ spc = "gather" /\ hand >= size - 1 /\ mutex2
  /\ message' = Head(out)
  /\ sem_client' = sem_client + hand
  /\ hand' = 0
  /\ out' = Tail(out)
  /\ IF Tail(out) = <<>> THEN spc' = "rest" /\ local' = Nothing
     ELSE UNCHANGED <<spc, local>>
  /\ UNCHANGED <<slot1, sem_server, mutex2, sem_server2, list, store,
                 typed, wpc, reader>>

\* ... then the message, and a token back for each.
Put ==
  /\ spc = "gather" /\ hand >= size /\ mutex2
  /\ message' = Head(out)
  /\ sem_client' = sem_client + hand
  /\ hand' = 0
  /\ out' = Tail(out)
  /\ IF Tail(out) = <<>> THEN spc' = "rest" /\ local' = Nothing
     ELSE UNCHANGED <<spc, local>>
  /\ UNCHANGED <<slot1, sem_server, mutex2, sem_server2, list, store,
                 typed, wpc, reader>>

--------------------------------------------------------------------------------
ServerStep ==
  \/ TakeRequest \/ Copy
  \/ HandleNew \/ HandleNewFull \/ HandleMessage \/ HandleLeave \/ HandleStrayLeave
  \/ Gather \/ Put

ReadStep(c) == TakeToken(c) \/ ReadSlot(c) \/ Unlock(c) \/ Show(c)

Next ==
  \/ ServerStep
  \/ \E c \in Clients :
       \/ ReadStep(c) \/ Start(c) \/ Join(c) \/ Token(c)
       \/ Say(c) \/ Leave(c) \/ Post(c) \/ Cancel(c)

Spec == Init /\ [][Next]_vars

--------------------------------------------------------------------------------
Requests ==
  [cat : {"NEW_CLIENT", "MESSAGE_FROM_CLIENT", "CLIENT_LEAVE"}, from : Clients,
   text : 0 .. MaxLines]

\* The server may store a line once for every request announced.
Texts == 0 .. 2 * Cardinality(Clients) + MaxLines

Messages ==
  [cat : {"NEW_CLIENT", "MESSAGE_FROM_CLIENT", "MESSAGE_FROM_SERVER", "CLIENT_LEAVE"},
   text : Texts]
    \cup [cat : {"LOADING_MESSAGE"}, text : Texts, to : Clients]

\* Every variable keeps its type, and the list never outgrows its
\* SIZE_CLIENTS entries, however often a request is read (server.c:73).
TypeOK ==
  /\ {request, local} \subseteq Requests \cup {Nothing}
  /\ {unread, muddled, mutex1, mutex2} \subseteq BOOLEAN
  /\ {sem_server, sem_client, sem_server2, hand} \subseteq Nat
  /\ message \in Messages \cup {Nothing} /\ out \in Seq(Messages)
  /\ infCl \in Seq(Clients) /\ size \in -MaxBelow .. SIZE_CLIENTS
  /\ Len(infCl) = (IF size < 0 THEN 0 ELSE size)
  /\ store \in Seq(1 .. MaxLines) /\ typed \in 0 .. MaxLines
  /\ spc \in {"rest", "copy", "handle", "gather"}
  /\ wpc \in [Clients -> {"off", "new", "token", "post", "idle", "bye", "left"}]
  /\ rpc \in [Clients -> {"off", "wait", "taken", "inside", "show", "lost"}]
  /\ heard \in [Clients -> Messages \cup {Nothing}]
  /\ shown \in [Clients -> Texts]

InHand == {c \in Clients : rpc[c] \in {"taken", "inside", "show"}}
Tokens == sem_server2 + hand + sem_client + Cardinality(InHand)
Brought == Cardinality({c \in Clients : wpc[c] \notin {"off", "new", "token"}})
Lost == Cardinality({c \in Clients : rpc[c] = "lost"})

\* A token is never made or lost on its way round, whatever the order of
\* readers, bursts and joins: there are as many as clients have brought, but
\* for those in the hand of a thread that was cancelled (client.c:47-75, 102,
\* 202; server.c:122-189); with the types.
TokensConserved == TypeOK /\ Tokens + Lost = Brought

\* Requests of that kind the server has not read or not handled yet.
Pending(cat) ==
  {r \in {request, local} :
     /\ r.cat = cat
     /\ (r = request /\ unread) \/ (r = local /\ spc = "handle")}

Senders(cat) == {r.from : r \in Pending(cat)}

Welcome == {c \in Clients : wpc[c] \notin {"off", "new"}} \ Senders("NEW_CLIENT")
Gone == {c \in Clients : wpc[c] \in {"bye", "left"}} \ Senders("CLIENT_LEAVE")

\* Until a request is written over one that is unread, and until the server
\* keeps mutex1 for a full list, nothing clients ask for is missed or done
\* twice: the list has those who joined and have not left, once each, and the
\* store every line in the order they were typed (server.c:66-116).
OneByOne ==
  ~muddled /\ mutex1 =>
    /\ ToSet(infCl) = Welcome \ Gone /\ size = Cardinality(Welcome \ Gone)
    /\ store = [i \in 1 .. typed - Cardinality(Pending("MESSAGE_FROM_CLIENT")) |-> i]

\* Then the server never waits for more tokens than there are, unless one was
\* lost (server.c:122-124, 142-144, 179-181).
ServerCanGather == ~muddled /\ mutex1 /\ Lost = 0 => size <= Tokens

\* No window ever shows a live line after a later one, although any reader may
\* take any token and the slot changes under slow readers.
NeverBackwards == [][\A c \in Clients : shown'[c] >= shown[c]]_vars

\* While only listed clients have brought tokens, the server writes its slot
\* only after as many reads of it as there are clients (server.c:122-134); one
\* client that leaves, or is about to be listed, is enough to break it.
ReadBeforeOverwritten ==
  [][sem_client' > sem_client /\ Brought = size => sem_client = 0 /\ InHand = {}]_vars
================================================================================
