----------------------------- MODULE ChatShmProofs ------------------------------
(***************************************************************************)
(* Proofs about ChatShm for any set of clients, any size of the list and   *)
(* any number of lines.                                                    *)
(***************************************************************************)
EXTENDS
  ChatShm, FiniteSetTheorems, FunctionTheorems, SequenceTheorems, WellFoundedInduction, TLAPS

In(x, S) == IF x \in S THEN 1 ELSE 0

\* How many clients f puts in S.
Count(f, S) == Cardinality({x \in Clients : f[x] \in S})

\* Client c goes on to `to`, and no other client moves.
Moves(f, g, c, to) == \A x \in Clients : g[x] = IF x = c THEN to ELSE f[x]

\* When one client moves, a count changes by whether it comes and whether it goes.
LEMMA CountMove ==
  ASSUME NEW f, NEW g, NEW c \in Clients, NEW to, NEW S,
         Moves(f, g, c, to)
  PROVE  /\ Count(f, S) \in Nat /\ Count(g, S) \in Nat
         /\ Count(g, S) = Count(f, S) + In(to, S) - In(f[c], S)
<1> DEFINE A == {x \in Clients : f[x] \in S}
           B == {x \in Clients : g[x] \in S}
<1>1. IsFiniteSet(A) /\ IsFiniteSet(B)
  BY ShmAssumption, FS_Subset
<1>2. Cardinality(A) \in Nat /\ Cardinality(B) \in Nat
  BY <1>1, FS_CardinalityType
<1>3. \A x \in Clients : g[x] = IF x = c THEN to ELSE f[x]
  BY DEF Moves
<1>4. CASE f[c] \in S <=> to \in S
  <2>1. A = B
    BY <1>3, <1>4
  <2> QED BY <1>2, <1>4, <2>1 DEF Count, In
<1>5. CASE f[c] \in S /\ to \notin S
  <2>1. B = A \ {c} /\ c \in A
    BY <1>3, <1>5
  <2>2. Cardinality(B) = Cardinality(A) - 1
    BY <1>1, <2>1, FS_RemoveElement
  <2> QED BY <1>2, <1>5, <2>2 DEF Count, In
<1>6. CASE f[c] \notin S /\ to \in S
  <2>1. B = A \cup {c} /\ c \notin A
    BY <1>3, <1>6
  <2>2. Cardinality(B) = Cardinality(A) + 1
    BY <1>1, <2>1, FS_AddElement
  <2> QED BY <1>2, <1>6, <2>2 DEF Count, In
<1> QED BY <1>4, <1>5, <1>6

\* Every set of naturals with a member has a least one.
LEMMA Least ==
  ASSUME NEW I \in SUBSET Nat, I # {}
  PROVE  \E n \in I : \A m \in I : n <= m
<1> DEFINE R == {p \in Nat \X Nat : p[1] < p[2]}
<1>1. IsWellFoundedOn(OpToRel(<, Nat), Nat)
  BY NatLessThanWellFounded
<1>2. OpToRel(<, Nat) = R
  BY DEF OpToRel
<1>2a. IsWellFoundedOn(R, Nat)
  BY <1>1, <1>2
<1>3. PICK n \in I : \A m \in I : ~(<<m, n>> \in R)
  <2> HIDE DEF R
  <2> QED BY <1>2a, WFMin
<1>4. \A m \in I : m \in Nat /\ n \in Nat /\ ~(m < n)
  BY <1>3
<1> QED BY <1>4

\* The entry find_name_client() finds.
LEMMA Found ==
  ASSUME NEW s \in Seq(Clients), NEW p \in ToSet(s)
  PROVE  /\ SelectInSeq(s, LAMBDA c : c = p) \in 1 .. Len(s)
         /\ s[SelectInSeq(s, LAMBDA c : c = p)] = p
<1> DEFINE I == {i \in 1 .. Len(s) : s[i] = p}
<1>1. I # {} /\ I \in SUBSET Nat
  BY DEF ToSet
<1>2. \E n \in I : \A m \in I : n <= m
  BY <1>1, Least
<1>3. Min(I) \in I
  BY <1>2 DEF Min
<1>4. SelectInSeq(s, LAMBDA c : c = p) = Min(I)
  BY <1>1 DEF SelectInSeq
<1> QED BY <1>3, <1>4

\* Nobody is listed twice.
Single(s) == \A i, j \in 1 .. Len(s) : s[i] = s[j] => i = j

\* One entry goes and those after it move up.
LEMMA Removed ==
  ASSUME NEW s \in Seq(Clients), NEW i \in 1 .. Len(s)
  PROVE  /\ RemoveAt(s, i) \in Seq(Clients)
         /\ Len(RemoveAt(s, i)) = Len(s) - 1
         /\ Single(s) => /\ Single(RemoveAt(s, i))
                         /\ ToSet(RemoveAt(s, i)) = ToSet(s) \ {s[i]}
<1> DEFINE a == SubSeq(s, 1, i - 1)
           b == SubSeq(s, i + 1, Len(s))
           t == RemoveAt(s, i)
<1>1. Len(s) \in Nat /\ i \in Nat /\ 1 <= i /\ i <= Len(s)
  BY LenProperties
<1>2. \A j \in 1 .. Len(s) : s[j] \in Clients
  BY ElementOfSeq
<1>3. /\ a \in Seq(Clients) /\ Len(a) = i - 1
      /\ \A j \in 1 .. i - 1 : a[j] = s[j]
  BY <1>1, <1>2, SubSeqProperties
<1>4. /\ b \in Seq(Clients) /\ Len(b) = Len(s) - i
      /\ \A j \in 1 .. Len(s) - i : b[j] = s[i + j]
  BY <1>1, <1>2, SubSeqProperties
<1>5. /\ t \in Seq(Clients) /\ Len(t) = Len(s) - 1
      /\ \A j \in 1 .. Len(s) - 1 : t[j] = IF j < i THEN s[j] ELSE s[j + 1]
  <2>1. t = a \o b
    BY DEF RemoveAt
  <2> HIDE DEF a, b, t
  <2>2. /\ t \in Seq(Clients) /\ Len(t) = Len(a) + Len(b)
        /\ \A j \in 1 .. Len(a) + Len(b) :
              t[j] = IF j <= Len(a) THEN a[j] ELSE b[j - Len(a)]
    BY <1>3, <1>4, <2>1, ConcatProperties
  <2>3. ASSUME NEW j \in 1 .. Len(s) - 1
        PROVE  t[j] = IF j < i THEN s[j] ELSE s[j + 1]
    <3>1. CASE j < i
      BY <1>1, <1>3, <1>4, <2>2, <3>1
    <3>2. CASE j >= i
      <4>1. j - Len(a) \in 1 .. Len(s) - i /\ i + (j - Len(a)) = j + 1
        BY <1>1, <1>3, <3>2
      <4>2. t[j] = b[j - Len(a)]
        <5>1. j \in 1 .. Len(a) + Len(b) /\ ~(j <= Len(a))
          BY <1>1, <1>3, <1>4, <3>2
        <5> QED BY <2>2, <5>1
      <4>3. b[j - Len(a)] = s[j + 1]
        BY <1>4, <4>1
      <4> QED BY <1>1, <3>2, <4>2, <4>3
    <3> QED BY <1>1, <3>1, <3>2
  <2> QED BY <1>1, <1>3, <1>4, <2>2, <2>3
<1> HIDE DEF t
<1>6. ASSUME Single(s) PROVE Single(t)
  BY <1>1, <1>5, <1>6 DEF Single
<1>7. ASSUME Single(s) PROVE ToSet(t) = ToSet(s) \ {s[i]}
  <2>1. ASSUME NEW j \in 1 .. Len(t) PROVE t[j] \in ToSet(s) \ {s[i]}
    BY <1>1, <1>5, <1>7 DEF Single, ToSet
  <2>2. ASSUME NEW k \in 1 .. Len(s), k # i PROVE \E j \in 1 .. Len(t) : t[j] = s[k]
    <3>1. CASE k < i
      BY <1>1, <1>5, <3>1
    <3>2. CASE k > i
      <4>1. k - 1 \in 1 .. Len(s) - 1 /\ ~(k - 1 < i) /\ (k - 1) + 1 = k
        BY <1>1, <3>2
      <4> QED BY <1>5, <4>1
    <3> QED BY <1>1, <2>2, <3>1, <3>2
  <2>3. DOMAIN t = 1 .. Len(t) /\ DOMAIN s = 1 .. Len(s)
    BY <1>5
  <2>4. ToSet(t) = {t[j] : j \in 1 .. Len(t)} /\ ToSet(s) = {s[k] : k \in 1 .. Len(s)}
    BY <2>3 DEF ToSet
  <2>5. \A x \in ToSet(s) \ {s[i]} : x \in ToSet(t)
    BY <2>2, <2>4
  <2> QED BY <2>1, <2>4, <2>5
<1> QED BY <1>5, <1>6, <1>7 DEF t

--------------------------------------------------------------------------------
(* Types and tokens *)

\* Writers that have still to announce a request, that have brought a token and
\* that are leaving; readers that hold a token, and that were cancelled with it.
Posting == {"post", "bye"}
Bringing == {"post", "idle", "bye", "left"}
Leaving == {"bye", "left"}
Holding == {"taken", "inside", "show"}
Losing == {"lost"}
Busy == {"copy", "handle"}

\* Requests announced and lines stored, against those sent.
Announced ==
  sem_server + In(spc, Busy) + Len(store) + Count(wpc, Posting)
    <= typed + Count(wpc, Bringing) + Count(wpc, Leaving)

\* Every token on its way round was brought by a client.
Balance ==
  sem_server2 + hand + sem_client + Count(rpc, Holding) + Count(rpc, Losing)
    = Count(wpc, Bringing)

\* A client that was not started does not read; a line has a number; a server
\* that says something has something to say.
Prompted ==
  /\ \A c \in Clients : wpc[c] = "off" => rpc[c] = "off"
  /\ \A r \in {request, local} : r.cat = "MESSAGE_FROM_CLIENT" => r.text >= 1
  /\ spc = "gather" => out # <<>>

IInv == TypeOK /\ Announced /\ Balance /\ Prompted

\* A count of clients is a number no larger than there are clients.
LEMMA CountType ==
  ASSUME NEW f, NEW S
  PROVE  Count(f, S) \in Nat /\ Count(f, S) <= Cardinality(Clients)
<1>1. {x \in Clients : f[x] \in S} \in SUBSET Clients
  OBVIOUS
<1> QED BY <1>1, ShmAssumption, FS_Subset, FS_CardinalityType DEF Count

\* A line the server is about to store has a text.
LEMMA StoreFits ==
  ASSUME TypeOK, Announced
  PROVE  /\ Len(store) + In(spc, Busy) <= 2 * Cardinality(Clients) + MaxLines
         /\ \A i \in 0 .. Len(store) : i \in Texts
         /\ spc = "handle" => Len(store) + 1 \in Texts
<1> DEFINE m == Count(wpc, Posting)
           n == Count(wpc, Bringing)
           k == Count(wpc, Leaving)
           N == Cardinality(Clients)
<1>1. m \in Nat /\ n \in Nat /\ n <= N /\ k \in Nat /\ k <= N /\ N \in Nat
  BY CountType, ShmAssumption, FS_CardinalityType
<1>2. typed \in Nat /\ typed <= MaxLines /\ MaxLines \in Nat /\ sem_server \in Nat
      /\ Len(store) \in Nat
  BY ShmAssumption DEF TypeOK
<1>3. In(spc, Busy) \in 0 .. 1
      /\ (spc = "handle" => In(spc, Busy) = 1)
  BY DEF In, Busy
<1>4. sem_server + In(spc, Busy) + Len(store) + m <= typed + n + k
  BY DEF Announced
<1> HIDE DEF m, n, k, N
<1>5. Len(store) + In(spc, Busy) <= 2 * N + MaxLines
  BY <1>1, <1>2, <1>3, <1>4
<1> QED BY <1>1, <1>2, <1>3, <1>5 DEF Texts, N

\* The types hold at the start.
LEMMA TypeInit == Init => TypeOK
<1> SUFFICES ASSUME Init PROVE TypeOK
  OBVIOUS
<1>1. Cardinality(Clients) \in Nat
  BY ShmAssumption, FS_CardinalityType
<1>2. 0 \in Texts
  BY <1>1, ShmAssumption DEF Texts
<1>3. /\ infCl \in Seq(Clients) /\ Len(infCl) = 0 /\ size = 0 /\ store \in Seq(1 .. MaxLines)
      /\ out \in Seq(Messages)
  BY DEF Init
<1>4. {request, local} \subseteq Requests \cup {Nothing}
  BY DEF Init
<1>5. {unread, muddled, mutex1, mutex2} \subseteq BOOLEAN
  BY DEF Init
<1>6. {sem_server, sem_client, sem_server2, hand} \subseteq Nat
  BY DEF Init
<1>7. message \in Messages \cup {Nothing}
  BY DEF Init
<1>8. size \in -MaxBelow .. SIZE_CLIENTS /\ typed \in 0 .. MaxLines
  BY ShmAssumption DEF Init
<1>9. /\ wpc \in [Clients -> {"off", "new", "token", "post", "idle", "bye", "left"}]
      /\ rpc \in [Clients -> {"off", "wait", "taken", "inside", "show", "lost"}]
      /\ spc \in {"rest", "copy", "handle", "gather"}
  BY DEF Init
<1>10. heard \in [Clients -> Messages \cup {Nothing}] /\ shown \in [Clients -> Texts]
  BY <1>2 DEF Init
<1> QED BY <1>3, <1>4, <1>5, <1>6, <1>7, <1>8, <1>9, <1>10 DEF TypeOK

\* What a client writes into the slot is a request.
LEMMA RequestType ==
  ASSUME NEW cat \in {"NEW_CLIENT", "MESSAGE_FROM_CLIENT", "CLIENT_LEAVE"},
         NEW c \in Clients, NEW n \in 0 .. MaxLines
  PROVE  /\ Request(cat, c, n) \in Requests
         /\ Request(cat, c, n).cat = cat /\ Request(cat, c, n).from = c
         /\ Request(cat, c, n).text = n
BY DEF Request, Requests

\* A request the server handles has a sender.
LEMMA LocalType ==
  ASSUME TypeOK, local.cat \in {"NEW_CLIENT", "MESSAGE_FROM_CLIENT", "CLIENT_LEAVE"}
  PROVE  local \in Requests /\ local.from \in Clients /\ local.text \in 0 .. MaxLines
<1>1. local \in Requests \cup {Nothing}
  BY DEF TypeOK
<1>2. Nothing.cat = "none"
  BY DEF Nothing
<1>3. local \in Requests
  BY <1>1, <1>2
<1> QED BY <1>3 DEF Requests

\* What the server says is a message.
LEMMA MessageType ==
  ASSUME NEW cat \in {"NEW_CLIENT", "MESSAGE_FROM_CLIENT", "MESSAGE_FROM_SERVER",
                      "CLIENT_LEAVE"},
         NEW n \in Texts
  PROVE  Message(cat, n) \in Messages /\ Message(cat, n).cat = cat /\ Message(cat, n).text = n
BY DEF Message, Messages

\* So is every line of a replay.
LEMMA ReplayType ==
  ASSUME TypeOK, Announced, local.from \in Clients
  PROVE  Replay \in Seq(Messages) /\ Len(Replay) = Len(store)
<1>1. Len(store) \in Nat /\ DOMAIN store = 1 .. Len(store)
  BY DEF TypeOK
<1>2. \A i \in 1 .. Len(store) : i \in Texts
  BY <1>1, StoreFits
<1>3. \A i \in 1 .. Len(store) :
        [cat |-> "LOADING_MESSAGE", text |-> i, to |-> local.from] \in Messages
  BY <1>2 DEF Messages
<1> QED BY <1>1, <1>3 DEF Replay

\* What the server says of a newcomer.
LEMMA WelcomeType ==
  ASSUME TypeOK, Announced, local.cat = "NEW_CLIENT"
  PROVE  LET o == <<Message(local.cat, NoText)>> \o Replay
         IN  o \in Seq(Messages) /\ o # <<>>
<1>1. local.from \in Clients
  BY LocalType
<1>2. NoText \in Texts
  BY StoreFits DEF NoText, TypeOK
<1>3. <<Message(local.cat, NoText)>> \in Seq(Messages)
  BY <1>2, MessageType
<1>4. Len(<<Message(local.cat, NoText)>>) = 1
  OBVIOUS
<1>5. Replay \in Seq(Messages)
  BY <1>1, ReplayType
<1> QED BY <1>3, <1>4, <1>5, ConcatProperties

USE DEF slot1, slot2, list, server, reader

\* A client writes its slot.
LEMMA WriteType ==
  ASSUME TypeOK, NEW c \in Clients, NEW r \in Requests, Write(c, r),
         typed' \in 0 .. MaxLines,
         wpc' \in [Clients -> {"off", "new", "token", "post", "idle", "bye", "left"}]
  PROVE  TypeOK'
<1>1. {unread', muddled', mutex1', mutex2'} \subseteq BOOLEAN
  BY DEF Write, TypeOK
<1> QED BY <1>1 DEF Write, TypeOK

\* Every step keeps the types; the list stays within its entries.
LEMMA TypeStep == TypeOK /\ Announced /\ Prompted /\ [Next]_vars => TypeOK'
<1> SUFFICES ASSUME TypeOK, Announced, Prompted, [Next]_vars PROVE TypeOK'
  OBVIOUS
<1> USE ShmAssumption
<1>1. ASSUME NEW c \in Clients, Start(c) PROVE TypeOK'
  BY <1>1 DEF Start, TypeOK
<1>2. ASSUME NEW c \in Clients, Join(c) PROVE TypeOK'
  <2>1. Request("NEW_CLIENT", c, NoText) \in Requests
    BY RequestType DEF NoText
  <2>2. /\ typed' \in 0 .. MaxLines
        /\ wpc' \in [Clients -> {"off", "new", "token", "post", "idle", "bye", "left"}]
    BY <1>2 DEF Join, TypeOK
  <2> QED BY <1>2, <2>1, <2>2, WriteType DEF Join
<1>3. ASSUME NEW c \in Clients, Token(c) PROVE TypeOK'
  BY <1>3, SMTT(30) DEF Token, TypeOK
<1>4. ASSUME NEW c \in Clients, Say(c) PROVE TypeOK'
  <2>1. typed' \in 0 .. MaxLines
    BY <1>4 DEF Say, TypeOK
  <2>2. wpc' \in [Clients -> {"off", "new", "token", "post", "idle", "bye", "left"}]
    BY <1>4 DEF Say, TypeOK
  <2>3. Request("MESSAGE_FROM_CLIENT", c, typed') \in Requests
    BY <2>1, RequestType
  <2> QED BY <1>4, <2>1, <2>2, <2>3, WriteType DEF Say
<1>5. ASSUME NEW c \in Clients, Leave(c) PROVE TypeOK'
  <2>1. Request("CLIENT_LEAVE", c, NoText) \in Requests
    BY RequestType DEF NoText
  <2>2. /\ typed' \in 0 .. MaxLines
        /\ wpc' \in [Clients -> {"off", "new", "token", "post", "idle", "bye", "left"}]
    BY <1>5 DEF Leave, TypeOK
  <2> QED BY <1>5, <2>1, <2>2, WriteType DEF Leave
<1>6. ASSUME NEW c \in Clients, Post(c) PROVE TypeOK'
  BY <1>6 DEF Post, TypeOK
<1>7. ASSUME NEW c \in Clients, Cancel(c) PROVE TypeOK'
  BY <1>7 DEF Cancel, TypeOK
<1>8. ASSUME NEW c \in Clients, TakeToken(c) PROVE TypeOK'
  BY <1>8 DEF TakeToken, TypeOK
<1>9. ASSUME NEW c \in Clients, ReadSlot(c) PROVE TypeOK'
  BY <1>9 DEF ReadSlot, TypeOK
<1>10. ASSUME NEW c \in Clients, Unlock(c) PROVE TypeOK'
  BY <1>10 DEF Unlock, TypeOK
<1>11. ASSUME NEW c \in Clients, Show(c) PROVE TypeOK'
  <2>1. heard[c].cat = "MESSAGE_FROM_CLIENT" => heard[c].text \in Texts
    <3>1. heard[c] \in Messages \cup {Nothing}
      BY DEF TypeOK
    <3>2. \A m \in Messages : m.text \in Texts
      BY DEF Messages
    <3> QED BY <3>1, <3>2 DEF Nothing
  <2>2. shown' \in [Clients -> Texts]
    BY <1>11, <2>1 DEF Show, TypeOK
  <2> QED BY <1>11, <2>2 DEF Show, TypeOK
<1>12. CASE TakeRequest
  BY <1>12 DEF TakeRequest, TypeOK
<1>13. CASE Copy
  BY <1>13 DEF Copy, TypeOK
<1>14. CASE HandleNew
  <2>1. local.from \in Clients /\ out' \in Seq(Messages)
    BY <1>14, LocalType, WelcomeType DEF HandleNew, Handling
  <2>2. /\ infCl \in Seq(Clients) /\ size \in -MaxBelow .. SIZE_CLIENTS
        /\ Len(infCl) = (IF size < 0 THEN 0 ELSE size)
        /\ message \in Messages \cup {Nothing}
    BY DEF TypeOK
  <2>3. size < SIZE_CLIENTS /\ size' = size + 1
    BY <1>14 DEF HandleNew
  <2>4. CASE size >= 0
    <3>1. infCl' = Append(infCl, local.from) /\ message' = message
      BY <1>14, <2>4 DEF HandleNew
    <3>2. infCl' \in Seq(Clients) /\ Len(infCl') = Len(infCl) + 1
      BY <2>1, <2>2, <3>1
    <3>3. size' \in -MaxBelow .. SIZE_CLIENTS /\ Len(infCl') = (IF size' < 0 THEN 0 ELSE size')
      BY <2>2, <2>3, <2>4, <3>2
    <3> QED BY <1>14, <2>1, <2>2, <3>1, <3>2, <3>3 DEF HandleNew, Handling, TypeOK
  <2>5. CASE size < 0
    <3>1. infCl' = infCl /\ message' = Nothing
      BY <1>14, <2>2, <2>5 DEF HandleNew
    <3>2. size' \in -MaxBelow .. SIZE_CLIENTS /\ Len(infCl') = (IF size' < 0 THEN 0 ELSE size')
      BY <2>2, <2>3, <2>5, <3>1
    <3> QED BY <1>14, <2>1, <2>2, <3>1, <3>2 DEF HandleNew, Handling, TypeOK
  <2> QED BY <2>2, <2>4, <2>5
<1>15. CASE HandleNewFull
  <2>1. out' \in Seq(Messages)
    BY <1>15, WelcomeType DEF HandleNewFull, Handling
  <2> QED BY <1>15, <2>1 DEF HandleNewFull, Handling, TypeOK
<1>16. CASE HandleMessage
  <2>1. local.cat = "MESSAGE_FROM_CLIENT" /\ local.text \in 1 .. MaxLines
    BY <1>16, LocalType DEF HandleMessage, Handling, Prompted
  <2>2. store' \in Seq(1 .. MaxLines) /\ Len(store') = Len(store) + 1
    BY <1>16, <2>1 DEF HandleMessage, TypeOK
  <2>3. Len(store') \in Texts
    BY <1>16, <2>2, StoreFits DEF HandleMessage, Handling
  <2>4. out' \in Seq(Messages)
    BY <1>16, <2>1, <2>3, MessageType DEF HandleMessage
  <2> QED BY <1>16, <2>2, <2>4 DEF HandleMessage, Handling, TypeOK
<1>17. ASSUME local.cat = "CLIENT_LEAVE" PROVE Farewell \in Seq(Messages) /\ Farewell # <<>>
  <2>1. NoText \in Texts
    BY StoreFits DEF NoText, TypeOK
  <2> QED BY <1>17, <2>1, MessageType DEF Farewell
<1>18. CASE HandleLeave
  <2> DEFINE i == SelectInSeq(infCl, LAMBDA c : c = local.from)
  <2>1. infCl \in Seq(Clients) /\ local.from \in ToSet(infCl)
    BY <1>18 DEF HandleLeave, TypeOK
  <2>2. i \in 1 .. Len(infCl)
    BY <2>1, Found
  <2>3. infCl' = RemoveAt(infCl, i)
    BY <1>18 DEF HandleLeave
  <2> HIDE DEF i
  <2>4. infCl' \in Seq(Clients) /\ Len(infCl') = Len(infCl) - 1
    BY <2>1, <2>2, <2>3, Removed
  <2>5. /\ size' \in -MaxBelow .. SIZE_CLIENTS
        /\ Len(infCl') = (IF size' < 0 THEN 0 ELSE size')
    BY <1>18, <2>2, <2>4, SMTT(30) DEF HandleLeave, TypeOK
  <2>6. out' \in Seq(Messages)
    BY <1>17, <1>18 DEF HandleLeave, Handling
  <2> QED BY <1>18, <2>4, <2>5, <2>6 DEF HandleLeave, Handling, TypeOK
<1>19. CASE HandleStrayLeave
  <2>1. out' \in Seq(Messages)
    BY <1>17, <1>19 DEF HandleStrayLeave, Handling
  <2>2. /\ infCl \in Seq(Clients) /\ size \in -MaxBelow .. SIZE_CLIENTS
        /\ Len(infCl) = (IF size < 0 THEN 0 ELSE size)
        /\ message \in Messages \cup {Nothing}
    BY DEF TypeOK
  <2>3. size > -MaxBelow /\ size' = size - 1
    BY <1>19 DEF HandleStrayLeave
  <2>4. /\ infCl' \in Seq(Clients)
        /\ Len(infCl') = IF infCl = <<>> THEN 0 ELSE Len(infCl) - 1
        /\ message' \in Messages \cup {Nothing}
    BY <1>19, <2>2, HeadTailProperties DEF HandleStrayLeave
  <2>5. infCl = <<>> <=> Len(infCl) = 0
    BY <2>2, EmptySeq
  <2>6. size' \in -MaxBelow .. SIZE_CLIENTS /\ Len(infCl') = (IF size' < 0 THEN 0 ELSE size')
    BY <2>2, <2>3, <2>4, <2>5
  <2> QED BY <1>19, <2>1, <2>4, <2>6 DEF HandleStrayLeave, Handling, TypeOK
<1>20. CASE Gather
  <2>1. sem_server2' \in Nat /\ hand' \in Nat
    BY <1>20, SMTT(30) DEF Gather, TypeOK
  <2> QED BY <1>20, <2>1 DEF Gather, TypeOK
<1>21. CASE Put
  <2>1. Head(out) \in Messages /\ Tail(out) \in Seq(Messages)
    BY <1>21, HeadTailProperties DEF Put, Prompted, TypeOK
  <2>2. local' \in Requests \cup {Nothing} /\ spc' \in {"rest", "copy", "handle", "gather"}
    BY <1>21 DEF Put, TypeOK
  <2>3. sem_client' \in Nat /\ hand' \in Nat
    BY <1>21 DEF Put, TypeOK
  <2> QED BY <1>21, <2>1, <2>2, <2>3 DEF Put, TypeOK
<1>22. CASE UNCHANGED vars
  BY <1>22 DEF vars, TypeOK
<1> QED
  BY <1>1, <1>2, <1>3, <1>4, <1>5, <1>6, <1>7, <1>8, <1>9, <1>10, <1>11, <1>12, <1>13,
     <1>14, <1>15, <1>16, <1>18, <1>19, <1>20, <1>21, <1>22
  DEF Next, ServerStep, ReadStep

\* One client moves on, in its writing or its reading thread.
LEMMA WriterMoves ==
  ASSUME TypeOK, NEW c \in Clients, NEW to, wpc' = [wpc EXCEPT ![c] = to], NEW S
  PROVE  /\ Count(wpc, S) \in Nat /\ Count(wpc', S) \in Nat
         /\ Count(wpc', S) = Count(wpc, S) + In(to, S) - In(wpc[c], S)
<1>1. Moves(wpc, wpc', c, to)
  BY DEF TypeOK, Moves
<1> QED BY <1>1, CountMove

LEMMA ReaderMoves ==
  ASSUME TypeOK, NEW c \in Clients, NEW to, rpc' = [rpc EXCEPT ![c] = to], NEW S
  PROVE  /\ Count(rpc, S) \in Nat /\ Count(rpc', S) \in Nat
         /\ Count(rpc', S) = Count(rpc, S) + In(to, S) - In(rpc[c], S)
<1>1. Moves(rpc, rpc', c, to)
  BY DEF TypeOK, Moves
<1> QED BY <1>1, CountMove

\* What a step of a writer does to the three counts of writers.
LEMMA WriterCounts ==
  ASSUME TypeOK, NEW c \in Clients, NEW to, wpc' = [wpc EXCEPT ![c] = to]
  PROVE  /\ Count(wpc', Posting) = Count(wpc, Posting) + In(to, Posting) - In(wpc[c], Posting)
         /\ Count(wpc', Bringing) = Count(wpc, Bringing) + In(to, Bringing) - In(wpc[c], Bringing)
         /\ Count(wpc', Leaving) = Count(wpc, Leaving) + In(to, Leaving) - In(wpc[c], Leaving)
<1>1. Count(wpc', Posting) = Count(wpc, Posting) + In(to, Posting) - In(wpc[c], Posting)
  BY WriterMoves
<1>2. Count(wpc', Bringing) = Count(wpc, Bringing) + In(to, Bringing) - In(wpc[c], Bringing)
  BY WriterMoves
<1>3. Count(wpc', Leaving) = Count(wpc, Leaving) + In(to, Leaving) - In(wpc[c], Leaving)
  BY WriterMoves
<1> QED BY <1>1, <1>2, <1>3

\* The places of a writer on its way.
LEMMA WriterPlaces ==
  \A p \in {"off", "new", "token", "post", "idle", "bye", "left"} :
     /\ In(p, Posting) = IF p = "post" \/ p = "bye" THEN 1 ELSE 0
     /\ In(p, Bringing) = IF p = "off" \/ p = "new" \/ p = "token" THEN 0 ELSE 1
     /\ In(p, Leaving) = IF p = "bye" \/ p = "left" THEN 1 ELSE 0
BY DEF In, Posting, Bringing, Leaving

LEMMA ReaderPlaces ==
  \A p \in {"off", "wait", "taken", "inside", "show", "lost"} :
     /\ In(p, Holding) = IF p = "taken" \/ p = "inside" \/ p = "show" THEN 1 ELSE 0
     /\ In(p, Losing) = IF p = "lost" THEN 1 ELSE 0
BY DEF In, Holding, Losing

\* Every store is paid for by an announcement, every announcement by a client.
LEMMA AnnouncedStep == TypeOK /\ Announced /\ [Next]_vars => Announced'
<1> SUFFICES ASSUME TypeOK, Announced, [Next]_vars PROVE Announced'
  OBVIOUS
<1>0. /\ sem_server \in Nat /\ Len(store) \in Nat /\ typed \in Nat
      /\ Count(wpc, Posting) \in Nat /\ Count(wpc, Bringing) \in Nat
      /\ Count(wpc, Leaving) \in Nat
      /\ In(spc, Busy) \in 0 .. 1 /\ In(spc', Busy) \in 0 .. 1
  BY CountType, ShmAssumption DEF TypeOK, In
<1>1. ASSUME NEW c \in Clients, Start(c) \/ Join(c) PROVE Announced'
  <2>1. PICK to \in {"new", "token"} :
          wpc' = [wpc EXCEPT ![c] = to] /\ wpc[c] \in {"off", "new"}
    BY <1>1 DEF Start, Join
  <2>2. sem_server' = sem_server /\ spc' = spc /\ store' = store /\ typed' = typed
    BY <1>1 DEF Start, Join, Write
  <2>3. /\ Count(wpc', Posting) = Count(wpc, Posting) + In(to, Posting) - In(wpc[c], Posting)
        /\ Count(wpc', Bringing) = Count(wpc, Bringing) + In(to, Bringing) - In(wpc[c], Bringing)
        /\ Count(wpc', Leaving) = Count(wpc, Leaving) + In(to, Leaving) - In(wpc[c], Leaving)
    BY <2>1, WriterCounts
  <2> QED BY <1>0, <2>1, <2>2, <2>3, WriterPlaces DEF Announced
<1>2. ASSUME NEW c \in Clients, Token(c) PROVE Announced'
  <2>1. wpc' = [wpc EXCEPT ![c] = "post"] /\ wpc[c] = "token"
    BY <1>2 DEF Token
  <2>2. sem_server' = sem_server /\ spc' = spc /\ store' = store /\ typed' = typed
    BY <1>2 DEF Token
  <2>3. /\ Count(wpc', Posting) = Count(wpc, Posting) + In("post", Posting) - In("token", Posting)
        /\ Count(wpc', Bringing) = Count(wpc, Bringing) + In("post", Bringing) - In("token", Bringing)
        /\ Count(wpc', Leaving) = Count(wpc, Leaving) + In("post", Leaving) - In("token", Leaving)
    BY <2>1, WriterCounts
  <2> QED BY <1>0, <2>1, <2>2, <2>3, WriterPlaces, SMTT(30) DEF Announced
<1>3. ASSUME NEW c \in Clients, Say(c) PROVE Announced'
  <2>1. wpc' = [wpc EXCEPT ![c] = "post"] /\ wpc[c] = "idle"
    BY <1>3 DEF Say
  <2>2. sem_server' = sem_server /\ spc' = spc /\ store' = store /\ typed' = typed + 1
    BY <1>3 DEF Say, Write
  <2>3. /\ Count(wpc', Posting) = Count(wpc, Posting) + In("post", Posting) - In("idle", Posting)
        /\ Count(wpc', Bringing) = Count(wpc, Bringing) + In("post", Bringing) - In("idle", Bringing)
        /\ Count(wpc', Leaving) = Count(wpc, Leaving) + In("post", Leaving) - In("idle", Leaving)
    BY <2>1, WriterCounts
  <2> QED BY <1>0, <2>1, <2>2, <2>3, WriterPlaces, SMTT(30) DEF Announced
<1>4. ASSUME NEW c \in Clients, Leave(c) PROVE Announced'
  <2>1. wpc' = [wpc EXCEPT ![c] = "bye"] /\ wpc[c] = "idle"
    BY <1>4 DEF Leave
  <2>2. sem_server' = sem_server /\ spc' = spc /\ store' = store /\ typed' = typed
    BY <1>4 DEF Leave, Write
  <2>3. /\ Count(wpc', Posting) = Count(wpc, Posting) + In("bye", Posting) - In("idle", Posting)
        /\ Count(wpc', Bringing) = Count(wpc, Bringing) + In("bye", Bringing) - In("idle", Bringing)
        /\ Count(wpc', Leaving) = Count(wpc, Leaving) + In("bye", Leaving) - In("idle", Leaving)
    BY <2>1, WriterCounts
  <2> QED BY <1>0, <2>1, <2>2, <2>3, WriterPlaces, SMTT(30) DEF Announced
<1>5. ASSUME NEW c \in Clients, Post(c) PROVE Announced'
  <2>1. /\ wpc[c] \in {"post", "bye"}
        /\ wpc' = [wpc EXCEPT ![c] = IF wpc[c] = "bye" THEN "left" ELSE "idle"]
    BY <1>5 DEF Post
  <2>2. sem_server' = sem_server + 1 /\ spc' = spc /\ store' = store /\ typed' = typed
    BY <1>5 DEF Post
  <2>3. /\ Count(wpc', Posting) = Count(wpc, Posting) - 1
        /\ Count(wpc', Bringing) = Count(wpc, Bringing)
        /\ Count(wpc', Leaving) = Count(wpc, Leaving)
    <3>1. CASE wpc[c] = "post"
      <4>1. wpc' = [wpc EXCEPT ![c] = "idle"]
        BY <2>1, <3>1
      <4>2. /\ Count(wpc', Posting)
                 = Count(wpc, Posting) + In("idle", Posting) - In("post", Posting)
            /\ Count(wpc', Bringing)
                 = Count(wpc, Bringing) + In("idle", Bringing) - In("post", Bringing)
            /\ Count(wpc', Leaving)
                 = Count(wpc, Leaving) + In("idle", Leaving) - In("post", Leaving)
        BY <3>1, <4>1, WriterCounts
      <4> QED BY <1>0, <4>2, WriterPlaces
    <3>2. CASE wpc[c] = "bye"
      <4>1. wpc' = [wpc EXCEPT ![c] = "left"]
        BY <2>1, <3>2
      <4>2. /\ Count(wpc', Posting)
                 = Count(wpc, Posting) + In("left", Posting) - In("bye", Posting)
            /\ Count(wpc', Bringing)
                 = Count(wpc, Bringing) + In("left", Bringing) - In("bye", Bringing)
            /\ Count(wpc', Leaving)
                 = Count(wpc, Leaving) + In("left", Leaving) - In("bye", Leaving)
        BY <3>2, <4>1, WriterCounts
      <4> QED BY <1>0, <4>2, WriterPlaces
    <3> QED BY <2>1, <3>1, <3>2
  <2> QED BY <1>0, <2>2, <2>3, SMTT(30) DEF Announced
<1>6. CASE TakeRequest
  <2>1. /\ sem_server' = sem_server - 1 /\ store' = store /\ typed' = typed /\ wpc' = wpc
        /\ In(spc, Busy) = 0 /\ In(spc', Busy) = 1
    BY <1>6 DEF TakeRequest, In, Busy
  <2> QED BY <1>0, <2>1 DEF Announced
<1>7. CASE HandleMessage
  <2>1. local.text \in 0 .. MaxLines /\ store \in Seq(1 .. MaxLines)
    BY <1>7, LocalType DEF HandleMessage, Handling, TypeOK
  <2>2. Len(store') = Len(store) + 1
    BY <1>7, <2>1 DEF HandleMessage
  <2>3. /\ sem_server' = sem_server /\ typed' = typed /\ wpc' = wpc
        /\ In(spc, Busy) = 1 /\ In(spc', Busy) = 0
    BY <1>7 DEF HandleMessage, Handling, In, Busy
  <2> QED BY <1>0, <2>2, <2>3 DEF Announced
<1>8. CASE HandleNew \/ HandleNewFull \/ HandleLeave \/ HandleStrayLeave
  <2>1. sem_server' = sem_server /\ typed' = typed /\ wpc' = wpc /\ store' = store
    BY <1>8 DEF HandleNew, HandleNewFull, HandleLeave, HandleStrayLeave
  <2>2. In(spc', Busy) = 0
    BY <1>8 DEF HandleNew, HandleNewFull, HandleLeave, HandleStrayLeave, Handling, In, Busy
  <2> QED BY <1>0, <2>1, <2>2 DEF Announced
<1>9. ASSUME UNCHANGED <<sem_server, typed, wpc, store>>,
             spc' \in Busy <=> spc \in Busy
      PROVE  Announced'
  BY <1>9 DEF Announced, In
<1>10. CASE Copy \/ Gather \/ Put
  BY <1>9, <1>10 DEF Copy, Gather, Put, Busy
<1>11. ASSUME NEW c \in Clients, ReadStep(c) \/ Cancel(c) PROVE Announced'
  BY <1>9, <1>11 DEF ReadStep, TakeToken, ReadSlot, Unlock, Show, Cancel
<1>12. CASE UNCHANGED vars
  BY <1>9, <1>12 DEF vars
<1> QED
  BY <1>1, <1>2, <1>3, <1>4, <1>5, <1>6, <1>7, <1>8, <1>10, <1>11, <1>12
  DEF Next, ServerStep

\* What a step of a reader does to the two counts of readers.
LEMMA ReaderCounts ==
  ASSUME TypeOK, NEW c \in Clients, NEW to, rpc' = [rpc EXCEPT ![c] = to]
  PROVE  /\ Count(rpc', Holding) = Count(rpc, Holding) + In(to, Holding) - In(rpc[c], Holding)
         /\ Count(rpc', Losing) = Count(rpc, Losing) + In(to, Losing) - In(rpc[c], Losing)
<1>1. Count(rpc', Holding) = Count(rpc, Holding) + In(to, Holding) - In(rpc[c], Holding)
  BY ReaderMoves
<1>2. Count(rpc', Losing) = Count(rpc, Losing) + In(to, Losing) - In(rpc[c], Losing)
  BY ReaderMoves
<1> QED BY <1>1, <1>2

\* A token goes from one holder to the next, and only a joining client adds one.
LEMMA BalanceStep == TypeOK /\ Prompted /\ Balance /\ [Next]_vars => Balance'
<1> SUFFICES ASSUME TypeOK, Prompted, Balance, [Next]_vars PROVE Balance'
  OBVIOUS
<1>0. /\ sem_server2 \in Nat /\ hand \in Nat /\ sem_client \in Nat
      /\ Count(rpc, Holding) \in Nat /\ Count(rpc, Losing) \in Nat
      /\ Count(wpc, Bringing) \in Nat
  BY CountType DEF TypeOK
<1>1. ASSUME NEW c \in Clients, NEW from, NEW to, rpc[c] = from, rpc' = [rpc EXCEPT ![c] = to]
      PROVE  /\ Count(rpc', Holding) = Count(rpc, Holding) + In(to, Holding) - In(from, Holding)
             /\ Count(rpc', Losing) = Count(rpc, Losing) + In(to, Losing) - In(from, Losing)
  BY <1>1, ReaderCounts
<1>2. ASSUME NEW c \in Clients, NEW from, NEW to, wpc[c] = from, wpc' = [wpc EXCEPT ![c] = to]
      PROVE  Count(wpc', Bringing) = Count(wpc, Bringing) + In(to, Bringing) - In(from, Bringing)
  BY <1>2, WriterCounts
<1>3. ASSUME NEW c \in Clients, Start(c) PROVE Balance'
  <2>1. /\ wpc[c] = "off" /\ wpc' = [wpc EXCEPT ![c] = "new"]
        /\ rpc[c] = "off" /\ rpc' = [rpc EXCEPT ![c] = "wait"]
        /\ UNCHANGED <<sem_server2, hand, sem_client>>
    BY <1>3 DEF Start, Prompted
  <2>2. Count(wpc', Bringing) = Count(wpc, Bringing) + In("new", Bringing) - In("off", Bringing)
    BY <1>2, <2>1
  <2>3. /\ Count(rpc', Holding) = Count(rpc, Holding) + In("wait", Holding) - In("off", Holding)
        /\ Count(rpc', Losing) = Count(rpc, Losing) + In("wait", Losing) - In("off", Losing)
    BY <1>1, <2>1
  <2> QED BY <1>0, <2>1, <2>2, <2>3, WriterPlaces, ReaderPlaces DEF Balance
<1>4. ASSUME NEW c \in Clients, Token(c) PROVE Balance'
  <2>1. /\ wpc[c] = "token" /\ wpc' = [wpc EXCEPT ![c] = "post"]
        /\ sem_server2' = sem_server2 + 1 /\ UNCHANGED <<hand, sem_client, rpc>>
    BY <1>4 DEF Token
  <2>2. Count(wpc', Bringing)
          = Count(wpc, Bringing) + In("post", Bringing) - In("token", Bringing)
    BY <1>2, <2>1
  <2> QED BY <1>0, <2>1, <2>2, WriterPlaces DEF Balance
<1>5. ASSUME NEW c \in Clients, Join(c) \/ Say(c) \/ Leave(c) \/ Post(c) PROVE Balance'
  <2>1. UNCHANGED <<sem_server2, hand, sem_client, rpc>>
    BY <1>5 DEF Join, Say, Leave, Post, Write
  <2>2. CASE Join(c)
    <3>1. wpc[c] = "new" /\ wpc' = [wpc EXCEPT ![c] = "token"]
      BY <2>2 DEF Join
    <3>2. Count(wpc', Bringing) = Count(wpc, Bringing) + In("token", Bringing) - In("new", Bringing)
      BY <1>2, <3>1
    <3> QED BY <1>0, <2>1, <3>2, WriterPlaces DEF Balance
  <2>3. CASE Say(c)
    <3>1. wpc[c] = "idle" /\ wpc' = [wpc EXCEPT ![c] = "post"]
      BY <2>3 DEF Say
    <3>2. Count(wpc', Bringing) = Count(wpc, Bringing) + In("post", Bringing) - In("idle", Bringing)
      BY <1>2, <3>1
    <3> QED BY <1>0, <2>1, <3>2, WriterPlaces DEF Balance
  <2>4. CASE Leave(c)
    <3>1. wpc[c] = "idle" /\ wpc' = [wpc EXCEPT ![c] = "bye"]
      BY <2>4 DEF Leave
    <3>2. Count(wpc', Bringing) = Count(wpc, Bringing) + In("bye", Bringing) - In("idle", Bringing)
      BY <1>2, <3>1
    <3> QED BY <1>0, <2>1, <3>2, WriterPlaces DEF Balance
  <2>5. CASE Post(c)
    <3>1. /\ wpc[c] \in {"post", "bye"}
          /\ wpc' = [wpc EXCEPT ![c] = IF wpc[c] = "bye" THEN "left" ELSE "idle"]
      BY <2>5 DEF Post
    <3>2. Count(wpc', Bringing) = Count(wpc, Bringing)
                                   + In(IF wpc[c] = "bye" THEN "left" ELSE "idle", Bringing)
                                   - In(wpc[c], Bringing)
      BY <1>2, <3>1
    <3> QED BY <1>0, <2>1, <3>1, <3>2, WriterPlaces DEF Balance
  <2> QED BY <1>5, <2>2, <2>3, <2>4, <2>5
<1>6. ASSUME NEW c \in Clients, TakeToken(c) PROVE Balance'
  <2>1. /\ rpc[c] = "wait" /\ rpc' = [rpc EXCEPT ![c] = "taken"]
        /\ sem_client' = sem_client - 1 /\ UNCHANGED <<sem_server2, hand, wpc>>
    BY <1>6 DEF TakeToken
  <2>2. /\ Count(rpc', Holding) = Count(rpc, Holding) + In("taken", Holding) - In("wait", Holding)
        /\ Count(rpc', Losing) = Count(rpc, Losing) + In("taken", Losing) - In("wait", Losing)
    BY <1>1, <2>1
  <2> QED BY <1>0, <2>1, <2>2, ReaderPlaces DEF Balance
<1>7. ASSUME NEW c \in Clients, ReadSlot(c) \/ Unlock(c) PROVE Balance'
  <2>1. UNCHANGED <<sem_server2, hand, sem_client, wpc>>
    BY <1>7 DEF ReadSlot, Unlock
  <2>2. CASE ReadSlot(c)
    <3>1. rpc[c] = "taken" /\ rpc' = [rpc EXCEPT ![c] = "inside"]
      BY <2>2 DEF ReadSlot
    <3>2. /\ Count(rpc', Holding)
               = Count(rpc, Holding) + In("inside", Holding) - In("taken", Holding)
          /\ Count(rpc', Losing)
               = Count(rpc, Losing) + In("inside", Losing) - In("taken", Losing)
      BY <1>1, <3>1
    <3> QED BY <1>0, <2>1, <3>2, ReaderPlaces DEF Balance
  <2>3. CASE Unlock(c)
    <3>1. rpc[c] = "inside" /\ rpc' = [rpc EXCEPT ![c] = "show"]
      BY <2>3 DEF Unlock
    <3>2. /\ Count(rpc', Holding)
               = Count(rpc, Holding) + In("show", Holding) - In("inside", Holding)
          /\ Count(rpc', Losing)
               = Count(rpc, Losing) + In("show", Losing) - In("inside", Losing)
      BY <1>1, <3>1
    <3> QED BY <1>0, <2>1, <3>2, ReaderPlaces DEF Balance
  <2> QED BY <1>7, <2>2, <2>3
<1>8. ASSUME NEW c \in Clients, Show(c) PROVE Balance'
  <2>1. /\ rpc[c] = "show" /\ rpc' = [rpc EXCEPT ![c] = "wait"]
        /\ sem_server2' = sem_server2 + 1 /\ UNCHANGED <<sem_client, hand, wpc>>
    BY <1>8 DEF Show
  <2>2. /\ Count(rpc', Holding) = Count(rpc, Holding) + In("wait", Holding) - In("show", Holding)
        /\ Count(rpc', Losing) = Count(rpc, Losing) + In("wait", Losing) - In("show", Losing)
    BY <1>1, <2>1
  <2> QED BY <1>0, <2>1, <2>2, ReaderPlaces DEF Balance
<1>9. ASSUME NEW c \in Clients, Cancel(c) PROVE Balance'
  <2>1. UNCHANGED <<sem_server2, hand, sem_client, wpc>>
    BY <1>9 DEF Cancel
  <2>2. CASE rpc[c] = "wait" /\ rpc' = [rpc EXCEPT ![c] = "off"]
    <3>1. /\ Count(rpc', Holding) = Count(rpc, Holding) + In("off", Holding) - In("wait", Holding)
          /\ Count(rpc', Losing) = Count(rpc, Losing) + In("off", Losing) - In("wait", Losing)
      BY <1>1, <2>2
    <3> QED BY <1>0, <2>1, <3>1, ReaderPlaces DEF Balance
  <2>3. CASE rpc[c] \in {"taken", "inside", "show"} /\ rpc' = [rpc EXCEPT ![c] = "lost"]
    <3>1. /\ Count(rpc', Holding) = Count(rpc, Holding) + In("lost", Holding) - In(rpc[c], Holding)
          /\ Count(rpc', Losing) = Count(rpc, Losing) + In("lost", Losing) - In(rpc[c], Losing)
      BY <1>1, <2>3
    <3> QED BY <1>0, <2>1, <2>3, <3>1, ReaderPlaces DEF Balance
  <2> QED BY <1>9, <2>2, <2>3 DEF Cancel
<1>10. CASE Gather
  <2>1. /\ sem_server2' = sem_server2 - 1 /\ hand' = hand + 1
        /\ UNCHANGED <<sem_client, wpc, rpc>>
    BY <1>10 DEF Gather
  <2> QED BY <1>0, <2>1 DEF Balance
<1>11. CASE Put
  <2>1. sem_client' = sem_client + hand /\ hand' = 0 /\ UNCHANGED <<sem_server2, wpc, rpc>>
    BY <1>11 DEF Put
  <2> QED BY <1>0, <2>1 DEF Balance
<1>12. ASSUME UNCHANGED <<sem_server2, hand, sem_client, wpc, rpc>> PROVE Balance'
  BY <1>12 DEF Balance
<1>13. CASE \/ TakeRequest \/ Copy \/ HandleNew \/ HandleNewFull \/ HandleMessage
            \/ HandleLeave \/ HandleStrayLeave \/ UNCHANGED vars
  BY <1>12, <1>13 DEF TakeRequest, Copy, HandleNew, HandleNewFull, HandleMessage,
                      HandleLeave, HandleStrayLeave, vars
<1> QED
  BY <1>3, <1>4, <1>5, <1>6, <1>7, <1>8, <1>9, <1>10, <1>11, <1>13
  DEF Next, ServerStep, ReadStep

Numbered == \A r \in {request, local} : r.cat = "MESSAGE_FROM_CLIENT" => r.text >= 1
Silent == \A c \in Clients : wpc[c] = "off" => rpc[c] = "off"

\* A thread reads only in a client that was started.
LEMMA SilentStep == TypeOK /\ Prompted /\ [Next]_vars => Silent'
<1> SUFFICES ASSUME TypeOK, Prompted, [Next]_vars PROVE Silent'
  OBVIOUS
<1>0. Silent /\ wpc \in [Clients -> {"off", "new", "token", "post", "idle", "bye", "left"}]
      /\ rpc \in [Clients -> {"off", "wait", "taken", "inside", "show", "lost"}]
  BY DEF Silent, Prompted, TypeOK
<1>1. ASSUME ServerStep \/ UNCHANGED vars PROVE UNCHANGED <<wpc, rpc>>
  BY <1>1 DEF ServerStep, TakeRequest, Copy, HandleNew, HandleNewFull, HandleMessage,
              HandleLeave, HandleStrayLeave, Gather, Put, vars
<1>2. ASSUME NEW c \in Clients, ReadStep(c) \/ Cancel(c)
      PROVE  wpc' = wpc /\ wpc[c] # "off" /\ \A d \in Clients \ {c} : rpc'[d] = rpc[d]
  <2>1. wpc[c] # "off" /\ wpc' = wpc
    BY <1>0, <1>2 DEF ReadStep, TakeToken, ReadSlot, Unlock, Show, Cancel, Silent
  <2>2. PICK to : rpc' = [rpc EXCEPT ![c] = to]
    BY <1>2 DEF ReadStep, TakeToken, ReadSlot, Unlock, Show, Cancel
  <2> QED BY <1>0, <2>1, <2>2
<1>3. ASSUME NEW c \in Clients, Start(c) \/ Join(c) \/ Token(c) \/ Say(c) \/ Leave(c) \/ Post(c)
      PROVE  wpc'[c] # "off" /\ \A d \in Clients \ {c} : wpc'[d] = wpc[d] /\ rpc'[d] = rpc[d]
  <2>1. PICK to \in {"new", "token", "post", "bye", "idle", "left"} :
          wpc' = [wpc EXCEPT ![c] = to]
    BY <1>3 DEF Start, Join, Token, Say, Leave, Post
  <2>2. \A d \in Clients \ {c} : rpc'[d] = rpc[d]
    BY <1>0, <1>3 DEF Start, Join, Token, Say, Leave, Post, Write
  <2> QED BY <1>0, <2>1, <2>2
<1>4. CASE ServerStep \/ UNCHANGED vars
  BY <1>0, <1>1, <1>4 DEF Silent
<1>5. ASSUME NEW c \in Clients, ReadStep(c) \/ Cancel(c) PROVE Silent'
  BY <1>0, <1>2, <1>5 DEF Silent
<1>6. ASSUME NEW c \in Clients, Start(c) \/ Join(c) \/ Token(c) \/ Say(c) \/ Leave(c) \/ Post(c)
      PROVE  Silent'
  BY <1>0, <1>3, <1>6 DEF Silent
<1> QED BY <1>4, <1>5, <1>6 DEF Next

\* Every line on its way to the store has a number.
LEMMA NumberedStep == TypeOK /\ Prompted /\ [Next]_vars => Numbered'
<1> SUFFICES ASSUME TypeOK, Prompted, [Next]_vars PROVE Numbered'
  OBVIOUS
<1>0. Numbered
  BY DEF Numbered, Prompted
<1>1. ASSUME UNCHANGED <<request, local>> PROVE Numbered'
  BY <1>0, <1>1 DEF Numbered
<1>2. ASSUME local' = local, request'.cat = "MESSAGE_FROM_CLIENT" => request'.text >= 1
      PROVE  Numbered'
  BY <1>0, <1>2 DEF Numbered
<1>3. CASE Copy
  BY <1>0, <1>3 DEF Copy, Numbered
<1>4. CASE Put
  BY <1>0, <1>4 DEF Put, Numbered, Nothing
<1>5. ASSUME NEW c \in Clients, Join(c) \/ Leave(c) PROVE Numbered'
  BY <1>2, <1>5 DEF Join, Leave, Write, Request
<1>6. ASSUME NEW c \in Clients, Say(c) PROVE Numbered'
  <2>1. local' = local /\ request' = Request("MESSAGE_FROM_CLIENT", c, typed') /\ typed' >= 1
    BY <1>6 DEF Say, Write, TypeOK
  <2> QED BY <1>2, <2>1 DEF Request
<1>7. CASE \/ TakeRequest \/ HandleNew \/ HandleNewFull \/ HandleMessage \/ HandleLeave
           \/ HandleStrayLeave \/ Gather \/ UNCHANGED vars
  BY <1>1, <1>7 DEF TakeRequest, HandleNew, HandleNewFull, HandleMessage, HandleLeave,
                    HandleStrayLeave, Gather, vars
<1>8. ASSUME NEW c \in Clients, ReadStep(c) \/ Start(c) \/ Token(c) \/ Post(c) \/ Cancel(c)
      PROVE  Numbered'
  BY <1>1, <1>8 DEF ReadStep, TakeToken, ReadSlot, Unlock, Show, Start, Token, Post, Cancel
<1> QED BY <1>3, <1>4, <1>5, <1>6, <1>7, <1>8 DEF Next, ServerStep

\* A server that says something has something to say.
LEMMA PromptedStep == TypeOK /\ Announced /\ Prompted /\ [Next]_vars => Prompted'
<1> SUFFICES ASSUME TypeOK, Announced, Prompted, [Next]_vars PROVE Prompted'
  OBVIOUS
<1>1. Silent' /\ Numbered'
  BY SilentStep, NumberedStep
<1>2. spc' = "gather" => out' # <<>>
  <2>1. ASSUME UNCHANGED <<spc, out>> PROVE spc' = "gather" => out' # <<>>
    BY <2>1 DEF Prompted
  <2>2. CASE TakeRequest \/ Copy
    BY <2>2 DEF TakeRequest, Copy
  <2>3. CASE HandleNew \/ HandleNewFull
    BY <2>3, WelcomeType DEF HandleNew, HandleNewFull, Handling
  <2>4. CASE HandleMessage \/ HandleLeave \/ HandleStrayLeave
    BY <2>4 DEF HandleMessage, HandleLeave, HandleStrayLeave, Farewell
  <2>5. CASE Put
    BY <2>5 DEF Put
  <2>6. CASE Gather \/ UNCHANGED vars
    BY <2>1, <2>6 DEF Gather, vars
  <2>7. ASSUME NEW c \in Clients, ReadStep(c) \/ Start(c) \/ Token(c) \/ Post(c) \/ Cancel(c)
        PROVE  spc' = "gather" => out' # <<>>
    BY <2>1, <2>7 DEF ReadStep, TakeToken, ReadSlot, Unlock, Show, Start, Token, Post, Cancel
  <2>8. ASSUME NEW c \in Clients, Join(c) \/ Say(c) \/ Leave(c)
        PROVE  spc' = "gather" => out' # <<>>
    BY <2>1, <2>8 DEF Join, Say, Leave, Write
  <2> QED BY <2>2, <2>3, <2>4, <2>5, <2>6, <2>7, <2>8 DEF Next, ServerStep
<1> QED BY <1>1, <1>2 DEF Prompted, Silent, Numbered

\* The invariant holds at the start ...
LEMMA IInvInit == Init => IInv
<1> SUFFICES ASSUME Init PROVE IInv
  OBVIOUS
<1>1. TypeOK
  BY TypeInit
<1>2. \A x \in Clients : wpc[x] = "off" /\ rpc[x] = "off"
  BY DEF Init
<1>3. /\ {x \in Clients : wpc[x] \in Bringing} = {} /\ {x \in Clients : wpc[x] \in Posting} = {}
      /\ {x \in Clients : wpc[x] \in Leaving} = {}
      /\ {x \in Clients : rpc[x] \in Holding} = {} /\ {x \in Clients : rpc[x] \in Losing} = {}
  BY <1>2 DEF Bringing, Posting, Leaving, Holding, Losing
<1>4. /\ Count(wpc, Bringing) = 0 /\ Count(wpc, Posting) = 0 /\ Count(wpc, Leaving) = 0
      /\ Count(rpc, Holding) = 0 /\ Count(rpc, Losing) = 0
  BY <1>3, FS_EmptySet DEF Count
<1>5. Announced
  BY <1>4 DEF Init, Announced, In, Busy
<1>6. Balance
  BY <1>4 DEF Init, Balance
<1>7. Prompted
  BY <1>2 DEF Init, Prompted, Nothing
<1> QED BY <1>1, <1>5, <1>6, <1>7 DEF IInv

\* ... and every step keeps it.
LEMMA Invariant == Spec => []IInv
<1>1. Init => IInv
  BY IInvInit
<1>2. IInv /\ [Next]_vars => IInv'
  BY TypeStep, AnnouncedStep, BalanceStep, PromptedStep DEF IInv
<1> QED BY <1>1, <1>2, PTL DEF Spec

\* The counts of the invariant are those of the property.
LEMMA TokensAgree ==
  ASSUME TypeOK
  PROVE  /\ Cardinality(InHand) = Count(rpc, Holding) /\ Lost = Count(rpc, Losing)
         /\ Brought = Count(wpc, Bringing)
<1>1. InHand = {x \in Clients : rpc[x] \in Holding}
  BY DEF InHand, Holding
<1>2. {c \in Clients : rpc[c] = "lost"} = {x \in Clients : rpc[x] \in Losing}
  BY DEF Losing
<1>3. {c \in Clients : wpc[c] \notin {"off", "new", "token"}}
        = {x \in Clients : wpc[x] \in Bringing}
  BY DEF TypeOK, Bringing
<1> QED BY <1>1, <1>2, <1>3 DEF Lost, Brought, Count

\* Whatever the order of readers, bursts, joins and cancelled threads, there
\* are as many tokens as clients have brought, but for those lost in the hand
\* of a reader that main() cancelled (client.c:47-75, 102, 202).
THEOREM TokensConservedCorrect == Spec => []TokensConserved
<1>1. IInv => TokensConserved
  <2> SUFFICES ASSUME IInv PROVE TokensConserved
    OBVIOUS
  <2>1. TypeOK /\ Balance
    BY DEF IInv
  <2>2. sem_server2 \in Nat /\ hand \in Nat /\ sem_client \in Nat
    BY <2>1 DEF TypeOK
  <2>3. Count(rpc, Holding) \in Nat /\ Count(rpc, Losing) \in Nat /\ Count(wpc, Bringing) \in Nat
    BY CountType
  <2> QED BY <2>1, <2>2, <2>3, TokensAgree DEF TokensConserved, Tokens, Balance
<1> QED BY <1>1, Invariant, PTL

\* While nobody but the listed clients has brought a token, a burst goes out
\* only when every token is in the server's hand (server.c:122-134).
THEOREM ReadBeforeOverwrittenCorrect == Spec => ReadBeforeOverwritten
<1>1. IInv /\ [Next]_vars => (sem_client' > sem_client /\ Brought = size
                                => sem_client = 0 /\ InHand = {})
  <2> SUFFICES ASSUME IInv, [Next]_vars, sem_client' > sem_client, Brought = size
               PROVE  sem_client = 0 /\ InHand = {}
    OBVIOUS
  <2>1. TypeOK /\ Balance
    BY DEF IInv
  <2>2. sem_server2 \in Nat /\ hand \in Nat /\ sem_client \in Nat /\ size \in Int
    BY <2>1 DEF TypeOK
  <2>3. Count(rpc, Holding) \in Nat /\ Count(rpc, Losing) \in Nat
    BY CountType
  <2>4. Put
    <3>1. sem_client' # sem_client /\ ~(sem_client' = sem_client - 1)
      BY <2>2
    <3>2. ASSUME NEW c \in Clients, ReadStep(c) \/ Cancel(c) \/ Start(c) \/ Token(c) \/ Post(c)
          PROVE  FALSE
      BY <3>1, <3>2 DEF ReadStep, TakeToken, ReadSlot, Unlock, Show, Cancel, Start, Token, Post
    <3>3. ASSUME NEW c \in Clients, Join(c) \/ Say(c) \/ Leave(c) PROVE FALSE
      BY <3>1, <3>3 DEF Join, Say, Leave, Write
    <3>4. CASE \/ TakeRequest \/ Copy \/ HandleNew \/ HandleNewFull \/ HandleMessage
               \/ HandleLeave \/ HandleStrayLeave \/ Gather \/ UNCHANGED vars
      BY <3>1, <3>4 DEF TakeRequest, Copy, HandleNew, HandleNewFull, HandleMessage,
                        HandleLeave, HandleStrayLeave, Gather, vars
    <3> QED BY <3>2, <3>3, <3>4 DEF Next, ServerStep
  <2>5. hand >= size
    BY <2>4 DEF Put
  <2>6. Count(wpc, Bringing) = size
    BY <2>1, TokensAgree
  <2>7. sem_client = 0 /\ Count(rpc, Holding) = 0
    BY <2>1, <2>2, <2>3, <2>5, <2>6 DEF Balance
  <2>8. Cardinality(InHand) = 0
    BY <2>1, <2>7, TokensAgree
  <2>9. InHand = {}
    <3>1. IsFiniteSet(InHand)
      <4>1. InHand \in SUBSET Clients
        BY DEF InHand
      <4> QED BY <4>1, ShmAssumption, FS_Subset
    <3> QED BY <2>8, <3>1, FS_EmptySet
  <2> QED BY <2>7, <2>9
<1> QED BY <1>1, Invariant, PTL DEF Spec, ReadBeforeOverwritten

--------------------------------------------------------------------------------
(* What a window has shown is never later than what it can still be given *)

Live(m) == m.cat = "MESSAGE_FROM_CLIENT"

\* A window is behind what its reader holds, that is behind the slot, and that
\* is behind the store, whose last line is what the server has to say live.
Recent ==
  /\ \A c \in Clients :
       /\ shown[c] <= Len(store)
       /\ Live(heard[c]) => shown[c] <= heard[c].text /\ heard[c].text <= Len(store)
  /\ Live(message) =>
       /\ message.text <= Len(store)
       /\ \A c \in Clients :
            /\ shown[c] <= message.text
            /\ Live(heard[c]) => heard[c].text <= message.text
  /\ spc = "gather" => \A i \in 1 .. Len(out) : Live(out[i]) => out[i].text = Len(store)

\* A live line has a number.
LEMMA LiveType ==
  ASSUME NEW m \in Messages \cup {Nothing}, Live(m)
  PROVE  m.text \in Nat
<1>1. MaxLines \in Nat /\ Cardinality(Clients) \in Nat
  BY ShmAssumption, FS_CardinalityType
<1>2. Texts \subseteq Nat
  BY <1>1 DEF Texts
<1>3. m \in Messages
  BY DEF Live, Nothing
<1>4. m.text \in Texts
  BY <1>3 DEF Messages
<1> QED BY <1>2, <1>4

LEMMA RecentTypes ==
  ASSUME TypeOK
  PROVE  /\ Len(store) \in Nat /\ \A c \in Clients : shown[c] \in Nat
         /\ Live(message) => message.text \in Nat
         /\ \A c \in Clients : Live(heard[c]) => heard[c].text \in Nat
<1>1. MaxLines \in Nat /\ Cardinality(Clients) \in Nat
  BY ShmAssumption, FS_CardinalityType
<1>2. Texts \subseteq Nat
  BY <1>1 DEF Texts
<1>3. store \in Seq(1 .. MaxLines) /\ shown \in [Clients -> Texts]
  BY DEF TypeOK
<1>3a. Len(store) \in Nat /\ \A c \in Clients : shown[c] \in Nat
  BY <1>2, <1>3, LenProperties
<1>4. message \in Messages \cup {Nothing} /\ \A c \in Clients : heard[c] \in Messages \cup {Nothing}
  BY DEF TypeOK
<1> QED BY <1>3a, <1>4, LiveType

\* The server says of a newcomer nothing that is live.
LEMMA NothingLive ==
  ASSUME TypeOK, Announced, local.cat = "NEW_CLIENT",
         NEW o, o = <<Message(local.cat, NoText)>> \o Replay, NEW i \in 1 .. Len(o)
  PROVE  ~Live(o[i])
<1>1. local.from \in Clients
  BY LocalType
<1>2. Replay \in Seq(Messages) /\ Len(Replay) = Len(store)
  BY <1>1, ReplayType
<1>3. NoText \in Texts
  BY StoreFits DEF NoText, TypeOK
<1>4. /\ <<Message(local.cat, NoText)>> \in Seq(Messages)
      /\ Len(<<Message(local.cat, NoText)>>) = 1
      /\ <<Message(local.cat, NoText)>>[1] = Message(local.cat, NoText)
  BY <1>3, MessageType
<1>5. Len(o) = 1 + Len(Replay)
      /\ o[i] = IF i <= 1 THEN <<Message(local.cat, NoText)>>[i] ELSE Replay[i - 1]
  BY <1>2, <1>4, ConcatProperties
<1>6. CASE i = 1
  BY <1>4, <1>5, <1>6 DEF Message, Live
<1>7. CASE i > 1
  <2>1. Len(store) \in Nat /\ DOMAIN store = 1 .. Len(store) /\ i - 1 \in 1 .. Len(store)
    BY <1>2, <1>5, <1>7 DEF TypeOK
  <2>2. Replay[i - 1].cat = "LOADING_MESSAGE"
    BY <2>1 DEF Replay
  <2> QED BY <1>5, <1>7, <2>2 DEF Live
<1> QED BY <1>6, <1>7

\* A window shows only what its reader holds, and the slot takes only the last line.
LEMMA RecentStep ==
  TypeOK /\ Announced /\ Prompted /\ Recent /\ [Next]_vars
    => Recent' /\ \A c \in Clients : shown'[c] >= shown[c]
<1> SUFFICES ASSUME TypeOK, Announced, Prompted, Recent, [Next]_vars
             PROVE  Recent' /\ \A c \in Clients : shown'[c] >= shown[c]
  OBVIOUS
<1> USE RecentTypes
<1>1. ASSUME UNCHANGED <<shown, heard, message, store, out>>, spc' = "gather" => spc = "gather"
      PROVE  Recent' /\ \A c \in Clients : shown'[c] >= shown[c]
  BY <1>1 DEF Recent
<1>2. CASE TakeRequest \/ Copy \/ Gather \/ UNCHANGED vars
  BY <1>1, <1>2 DEF TakeRequest, Copy, Gather, vars
<1>3. ASSUME NEW c \in Clients, Start(c) \/ Token(c) \/ Post(c) \/ Cancel(c) \/ TakeToken(c)
                                 \/ Unlock(c)
      PROVE  Recent' /\ \A d \in Clients : shown'[d] >= shown[d]
  BY <1>1, <1>3 DEF Start, Token, Post, Cancel, TakeToken, Unlock
<1>4. ASSUME NEW c \in Clients, Join(c) \/ Say(c) \/ Leave(c)
      PROVE  Recent' /\ \A d \in Clients : shown'[d] >= shown[d]
  BY <1>1, <1>4 DEF Join, Say, Leave, Write
<1>5. ASSUME NEW c \in Clients, ReadSlot(c)
      PROVE  Recent' /\ \A d \in Clients : shown'[d] >= shown[d]
  <2>1. \A d \in Clients : heard'[d] = IF d = c THEN message ELSE heard[d]
    BY <1>5 DEF ReadSlot, TypeOK
  <2>2. UNCHANGED <<shown, message, store, out, spc>>
    BY <1>5 DEF ReadSlot
  <2> QED BY <2>1, <2>2 DEF Recent
<1>6. ASSUME NEW c \in Clients, Show(c)
      PROVE  Recent' /\ \A d \in Clients : shown'[d] >= shown[d]
  <2>1. \A d \in Clients : heard'[d] = IF d = c THEN Nothing ELSE heard[d]
    BY <1>6 DEF Show, TypeOK
  <2>2. \A d \in Clients :
          shown'[d] = IF d = c /\ Live(heard[c]) THEN heard[c].text ELSE shown[d]
    BY <1>6 DEF Show, TypeOK, Live
  <2>3. UNCHANGED <<message, store, out, spc>>
    BY <1>6 DEF Show
  <2>4. ~Live(Nothing)
    BY DEF Live, Nothing
  <2> QED BY <2>1, <2>2, <2>3, <2>4 DEF Recent
<1>7. ASSUME UNCHANGED <<shown, heard>>, Len(store') \in Nat, Len(store) <= Len(store'),
             message' = message \/ ~Live(message'),
             \A i \in 1 .. Len(out') : Live(out'[i]) => out'[i].text = Len(store')
      PROVE  Recent' /\ \A c \in Clients : shown'[c] >= shown[c]
  BY <1>7 DEF Recent
<1>8. CASE HandleNew \/ HandleNewFull
  <2>1. \A i \in 1 .. Len(out') : ~Live(out'[i])
    BY <1>8, NothingLive DEF HandleNew, HandleNewFull, Handling
  <2>2. UNCHANGED <<shown, heard, store>>
    BY <1>8 DEF HandleNew, HandleNewFull
  <2>3. message' = message \/ ~Live(message')
    BY <1>8 DEF HandleNew, HandleNewFull, Live, Nothing
  <2> QED BY <1>7, <2>1, <2>2, <2>3
<1>9. CASE HandleLeave \/ HandleStrayLeave
  <2>1. out' = Farewell /\ local.cat = "CLIENT_LEAVE"
    BY <1>9 DEF HandleLeave, HandleStrayLeave, Handling
  <2>2. \A i \in 1 .. Len(out') : ~Live(out'[i])
    BY <2>1 DEF Farewell, Message, Live
  <2>3. UNCHANGED <<shown, heard, store>>
    BY <1>9 DEF HandleLeave, HandleStrayLeave
  <2>4. message' = message \/ ~Live(message')
    BY <1>9 DEF HandleLeave, HandleStrayLeave, Live, Nothing
  <2> QED BY <1>7, <2>2, <2>3, <2>4
<1>10. CASE HandleMessage
  <2>1. local.text \in 0 .. MaxLines /\ store \in Seq(1 .. MaxLines)
    BY <1>10, LocalType DEF HandleMessage, Handling, TypeOK
  <2>2. Len(store') = Len(store) + 1 /\ UNCHANGED <<shown, heard, message>>
    BY <1>10, <2>1 DEF HandleMessage
  <2>3. \A i \in 1 .. Len(out') : out'[i].text = Len(store')
    BY <1>10 DEF HandleMessage, Message
  <2> QED BY <1>7, <2>2, <2>3
<1>11. CASE Put
  <2>1. /\ out \in Seq(Messages) /\ out # <<>> /\ message' = Head(out) /\ out' = Tail(out)
        /\ UNCHANGED <<shown, heard, store>> /\ spc = "gather"
    BY <1>11 DEF Put, Prompted, TypeOK
  <2>2. /\ Len(out) \in Nat \ {0} /\ Head(out) = out[1] /\ Len(Tail(out)) = Len(out) - 1
        /\ \A i \in 1 .. Len(out) - 1 : Tail(out)[i] = out[i + 1]
    BY <2>1, HeadTailProperties
  <2>3. \A i \in 1 .. Len(out') : Live(out'[i]) => out'[i].text = Len(store')
    <3>1. \A i \in 1 .. Len(out') : out'[i] = out[i + 1] /\ i + 1 \in 1 .. Len(out)
      BY <2>1, <2>2
    <3> QED BY <2>1, <3>1 DEF Recent
  <2>4. Live(message') => message'.text = Len(store)
    BY <2>1, <2>2 DEF Recent
  <2> QED BY <2>1, <2>3, <2>4 DEF Recent
<1> QED
  BY <1>2, <1>3, <1>4, <1>5, <1>6, <1>8, <1>9, <1>10, <1>11 DEF Next, ServerStep, ReadStep

LEMMA RecentInvariant == Spec => [](IInv /\ Recent)
<1>1. Init => Recent
  BY DEF Init, Recent, Live, Nothing
<1>2. IInv /\ Recent /\ [Next]_vars => Recent'
  BY RecentStep DEF IInv
<1> QED BY <1>1, <1>2, Invariant, PTL DEF Spec

\* Whoever reads what and when, no window steps back behind a live line.
THEOREM NeverBackwardsCorrect == Spec => NeverBackwards
<1>1. IInv /\ Recent /\ [Next]_vars => \A c \in Clients : shown'[c] >= shown[c]
  BY RecentStep DEF IInv
<1> QED BY <1>1, RecentInvariant, PTL DEF Spec, NeverBackwards

--------------------------------------------------------------------------------
(* While no request was written over an unread one *)

Clean == ~muddled /\ mutex1

\* The server has still to copy a request of that kind, or to handle it.
Asked(cat) == unread /\ request.cat = cat
Doing(cat) == spc = "handle" /\ local.cat = cat
Asks(cat, c) == (Asked(cat) /\ request.from = c) \/ (Doing(cat) /\ local.from = c)

\* Writers whose request is in the slot but not announced.
Owing == {"token", "post", "bye"}

\* The unread request is the only one: its writer has still to announce it, or
\* it is announced, or the server goes to copy it.
OneRequest ==
  sem_server + In(spc, {"copy"}) + Count(wpc, Owing) = IF unread THEN 1 ELSE 0

\* Who sent the unread request is where it left it.
AskedRight ==
  /\ unread => request \in Requests
  /\ Asked("NEW_CLIENT") => wpc[request.from] \in {"token", "post", "idle"}
  /\ Asked("MESSAGE_FROM_CLIENT") => request.text = typed
  /\ Asked("CLIENT_LEAVE") => wpc[request.from] \in {"bye", "left"}
  /\ \A c \in Clients : wpc[c] = "token" => Asked("NEW_CLIENT") /\ request.from = c

\* Who sent the request in hand may have gone on, but to its leave at most.
DoingRight ==
  /\ spc = "handle" => local \in Requests
  /\ Doing("NEW_CLIENT") =>
       /\ wpc[local.from] \notin {"off", "new", "token"}
       /\ wpc[local.from] \in {"bye", "left"}
            => Asked("CLIENT_LEAVE") /\ request.from = local.from
  /\ Doing("MESSAGE_FROM_CLIENT")
       => local.text = IF Asked("MESSAGE_FROM_CLIENT") THEN typed - 1 ELSE typed
  /\ Doing("CLIENT_LEAVE") => wpc[local.from] = "left"
  /\ \A cat \in {"NEW_CLIENT", "CLIENT_LEAVE"} :
       Asked(cat) /\ Doing(cat) => request.from # local.from

\* A client is on the list from the handling of its first request to that of its last.
OnList(c) ==
  /\ wpc[c] \notin {"off", "new"} /\ ~Asks("NEW_CLIENT", c)
  /\ wpc[c] \in {"bye", "left"} => Asks("CLIENT_LEAVE", c)

Listed ==
  /\ size >= 0 /\ Single(infCl)
  /\ \A c \in Clients : c \in ToSet(infCl) <=> OnList(c)

\* The store lacks the lines that are still to be copied or handled.
Kept ==
  /\ typed = Len(store) + (IF Asked("MESSAGE_FROM_CLIENT") THEN 1 ELSE 0)
                        + (IF Doing("MESSAGE_FROM_CLIENT") THEN 1 ELSE 0)
  /\ \A i \in 1 .. Len(store) : store[i] = i

InOrder == OneRequest /\ AskedRight /\ DoingRight /\ Listed /\ Kept
Ordered == Clean => InOrder

\* The types the order is stated with.
LEMMA OrderTypes ==
  ASSUME TypeOK
  PROVE  /\ sem_server \in Nat /\ Count(wpc, Owing) \in Nat /\ unread \in BOOLEAN
         /\ typed \in Nat /\ Len(store) \in Nat /\ infCl \in Seq(Clients) /\ size \in Int
         /\ wpc \in [Clients -> {"off", "new", "token", "post", "idle", "bye", "left"}]
BY CountType, ShmAssumption DEF TypeOK

\* A request that waits or is handled names a client.
LEMMA FromType ==
  ASSUME AskedRight, DoingRight
  PROVE  /\ unread => request.from \in Clients
                      /\ request.cat \in {"NEW_CLIENT", "MESSAGE_FROM_CLIENT", "CLIENT_LEAVE"}
         /\ spc = "handle" => local.from \in Clients
                      /\ local.cat \in {"NEW_CLIENT", "MESSAGE_FROM_CLIENT", "CLIENT_LEAVE"}
BY DEF AskedRight, DoingRight, Requests

\* Nobody who owes an announcement, nobody in the count.
LEMMA NobodyOwes ==
  ASSUME Count(wpc, Owing) = 0
  PROVE  \A c \in Clients : wpc[c] \notin Owing
<1> DEFINE A == {x \in Clients : wpc[x] \in Owing}
<1>1. IsFiniteSet(A)
  BY ShmAssumption, FS_Subset
<1>2. A = {}
  BY <1>1, FS_EmptySet DEF Count
<1> QED BY <1>2

LEMMA OwingPlaces ==
  \A p \in {"off", "new", "token", "post", "idle", "bye", "left"} :
     In(p, Owing) = IF p = "token" \/ p = "post" \/ p = "bye" THEN 1 ELSE 0
BY DEF In, Owing

\* One client goes on from one place to another.
LEMMA OneWriter ==
  ASSUME TypeOK, NEW c \in Clients, NEW from, NEW to, wpc[c] = from,
         wpc' = [wpc EXCEPT ![c] = to]
  PROVE  /\ \A d \in Clients : wpc'[d] = IF d = c THEN to ELSE wpc[d]
         /\ Count(wpc', Owing) = Count(wpc, Owing) + In(to, Owing) - In(from, Owing)
<1>1. \A d \in Clients : wpc'[d] = IF d = c THEN to ELSE wpc[d]
  BY DEF TypeOK
<1> QED BY <1>1, WriterMoves

\* What the order is about.
LEMMA OrderFrame ==
  ASSUME UNCHANGED <<sem_server, spc, wpc, unread, request, local, typed, infCl, size, store>>
  PROVE  InOrder => InOrder'
BY DEF InOrder, OneRequest, AskedRight, DoingRight, Listed, Kept, OnList, Asks, Asked, Doing,
       Single, ToSet

\* A client that starts is in nobody's way.
LEMMA OrderStart ==
  ASSUME TypeOK, InOrder, NEW c \in Clients, Start(c)
  PROVE  InOrder'
<1> USE OrderTypes, FromType
<1>0. /\ wpc[c] = "off" /\ wpc' = [wpc EXCEPT ![c] = "new"]
      /\ UNCHANGED <<sem_server, spc, unread, request, local, typed, infCl, size, store>>
  BY DEF Start
<1>1. /\ \A d \in Clients : wpc'[d] = IF d = c THEN "new" ELSE wpc[d]
      /\ Count(wpc', Owing) = Count(wpc, Owing) + In("new", Owing) - In("off", Owing)
  BY <1>0, OneWriter
<1>2. OneRequest'
  BY <1>0, <1>1, OwingPlaces DEF InOrder, OneRequest
<1>3. AskedRight'
  BY <1>0, <1>1 DEF InOrder, AskedRight, Asked
<1>4. DoingRight'
  BY <1>0, <1>1 DEF InOrder, DoingRight, Asked, Doing
<1>5. Listed'
  BY <1>0, <1>1 DEF InOrder, Listed, OnList, Asks, Asked, Doing
<1>6. Kept'
  BY <1>0 DEF InOrder, Kept, Asked, Doing
<1> QED BY <1>2, <1>3, <1>4, <1>5, <1>6 DEF InOrder

\* A joining client brings its token, with its request still unread.
LEMMA OrderToken ==
  ASSUME TypeOK, InOrder, NEW c \in Clients, Token(c)
  PROVE  InOrder'
<1> USE OrderTypes, FromType
<1>0. /\ wpc[c] = "token" /\ wpc' = [wpc EXCEPT ![c] = "post"]
      /\ UNCHANGED <<sem_server, spc, unread, request, local, typed, infCl, size, store>>
  BY DEF Token
<1>1. /\ \A d \in Clients : wpc'[d] = IF d = c THEN "post" ELSE wpc[d]
      /\ Count(wpc', Owing) = Count(wpc, Owing) + In("post", Owing) - In("token", Owing)
  BY <1>0, OneWriter
<1>2. OneRequest'
  BY <1>0, <1>1, OwingPlaces DEF InOrder, OneRequest
<1>3. AskedRight'
  BY <1>0, <1>1 DEF InOrder, AskedRight, Asked
<1>4. DoingRight'
  BY <1>0, <1>1 DEF InOrder, DoingRight, Asked, Doing
<1>5. Listed'
  BY <1>0, <1>1 DEF InOrder, Listed, OnList, Asks, Asked, Doing
<1>6. Kept'
  BY <1>0 DEF InOrder, Kept, Asked, Doing
<1> QED BY <1>2, <1>3, <1>4, <1>5, <1>6 DEF InOrder

\* A client announces its request, which may have been copied already.
LEMMA OrderPost ==
  ASSUME TypeOK, InOrder, NEW c \in Clients, Post(c)
  PROVE  InOrder'
<1> USE OrderTypes, FromType
<1> DEFINE to == IF wpc[c] = "bye" THEN "left" ELSE "idle"
<1>0. /\ wpc[c] \in {"post", "bye"} /\ wpc' = [wpc EXCEPT ![c] = to]
      /\ sem_server' = sem_server + 1
      /\ UNCHANGED <<spc, unread, request, local, typed, infCl, size, store>>
  BY DEF Post
<1>1. /\ \A d \in Clients : wpc'[d] = IF d = c THEN to ELSE wpc[d]
      /\ Count(wpc', Owing) = Count(wpc, Owing) + In(to, Owing) - In(wpc[c], Owing)
  <2> HIDE DEF to
  <2> QED BY <1>0, OneWriter
<1>2. OneRequest'
  <2>1. In(to, Owing) = 0 /\ In(wpc[c], Owing) = 1
    BY <1>0, OwingPlaces
  <2> HIDE DEF to
  <2>2. Count(wpc', Owing) = Count(wpc, Owing) - 1
    BY <1>1, <2>1
  <2>3. In(spc, {"copy"}) \in Nat /\ In(spc', {"copy"}) = In(spc, {"copy"})
    BY <1>0 DEF In
  <2> QED BY <1>0, <2>2, <2>3 DEF InOrder, OneRequest
<1>3. AskedRight'
  BY <1>0, <1>1 DEF InOrder, AskedRight, Asked
<1>4. DoingRight'
  BY <1>0, <1>1 DEF InOrder, DoingRight, Asked, Doing
<1>5. Listed'
  BY <1>0, <1>1 DEF InOrder, Listed, OnList, Asks, Asked, Doing
<1>6. Kept'
  BY <1>0 DEF InOrder, Kept, Asked, Doing
<1> QED BY <1>2, <1>3, <1>4, <1>5, <1>6 DEF InOrder

\* The server takes the announcement and goes to copy.
LEMMA OrderTakeRequest ==
  ASSUME TypeOK, InOrder, TakeRequest
  PROVE  InOrder'
<1> USE OrderTypes, FromType
<1>0. /\ spc = "rest" /\ spc' = "copy" /\ sem_server' = sem_server - 1
      /\ UNCHANGED <<wpc, unread, request, local, typed, infCl, size, store>>
  BY DEF TakeRequest
<1>1. In(spc, {"copy"}) = 0 /\ In(spc', {"copy"}) = 1 /\ Count(wpc', Owing) = Count(wpc, Owing)
  BY <1>0 DEF In
<1>2. OneRequest'
  BY <1>0, <1>1 DEF InOrder, OneRequest
<1>3. AskedRight'
  BY <1>0 DEF InOrder, AskedRight, Asked
<1>4. DoingRight'
  BY <1>0 DEF DoingRight, Doing
<1>5. Listed'
  BY <1>0 DEF InOrder, Listed, OnList, Asks, Asked, Doing
<1>6. Kept'
  BY <1>0 DEF InOrder, Kept, Asked, Doing
<1> QED BY <1>2, <1>3, <1>4, <1>5, <1>6 DEF InOrder

\* What the server copies is the unread request, and its writer is past its announcement.
LEMMA OrderCopy ==
  ASSUME TypeOK, InOrder, Copy
  PROVE  InOrder'
<1> USE OrderTypes, FromType
<1>0. /\ spc = "copy" /\ spc' = "handle" /\ local' = request /\ unread' = FALSE
      /\ UNCHANGED <<sem_server, wpc, request, typed, infCl, size, store>>
  BY DEF Copy
<1>1. unread /\ sem_server = 0 /\ Count(wpc, Owing) = 0
  BY <1>0 DEF InOrder, OneRequest, In
<1>1a. \A c \in Clients : wpc[c] \notin {"token", "post", "bye"}
  BY <1>1, NobodyOwes DEF Owing
<1>2. OneRequest'
  BY <1>0, <1>1 DEF OneRequest, In
<1>3. AskedRight'
  BY <1>0, <1>1a DEF AskedRight, Asked
<1>4. DoingRight'
  BY <1>0, <1>1, <1>1a DEF InOrder, AskedRight, DoingRight, Asked, Doing
<1>5. Listed'
  BY <1>0, <1>1 DEF InOrder, Listed, OnList, Asks, Asked, Doing
<1>6. Kept'
  BY <1>0, <1>1 DEF InOrder, Kept, Asked, Doing
<1> QED BY <1>2, <1>3, <1>4, <1>5, <1>6 DEF InOrder

\* A request is written while nothing is unread.
LEMMA OrderJoin ==
  ASSUME TypeOK, InOrder, NEW c \in Clients, Join(c), ~muddled'
  PROVE  InOrder'
<1> USE OrderTypes, FromType
<1>0. /\ wpc[c] = "new" /\ wpc' = [wpc EXCEPT ![c] = "token"]
      /\ ~unread /\ unread' = TRUE /\ request' = Request("NEW_CLIENT", c, NoText)
      /\ UNCHANGED <<sem_server, spc, local, typed, infCl, size, store>>
  BY DEF Join, Write
<1>0a. request' \in Requests /\ request'.cat = "NEW_CLIENT" /\ request'.from = c
  BY <1>0, RequestType, ShmAssumption DEF NoText
<1>1. /\ \A d \in Clients : wpc'[d] = IF d = c THEN "token" ELSE wpc[d]
      /\ Count(wpc', Owing) = Count(wpc, Owing) + In("token", Owing) - In("new", Owing)
  BY <1>0, OneWriter
<1>2. OneRequest'
  BY <1>0, <1>1, OwingPlaces DEF InOrder, OneRequest, In
<1>3. AskedRight'
  BY <1>0, <1>0a, <1>1 DEF InOrder, AskedRight, Asked
<1>4. DoingRight'
  BY <1>0, <1>0a, <1>1 DEF InOrder, DoingRight, Asked, Doing
<1>5. Listed'
  BY <1>0, <1>0a, <1>1 DEF InOrder, Listed, OnList, Asks, Asked, Doing
<1>6. Kept'
  BY <1>0, <1>0a DEF InOrder, Kept, Asked, Doing
<1> QED BY <1>2, <1>3, <1>4, <1>5, <1>6 DEF InOrder

\* A new line is the last typed.
LEMMA OrderSay ==
  ASSUME TypeOK, InOrder, NEW c \in Clients, Say(c), ~muddled'
  PROVE  InOrder'
<1> USE OrderTypes, FromType
<1>0. /\ wpc[c] = "idle" /\ wpc' = [wpc EXCEPT ![c] = "post"] /\ typed' = typed + 1
      /\ ~unread /\ unread' = TRUE /\ request' = Request("MESSAGE_FROM_CLIENT", c, typed')
      /\ UNCHANGED <<sem_server, spc, local, infCl, size, store>>
  BY DEF Say, Write
<1>0b. typed' \in 0 .. MaxLines
  <2>1. typed < MaxLines /\ typed \in 0 .. MaxLines /\ MaxLines \in Nat
    BY ShmAssumption DEF Say, TypeOK
  <2> QED BY <1>0, <2>1
<1>0a. /\ request' \in Requests /\ request'.cat = "MESSAGE_FROM_CLIENT"
       /\ request'.from = c /\ request'.text = typed'
  BY <1>0, <1>0b, RequestType
<1>1. /\ \A d \in Clients : wpc'[d] = IF d = c THEN "post" ELSE wpc[d]
      /\ Count(wpc', Owing) = Count(wpc, Owing) + In("post", Owing) - In("idle", Owing)
  BY <1>0, OneWriter
<1>2. OneRequest'
  BY <1>0, <1>1, OwingPlaces DEF InOrder, OneRequest, In
<1>3. AskedRight'
  BY <1>0, <1>0a, <1>1 DEF InOrder, AskedRight, Asked
<1>4. DoingRight'
  BY <1>0, <1>0a, <1>1 DEF InOrder, DoingRight, Asked, Doing
<1>5. Listed'
  BY <1>0, <1>0a, <1>1 DEF InOrder, Listed, OnList, Asks, Asked, Doing
<1>6. Kept'
  <2>1. ~Asked("MESSAGE_FROM_CLIENT") /\ Asked("MESSAGE_FROM_CLIENT")'
    BY <1>0, <1>0a DEF Asked
  <2>2. Doing("MESSAGE_FROM_CLIENT")' <=> Doing("MESSAGE_FROM_CLIENT")
    BY <1>0 DEF Doing
  <2> QED BY <1>0, <2>1, <2>2 DEF InOrder, Kept
<1> QED BY <1>2, <1>3, <1>4, <1>5, <1>6 DEF InOrder

\* Who leaves may still be in the server's hand as a newcomer.
LEMMA OrderLeave ==
  ASSUME TypeOK, InOrder, NEW c \in Clients, Leave(c), ~muddled'
  PROVE  InOrder'
<1> USE OrderTypes, FromType
<1>0. /\ wpc[c] = "idle" /\ wpc' = [wpc EXCEPT ![c] = "bye"]
      /\ ~unread /\ unread' = TRUE /\ request' = Request("CLIENT_LEAVE", c, NoText)
      /\ UNCHANGED <<sem_server, spc, local, typed, infCl, size, store>>
  BY DEF Leave, Write
<1>0a. request' \in Requests /\ request'.cat = "CLIENT_LEAVE" /\ request'.from = c
  BY <1>0, RequestType, ShmAssumption DEF NoText
<1>1. /\ \A d \in Clients : wpc'[d] = IF d = c THEN "bye" ELSE wpc[d]
      /\ Count(wpc', Owing) = Count(wpc, Owing) + In("bye", Owing) - In("idle", Owing)
  BY <1>0, OneWriter
<1>2. OneRequest'
  BY <1>0, <1>1, OwingPlaces DEF InOrder, OneRequest, In
<1>3. AskedRight'
  BY <1>0, <1>0a, <1>1 DEF InOrder, AskedRight, Asked
<1>4. DoingRight'
  BY <1>0, <1>0a, <1>1 DEF InOrder, DoingRight, Asked, Doing
<1>5. Listed'
  BY <1>0, <1>0a, <1>1 DEF InOrder, Listed, OnList, Asks, Asked, Doing
<1>6. Kept'
  BY <1>0, <1>0a DEF InOrder, Kept, Asked, Doing
<1> QED BY <1>2, <1>3, <1>4, <1>5, <1>6 DEF InOrder

\* A new entry at the end of the list.
LEMMA Appended ==
  ASSUME NEW s \in Seq(Clients), NEW p \in Clients, p \notin ToSet(s), Single(s)
  PROVE  Single(Append(s, p)) /\ ToSet(Append(s, p)) = ToSet(s) \cup {p}
<1> DEFINE t == Append(s, p)
<1>1. /\ t \in Seq(Clients) /\ Len(t) = Len(s) + 1 /\ Len(s) \in Nat /\ t[Len(s) + 1] = p
      /\ \A i \in 1 .. Len(s) : t[i] = s[i]
  BY AppendProperties, LenProperties
<1> HIDE DEF t
<1>2. DOMAIN t = 1 .. Len(t) /\ DOMAIN s = 1 .. Len(s)
  BY <1>1
<1>3. ToSet(t) = {t[i] : i \in 1 .. Len(t)} /\ ToSet(s) = {s[i] : i \in 1 .. Len(s)}
  BY <1>2 DEF ToSet
<1>4. \A i \in 1 .. Len(s) : s[i] # p
  BY <1>3
<1>5. ToSet(t) = ToSet(s) \cup {p}
  <2>1. \A i \in 1 .. Len(t) : t[i] = p \/ (i \in 1 .. Len(s) /\ t[i] = s[i])
    BY <1>1
  <2>2. \A i \in 1 .. Len(s) : i \in 1 .. Len(t) /\ t[i] = s[i]
    BY <1>1
  <2>3. Len(s) + 1 \in 1 .. Len(t) /\ t[Len(s) + 1] = p
    BY <1>1
  <2> QED BY <1>3, <2>1, <2>2, <2>3
<1>6. Single(t)
  BY <1>1, <1>4 DEF Single
<1> QED BY <1>5, <1>6 DEF t

\* The newcomer is not listed yet, and is then.
LEMMA OrderHandleNew ==
  ASSUME TypeOK, InOrder, HandleNew
  PROVE  InOrder'
<1> USE OrderTypes, FromType
<1>p. PICK p \in Clients : p = local.from
  BY FromType DEF HandleNew, Handling, InOrder
<1>0. /\ spc = "handle" /\ spc' = "gather" /\ local.cat = "NEW_CLIENT" /\ size' = size + 1
      /\ UNCHANGED <<sem_server, wpc, unread, request, local, typed, store>>
  BY DEF HandleNew, Handling
<1>0a. infCl' = Append(infCl, p)
  BY <1>p DEF HandleNew, InOrder, Listed
<1>2. OneRequest'
  BY <1>0 DEF InOrder, OneRequest, In
<1>3. AskedRight'
  BY <1>0 DEF InOrder, AskedRight, Asked
<1>4. DoingRight'
  BY <1>0 DEF DoingRight, Doing
<1>5. Listed'
  <2>1. p \notin ToSet(infCl)
    BY <1>0, <1>p DEF InOrder, Listed, OnList, Asks, Doing
  <2>2. Single(infCl') /\ ToSet(infCl') = ToSet(infCl) \cup {p}
    BY <1>0a, <2>1, Appended DEF InOrder, Listed
  <2>3. OnList(p)'
    BY <1>0, <1>p DEF InOrder, DoingRight, OnList, Asks, Asked, Doing
  <2>4. \A d \in Clients \ {p} : OnList(d)' <=> OnList(d)
    BY <1>0, <1>p DEF OnList, Asks, Asked, Doing
  <2>5. size' >= 0
    BY <1>0 DEF InOrder, Listed
  <2>6. ASSUME NEW d \in Clients PROVE d \in ToSet(infCl') <=> OnList(d)'
    <3>1. CASE d = p
      BY <2>2, <2>3, <3>1
    <3>2. CASE d # p
      BY <2>2, <2>4, <3>2 DEF InOrder, Listed
    <3> QED BY <3>1, <3>2
  <2> QED BY <2>2, <2>5, <2>6 DEF Listed
<1>6. Kept'
  BY <1>0 DEF InOrder, Kept, Asked, Doing
<1> QED BY <1>2, <1>3, <1>4, <1>5, <1>6 DEF InOrder

\* Who leaves is on the list.
LEMMA LeaverListed ==
  ASSUME TypeOK, InOrder, Handling("CLIENT_LEAVE")
  PROVE  local.from \in ToSet(infCl)
<1>1. local.from \in Clients /\ Doing("CLIENT_LEAVE")
  BY FromType DEF Handling, Doing, InOrder
<1>2. wpc[local.from] = "left"
  BY <1>1 DEF InOrder, DoingRight
<1>3. OnList(local.from)
  BY <1>1, <1>2 DEF OnList, Asks, Asked, Doing, InOrder, AskedRight
<1> QED BY <1>1, <1>3 DEF InOrder, Listed

\* One entry goes, the leaver's.
LEMMA OrderHandleLeave ==
  ASSUME TypeOK, InOrder, HandleLeave
  PROVE  InOrder'
<1> USE OrderTypes, FromType
<1>p. PICK p \in Clients : p = local.from
  BY FromType DEF HandleLeave, Handling, InOrder
<1> DEFINE i == SelectInSeq(infCl, LAMBDA c : c = local.from)
<1>0. /\ spc = "handle" /\ spc' = "gather" /\ local.cat = "CLIENT_LEAVE" /\ size' = size - 1
      /\ UNCHANGED <<sem_server, wpc, unread, request, local, typed, store>>
      /\ local.from \in ToSet(infCl) /\ infCl' = RemoveAt(infCl, i)
  BY DEF HandleLeave, Handling
<1>0b. i \in 1 .. Len(infCl) /\ infCl[i] = p
  BY <1>p, <1>0, Found
<1> HIDE DEF i
<1>2. OneRequest'
  BY <1>0 DEF InOrder, OneRequest, In
<1>3. AskedRight'
  BY <1>0 DEF InOrder, AskedRight, Asked
<1>4. DoingRight'
  BY <1>0 DEF DoingRight, Doing
<1>5. Listed'
  <2>1. Single(infCl)
    BY DEF InOrder, Listed
  <2>2. Single(infCl') /\ ToSet(infCl') = ToSet(infCl) \ {p}
    BY <1>0, <1>0b, <2>1, Removed
  <2>3. ~OnList(p)'
    BY <1>0, <1>p DEF InOrder, DoingRight, OnList, Asks, Asked, Doing
  <2>4. \A d \in Clients \ {p} : OnList(d)' <=> OnList(d)
    BY <1>0, <1>p DEF OnList, Asks, Asked, Doing
  <2>5. size' >= 0
    BY <1>0, <1>0b DEF TypeOK
  <2>6. ASSUME NEW d \in Clients PROVE d \in ToSet(infCl') <=> OnList(d)'
    <3>1. CASE d = p
      BY <2>2, <2>3, <3>1
    <3>2. CASE d # p
      BY <2>2, <2>4, <3>2 DEF InOrder, Listed
    <3> QED BY <3>1, <3>2
  <2> QED BY <2>2, <2>5, <2>6 DEF Listed
<1>6. Kept'
  BY <1>0 DEF InOrder, Kept, Asked, Doing
<1> QED BY <1>2, <1>3, <1>4, <1>5, <1>6 DEF InOrder

\* The line handled is the next of the store.
LEMMA OrderHandleMessage ==
  ASSUME TypeOK, InOrder, HandleMessage
  PROVE  InOrder'
<1> USE OrderTypes, FromType
<1>0. /\ spc = "handle" /\ spc' = "gather" /\ local.cat = "MESSAGE_FROM_CLIENT"
      /\ UNCHANGED <<sem_server, wpc, unread, request, local, typed, infCl, size>>
      /\ store' = Append(store, local.text)
  BY DEF HandleMessage, Handling
<1>1. /\ Len(store') = Len(store) + 1 /\ store'[Len(store) + 1] = local.text
      /\ \A i \in 1 .. Len(store) : store'[i] = store[i]
  <2>1. local.text \in 0 .. MaxLines
    BY <1>0, LocalType
  <2>2. store \in Seq(1 .. MaxLines) /\ 1 .. MaxLines \subseteq 0 .. MaxLines
    BY ShmAssumption DEF TypeOK
  <2>3. store \in Seq(0 .. MaxLines)
    BY <2>2, SeqMonotonic
  <2> QED BY <1>0, <2>1, <2>3, AppendProperties
<1>2. OneRequest'
  BY <1>0 DEF InOrder, OneRequest, In
<1>3. AskedRight'
  BY <1>0 DEF InOrder, AskedRight, Asked
<1>4. DoingRight'
  BY <1>0 DEF DoingRight, Doing
<1>5. Listed'
  BY <1>0 DEF InOrder, Listed, OnList, Asks, Asked, Doing
<1>6. Kept'
  <2>1. local.text = Len(store) + 1
    BY <1>0 DEF InOrder, Kept, DoingRight, Doing
  <2>2. \A i \in 1 .. Len(store') : store'[i] = i
    BY <1>1, <2>1 DEF InOrder, Kept
  <2> QED BY <1>0, <1>1, <2>2 DEF InOrder, Kept, Asked, Doing
<1> QED BY <1>2, <1>3, <1>4, <1>5, <1>6 DEF InOrder

\* What the server says does not touch the order of requests.
LEMMA OrderPut ==
  ASSUME TypeOK, InOrder, Put
  PROVE  InOrder'
<1> USE OrderTypes, FromType
<1>0. /\ spc = "gather" /\ spc' \in {"gather", "rest"}
      /\ UNCHANGED <<sem_server, wpc, unread, request, typed, infCl, size, store>>
  BY DEF Put
<1>2. OneRequest'
  BY <1>0 DEF InOrder, OneRequest, In
<1>3. AskedRight'
  BY <1>0 DEF InOrder, AskedRight, Asked
<1>4. DoingRight'
  BY <1>0 DEF DoingRight, Doing
<1>5. Listed'
  BY <1>0 DEF InOrder, Listed, OnList, Asks, Asked, Doing
<1>6. Kept'
  BY <1>0 DEF InOrder, Kept, Asked, Doing
<1> QED BY <1>2, <1>3, <1>4, <1>5, <1>6 DEF InOrder

\* Once muddled, or with mutex1 kept, the server stays so.
LEMMA CleanBefore == TypeOK /\ [Next]_vars /\ Clean' => Clean
<1> SUFFICES ASSUME TypeOK, [Next]_vars, Clean' PROVE Clean
  OBVIOUS
<1>1. ASSUME UNCHANGED <<muddled, mutex1>> PROVE Clean
  BY <1>1 DEF Clean
<1>2. CASE HandleNewFull
  BY <1>2 DEF HandleNewFull, Clean
<1>3. ASSUME NEW c \in Clients, Join(c) \/ Say(c) \/ Leave(c) PROVE Clean
  BY <1>3 DEF Join, Say, Leave, Write, Clean
<1>4. CASE \/ TakeRequest \/ Copy \/ HandleNew \/ HandleMessage \/ HandleLeave
           \/ HandleStrayLeave \/ Gather \/ Put \/ UNCHANGED vars
  BY <1>1, <1>4 DEF TakeRequest, Copy, HandleNew, HandleMessage, HandleLeave,
                    HandleStrayLeave, Gather, Put, vars
<1>5. ASSUME NEW c \in Clients, ReadStep(c) \/ Start(c) \/ Token(c) \/ Post(c) \/ Cancel(c)
      PROVE  Clean
  BY <1>1, <1>5 DEF ReadStep, TakeToken, ReadSlot, Unlock, Show, Start, Token, Post, Cancel
<1> QED BY <1>2, <1>3, <1>4, <1>5 DEF Next, ServerStep

\* Every step keeps the order while the slot is not muddled.
LEMMA OrderedStep == TypeOK /\ Ordered /\ [Next]_vars => Ordered'
<1> SUFFICES ASSUME TypeOK, Ordered, [Next]_vars, Clean' PROVE InOrder'
  BY DEF Ordered
<1>0. InOrder /\ ~muddled'
  BY CleanBefore DEF Ordered, Clean
<1>1. CASE TakeRequest \/ Copy \/ HandleNew \/ HandleMessage \/ HandleLeave \/ Put
  BY <1>0, <1>1, OrderTakeRequest, OrderCopy, OrderHandleNew, OrderHandleMessage,
     OrderHandleLeave, OrderPut
<1>2. CASE HandleNewFull
  BY <1>2 DEF HandleNewFull, Clean
<1>3. CASE HandleStrayLeave
  BY <1>0, <1>3, LeaverListed DEF HandleStrayLeave
<1>4. ASSUME NEW c \in Clients, Start(c) \/ Token(c) \/ Post(c) \/ Join(c) \/ Say(c) \/ Leave(c)
      PROVE  InOrder'
  BY <1>0, <1>4, OrderStart, OrderToken, OrderPost, OrderJoin, OrderSay, OrderLeave
<1>5. CASE Gather \/ UNCHANGED vars
  BY <1>0, <1>5, OrderFrame DEF Gather, vars
<1>6. ASSUME NEW c \in Clients, ReadStep(c) \/ Cancel(c) PROVE InOrder'
  BY <1>0, <1>6, OrderFrame DEF ReadStep, TakeToken, ReadSlot, Unlock, Show, Cancel
<1> QED BY <1>1, <1>2, <1>3, <1>4, <1>5, <1>6 DEF Next, ServerStep

LEMMA OrderedInit == Init => Ordered
<1> SUFFICES ASSUME Init PROVE InOrder
  BY DEF Ordered
<1>1. \A c \in Clients : wpc[c] = "off"
  BY DEF Init
<1>2. {x \in Clients : wpc[x] \in Owing} = {}
  BY <1>1 DEF Owing
<1>3. Count(wpc, Owing) = 0
  BY <1>2, FS_EmptySet DEF Count
<1>4. OneRequest
  BY <1>3 DEF Init, OneRequest, In
<1>5. AskedRight /\ DoingRight
  BY <1>1 DEF Init, AskedRight, DoingRight, Asked, Doing
<1>6. infCl = <<>> /\ Len(infCl) = 0 /\ ToSet(infCl) = {} /\ size = 0
  BY DEF Init, ToSet
<1>7. Listed
  BY <1>1, <1>6 DEF Listed, Single, OnList
<1>8. Kept
  BY DEF Init, Kept, Asked, Doing
<1> QED BY <1>4, <1>5, <1>7, <1>8 DEF InOrder

LEMMA OrderedInvariant == Spec => [](IInv /\ Ordered)
<1>1. IInv /\ Ordered /\ [Next]_vars => Ordered'
  BY OrderedStep DEF IInv
<1> QED BY <1>1, OrderedInit, Invariant, PTL DEF Spec

\* The clients on the list are those the property names.
LEMMA OnListAgrees ==
  ASSUME TypeOK, InOrder
  PROVE  ToSet(infCl) = Welcome \ Gone
<1>1. \A cat, c : c \in Senders(cat) <=> Asks(cat, c)
  BY DEF Senders, Pending, Asks, Asked, Doing
<1>2. \A c \in Clients : OnList(c) <=> c \in Welcome \ Gone
  BY <1>1 DEF OnList, Welcome, Gone
<1>3. ToSet(infCl) \subseteq Clients
  <2>1. infCl \in Seq(Clients)
    BY DEF TypeOK
  <2>2. \A i \in DOMAIN infCl : infCl[i] \in Clients
    BY <2>1, ElementOfSeq
  <2> QED BY <2>2 DEF ToSet
<1>4. Welcome \subseteq Clients
  BY DEF Welcome
<1> QED BY <1>2, <1>3, <1>4 DEF InOrder, Listed

\* A list without doubles is as long as it has members.
LEMMA SingleLength ==
  ASSUME NEW s \in Seq(Clients), Single(s)
  PROVE  Cardinality(ToSet(s)) = Len(s)
<1>1. Len(s) \in Nat /\ DOMAIN s = 1 .. Len(s)
  BY LenProperties
<1>2. s \in [1 .. Len(s) -> ToSet(s)]
  BY <1>1 DEF ToSet
<1>3. s \in Bijection(1 .. Len(s), ToSet(s))
  BY <1>1, <1>2, Fun_IsBij DEF Single, ToSet
<1> QED BY <1>1, <1>3, FS_CountingElements DEF ExistsBijection

\* At most one line waits and one is handled, and they differ.
LEMMA PendingLines ==
  ASSUME TypeOK, InOrder
  PROVE  Cardinality(Pending("MESSAGE_FROM_CLIENT"))
           = (IF Asked("MESSAGE_FROM_CLIENT") THEN 1 ELSE 0)
             + (IF Doing("MESSAGE_FROM_CLIENT") THEN 1 ELSE 0)
<1> DEFINE m == "MESSAGE_FROM_CLIENT"
<1>1. Pending(m) = (IF Asked(m) THEN {request} ELSE {}) \cup (IF Doing(m) THEN {local} ELSE {})
  BY DEF Pending, Asked, Doing
<1>2. CASE Asked(m) /\ Doing(m)
  <2>1. request.text = typed /\ local.text = typed - 1 /\ typed \in Nat
    BY <1>2, OrderTypes DEF InOrder, AskedRight, DoingRight
  <2>2. request \notin {local}
    BY <2>1
  <2>3. Pending(m) = {local} \cup {request}
    BY <1>1, <1>2
  <2>4. IsFiniteSet({local}) /\ Cardinality({local}) = 1
    BY FS_Singleton
  <2>5. Cardinality({local} \cup {request}) = 2
    BY <2>2, <2>4, FS_AddElement
  <2> QED BY <1>2, <2>3, <2>5
<1>3. CASE ~Asked(m) /\ Doing(m)
  <2>1. Pending(m) = {local}
    BY <1>1, <1>3
  <2> QED BY <1>3, <2>1, FS_Singleton
<1>4. CASE Asked(m) /\ ~Doing(m)
  <2>1. Pending(m) = {request}
    BY <1>1, <1>4
  <2> QED BY <1>4, <2>1, FS_Singleton
<1>5. CASE ~Asked(m) /\ ~Doing(m)
  <2>1. Pending(m) = {}
    BY <1>1, <1>5
  <2> QED BY <1>5, <2>1, FS_EmptySet
<1> QED BY <1>2, <1>3, <1>4, <1>5

\* The size of the list is the number of clients on it.
LEMMA ListSize ==
  ASSUME TypeOK, InOrder
  PROVE  size = Cardinality(Welcome \ Gone)
<1>1. size = Len(infCl) /\ infCl \in Seq(Clients) /\ Single(infCl)
  BY DEF TypeOK, InOrder, Listed
<1> QED BY <1>1, SingleLength, OnListAgrees

\* However clients join, talk and leave at once, a server whose slot was never
\* written over an unread request lists each of them once and stores every
\* line in its place (server.c:66-116).
THEOREM OneByOneCorrect == Spec => []OneByOne
<1>1. IInv /\ Ordered => OneByOne
  <2> SUFFICES ASSUME TypeOK, InOrder
               PROVE  /\ ToSet(infCl) = Welcome \ Gone /\ size = Cardinality(Welcome \ Gone)
                      /\ store = [i \in 1 .. typed - Cardinality(Pending("MESSAGE_FROM_CLIENT"))
                                    |-> i]
    BY DEF IInv, Ordered, Clean, OneByOne
  <2>1. Len(store) = typed - Cardinality(Pending("MESSAGE_FROM_CLIENT"))
    <3> DEFINE a == IF Asked("MESSAGE_FROM_CLIENT") THEN 1 ELSE 0
               d == IF Doing("MESSAGE_FROM_CLIENT") THEN 1 ELSE 0
    <3>1. a \in 0 .. 1 /\ d \in 0 .. 1
      OBVIOUS
    <3>2. Cardinality(Pending("MESSAGE_FROM_CLIENT")) = a + d
      BY PendingLines
    <3>3. typed = Len(store) + a + d /\ Len(store) \in Nat
      BY OrderTypes DEF InOrder, Kept
    <3> HIDE DEF a, d
    <3> QED BY <3>1, <3>2, <3>3
  <2>2. store \in Seq(1 .. MaxLines)
    BY DEF TypeOK
  <2>3. store = [i \in 1 .. Len(store) |-> store[i]]
    BY <2>2
  <2>4. store = [i \in 1 .. Len(store) |-> i]
    BY <2>3 DEF InOrder, Kept
  <2> QED BY <2>1, <2>4, OnListAgrees, ListSize
<1> QED BY <1>1, OrderedInvariant, PTL

\* Every listed client has brought its token, so the server finds as many as
\* it waits for, or will be given them back (server.c:122-124, 142-144, 179-181).
THEOREM ServerCanGatherCorrect == Spec => []ServerCanGather
<1>1. IInv /\ Ordered => ServerCanGather
  <2> SUFFICES ASSUME TypeOK, Balance, InOrder, Lost = 0 PROVE size <= Tokens
    BY DEF IInv, Ordered, Clean, ServerCanGather
  <2>1. \A c \in Welcome : wpc[c] \notin {"off", "new", "token"}
    <3>1. \A c \in Clients : wpc[c] = "token" => c \in Senders("NEW_CLIENT")
      BY DEF InOrder, AskedRight, Asked, Senders, Pending
    <3> QED BY <3>1 DEF Welcome
  <2>2. Welcome \ Gone \in SUBSET {c \in Clients : wpc[c] \notin {"off", "new", "token"}}
    BY <2>1 DEF Welcome
  <2>3. {c \in Clients : wpc[c] \notin {"off", "new", "token"}} \in SUBSET Clients
    OBVIOUS
  <2>4. IsFiniteSet({c \in Clients : wpc[c] \notin {"off", "new", "token"}})
    BY <2>3, ShmAssumption, FS_Subset
  <2>5. size <= Brought
    BY <2>2, <2>4, FS_Subset, ListSize DEF Brought
  <2>6. Tokens = Brought
    <3>1. sem_server2 \in Nat /\ hand \in Nat /\ sem_client \in Nat
      BY DEF TypeOK
    <3>2. /\ Count(rpc, Holding) \in Nat /\ Count(rpc, Losing) \in Nat
          /\ Count(wpc, Bringing) \in Nat
      BY CountType
    <3> QED BY <3>1, <3>2, TokensAgree DEF Tokens, Balance
  <2> QED BY <2>5, <2>6
<1> QED BY <1>1, OrderedInvariant, PTL
================================================================================
