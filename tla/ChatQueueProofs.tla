----------------------------- MODULE ChatQueueProofs -----------------------------
(***************************************************************************)
(* Proofs about the chat over two queues, for any clients, any number of   *)
(* places and lines and any size of the second queue.                      *)
(***************************************************************************)
EXTENDS ChatQueue, DataLemmas, FiniteSetTheorems

Sent == MessagesTo(Clients)

\* The lines of a sequence of messages.
Lined(said) == [i \in DOMAIN said |-> said[i].line]

\* The messages that carry a line.
LEMMA SayingIs ==
  /\ \A m \in Sent : m \in Saying <=> m.cat = "MESSAGE_FROM_CLIENT"
  /\ \A m \in Saying : m \in Sent /\ m.line \in Lines
  /\ Saying \subseteq Sent
BY DEF Saying, Sent, MessagesTo

\* Their lines are as many, in the same order.
LEMMA LinedIs ==
  ASSUME NEW s \in Seq(Saying)
  PROVE  /\ Lined(s) \in Seq(Lines) /\ Len(Lined(s)) = Len(s)
         /\ \A i \in 1 .. Len(s) : Lined(s)[i] = s[i].line
<1>1. Len(s) \in Nat /\ DOMAIN s = 1 .. Len(s) /\ \A i \in 1 .. Len(s) : s[i] \in Saying
  BY LenProperties, ElementOfSeq
<1>2. Lined(s) \in [1 .. Len(s) -> Lines]
  BY <1>1, SayingIs DEF Lined
<1>3. \A i \in 1 .. Len(s) : Lined(s)[i] = s[i].line
  BY <1>1 DEF Lined
<1> HIDE DEF Lined
<1> QED BY <1>1, <1>2, <1>3, FunctionIsSeq

\* The lines of messages that are all lines, and of more of them.
LEMMA LinedConcat ==
  ASSUME NEW s \in Seq(Saying), NEW t \in Seq(Saying)
  PROVE  Lined(s \o t) = Lined(s) \o Lined(t)
<1> DEFINE u == s \o t
           v == Lined(s) \o Lined(t)
<1>1. /\ u \in Seq(Saying) /\ Len(u) = Len(s) + Len(t) /\ Len(s) \in Nat /\ Len(t) \in Nat
      /\ \A i \in 1 .. Len(s) + Len(t) : u[i] = IF i <= Len(s) THEN s[i] ELSE t[i - Len(s)]
  BY ConcatProperties, LenProperties
<1>2. /\ Lined(s) \in Seq(Lines) /\ Len(Lined(s)) = Len(s)
      /\ \A i \in 1 .. Len(s) : Lined(s)[i] = s[i].line
  BY LinedIs
<1>3. /\ Lined(t) \in Seq(Lines) /\ Len(Lined(t)) = Len(t)
      /\ \A i \in 1 .. Len(t) : Lined(t)[i] = t[i].line
  BY LinedIs
<1>4. /\ v \in Seq(Lines) /\ Len(v) = Len(s) + Len(t)
      /\ \A i \in 1 .. Len(s) + Len(t) :
           v[i] = IF i <= Len(s) THEN Lined(s)[i] ELSE Lined(t)[i - Len(s)]
  <2>1. PICK a \in Seq(Lines) : a = Lined(s)
    BY <1>2
  <2>2. PICK b \in Seq(Lines) : b = Lined(t)
    BY <1>3
  <2>3. /\ a \o b \in Seq(Lines) /\ Len(a \o b) = Len(a) + Len(b)
        /\ \A i \in 1 .. Len(a) + Len(b) : (a \o b)[i] = IF i <= Len(a) THEN a[i] ELSE b[i - Len(a)]
    BY ConcatProperties
  <2> HIDE DEF Lined
  <2> QED BY <1>2, <1>3, <2>1, <2>2, <2>3
<1>5. /\ Lined(u) \in Seq(Lines) /\ Len(Lined(u)) = Len(u)
      /\ \A i \in 1 .. Len(u) : Lined(u)[i] = u[i].line
  BY <1>1, LinedIs
<1> HIDE DEF u, v, Lined
<1>6. \A i \in 1 .. Len(Lined(u)) : Lined(u)[i] = v[i]
  <2> TAKE i \in 1 .. Len(Lined(u))
  <2>1. i \in 1 .. Len(u) /\ i \in 1 .. Len(s) + Len(t)
    BY <1>1, <1>5
  <2>2. CASE i <= Len(s)
    <3>1. i \in 1 .. Len(s)
      BY <1>1, <2>1, <2>2
    <3>2. Lined(u)[i] = u[i].line /\ u[i] = s[i] /\ v[i] = Lined(s)[i]
      BY <1>1, <1>4, <1>5, <2>1, <2>2
    <3> QED BY <1>2, <3>1, <3>2
  <2>3. CASE ~(i <= Len(s))
    <3>1. PICK g \in 1 .. Len(t) : g = i - Len(s)
      BY <1>1, <2>1, <2>3
    <3>2. Lined(u)[i] = u[i].line /\ u[i] = t[g] /\ v[i] = Lined(t)[g]
      BY <1>1, <1>4, <1>5, <2>1, <2>3, <3>1
    <3> QED BY <1>3, <3>2
  <2> QED BY <2>2, <2>3
<1>7. Len(Lined(u)) = Len(v)
  BY <1>1, <1>4, <1>5
<1>8. Lined(u) = v
  BY <1>4, <1>5, <1>6, <1>7, SeqEqual
<1> QED BY <1>8 DEF u, v

\* LinesOf takes the lines of the messages that carry one.
LEMMA SaidIs ==
  ASSUME NEW q \in Seq(Sent)
  PROVE  Keep(q, Saying) \in Seq(Saying) /\ LinesOf(q) = Lined(Keep(q, Saying))
<1>1. Keep(q, Saying) \in Seq(Saying \cap Sent) /\ Saying \cap Sent = Saying
  BY KeptType, SayingIs
<1>2. LinesOf(q) = Lined(Keep(q, Saying))
  BY DEF LinesOf, Lined
<1> QED BY <1>1, <1>2

\* What it takes is a sequence of lines.
LEMMA LinesType ==
  ASSUME NEW q \in Seq(Sent)
  PROVE  LinesOf(q) \in Seq(Lines)
BY SaidIs, LinedIs

\* The lines of messages and of those that follow.
LEMMA LinesConcat ==
  ASSUME NEW q \in Seq(Sent), NEW r \in Seq(Sent)
  PROVE  LinesOf(q \o r) = LinesOf(q) \o LinesOf(r)
<1> DEFINE a == Keep(q, Saying)
           b == Keep(r, Saying)
<1>1. a \in Seq(Saying) /\ LinesOf(q) = Lined(a)
  BY SaidIs
<1>2. b \in Seq(Saying) /\ LinesOf(r) = Lined(b)
  BY SaidIs
<1>3. q \o r \in Seq(Sent) /\ Keep(q \o r, Saying) = a \o b
  BY KeepConcat, ConcatProperties
<1>4. LinesOf(q \o r) = Lined(a \o b)
  <2>1. PICK u \in Seq(Sent) : u = q \o r
    BY <1>3
  <2>2. LinesOf(u) = Lined(Keep(u, Saying))
    BY SaidIs
  <2> QED BY <1>3, <2>1, <2>2
<1> HIDE DEF a, b
<1>5. Lined(a \o b) = Lined(a) \o Lined(b)
  BY <1>1, <1>2, LinedConcat
<1> QED BY <1>1, <1>2, <1>4, <1>5

\* Messages without a line among them.
LEMMA LinesNone ==
  ASSUME NEW q \in Seq(Sent), \A i \in 1 .. Len(q) : q[i].cat # "MESSAGE_FROM_CLIENT"
  PROVE  LinesOf(q) = <<>>
<1>1. Len(q) \in Nat /\ \A i \in 1 .. Len(q) : q[i] \notin Saying
  BY LenProperties DEF Saying
<1>2. Keep(q, Saying) = <<>>
  BY <1>1, KeepNone
<1>3. <<>> \in Seq(Saying) /\ Len(<<>>) = 0
  BY EmptySeq
<1>4. Lined(<<>>) \in Seq(Lines) /\ Len(Lined(<<>>)) = 0
  BY <1>3, LinedIs
<1>5. Lined(<<>>) = <<>>
  BY <1>4, EmptySeq
<1> QED BY <1>2, <1>5, SaidIs

\* One message.
LEMMA LinesOne ==
  ASSUME NEW m \in Sent
  PROVE  /\ <<m>> \in Seq(Sent)
         /\ LinesOf(<<m>>) = IF m.cat = "MESSAGE_FROM_CLIENT" THEN <<m.line>> ELSE <<>>
<1>1. <<m>> \in Seq(Sent) /\ Len(<<m>>) = 1 /\ <<m>>[1] = m
  OBVIOUS
<1>2. CASE m.cat # "MESSAGE_FROM_CLIENT"
  <2>1. PICK r \in Seq(Sent) : r = <<m>>
    BY <1>1
  <2>2. \A i \in 1 .. Len(r) : r[i].cat # "MESSAGE_FROM_CLIENT"
    BY <1>2, <2>1
  <2>3. LinesOf(r) = <<>>
    BY <2>2, LinesNone
  <2> QED BY <1>1, <1>2, <2>1, <2>3
<1>3. CASE m.cat = "MESSAGE_FROM_CLIENT"
  <2>1. m \in Saying
    BY <1>3, SayingIs
  <2>2. <<m>> \in Seq(Saying)
    BY <2>1
  <2>3. Keep(<<m>>, Saying) = <<m>>
    BY <2>2, KeepAll
  <2>4. Lined(<<m>>) \in Seq(Lines) /\ Len(Lined(<<m>>)) = 1 /\ Lined(<<m>>)[1] = m.line
    BY <1>1, <2>2, LinedIs
  <2>5. m.line \in Lines
    BY <2>1, SayingIs
  <2>6. PICK l \in Seq(Lines) : l = Lined(<<m>>)
    BY <2>4
  <2>7. PICK x \in Lines : x = m.line
    BY <2>5
  <2>8. <<x>> \in Seq(Lines) /\ Len(<<x>>) = 1 /\ <<x>>[1] = x
    OBVIOUS
  <2>9. l = <<x>>
    BY <2>4, <2>6, <2>7, <2>8, SeqEqual
  <2> QED BY <1>1, <1>3, <2>3, <2>6, <2>7, <2>9, SaidIs
<1> QED BY <1>1, <1>2, <1>3

\* The first message and the lines after it.
LEMMA LinesTail ==
  ASSUME NEW q \in Seq(Sent), q # <<>>
  PROVE  LinesOf(q) = (IF Head(q).cat = "MESSAGE_FROM_CLIENT" THEN <<Head(q).line>> ELSE <<>>)
                        \o LinesOf(Tail(q))
<1>1. Head(q) \in Sent /\ Tail(q) \in Seq(Sent)
  BY HeadTailProperties
<1>2. PICK m \in Sent : m = Head(q)
  BY <1>1
<1>3. PICK r \in Seq(Sent) : r = Tail(q)
  BY <1>1
<1>4. q = <<m>> \o r
  BY <1>2, <1>3, HeadTailIs
<1>5. /\ <<m>> \in Seq(Sent)
      /\ LinesOf(<<m>>) = IF m.cat = "MESSAGE_FROM_CLIENT" THEN <<m.line>> ELSE <<>>
  BY LinesOne
<1>6. LinesOf(<<m>> \o r) = LinesOf(<<m>>) \o LinesOf(r)
  BY <1>5, LinesConcat
<1> QED BY <1>2, <1>3, <1>4, <1>5, <1>6

--------------------------------------------------------------------------------
For(c) == MessagesTo({c})

\* The messages for one client, and those for the others.
LEMMA ForIs ==
  ASSUME NEW c \in Clients
  PROVE  /\ For(c) \subseteq Sent
         /\ \A m \in Sent : m \in For(c) <=> m.to = c
         /\ \A x \in Clients : MessagesTo(Clients \ {x}) \cap For(c) = IF x = c THEN {} ELSE For(c)
BY DEF For, Sent, MessagesTo

\* The line goes with the category.
Sendable(cat, line) ==
  \/ cat \in {"NEW_CLIENT", "MESSAGE_FROM_SERVER", "CLIENT_LEAVE"} /\ line \in News
  \/ cat = "MESSAGE_FROM_CLIENT" /\ line \in Lines

\* Such a message is one the server sends.
LEMMA SendableIs ==
  ASSUME NEW c \in Clients, NEW cat, NEW line, Sendable(cat, line)
  PROVE  /\ Msg(c, cat, line) \in Sent /\ Msg(c, cat, line) \in For(c)
         /\ Msg(c, cat, line).to = c /\ Msg(c, cat, line).cat = cat /\ Msg(c, cat, line).line = line
BY DEF Sendable, Sent, For, MessagesTo, Msg

\* A message to all is one to each client of the list, in its order.
LEMMA ToAllIs ==
  ASSUME NEW l \in Seq(Clients), NEW cat, NEW line, Sendable(cat, line)
  PROVE  /\ ToAll(l, cat, line) \in Seq(Sent) /\ Len(ToAll(l, cat, line)) = Len(l)
         /\ \A i \in 1 .. Len(l) : ToAll(l, cat, line)[i] = Msg(l[i], cat, line)
<1>1. Len(l) \in Nat /\ DOMAIN l = 1 .. Len(l) /\ \A i \in 1 .. Len(l) : l[i] \in Clients
  BY LenProperties, ElementOfSeq
<1>2. \A i \in 1 .. Len(l) : Msg(l[i], cat, line) \in Sent
  BY <1>1, SendableIs
<1>3. /\ ToAll(l, cat, line) \in [1 .. Len(l) -> Sent]
      /\ \A i \in 1 .. Len(l) : ToAll(l, cat, line)[i] = Msg(l[i], cat, line)
  BY <1>1, <1>2 DEF ToAll
<1> HIDE DEF ToAll
<1> QED BY <1>1, <1>3, FunctionIsSeq

\* No member twice.
Distinct(l) == \A i, j \in 1 .. Len(l) : l[i] = l[j] => i = j

In(c, l) == \E i \in 1 .. Len(l) : l[i] = c

\* Of a message to every client of a list, each of them gets one.
LEMMA ToAllKept ==
  ASSUME NEW l \in Seq(Clients), Distinct(l), NEW cat, NEW line, Sendable(cat, line), NEW c \in Clients
  PROVE  Keep(ToAll(l, cat, line), For(c)) = IF In(c, l) THEN <<Msg(c, cat, line)>> ELSE <<>>
<1> DEFINE s == ToAll(l, cat, line)
<1>1. /\ Len(s) \in Nat /\ Len(s) = Len(l)
      /\ \A i \in 1 .. Len(l) : s[i] = Msg(l[i], cat, line) /\ l[i] \in Clients
  BY ToAllIs, LenProperties, ElementOfSeq
<1> HIDE DEF s
<1>2. \A i \in 1 .. Len(l) : s[i] \in For(c) <=> l[i] = c
  <2> TAKE i \in 1 .. Len(l)
  <2>1. PICK d \in Clients : d = l[i] /\ s[i] = Msg(d, cat, line)
    BY <1>1
  <2>2. Msg(d, cat, line) \in Sent /\ Msg(d, cat, line).to = d
    BY SendableIs
  <2> QED BY <2>1, <2>2, ForIs
<1>3. CASE In(c, l)
  <2>1. PICK i \in 1 .. Len(s) : l[i] = c
    BY <1>1, <1>3 DEF In
  <2>2. s[i] \in For(c) /\ \A j \in 1 .. Len(s) : j # i => s[j] \notin For(c)
    BY <1>1, <1>2, <2>1 DEF Distinct
  <2>3. Keep(s, For(c)) = <<s[i]>>
    BY <1>1, <2>2, KeepOnly
  <2>4. s[i] = Msg(c, cat, line)
    BY <1>1, <2>1
  <2> QED BY <1>3, <2>3, <2>4 DEF s
<1>4. CASE ~In(c, l)
  <2>1. \A i \in 1 .. Len(s) : s[i] \notin For(c)
    BY <1>1, <1>2, <1>4 DEF In
  <2>2. Keep(s, For(c)) = <<>>
    BY <1>1, <2>1, KeepNone
  <2> QED BY <1>4, <2>2 DEF s
<1> QED BY <1>3, <1>4

\* What is said of a newcomer.
LEMMA NewsIs ==
  ASSUME NEW x \in Clients
  PROVE  Line(x, NoText) \in News /\ Line(x, NoText).from = x
BY DEF Line, News

\* Who hears of a newcomer.
LEMMA AnnounceKept ==
  ASSUME NEW l \in Seq(Clients), Distinct(l), NEW x \in Clients, NEW c \in Clients
  PROVE  /\ Announce(l, x) \in Seq(Sent)
         /\ Keep(Announce(l, x), For(c)) =
              IF In(c, l) /\ (Len(l) > 1 => c # x) THEN <<Msg(c, "NEW_CLIENT", Line(x, NoText))>>
              ELSE <<>>
<1> DEFINE all == ToAll(l, "NEW_CLIENT", Line(x, NoText))
           S == MessagesTo(Clients \ {x})
<1>0. Sendable("NEW_CLIENT", Line(x, NoText))
  BY NewsIs DEF Sendable
<1>1. all \in Seq(Sent)
  BY <1>0, ToAllIs
<1>2. Keep(all, For(c)) = IF In(c, l) THEN <<Msg(c, "NEW_CLIENT", Line(x, NoText))>> ELSE <<>>
  BY <1>0, ToAllKept
<1>3. Announce(l, x) = IF Len(l) > 1 THEN Keep(all, S) ELSE all
  BY DEF Announce
<1> HIDE DEF all, S
<1>4. CASE Len(l) > 1
  <2>1. Keep(all, S) \in Seq(S \cap Sent)
    BY <1>1, KeptType
  <2>2. Keep(all, S) \in Seq(Sent)
    BY <2>1, SeqMonotonic
  <2>3. Keep(Keep(all, S), For(c)) = Keep(all, S \cap For(c))
    BY <1>1, KeepTwice
  <2>4. S \cap For(c) = IF x = c THEN {} ELSE For(c)
    BY ForIs DEF S
  <2>5. Keep(all, {}) = <<>>
    BY <1>1, KeepNone, LenProperties
  <2> QED BY <1>2, <1>3, <1>4, <2>2, <2>3, <2>4, <2>5
<1>5. CASE ~(Len(l) > 1)
  BY <1>1, <1>2, <1>3, <1>5
<1> QED BY <1>4, <1>5

\* Messages for one client only.
LEMMA OnlyFor ==
  ASSUME NEW s, NEW x \in Clients, s \in Seq(For(x)), NEW c \in Clients
  PROVE  s \in Seq(Sent) /\ Keep(s, For(c)) = IF c = x THEN s ELSE <<>>
<1>1. s \in Seq(Sent)
  BY ForIs, SeqMonotonic
<1>2. CASE c = x
  BY <1>1, <1>2, KeepAll
<1>3. CASE c # x
  <2>1. Len(s) \in Nat /\ \A i \in 1 .. Len(s) : s[i] \in For(x) /\ s[i] \in Sent
    BY <1>1, LenProperties, ElementOfSeq
  <2>2. \A i \in 1 .. Len(s) : s[i] \notin For(c)
    BY <1>3, <2>1, ForIs
  <2> QED BY <1>1, <1>3, <2>1, <2>2, KeepNone
<1> QED BY <1>2, <1>3

\* The list as it is sent to a newcomer.
LEMMA SendRosterIs ==
  ASSUME NEW l \in Seq(Clients), NEW x \in Clients
  PROVE  /\ SendRoster(l, x) \in Seq(For(x))
         /\ Len(SendRoster(l, x)) = IF Len(l) > 1 THEN Len(l) ELSE 0
         /\ \A i \in 1 .. Len(SendRoster(l, x)) :
              SendRoster(l, x)[i] = Msg(x, "NEW_CLIENT", Line(l[i], NoText))
<1> DEFINE s == [i \in DOMAIN l |-> Msg(x, "NEW_CLIENT", Line(l[i], NoText))]
<1>1. Len(l) \in Nat /\ DOMAIN l = 1 .. Len(l) /\ \A i \in 1 .. Len(l) : l[i] \in Clients
  BY LenProperties, ElementOfSeq
<1>2. \A i \in 1 .. Len(l) : Msg(x, "NEW_CLIENT", Line(l[i], NoText)) \in For(x)
  <2> TAKE i \in 1 .. Len(l)
  <2>1. PICK d \in Clients : d = l[i]
    BY <1>1
  <2>2. Sendable("NEW_CLIENT", Line(d, NoText))
    BY NewsIs DEF Sendable
  <2> QED BY <2>1, <2>2, SendableIs
<1>3. s \in [1 .. Len(l) -> For(x)]
  BY <1>1, <1>2
<1>4. \A i \in 1 .. Len(l) : s[i] = Msg(x, "NEW_CLIENT", Line(l[i], NoText))
  BY <1>1
<1>5. SendRoster(l, x) = IF Len(l) > 1 THEN s ELSE <<>>
  BY DEF SendRoster
<1> HIDE DEF s
<1>6. s \in Seq(For(x)) /\ Len(s) = Len(l)
  BY <1>1, <1>3, FunctionIsSeq
<1> QED BY <1>4, <1>5, <1>6, EmptySeq

\* The store as it is sent to a newcomer.
LEMMA ReplayIs ==
  ASSUME NEW x \in Clients, store \in Seq(Lines)
  PROVE  /\ Replay(x) \in Seq(For(x)) /\ Len(Replay(x)) = Len(store)
         /\ \A i \in 1 .. Len(store) : Replay(x)[i] = Msg(x, "MESSAGE_FROM_CLIENT", store[i])
<1>1. Len(store) \in Nat /\ DOMAIN store = 1 .. Len(store) /\ \A i \in 1 .. Len(store) : store[i] \in Lines
  BY LenProperties, ElementOfSeq
<1>2. \A i \in 1 .. Len(store) : Msg(x, "MESSAGE_FROM_CLIENT", store[i]) \in For(x)
  <2> TAKE i \in 1 .. Len(store)
  <2>1. PICK l \in Lines : l = store[i]
    BY <1>1
  <2>2. Sendable("MESSAGE_FROM_CLIENT", l)
    BY DEF Sendable
  <2> QED BY <2>1, <2>2, SendableIs
<1>3. /\ Replay(x) \in [1 .. Len(store) -> For(x)]
      /\ \A i \in 1 .. Len(store) : Replay(x)[i] = Msg(x, "MESSAGE_FROM_CLIENT", store[i])
  BY <1>1, <1>2 DEF Replay
<1> HIDE DEF Replay
<1> QED BY <1>1, <1>3, FunctionIsSeq

\* The replay's lines are the store's.
LEMMA ReplayLines ==
  ASSUME NEW x \in Clients, store \in Seq(Lines)
  PROVE  LinesOf(Replay(x)) = store
<1> DEFINE r == Replay(x)
<1>1. /\ r \in Seq(For(x)) /\ Len(r) = Len(store)
      /\ \A i \in 1 .. Len(store) : r[i] = Msg(x, "MESSAGE_FROM_CLIENT", store[i])
  BY ReplayIs
<1> HIDE DEF r
<1>2. Len(r) \in Nat /\ r \in Seq(Sent)
  BY <1>1, ForIs, SeqMonotonic, LenProperties
<1>3. \A i \in 1 .. Len(store) : r[i] \in Saying /\ r[i].line = store[i]
  <2> TAKE i \in 1 .. Len(store)
  <2>1. r[i] \in Sent /\ r[i].cat = "MESSAGE_FROM_CLIENT" /\ r[i].line = store[i]
    <3>1. r[i] = Msg(x, "MESSAGE_FROM_CLIENT", store[i]) /\ i \in 1 .. Len(r)
      BY <1>1
    <3>2. r[i] \in Sent
      BY <1>2, <3>1, ElementOfSeq
    <3>3. r[i].cat = "MESSAGE_FROM_CLIENT" /\ r[i].line = store[i]
      BY <3>1 DEF Msg
    <3> QED BY <3>2, <3>3
  <2> QED BY <2>1, SayingIs
<1>4. r \in Seq(Saying)
  BY <1>1, <1>2, <1>3
<1>5. Keep(r, Saying) = r
  BY <1>4, KeepAll
<1>6. /\ Lined(r) \in Seq(Lines) /\ Len(Lined(r)) = Len(r)
      /\ \A i \in 1 .. Len(r) : Lined(r)[i] = r[i].line
  BY <1>4, LinedIs
<1> HIDE DEF Lined
<1>7. Lined(r) = store
  BY <1>1, <1>3, <1>6, SeqEqual
<1>8. LinesOf(r) = Lined(Keep(r, Saying))
  BY <1>2, SaidIs
<1> QED BY <1>5, <1>7, <1>8 DEF r

--------------------------------------------------------------------------------
\* A sequence put behind one member.
LEMMA ConsIs ==
  ASSUME NEW X, NEW h \in X, NEW w \in Seq(X)
  PROVE  /\ <<h>> \in Seq(X) /\ <<h>> \o w \in Seq(X) /\ <<h>> \o w # <<>>
         /\ Head(<<h>> \o w) = h /\ Tail(<<h>> \o w) = w
<1>1. <<h>> \in Seq(X) /\ Len(<<h>>) = 1 /\ <<h>>[1] = h
  OBVIOUS
<1>2. PICK a \in Seq(X) : a = <<h>>
  BY <1>1
<1>3. PICK v \in Seq(X) : v = a \o w
  BY ConcatProperties
<1>4. /\ Len(v) = Len(a) + Len(w) /\ Len(w) \in Nat
      /\ \A i \in 1 .. Len(a) + Len(w) : v[i] = IF i <= Len(a) THEN a[i] ELSE w[i - Len(a)]
  BY <1>3, ConcatProperties, LenProperties
<1>5. Len(v) = 1 + Len(w) /\ v[1] = h /\ \A i \in 1 .. Len(w) : v[i + 1] = w[i]
  <2>1. Len(a) = 1 /\ a[1] = h
    BY <1>1, <1>2
  <2>2. \A i \in 1 .. Len(w) : v[i + 1] = w[i]
    <3> TAKE i \in 1 .. Len(w)
    <3>1. PICK g \in 1 .. Len(a) + Len(w) : g = i + 1 /\ ~(g <= Len(a)) /\ g - Len(a) = i
      BY <1>4, <2>1
    <3>2. v[g] = w[g - Len(a)]
      BY <1>4, <3>1
    <3> QED BY <3>1, <3>2
  <2> QED BY <1>4, <2>1, <2>2
<1>6. v # <<>>
  BY <1>4, <1>5, EmptySeq
<1>7. /\ Tail(v) \in Seq(X) /\ Len(Tail(v)) = Len(v) - 1 /\ Head(v) = v[1]
      /\ \A i \in 1 .. Len(Tail(v)) : Tail(v)[i] = v[i + 1]
  BY <1>6, HeadTailProperties
<1>8. Tail(v) = w
  <2>1. Len(Tail(v)) = Len(w)
    BY <1>4, <1>5, <1>7
  <2>2. \A i \in 1 .. Len(w) : Tail(v)[i] = w[i]
    BY <1>5, <1>7, <2>1
  <2>3. PICK t \in Seq(X) : t = Tail(v)
    BY <1>7
  <2> QED BY <2>1, <2>2, <2>3, SeqEqual
<1> QED BY <1>1, <1>2, <1>3, <1>5, <1>6, <1>7, <1>8

\* The first of two sequences that are joined gives the first member.
LEMMA HeadOfConcat ==
  ASSUME NEW X, NEW a \in Seq(X), a # <<>>, NEW b \in Seq(X)
  PROVE  /\ a \o b # <<>> /\ Head(a \o b) = Head(a) /\ Tail(a \o b) = Tail(a) \o b
         /\ Tail(a) \in Seq(X) /\ Head(a) \in X
<1>1. Head(a) \in X /\ Tail(a) \in Seq(X)
  BY HeadTailProperties
<1>2. PICK h \in X : h = Head(a)
  BY <1>1
<1>3. PICK t \in Seq(X) : t = Tail(a)
  BY <1>1
<1>4. a = <<h>> \o t
  BY <1>2, <1>3, HeadTailIs
<1>5. <<h>> \in Seq(X)
  BY ConsIs
<1>6. a \o b = <<h>> \o (t \o b)
  BY <1>4, <1>5, ConcatAssociative
<1>7. PICK w \in Seq(X) : w = t \o b
  BY ConcatProperties
<1>8. <<h>> \o w # <<>> /\ Head(<<h>> \o w) = h /\ Tail(<<h>> \o w) = w
  BY ConsIs
<1> QED BY <1>1, <1>2, <1>3, <1>6, <1>7, <1>8

\* The same, a member moved from the second to the first.
LEMMA MoveOver ==
  ASSUME NEW X, NEW a \in Seq(X), NEW h \in X, NEW b \in Seq(X)
  PROVE  /\ Append(a, h) \in Seq(X)
         /\ Append(a, h) \o b = a \o (<<h>> \o b)
<1>1. PICK g \in Seq(X) : g = <<h>>
  BY ConsIs
<1>2. Append(a, h) = a \o g
  <2>1. /\ Append(a, h) \in Seq(X) /\ Len(Append(a, h)) = Len(a) + 1 /\ Len(a) \in Nat
        /\ \A i \in 1 .. Len(a) + 1 : Append(a, h)[i] = IF i = Len(a) + 1 THEN h ELSE a[i]
    BY AppendProperties, LenProperties, SMTT(30)
  <2>2. Len(g) = 1 /\ g[1] = h
    BY <1>1
  <2>3. /\ a \o g \in Seq(X) /\ Len(a \o g) = Len(a) + Len(g)
        /\ \A i \in 1 .. Len(a) + Len(g) : (a \o g)[i] = IF i <= Len(a) THEN a[i] ELSE g[i - Len(a)]
    BY ConcatProperties
  <2>4. PICK u \in Seq(X) : u = Append(a, h)
    BY <2>1
  <2>5. PICK v \in Seq(X) : v = a \o g
    BY <2>3
  <2>6. Len(u) = Len(v) /\ \A i \in 1 .. Len(u) : u[i] = v[i]
    BY <2>1, <2>2, <2>3, <2>4, <2>5
  <2> QED BY <2>4, <2>5, <2>6, SeqEqual
<1>3. Append(a, h) \in Seq(X)
  BY AppendProperties
<1>4. (a \o g) \o b = a \o (g \o b)
  BY ConcatAssociative
<1> QED BY <1>1, <1>2, <1>3, <1>4

--------------------------------------------------------------------------------
\* What is on the way to a client is a sequence of messages.
LEMMA WayType ==
  ASSUME TypeOK, NEW c \in Clients
  PROVE  /\ down[c] \in Seq(Sent) /\ out \in Seq(Sent)
         /\ Keep(out, For(c)) \in Seq(Sent)
         /\ OnTheWay(c) = down[c] \o Keep(out, For(c)) /\ OnTheWay(c) \in Seq(Sent)
<1>1. down[c] \in Seq(Sent) /\ out \in Seq(Sent)
  BY DEF TypeOK, Sent
<1>2. Keep(out, For(c)) \in Seq(For(c) \cap Sent)
  BY <1>1, KeptType
<1>3. Keep(out, For(c)) \in Seq(Sent)
  BY <1>2, SeqMonotonic
<1>4. OnTheWay(c) = down[c] \o Keep(out, For(c))
  BY DEF OnTheWay, For
<1> QED BY <1>1, <1>3, <1>4, ConcatProperties

\* The server sends the next message: it is on its way as before.
LEMMA SendWay ==
  ASSUME TypeOK, ServerSend, NEW c \in Clients
  PROVE  OnTheWay(c)' = OnTheWay(c)
<1>1. out # <<>> /\ out' = Tail(out) /\ down' = [down EXCEPT ![Head(out).to] = Append(@, Head(out))]
  BY DEF ServerSend
<1>2. out \in Seq(Sent) /\ Head(out) \in Sent /\ Tail(out) \in Seq(Sent)
  BY <1>1, WayType, HeadTailProperties
<1>3. PICK m \in Sent : m = Head(out)
  BY <1>2
<1>4. m \in For(c) <=> m.to = c
  BY ForIs
<1>5. Keep(out, For(c)) = (IF m \in For(c) THEN <<m>> ELSE <<>>) \o Keep(Tail(out), For(c))
  BY <1>1, <1>2, <1>3, KeepTail
<1>6. Keep(Tail(out), For(c)) \in Seq(Sent)
  <2>1. Keep(Tail(out), For(c)) \in Seq(For(c) \cap Sent)
    BY <1>2, KeptType
  <2> QED BY <2>1, SeqMonotonic
<1>7. PICK r \in Seq(Sent) : r = Keep(Tail(out), For(c))
  BY <1>6
<1>8. OnTheWay(c)' = down'[c] \o r
  BY <1>1, <1>7 DEF OnTheWay, For
<1>9. down[c] \in Seq(Sent) /\ OnTheWay(c) = down[c] \o Keep(out, For(c)) /\ DOMAIN down = Clients
  BY WayType DEF TypeOK
<1>10. PICK a \in Seq(Sent) : a = down[c]
  BY <1>9
<1>11. CASE m.to = c
  <2>1. down'[c] = Append(a, m)
    BY <1>1, <1>3, <1>9, <1>10, <1>11
  <2>2. Append(a, m) \o r = a \o (<<m>> \o r)
    BY MoveOver
  <2> QED BY <1>4, <1>5, <1>7, <1>8, <1>9, <1>10, <1>11, <2>1, <2>2
<1>12. CASE m.to # c
  <2>1. down'[c] = a
    BY <1>1, <1>3, <1>9, <1>10, <1>12
  <2>2. <<>> \o r = r
    BY ConcatEmptySeq
  <2> QED BY <1>4, <1>5, <1>7, <1>8, <1>9, <1>10, <1>12, <2>1, <2>2
<1> QED BY <1>11, <1>12

\* A client reads: its oldest message is no longer on its way.
LEMMA ReadWay ==
  ASSUME TypeOK, NEW c \in Clients, NEW cats, Received(c, cats), out' = out
  PROVE  /\ OnTheWay(c) # <<>> /\ Head(OnTheWay(c)) = Head(down[c]) /\ Head(down[c]).cat \in cats
         /\ Head(down[c]) \in Sent
         /\ OnTheWay(c)' = Tail(OnTheWay(c))
         /\ \A d \in Clients : d # c => OnTheWay(d)' = OnTheWay(d)
<1>1. down[c] # <<>> /\ down' = [down EXCEPT ![c] = Tail(@)] /\ Head(down[c]).cat \in cats
  BY DEF Received
<1>2. PICK a \in Seq(Sent) : a = down[c]
  BY WayType
<1>3. PICK b \in Seq(Sent) : b = Keep(out, For(c))
  BY WayType
<1>4. /\ a \o b # <<>> /\ Head(a \o b) = Head(a) /\ Tail(a \o b) = Tail(a) \o b
      /\ Head(a) \in Sent
  BY <1>1, <1>2, HeadOfConcat, ZenonT(60)
<1>5. OnTheWay(c) = a \o b
  BY <1>2, <1>3, WayType
<1>6. OnTheWay(c)' = Tail(a) \o b
  <2>1. down'[c] = Tail(a)
    BY <1>1, <1>2 DEF TypeOK
  <2> QED BY <1>3, <2>1 DEF OnTheWay, For
<1>7. \A d \in Clients : d # c => OnTheWay(d)' = OnTheWay(d)
  BY <1>1 DEF OnTheWay, TypeOK
<1> QED BY <1>1, <1>2, <1>4, <1>5, <1>6, <1>7

\* The server takes a request: the burst goes behind what is on its way.
LEMMA TakeWay ==
  ASSUME TypeOK, out = <<>>, down' = down, NEW c \in Clients
  PROVE  OnTheWay(c)' = OnTheWay(c) \o Keep(out', For(c))
<1>1. Keep(<<>>, For(c)) = <<>>
  BY KeepNone
<1>2. OnTheWay(c) = down[c] \o <<>> /\ down[c] \in Seq(Sent)
  BY <1>1, WayType
<1>3. OnTheWay(c) = down[c]
  BY <1>2, ConcatEmptySeq
<1> QED BY <1>3 DEF OnTheWay, For

--------------------------------------------------------------------------------
\* What the server answers each request with, and to whom.
LEMMA RequestIs ==
  ASSUME TypeOK, NEW kind, Taken(kind)
  PROVE  /\ out = <<>> /\ Head(up) \in Requests /\ Head(up).kind = kind
         /\ up \in Seq(Requests) /\ up # <<>> /\ up' = Tail(up) /\ up' \in Seq(Requests)
         /\ Head(up) = up[1] /\ Head(up).line.from \in Clients
         /\ kind # "MESSAGE_FROM_CLIENT" => Head(up).line \in News
         /\ kind = "MESSAGE_FROM_CLIENT" => Head(up).line \in Lines
<1>1. /\ up \in Seq(Requests) /\ up # <<>> /\ up' = Tail(up) /\ Head(up).kind = kind /\ out = <<>>
  BY DEF TypeOK, Taken
<1>2. Head(up) \in Requests /\ Tail(up) \in Seq(Requests) /\ Head(up) = up[1]
  BY <1>1, HeadTailProperties
<1>3. \A r \in Requests : /\ r.line.from \in Clients
                          /\ r.kind # "MESSAGE_FROM_CLIENT" => r.line \in News
                          /\ r.kind = "MESSAGE_FROM_CLIENT" => r.line \in Lines
  BY DEF Requests, News, Lines
<1> QED BY <1>1, <1>2, <1>3

\* A list without a client is a list of clients.
LEMMA DropIs ==
  ASSUME NEW l \in Seq(Clients), NEW c \in Clients
  PROVE  Drop(l, c) \in Seq(Clients)
<1>1. Keep(l, Clients \ {c}) \in Seq((Clients \ {c}) \cap Clients)
  BY KeptType
<1>2. Keep(l, Clients \ {c}) \in Seq(Clients)
  BY <1>1, SeqMonotonic
<1> QED BY <1>2 DEF Drop

\* Without a client, the list has every other client once.
LEMMA DropMembers ==
  ASSUME NEW l \in Seq(Clients), Distinct(l), NEW c \in Clients
  PROVE  /\ Len(Drop(l, c)) <= Len(l) /\ Distinct(Drop(l, c))
         /\ \A d \in Clients : In(d, Drop(l, c)) <=> In(d, l) /\ d # c
<1> DEFINE k == Keep(l, Clients \ {c})
<1>1. \A i, j \in 1 .. Len(l) : l[i] = l[j] => i = j
  BY DEF Distinct
<1>2. /\ Len(k) <= Len(l)
      /\ \A i, j \in 1 .. Len(k) : k[i] = k[j] => i = j
      /\ \A i \in 1 .. Len(k) : k[i] \in Clients \ {c} /\ \E j \in 1 .. Len(l) : k[i] = l[j]
      /\ \A j \in 1 .. Len(l) : l[j] \in Clients \ {c} => \E i \in 1 .. Len(k) : k[i] = l[j]
  BY <1>1, KeepMembers
<1> HIDE DEF k
<1>3. \A d \in Clients : In(d, k) <=> In(d, l) /\ d # c
  <2> TAKE d \in Clients
  <2>1. ASSUME In(d, k) PROVE In(d, l) /\ d # c
    <3>1. PICK i \in 1 .. Len(k) : k[i] = d
      BY <2>1 DEF In
    <3>2. PICK j \in 1 .. Len(l) : k[i] = l[j]
      BY <1>2
    <3>3. k[i] # c
      BY <1>2
    <3> QED BY <3>1, <3>2, <3>3 DEF In
  <2>2. ASSUME In(d, l), d # c PROVE In(d, k)
    <3>1. PICK j \in 1 .. Len(l) : l[j] = d
      BY <2>2 DEF In
    <3>2. PICK i \in 1 .. Len(k) : k[i] = l[j]
      BY <1>2, <2>2, <3>1
    <3> QED BY <3>1, <3>2 DEF In
  <2> QED BY <2>1, <2>2
<1>4. Drop(l, c) = k
  BY DEF Drop, k
<1> QED BY <1>2, <1>3, <1>4 DEF Distinct

--------------------------------------------------------------------------------
\* A client has asked to join and the server has not read it.
Asked(c) == \E i \in 1 .. Len(up) : up[i] = Request("NEW_CLIENT", c, NoText)

Fresh(c) ==
  c \notin Listed /\ shown[c] = <<>> /\ roster[c] = <<>> /\ OnTheWay(c) = <<>>

\* No request to join is made twice.
AskOnce == \A i, j \in 1 .. Len(up) : up[i].kind = "NEW_CLIENT" /\ up[i] = up[j] => i = j

\* Until the server has read it, a client has not been told anything; and it
\* asks once.
Newcomers ==
  /\ \A c \in Clients : state[c] = "off" \/ Asked(c) => Fresh(c)
  /\ \A c \in Clients : state[c] = "off" => ~Asked(c)
  /\ \A c \in Clients : Asked(c) => state[c] \in {"in", "dead"}
  /\ AskOnce

PrefixOf(a, s) == Len(a) <= Len(s) /\ \A i \in 1 .. Len(a) : a[i] = s[i]

\* What c has seen and what is on its way to it.
Window(c) == shown[c] \o LinesOf(OnTheWay(c))

Windows ==
  \A c \in Clients : PrefixOf(Window(c), store) /\ (c \in Listed => Window(c) = store)

IInv == TypeOK /\ Distinct(infCl) /\ Newcomers /\ Windows

\* The clients listed are those in the list, before and after a step.
LEMMA ListedIs ==
  ASSUME NEW c
  PROVE  /\ infCl \in Seq(Clients) => (c \in Listed <=> In(c, infCl))
         /\ (infCl \in Seq(Clients))' => (c \in Listed' <=> In(c, infCl'))
<1>1. infCl \in Seq(Clients) => DOMAIN infCl = 1 .. Len(infCl)
  BY LenProperties
<1>2. infCl' \in Seq(Clients) => DOMAIN infCl' = 1 .. Len(infCl')
  BY LenProperties
<1> QED BY <1>1, <1>2 DEF Listed, ToSet, In

\* A line of a client goes to everybody listed.
LEMMA MessageBurst ==
  ASSUME IInv, ServeMessage
  PROVE  /\ out = <<>> /\ down' = down /\ out' \in Seq(Sent) /\ infCl' = infCl
         /\ up # <<>> /\ up' = Tail(up) /\ Head(up).kind = "MESSAGE_FROM_CLIENT"
         /\ Head(up).line \in Lines /\ store' = Append(store, Head(up).line)
         /\ \A c \in Clients : Keep(out', For(c)) =
              IF In(c, infCl) THEN <<Msg(c, "MESSAGE_FROM_CLIENT", Head(up).line)>> ELSE <<>>
<1>1. TypeOK /\ infCl \in Seq(Clients) /\ Distinct(infCl)
  BY DEF IInv, TypeOK
<1>2. PICK line \in Lines : line = Head(up).line
  BY <1>1, RequestIs DEF ServeMessage
<1>3. Sendable("MESSAGE_FROM_CLIENT", line)
  BY DEF Sendable
<1>4. out' = ToAll(infCl, "MESSAGE_FROM_CLIENT", line)
  BY <1>2 DEF ServeMessage
<1>5. ToAll(infCl, "MESSAGE_FROM_CLIENT", line) \in Seq(Sent)
  BY <1>1, <1>3, ToAllIs
<1>6. \A c \in Clients : Keep(ToAll(infCl, "MESSAGE_FROM_CLIENT", line), For(c)) =
              IF In(c, infCl) THEN <<Msg(c, "MESSAGE_FROM_CLIENT", line)>> ELSE <<>>
  BY <1>1, <1>3, ToAllKept
<1>7. /\ out = <<>> /\ down' = down /\ infCl' = infCl /\ up # <<>> /\ up' = Tail(up)
      /\ Head(up).kind = "MESSAGE_FROM_CLIENT" /\ store' = Append(store, Head(up).line)
  BY DEF ServeMessage, Taken
<1> QED BY <1>2, <1>4, <1>5, <1>6, <1>7

\* A leave goes to everybody who stays, behind a line of the server.
LEMMA LeaveBurst ==
  ASSUME IInv, ServeLeave
  PROVE  /\ out = <<>> /\ down' = down /\ out' \in Seq(Sent) /\ store' = store
         /\ up # <<>> /\ up' = Tail(up) /\ Head(up).kind = "CLIENT_LEAVE"
         /\ Head(up).line \in News /\ Head(up).line.from \in Clients
         /\ infCl' = Drop(infCl, Head(up).line.from)
         /\ infCl' \in Seq(Clients) /\ Distinct(infCl') /\ Len(infCl') <= Len(infCl)
         /\ \A c \in Clients : In(c, infCl') <=> In(c, infCl) /\ c # Head(up).line.from
         /\ \A c \in Clients : Keep(out', For(c)) =
              IF In(c, infCl') THEN <<Msg(c, "MESSAGE_FROM_SERVER", Head(up).line)>>
                                      \o <<Msg(c, "CLIENT_LEAVE", Head(up).line)>>
              ELSE <<>>
<1>1. TypeOK /\ infCl \in Seq(Clients) /\ Distinct(infCl)
  BY DEF IInv, TypeOK
<1>2. PICK line \in News : line = Head(up).line /\ line.from \in Clients
  BY <1>1, RequestIs DEF ServeLeave
<1>3. Sendable("MESSAGE_FROM_SERVER", line) /\ Sendable("CLIENT_LEAVE", line)
  BY DEF Sendable
<1>4. PICK l \in Seq(Clients) : l = Drop(infCl, line.from)
  BY <1>1, <1>2, DropIs
<1>5. /\ Len(l) <= Len(infCl) /\ Distinct(l)
      /\ \A c \in Clients : In(c, l) <=> In(c, infCl) /\ c # line.from
  BY <1>1, <1>2, <1>4, DropMembers
<1>6. PICK a \in Seq(Sent) : a = ToAll(l, "MESSAGE_FROM_SERVER", line)
  BY <1>3, ToAllIs
<1>7. PICK b \in Seq(Sent) : b = ToAll(l, "CLIENT_LEAVE", line)
  BY <1>3, ToAllIs
<1>8. infCl' = l /\ out' = a \o b
  BY <1>2, <1>4, <1>6, <1>7 DEF ServeLeave
<1>9. ASSUME NEW c \in Clients
      PROVE  Keep(a \o b, For(c)) = IF In(c, l) THEN <<Msg(c, "MESSAGE_FROM_SERVER", line)>>
                                                       \o <<Msg(c, "CLIENT_LEAVE", line)>>
                                    ELSE <<>>
  <2>1. Keep(a \o b, For(c)) = Keep(a, For(c)) \o Keep(b, For(c))
    BY KeepConcat
  <2>2. Keep(a, For(c)) = IF In(c, l) THEN <<Msg(c, "MESSAGE_FROM_SERVER", line)>> ELSE <<>>
    BY <1>3, <1>5, <1>6, ToAllKept
  <2>3. Keep(b, For(c)) = IF In(c, l) THEN <<Msg(c, "CLIENT_LEAVE", line)>> ELSE <<>>
    BY <1>3, <1>5, <1>7, ToAllKept
  <2>4. <<>> \o <<>> = <<>>
    BY EmptySeq, ConcatEmptySeq
  <2> QED BY <2>1, <2>2, <2>3, <2>4
<1>10. a \o b \in Seq(Sent)
  BY ConcatProperties
<1>11. /\ out = <<>> /\ down' = down /\ store' = store /\ up # <<>> /\ up' = Tail(up)
       /\ Head(up).kind = "CLIENT_LEAVE"
  BY DEF ServeLeave, Taken
<1> QED BY <1>2, <1>4, <1>5, <1>8, <1>9, <1>10, <1>11

\* A newcomer is announced to the others, and told the list and the store.
NewBurst(l, x, c) ==
  (IF In(c, l) /\ (Len(l) > 1 => c # x) THEN <<Msg(c, "NEW_CLIENT", Line(x, NoText))>> ELSE <<>>)
    \o (IF c = x THEN SendRoster(l, x) \o Replay(x) ELSE <<>>)

\* What the server does for a newcomer, and what each client is sent.
LEMMA NewcomerBurst ==
  ASSUME IInv, ServeNew
  PROVE  LET x == Head(up).line.from IN
         /\ out = <<>> /\ down' = down /\ out' \in Seq(Sent) /\ store' = store
         /\ up # <<>> /\ up' = Tail(up) /\ Head(up).kind = "NEW_CLIENT"
         /\ Head(up).line \in News /\ x \in Clients
         /\ Asked(x) /\ Fresh(x) /\ state[x] \in {"in", "dead"}
         /\ infCl' = IF Len(infCl) >= SIZE_CLIENTS THEN infCl ELSE Append(infCl, x)
         /\ infCl' \in Seq(Clients) /\ Distinct(infCl') /\ Len(infCl') <= SIZE_CLIENTS
         /\ \A c \in Clients : In(c, infCl') <=> In(c, infCl) \/ (c = x /\ Len(infCl) < SIZE_CLIENTS)
         /\ \A c \in Clients : Keep(out', For(c)) = NewBurst(infCl', x, c)
<1>0. TypeOK /\ infCl \in Seq(Clients) /\ Distinct(infCl) /\ Len(infCl) <= SIZE_CLIENTS
      /\ Len(infCl) \in Nat /\ SIZE_CLIENTS \in Nat
  BY LenProperties, SizeAssumption DEF IInv, TypeOK
<1>1. PICK x \in Clients : x = Head(up).line.from
  BY <1>0, RequestIs DEF ServeNew
<1>2. Head(up).line \in News /\ Head(up) \in Requests /\ Head(up).kind = "NEW_CLIENT" /\ Head(up) = up[1]
  BY <1>0, RequestIs DEF ServeNew
<1>3. Asked(x)
  <2>1. Head(up) = Request("NEW_CLIENT", x, NoText)
    BY <1>1, <1>2 DEF Request, Requests, News, Line
  <2>2. 1 \in 1 .. Len(up)
    <3>1. up \in Seq(Requests) /\ up # <<>>
      BY <1>0, RequestIs DEF ServeNew
    <3> QED BY <3>1, EmptySeq
  <2> QED BY <1>2, <2>1, <2>2 DEF Asked
<1>4. Fresh(x) /\ state[x] \in {"in", "dead"}
  BY <1>3 DEF IInv, Newcomers
<1>5. ~In(x, infCl)
  BY <1>0, <1>4, ListedIs DEF Fresh
<1>6. infCl' = IF Len(infCl) >= SIZE_CLIENTS THEN infCl ELSE Append(infCl, x)
  BY <1>1 DEF ServeNew, Full
<1>7. /\ infCl' \in Seq(Clients) /\ Distinct(infCl') /\ Len(infCl') <= SIZE_CLIENTS
      /\ \A c \in Clients : In(c, infCl') <=> In(c, infCl) \/ (c = x /\ Len(infCl) < SIZE_CLIENTS)
  <2>1. CASE Len(infCl) >= SIZE_CLIENTS
    BY <1>0, <1>6, <2>1
  <2>2. CASE Len(infCl) < SIZE_CLIENTS
    <3>1. infCl' = Append(infCl, x)
      BY <1>0, <1>6, <2>2
    <3>2. PICK k \in Seq(Clients) : k = Append(infCl, x)
      BY <1>0, AppendProperties
    <3>3. /\ Len(k) = Len(infCl) + 1
          /\ \A i \in 1 .. Len(infCl) + 1 : k[i] = IF i = Len(infCl) + 1 THEN x ELSE infCl[i]
      BY <1>0, <3>2, AppendProperties
    <3>4. Distinct(k)
      <4> SUFFICES ASSUME NEW i \in 1 .. Len(k), NEW j \in 1 .. Len(k), k[i] = k[j] PROVE i = j
        BY DEF Distinct
      <4>1. \A n \in 1 .. Len(infCl) : infCl[n] # x
        BY <1>5 DEF In
      <4>2. \A n \in 1 .. Len(k) : \/ n = Len(infCl) + 1 /\ k[n] = x
                                   \/ n \in 1 .. Len(infCl) /\ k[n] = infCl[n] /\ k[n] # x
        BY <1>0, <3>3, <4>1
      <4> QED BY <1>0, <4>2 DEF Distinct
    <3>5. ASSUME NEW c \in Clients PROVE In(c, k) <=> In(c, infCl) \/ c = x
      <4>1. \A n \in 1 .. Len(infCl) : n \in 1 .. Len(k) /\ k[n] = infCl[n]
        BY <1>0, <3>3
      <4>2. Len(k) \in 1 .. Len(k) /\ k[Len(k)] = x
        BY <1>0, <3>3
      <4>3. \A n \in 1 .. Len(k) : n = Len(k) \/ n \in 1 .. Len(infCl)
        BY <1>0, <3>3
      <4> QED BY <4>1, <4>2, <4>3 DEF In
    <3> QED BY <1>0, <2>2, <3>1, <3>2, <3>3, <3>4, <3>5
  <2> QED BY <1>0, <2>1, <2>2
<1>8. PICK l \in Seq(Clients) : l = infCl' /\ Distinct(l)
  BY <1>7
<1>9. store \in Seq(Lines)
  BY <1>0 DEF TypeOK
<1>10. PICK a \in Seq(Sent) : a = Announce(l, x)
  BY <1>8, AnnounceKept
<1>11. PICK b \in Seq(For(x)) : b = SendRoster(l, x)
  BY SendRosterIs
<1>12. PICK r \in Seq(For(x)) : r = Replay(x)
  BY <1>9, ReplayIs, SMTT(30)
<1>13. out' = a \o b \o r
  BY <1>1, <1>8, <1>10, <1>11, <1>12 DEF ServeNew
<1>14. b \in Seq(Sent) /\ r \in Seq(Sent)
  BY ForIs, SeqMonotonic
<1>15. PICK d \in Seq(For(x)) : d = b \o r
  BY ConcatProperties
<1>16. d \in Seq(Sent)
  BY ForIs, SeqMonotonic
<1>17. a \o b \o r = a \o d
  BY <1>14, <1>15, ConcatAssociative, SMTT(30)
<1>18. ASSUME NEW c \in Clients PROVE Keep(a \o d, For(c)) = NewBurst(l, x, c)
  <2>1. Keep(a \o d, For(c)) = Keep(a, For(c)) \o Keep(d, For(c))
    BY <1>16, KeepConcat, SMTT(30)
  <2>2. Keep(d, For(c)) = IF c = x THEN d ELSE <<>>
    BY OnlyFor
  <2>3. Keep(a, For(c)) = IF In(c, l) /\ (Len(l) > 1 => c # x)
                            THEN <<Msg(c, "NEW_CLIENT", Line(x, NoText))>> ELSE <<>>
    BY <1>8, <1>10, AnnounceKept
  <2> QED BY <1>11, <1>12, <1>15, <2>1, <2>2, <2>3 DEF NewBurst
<1>19. a \o d \in Seq(Sent)
  BY <1>16, ConcatProperties
<1>20. out = <<>> /\ down' = down /\ store' = store /\ up # <<>> /\ up' = Tail(up)
  BY DEF ServeNew, Taken
<1> QED BY <1>1, <1>2, <1>3, <1>4, <1>6, <1>7, <1>8, <1>13, <1>17, <1>18, <1>19, <1>20

--------------------------------------------------------------------------------
\* The three requests of a client.
LEMMA RequestsAre ==
  ASSUME NEW c \in Clients
  PROVE  /\ Request("NEW_CLIENT", c, NoText) \in Requests
         /\ Request("CLIENT_LEAVE", c, NoText) \in Requests
         /\ \A n \in 1 .. MaxLines : Request("MESSAGE_FROM_CLIENT", c, n) \in Requests
         /\ \A k, d, n : Request(k, d, n).kind = k /\ Request(k, d, n).line.from = d
BY DEF Request, Requests, News, Lines, Line

\* A request is put at the end of the first queue.
LEMMA AskedAppend ==
  ASSUME up \in Seq(Requests), AskOnce, NEW r \in Requests, up' = Append(up, r),
         r.kind = "NEW_CLIENT" => \A i \in 1 .. Len(up) : up[i] # r
  PROVE  /\ up' \in Seq(Requests) /\ AskOnce'
         /\ \A c : Asked(c)' <=> Asked(c) \/ r = Request("NEW_CLIENT", c, NoText)
<1>1. PICK q \in Seq(Requests) : q = Append(up, r)
  BY AppendProperties
<1>2. /\ Len(q) = Len(up) + 1 /\ Len(up) \in Nat
      /\ \A i \in 1 .. Len(up) + 1 : q[i] = IF i = Len(up) + 1 THEN r ELSE up[i]
  BY <1>1, AppendProperties, LenProperties
<1>3. \A i \in 1 .. Len(q) : \/ i = Len(up) + 1 /\ q[i] = r
                             \/ i \in 1 .. Len(up) /\ q[i] = up[i]
  BY <1>2
<1>4. \A i, j \in 1 .. Len(q) : q[i].kind = "NEW_CLIENT" /\ q[i] = q[j] => i = j
  BY <1>2, <1>3 DEF AskOnce
<1>5. ASSUME NEW c
      PROVE  (\E i \in 1 .. Len(q) : q[i] = Request("NEW_CLIENT", c, NoText))
                <=> Asked(c) \/ r = Request("NEW_CLIENT", c, NoText)
  <2>1. Len(up) + 1 \in 1 .. Len(q) /\ q[Len(up) + 1] = r
    BY <1>2
  <2>2. \A i \in 1 .. Len(up) : i \in 1 .. Len(q) /\ q[i] = up[i]
    BY <1>2
  <2> QED BY <1>3, <2>1, <2>2 DEF Asked
<1>6. up' = q
  BY <1>1
<1> QED BY <1>4, <1>5, <1>6 DEF Asked, AskOnce

\* The first request is taken.
LEMMA AskedTail ==
  ASSUME up \in Seq(Requests), up # <<>>, AskOnce, up' = Tail(up)
  PROVE  /\ up' \in Seq(Requests) /\ AskOnce'
         /\ \A c : Asked(c)' => Asked(c) /\ Head(up) # Request("NEW_CLIENT", c, NoText)
<1>1. PICK q \in Seq(Requests) : q = Tail(up)
  BY HeadTailProperties
<1>2. /\ Len(q) = Len(up) - 1 /\ Len(up) \in Nat /\ Len(up) # 0 /\ Head(up) = up[1]
      /\ \A i \in 1 .. Len(q) : q[i] = up[i + 1]
  BY <1>1, HeadTailProperties, LenProperties, EmptySeq
<1>3. \A i \in 1 .. Len(q) : i + 1 \in 1 .. Len(up) /\ i + 1 # 1
  BY <1>2
<1>4. ASSUME NEW i \in 1 .. Len(q), NEW j \in 1 .. Len(q), q[i].kind = "NEW_CLIENT", q[i] = q[j]
      PROVE  i = j
  <2>1. PICK g \in 1 .. Len(up) : g = i + 1 /\ q[i] = up[g]
    BY <1>2, <1>3
  <2>2. PICK h \in 1 .. Len(up) : h = j + 1 /\ q[j] = up[h]
    BY <1>2, <1>3
  <2>3. g = h
    BY <1>4, <2>1, <2>2 DEF AskOnce
  <2> QED BY <2>1, <2>2, <2>3
<1>5. ASSUME NEW c, NEW i \in 1 .. Len(q), q[i] = Request("NEW_CLIENT", c, NoText)
      PROVE  Asked(c) /\ Head(up) # Request("NEW_CLIENT", c, NoText)
  <2>1. PICK g \in 1 .. Len(up) : g = i + 1 /\ q[i] = up[g] /\ g # 1
    BY <1>2, <1>3
  <2>2. Asked(c)
    BY <1>5, <2>1 DEF Asked
  <2>3. up[g].kind = "NEW_CLIENT"
    BY <1>5, <2>1 DEF Request
  <2>4. 1 \in 1 .. Len(up)
    BY <1>2
  <2>5. up[1] # up[g]
    BY <2>1, <2>3, <2>4 DEF AskOnce
  <2> QED BY <1>2, <1>5, <2>1, <2>2, <2>5
<1>6. up' = q
  BY <1>1
<1> QED BY <1>4, <1>5, <1>6 DEF Asked, AskOnce

--------------------------------------------------------------------------------
\* A window is a sequence of lines.
LEMMA WindowType ==
  ASSUME TypeOK, NEW c \in Clients
  PROVE  /\ shown[c] \in Seq(Lines) /\ LinesOf(OnTheWay(c)) \in Seq(Lines)
         /\ Window(c) \in Seq(Lines) /\ store \in Seq(Lines)
<1>1. shown[c] \in Seq(Lines) /\ store \in Seq(Lines)
  BY DEF TypeOK
<1>2. LinesOf(OnTheWay(c)) \in Seq(Lines)
  <2>1. PICK q \in Seq(Sent) : q = OnTheWay(c)
    BY WayType
  <2>2. LinesOf(q) \in Seq(Lines)
    BY LinesType
  <2> QED BY <2>1, <2>2
<1> QED BY <1>1, <1>2, ConcatProperties DEF Window

\* Three runs of lines may be put together in either order.
LEMMA LinesAssociative ==
  ASSUME NEW u \in Seq(Lines), NEW v \in Seq(Lines), NEW s \in Seq(Lines)
  PROVE  (s \o u) \o v = s \o (u \o v)
BY ConcatAssociative

\* What is put behind the messages on their way comes last in the window.
LEMMA WindowGrows ==
  ASSUME TypeOK, NEW c \in Clients, shown' = shown, NEW b \in Seq(Sent),
         OnTheWay(c)' = OnTheWay(c) \o b
  PROVE  Window(c)' = Window(c) \o LinesOf(b)
<1>1. PICK q \in Seq(Sent) : q = OnTheWay(c)
  BY WayType
<1>2. LinesOf(q \o b) = LinesOf(q) \o LinesOf(b)
  BY LinesConcat
<1>3. Window(c)' = shown[c] \o LinesOf(q \o b)
  BY <1>1 DEF Window
<1>4. PICK u \in Seq(Lines) : u = LinesOf(q)
  BY LinesType
<1>5. PICK v \in Seq(Lines) : v = LinesOf(b)
  BY LinesType
<1>6. PICK s \in Seq(Lines) : s = shown[c]
  BY WindowType
<1>7. (s \o u) \o v = s \o (u \o v)
  BY LinesAssociative
<1>8. Window(c) = s \o u
  BY <1>1, <1>4, <1>6 DEF Window
<1> QED BY <1>2, <1>3, <1>4, <1>5, <1>6, <1>7, <1>8

\* The window of a client is as it was when its part of the state is.
LEMMA WindowSame ==
  ASSUME NEW c \in Clients, shown'[c] = shown[c], OnTheWay(c)' = OnTheWay(c)
  PROVE  Window(c)' = Window(c)
BY DEF Window

\* What is read without a line to show.
LEMMA WindowPassed ==
  ASSUME TypeOK, NEW c \in Clients, shown' = shown, OnTheWay(c) # <<>>,
         OnTheWay(c)' = Tail(OnTheWay(c)), Head(OnTheWay(c)).cat # "MESSAGE_FROM_CLIENT"
  PROVE  Window(c)' = Window(c)
<1>1. PICK q \in Seq(Sent) : q = OnTheWay(c)
  BY WayType
<1>2. PICK r \in Seq(Sent) : r = Tail(q)
  BY <1>1, HeadTailProperties
<1>3. LinesOf(q) = <<>> \o LinesOf(r)
  BY <1>1, <1>2, LinesTail
<1>4. LinesOf(q) = LinesOf(r)
  BY <1>3, LinesType, ConcatEmptySeq
<1> QED BY <1>1, <1>2, <1>4 DEF Window

\* A line that is read moves to the lines shown.
LEMMA WindowShown ==
  ASSUME TypeOK, NEW c \in Clients, OnTheWay(c) # <<>>,
         OnTheWay(c)' = Tail(OnTheWay(c)), Head(OnTheWay(c)).cat = "MESSAGE_FROM_CLIENT",
         shown'[c] = Append(shown[c], Head(OnTheWay(c)).line)
  PROVE  /\ Window(c)' = Window(c) /\ shown'[c] \in Seq(Lines)
         /\ Len(shown[c]) < Len(Window(c)) /\ Window(c)[Len(shown[c]) + 1] = Head(OnTheWay(c)).line
<1>1. PICK q \in Seq(Sent) : q = OnTheWay(c)
  BY WayType
<1>2. PICK r \in Seq(Sent) : r = Tail(q)
  BY <1>1, HeadTailProperties
<1>3. PICK m \in Sent : m = Head(q)
  BY <1>1, HeadTailProperties
<1>4. PICK x \in Lines : x = m.line
  BY <1>1, <1>3, SayingIs
<1>5. PICK u \in Seq(Lines) : u = LinesOf(r)
  BY LinesType
<1>6. LinesOf(q) = <<x>> \o u
  BY <1>1, <1>2, <1>3, <1>4, <1>5, LinesTail
<1>7. PICK s \in Seq(Lines) : s = shown[c]
  BY WindowType
<1>8. Append(s, x) \in Seq(Lines) /\ Append(s, x) \o u = s \o (<<x>> \o u)
  BY MoveOver
<1>9. Window(c) = s \o (<<x>> \o u)
  BY <1>1, <1>6, <1>7 DEF Window
<1>10. Window(c)' = Append(s, x) \o u
  BY <1>1, <1>2, <1>3, <1>4, <1>5, <1>7 DEF Window
<1>11. PICK t \in Seq(Lines) : t = Append(s, x)
  BY <1>8
<1>12. Len(t) = Len(s) + 1 /\ Len(s) \in Nat /\ Len(u) \in Nat /\ t[Len(s) + 1] = x
  BY <1>11, AppendProperties, LenProperties
<1>13. /\ Len(t \o u) = Len(t) + Len(u)
       /\ \A i \in 1 .. Len(t) + Len(u) : (t \o u)[i] = IF i <= Len(t) THEN t[i] ELSE u[i - Len(t)]
  BY ConcatProperties
<1>14. Len(s) + 1 \in 1 .. Len(t) + Len(u) /\ Len(s) + 1 <= Len(t)
  BY <1>12
<1>15. (t \o u)[Len(s) + 1] = x /\ Len(s) < Len(t \o u)
  BY <1>12, <1>13, <1>14
<1>16. Window(c) = t \o u
  BY <1>8, <1>9, <1>11
<1> QED BY <1>1, <1>3, <1>4, <1>7, <1>8, <1>9, <1>10, <1>11, <1>15, <1>16

\* A prefix of the store is one when the store has grown.
LEMMA PrefixGrows ==
  ASSUME NEW s \in Seq(Lines), NEW x \in Lines, NEW a \in Seq(Lines), PrefixOf(a, s)
  PROVE  PrefixOf(a, Append(s, x))
<1>1. Len(Append(s, x)) = Len(s) + 1 /\ \A i \in 1 .. Len(s) : Append(s, x)[i] = s[i]
  BY AppendProperties
<1>2. Len(s) \in Nat /\ Len(a) \in Nat
  BY LenProperties

<1> QED BY <1>1, <1>2 DEF PrefixOf

\* A sequence is a prefix of itself.
LEMMA PrefixSame ==
  ASSUME NEW s \in Seq(Lines)
  PROVE  PrefixOf(s, s)
BY LenProperties DEF PrefixOf

--------------------------------------------------------------------------------
\* The invariant holds at first.
LEMMA InitIs == Init => IInv
<1> SUFFICES ASSUME Init PROVE IInv
  OBVIOUS
<1>1. /\ up = <<>> /\ infCl = <<>> /\ store = <<>> /\ out = <<>>
      /\ \A c \in Clients : down[c] = <<>> /\ state[c] = "off" /\ roster[c] = <<>> /\ shown[c] = <<>>
  BY DEF Init
<1>2. TypeOK
  <2>1. Len(infCl) <= SIZE_CLIENTS
    BY <1>1, SizeAssumption
  <2>2. typed \in 0 .. MaxLines
    BY SizeAssumption DEF Init
  <2>3. \A S : <<>> \in Seq(S)
    OBVIOUS
  <2>4. /\ down \in [Clients -> Seq(MessagesTo(Clients))]
        /\ state \in [Clients -> {"off", "in", "leaving", "left", "dead"}]
        /\ roster \in [Clients -> Seq(Clients)]
        /\ shown \in [Clients -> Seq(Lines)]
    BY <2>3 DEF Init
  <2> QED BY <1>1, <2>1, <2>2, <2>3, <2>4 DEF TypeOK
<1>3. Len(<<>>) = 0 /\ ToSet(<<>>) = {} /\ \A S : Keep(<<>>, S) = <<>>
  <2>1. Len(<<>>) = 0 /\ DOMAIN <<>> = {}
    OBVIOUS
  <2>2. \A S : Keep(<<>>, S) = <<>>
    BY <2>1, KeepNone
  <2> QED BY <2>1, <2>2 DEF ToSet
<1>4. Distinct(infCl)
  BY <1>1, <1>3 DEF Distinct
<1>5. ASSUME NEW c \in Clients PROVE OnTheWay(c) = <<>>
  <2>1. OnTheWay(c) = <<>> \o <<>>
    BY <1>1, <1>3 DEF OnTheWay
  <2> QED BY <2>1, EmptySeq, ConcatEmptySeq
<1>6. Newcomers
  BY <1>1, <1>3, <1>5 DEF Newcomers, Fresh, Asked, AskOnce, Listed
<1>7. ASSUME NEW c \in Clients PROVE Window(c) = <<>>
  <2>1. <<>> \in Seq(Sent) /\ Len(<<>>) = 0
    OBVIOUS
  <2>2. LinesOf(<<>>) = <<>>
    <3>1. PICK q \in Seq(Sent) : q = <<>>
      BY <2>1
    <3>2. \A i \in 1 .. Len(q) : q[i].cat # "MESSAGE_FROM_CLIENT"
      BY <2>1, <3>1
    <3>3. LinesOf(q) = <<>>
      BY <3>2, LinesNone
    <3> QED BY <3>1, <3>3
  <2>3. Window(c) = <<>> \o <<>>
    BY <1>1, <1>5, <2>2 DEF Window
  <2> QED BY <2>3, EmptySeq, ConcatEmptySeq
<1>8. Windows
  BY <1>1, <1>3, <1>7 DEF Windows, PrefixOf
<1> QED BY <1>2, <1>4, <1>6, <1>8 DEF IInv

--------------------------------------------------------------------------------
\* A client none of whose state is touched stays as fresh as it was.
LEMMA FreshSame ==
  ASSUME NEW c \in Clients, infCl' = infCl, shown'[c] = shown[c], roster'[c] = roster[c],
         OnTheWay(c)' = OnTheWay(c), Fresh(c)
  PROVE  Fresh(c)'
BY DEF Fresh, Listed

\* Nothing is put on the way or taken from it.
LEMMA WayKept ==
  ASSUME NEW c \in Clients, down'[c] = down[c], out' = out
  PROVE  OnTheWay(c)' = OnTheWay(c)
BY DEF OnTheWay

\* Neither the server nor what a client sees is touched.
LEMMA WindowsKept ==
  ASSUME Windows, infCl' = infCl, store' = store, \A c \in Clients : Window(c)' = Window(c)
  PROVE  Windows'
BY DEF Windows, Listed

\* A client does something but read, and its request is at the end of the queue.
LEMMA WritingKeeps ==
  ASSUME IInv, TypeOK', down' = down, out' = out, infCl' = infCl, store' = store,
         roster' = roster, shown' = shown
  PROVE  Distinct(infCl') /\ Windows' /\ \A c \in Clients : Fresh(c) => Fresh(c)'
<1>1. \A c \in Clients : OnTheWay(c)' = OnTheWay(c)
  BY WayKept
<1>2. \A c \in Clients : Window(c)' = Window(c)
  BY <1>1, WindowSame
<1> QED BY <1>1, <1>2, FreshSame, WindowsKept DEF IInv

\* A client that joins asks for the first time.
LEMMA JoinKeeps ==
  ASSUME IInv, NEW c \in Clients, Join(c)
  PROVE  IInv'
<1> DEFINE r == Request("NEW_CLIENT", c, NoText)
<1>1. /\ state[c] = "off" /\ state' = [state EXCEPT ![c] = "in"] /\ up' = Append(up, r)
      /\ UNCHANGED <<down, infCl, store, out, typed, roster, shown>>
  BY DEF Join, server
<1>2. TypeOK /\ Newcomers /\ AskOnce /\ up \in Seq(Requests) /\ DOMAIN state = Clients
  BY DEF IInv, Newcomers, TypeOK
<1>3. r \in Requests /\ r.kind = "NEW_CLIENT" /\ \A d : r = Request("NEW_CLIENT", d, NoText) => d = c
  BY RequestsAre
<1>4. Fresh(c) /\ ~Asked(c)
  BY <1>1, <1>2 DEF Newcomers
<1>5. \A i \in 1 .. Len(up) : up[i] # r
  BY <1>4 DEF Asked
<1>6. /\ up' \in Seq(Requests) /\ AskOnce'
      /\ \A d : Asked(d)' <=> Asked(d) \/ r = Request("NEW_CLIENT", d, NoText)
  <2> HIDE DEF r
  <2> QED BY <1>1, <1>2, <1>3, <1>5, AskedAppend
<1>7. TypeOK'
  BY <1>1, <1>2, <1>6 DEF TypeOK
<1>8. Distinct(infCl') /\ Windows' /\ \A d \in Clients : Fresh(d) => Fresh(d)'
  BY <1>1, <1>7, WritingKeeps
<1>9. Newcomers'
  <2> HIDE DEF r
  <2>1. \A d \in Clients : Asked(d)' <=> Asked(d) \/ d = c
    BY <1>3, <1>6 DEF r
  <2>2. \A d \in Clients : state'[d] = IF d = c THEN "in" ELSE state[d]
    BY <1>1, <1>2
  <2> QED BY <1>2, <1>4, <1>6, <1>8, <2>1, <2>2 DEF Newcomers
<1> QED BY <1>7, <1>8, <1>9 DEF IInv

\* A line said is a request of another kind.
LEMMA SayKeeps ==
  ASSUME IInv, NEW c \in Clients, Say(c)
  PROVE  IInv'
<1> DEFINE r == Request("MESSAGE_FROM_CLIENT", c, typed + 1)
<1>1. /\ typed < MaxLines /\ typed' = typed + 1 /\ up' = Append(up, r)
      /\ UNCHANGED <<down, infCl, store, out, state, roster, shown>>
  BY DEF Say, server, client
<1>2. TypeOK /\ Newcomers /\ AskOnce /\ up \in Seq(Requests) /\ typed \in 0 .. MaxLines
  BY DEF IInv, Newcomers, TypeOK
<1>3. typed + 1 \in 1 .. MaxLines /\ typed + 1 \in 0 .. MaxLines
  BY <1>1, <1>2, SizeAssumption
<1>4. r \in Requests /\ r.kind # "NEW_CLIENT" /\ \A d : r # Request("NEW_CLIENT", d, NoText)
  BY <1>3, RequestsAre DEF Request
<1>5. /\ up' \in Seq(Requests) /\ AskOnce'
      /\ \A d : Asked(d)' <=> Asked(d) \/ r = Request("NEW_CLIENT", d, NoText)
  <2> HIDE DEF r
  <2> QED BY <1>1, <1>2, <1>4, AskedAppend
<1>6. TypeOK'
  BY <1>1, <1>2, <1>3, <1>5 DEF TypeOK
<1>7. Distinct(infCl') /\ Windows' /\ \A d \in Clients : Fresh(d) => Fresh(d)'
  BY <1>1, <1>6, WritingKeeps
<1>8. Newcomers'
  <2> HIDE DEF r
  <2> QED BY <1>1, <1>2, <1>4, <1>5, <1>7 DEF Newcomers
<1> QED BY <1>6, <1>7, <1>8 DEF IInv

\* A client that leaves is listed, and so has not asked.
LEMMA LeaveKeeps ==
  ASSUME IInv, NEW c \in Clients, Leave(c)
  PROVE  IInv'
<1> DEFINE r == Request("CLIENT_LEAVE", c, NoText)
<1>1. /\ c \in Listed /\ state' = [state EXCEPT ![c] = "leaving"] /\ up' = Append(up, r)
      /\ UNCHANGED <<down, infCl, store, out, typed, roster, shown>>
  BY DEF Leave, server
<1>2. TypeOK /\ Newcomers /\ AskOnce /\ up \in Seq(Requests) /\ DOMAIN state = Clients
  BY DEF IInv, Newcomers, TypeOK
<1>3. r \in Requests /\ r.kind # "NEW_CLIENT" /\ \A d : r # Request("NEW_CLIENT", d, NoText)
  BY RequestsAre DEF Request
<1>4. ~Asked(c) /\ state[c] # "off"
  BY <1>1, <1>2 DEF Newcomers, Fresh
<1>5. /\ up' \in Seq(Requests) /\ AskOnce'
      /\ \A d : Asked(d)' <=> Asked(d) \/ r = Request("NEW_CLIENT", d, NoText)
  <2> HIDE DEF r
  <2> QED BY <1>1, <1>2, <1>3, AskedAppend
<1>6. TypeOK'
  BY <1>1, <1>2, <1>5 DEF TypeOK
<1>7. Distinct(infCl') /\ Windows' /\ \A d \in Clients : Fresh(d) => Fresh(d)'
  BY <1>1, <1>6, WritingKeeps
<1>8. Newcomers'
  <2> HIDE DEF r
  <2>1. \A d \in Clients : state'[d] = IF d = c THEN "leaving" ELSE state[d]
    BY <1>1, <1>2
  <2> QED BY <1>2, <1>3, <1>4, <1>5, <1>7, <2>1 DEF Newcomers
<1> QED BY <1>6, <1>7, <1>8 DEF IInv

\* A client stops, one that has told the server or one that has not.
LEMMA StopKeeps ==
  ASSUME IInv, NEW c \in Clients, Cancel(c) \/ Die(c)
  PROVE  IInv'
<1>1. /\ state' \in {[state EXCEPT ![c] = "left"], [state EXCEPT ![c] = "dead"]}
      /\ state' = [state EXCEPT ![c] = "left"] => state[c] = "leaving"
      /\ state[c] \in {"in", "leaving"}
      /\ UNCHANGED <<up, down, infCl, store, out, typed, roster, shown>>
  <2>1. state \in [Clients -> {"off", "in", "leaving", "left", "dead"}]
    BY DEF IInv, TypeOK
  <2>2. CASE Cancel(c)
    BY <2>1, <2>2 DEF Cancel, server
  <2>3. CASE Die(c)
    <3>1. state' = [state EXCEPT ![c] = "dead"] /\ state'[c] = "dead"
      BY <2>1, <2>3 DEF Die
    <3>2. [state EXCEPT ![c] = "left"][c] = "left"
      BY <2>1
    <3> QED BY <2>3, <3>1, <3>2 DEF Die, server
  <2> QED BY <2>2, <2>3
<1>2. TypeOK /\ Newcomers /\ DOMAIN state = Clients
  BY DEF IInv, TypeOK
<1>3. TypeOK'
  BY <1>1, <1>2 DEF TypeOK
<1>4. Distinct(infCl') /\ Windows' /\ \A d \in Clients : Fresh(d) => Fresh(d)'
  BY <1>1, <1>3, WritingKeeps
<1>5. \A d : Asked(d)' <=> Asked(d)
  BY <1>1 DEF Asked
<1>6. \A d \in Clients : state'[d] # state[d] => d = c /\ state'[d] \in {"left", "dead"}
  BY <1>1, <1>2
<1>7. Asked(c) => state'[c] = "dead"
  <2>1. Asked(c) => state[c] # "leaving"
    BY <1>2 DEF Newcomers
  <2> QED BY <1>1, <1>2, <2>1
<1>8. Newcomers'
  <2>1. AskOnce'
    BY <1>1, <1>2 DEF AskOnce, Newcomers
  <2>2. \A d \in Clients : state'[d] = "off" => state[d] = "off"
    BY <1>6
  <2>3. \A d \in Clients : Asked(d) => state'[d] \in {"in", "dead"}
    BY <1>2, <1>6, <1>7 DEF Newcomers
  <2> QED BY <1>2, <1>4, <1>5, <2>1, <2>2, <2>3 DEF Newcomers
<1> QED BY <1>3, <1>4, <1>8 DEF IInv

--------------------------------------------------------------------------------
\* A client reads a message; neither the server nor who has asked is touched.
LEMMA ReadingKeeps ==
  ASSUME IInv, NEW c \in Clients, NEW cats, Received(c, cats),
         UNCHANGED <<up, infCl, store, out>>,
         state' \in [Clients -> {"off", "in", "leaving", "left", "dead"}],
         \A d \in Clients : d # c => /\ state'[d] = state[d] /\ roster'[d] = roster[d]
                                     /\ shown'[d] = shown[d],
         state'[c] # "off", Window(c)' = Window(c)
  PROVE  Distinct(infCl') /\ Newcomers' /\ Windows'
<1>1. TypeOK /\ Newcomers
  BY DEF IInv
<1>2. OnTheWay(c) # <<>> /\ \A d \in Clients : d # c => OnTheWay(d)' = OnTheWay(d)
  BY <1>1, ReadWay
<1>3. state[c] \in {"in", "leaving"} /\ ~Asked(c)
  BY <1>1, <1>2 DEF Received, Newcomers, Fresh
<1>4. \A d \in Clients : d # c /\ Fresh(d) => Fresh(d)'
  BY <1>2, FreshSame
<1>5. \A d : Asked(d)' <=> Asked(d)
  BY DEF Asked
<1>6. Newcomers'
  <2>1. AskOnce'
    BY <1>1 DEF AskOnce, Newcomers
  <2>2. \A d \in Clients : d # c => state'[d] = state[d]
    OBVIOUS
  <2> QED BY <1>1, <1>3, <1>4, <1>5, <2>1, <2>2 DEF Newcomers
<1>7. \A d \in Clients : Window(d)' = Window(d)
  <2>1. \A d \in Clients : d # c => Window(d)' = Window(d)
    BY <1>2, WindowSame
  <2> QED BY <2>1
<1>8. Windows'
  BY <1>7, WindowsKept DEF IInv
<1> QED BY <1>6, <1>8 DEF IInv

\* What a client receives is a message, and leaves messages.
LEMMA ReceivedType ==
  ASSUME TypeOK, NEW c \in Clients, NEW cats, Received(c, cats), out' = out
  PROVE  /\ down' \in [Clients -> Seq(MessagesTo(Clients))]
         /\ Head(down[c]) \in Sent /\ Head(down[c]).line.from \in Clients
<1>1. down \in [Clients -> Seq(Sent)] /\ down[c] # <<>> /\ down' = [down EXCEPT ![c] = Tail(@)]
  BY DEF Received, TypeOK, Sent
<1>2. Tail(down[c]) \in Seq(Sent) /\ Head(down[c]) \in Sent
  <2>1. PICK q \in Seq(Sent) : q = down[c]
    BY <1>1
  <2> QED BY <1>1, <2>1, HeadTailProperties
<1>3. down' \in [Clients -> Seq(Sent)]
  BY <1>1, <1>2
<1>4. \A m \in Sent : m.line.from \in Clients
  BY DEF Sent, MessagesTo, News, Lines
<1> QED BY <1>2, <1>3, <1>4 DEF Sent

\* A line read is the next one of the store.
LEMMA ReadLineKeeps ==
  ASSUME IInv, NEW c \in Clients, ReadLine(c)
  PROVE  /\ IInv'
         /\ Len(shown[c]) < Len(store)
         /\ shown' = [shown EXCEPT ![c] = Append(@, store[Len(@) + 1])]
<1>1. /\ Received(c, {"MESSAGE_FROM_CLIENT"})
      /\ shown' = [shown EXCEPT ![c] = Append(@, Head(down[c]).line)]
      /\ UNCHANGED <<up, infCl, store, out, typed, state, roster>>
  BY DEF ReadLine, server
<1>2. TypeOK /\ shown \in [Clients -> Seq(Lines)]
  BY DEF IInv, TypeOK
<1>3. /\ OnTheWay(c) # <<>> /\ Head(OnTheWay(c)) = Head(down[c])
      /\ Head(OnTheWay(c)).cat = "MESSAGE_FROM_CLIENT"
      /\ OnTheWay(c)' = Tail(OnTheWay(c))
  BY <1>1, <1>2, ReadWay
<1>4. shown'[c] = Append(shown[c], Head(OnTheWay(c)).line)
  BY <1>1, <1>2, <1>3
<1>5. /\ Window(c)' = Window(c) /\ shown'[c] \in Seq(Lines)
      /\ Len(shown[c]) < Len(Window(c)) /\ Window(c)[Len(shown[c]) + 1] = Head(OnTheWay(c)).line
  BY <1>2, <1>3, <1>4, WindowShown
<1>6. TypeOK'
  <2>1. down' \in [Clients -> Seq(MessagesTo(Clients))]
    BY <1>1, <1>2, ReceivedType
  <2>2. shown' \in [Clients -> Seq(Lines)]
    <3>1. PICK q \in Seq(Lines) : q = shown'[c]
      BY <1>5
    <3>2. shown' = [shown EXCEPT ![c] = q]
      BY <1>1, <1>2, <3>1
    <3> QED BY <1>2, <3>2
  <2> QED BY <1>1, <1>2, <2>1, <2>2 DEF TypeOK
<1>7. state[c] \in {"in", "leaving"} /\ state \in [Clients -> {"off", "in", "leaving", "left", "dead"}]
  BY <1>1, <1>2 DEF Received, TypeOK
<1>8. \A d \in Clients : d # c => /\ state'[d] = state[d] /\ roster'[d] = roster[d]
                                  /\ shown'[d] = shown[d]
  BY <1>1, <1>2
<1>9. Distinct(infCl') /\ Newcomers' /\ Windows'
  BY <1>1, <1>5, <1>7, <1>8, ReadingKeeps
<1>10. PrefixOf(Window(c), store)
  BY DEF IInv, Windows
<1>11. Len(shown[c]) < Len(store) /\ store[Len(shown[c]) + 1] = Head(OnTheWay(c)).line
  <2>1. Len(shown[c]) \in Nat /\ Len(Window(c)) \in Nat /\ Len(store) \in Nat
    BY <1>2, WindowType, LenProperties
  <2>2. PICK g \in 1 .. Len(Window(c)) : g = Len(shown[c]) + 1
    BY <1>5, <2>1
  <2> QED BY <1>5, <1>10, <2>1, <2>2 DEF PrefixOf
<1>12. shown' = [shown EXCEPT ![c] = Append(@, store[Len(@) + 1])]
  BY <1>1, <1>3, <1>11
<1> QED BY <1>6, <1>9, <1>11, <1>12 DEF IInv

\* The other messages change the client's list or nothing.
LEMMA ReadOtherKeeps ==
  ASSUME IInv, NEW c \in Clients,
         ReadNew(c) \/ ReadNewOverrun(c) \/ ReadServerLine(c) \/ ReadLeave(c)
  PROVE  IInv' /\ shown' = shown
<1>1. PICK cats : /\ Received(c, cats) /\ "MESSAGE_FROM_CLIENT" \notin cats
                  /\ UNCHANGED <<up, infCl, store, out, typed, shown>>
  BY DEF ReadNew, ReadNewOverrun, ReadServerLine, ReadLeave, server, client
<1>2. TypeOK /\ roster \in [Clients -> Seq(Clients)]
      /\ state \in [Clients -> {"off", "in", "leaving", "left", "dead"}]
  BY DEF IInv, TypeOK
<1>3. state[c] \in {"in", "leaving"}
  BY <1>1 DEF Received
<1>4. \/ state' = state
      \/ state' = [state EXCEPT ![c] = "dead"]
  BY DEF ReadNew, ReadNewOverrun, ReadServerLine, ReadLeave, client
<1>5. /\ state' \in [Clients -> {"off", "in", "leaving", "left", "dead"}]
      /\ state'[c] # "off" /\ \A d \in Clients : d # c => state'[d] = state[d]
  BY <1>2, <1>3, <1>4
<1>6. Head(down[c]).line.from \in Clients
  BY <1>1, <1>2, ReceivedType
<1>7. roster' \in [Clients -> Seq(Clients)] /\ \A d \in Clients : d # c => roster'[d] = roster[d]
  <2>1. CASE roster' = roster
    BY <1>2, <2>1
  <2>2. CASE ReadNew(c)
    <3>1. PICK x \in Clients : x = Head(down[c]).line.from
      BY <1>6
    <3>2. PICK l \in Seq(Clients) : l = roster[c]
      BY <1>2
    <3>3. Append(l, x) \in Seq(Clients)
      BY AppendProperties
    <3>4. roster' = [roster EXCEPT ![c] = Append(l, x)]
      BY <1>2, <2>2, <3>1, <3>2 DEF ReadNew
    <3> QED BY <1>2, <3>3, <3>4
  <2>3. CASE ReadLeave(c)
    <3>1. PICK x \in Clients : x = Head(down[c]).line.from
      BY <1>6
    <3>2. PICK l \in Seq(Clients) : l = roster[c]
      BY <1>2
    <3>3. Drop(l, x) \in Seq(Clients)
      BY DropIs
    <3>4. roster' = [roster EXCEPT ![c] = Drop(l, x)]
      BY <1>2, <2>3, <3>1, <3>2 DEF ReadLeave
    <3> QED BY <1>2, <3>3, <3>4
  <2> QED BY <2>1, <2>2, <2>3 DEF ReadNewOverrun, ReadServerLine, client
<1>8. TypeOK'
  <2>1. down' \in [Clients -> Seq(MessagesTo(Clients))]
    BY <1>1, <1>2, ReceivedType
  <2> QED BY <1>1, <1>2, <1>5, <1>7, <2>1 DEF TypeOK
<1>9. Window(c)' = Window(c)
  <2>1. /\ OnTheWay(c) # <<>> /\ OnTheWay(c)' = Tail(OnTheWay(c))
        /\ Head(OnTheWay(c)).cat # "MESSAGE_FROM_CLIENT"
    BY <1>1, <1>2, ReadWay
  <2> QED BY <1>1, <1>2, <2>1, WindowPassed
<1>10. Distinct(infCl') /\ Newcomers' /\ Windows'
  BY <1>1, <1>5, <1>7, <1>9, ReadingKeeps
<1> QED BY <1>1, <1>8, <1>10 DEF IInv

--------------------------------------------------------------------------------
\* No messages carry no lines.
LEMMA NoLines ==
  /\ <<>> \in Seq(Sent) /\ LinesOf(<<>>) = <<>>
  /\ \A s \in Seq(Lines) : s \o <<>> = s /\ <<>> \o s = s
  /\ \A s \in Seq(Sent) : s \o <<>> = s
<1>1. <<>> \in Seq(Sent) /\ Len(<<>>) = 0
  OBVIOUS
<1>2. LinesOf(<<>>) = <<>>
  <2>1. PICK q \in Seq(Sent) : q = <<>>
    BY <1>1
  <2>2. \A i \in 1 .. Len(q) : q[i].cat # "MESSAGE_FROM_CLIENT"
    BY <1>1, <2>1
  <2>3. LinesOf(q) = <<>>
    BY <2>2, LinesNone
  <2> QED BY <2>1, <2>3
<1> QED BY <1>1, <1>2, ConcatEmptySeq

\* The server's answer to a request is put behind what is on its way to c.
LEMMA Answered ==
  ASSUME TypeOK, out = <<>>, down' = down, shown' = shown, out' \in Seq(Sent), NEW c \in Clients
  PROVE  /\ Keep(out', For(c)) \in Seq(Sent)
         /\ OnTheWay(c)' = OnTheWay(c) \o Keep(out', For(c))
         /\ Window(c)' = Window(c) \o LinesOf(Keep(out', For(c)))
         /\ Keep(out', For(c)) = <<>> => OnTheWay(c)' = OnTheWay(c)
         /\ LinesOf(Keep(out', For(c))) = <<>> => Window(c)' = Window(c)
<1>1. OnTheWay(c)' = OnTheWay(c) \o Keep(out', For(c))
  BY TakeWay
<1>2. PICK b \in Seq(Sent) : b = Keep(out', For(c))
  <2>1. Keep(out', For(c)) \in Seq(For(c) \cap Sent)
    BY KeptType
  <2> QED BY <2>1, SeqMonotonic
<1>3. Window(c)' = Window(c) \o LinesOf(b)
  BY <1>1, <1>2, WindowGrows
<1>4. Window(c) \in Seq(Lines) /\ OnTheWay(c) \in Seq(Sent)
  BY WindowType, WayType
<1>5. Window(c) \o <<>> = Window(c) /\ OnTheWay(c) \o <<>> = OnTheWay(c)
  BY <1>4, NoLines
<1> QED BY <1>1, <1>2, <1>3, <1>5

\* Sending changes no window.
LEMMA SendKeeps ==
  ASSUME IInv, ServerSend
  PROVE  IInv'
<1>1. /\ out # <<>> /\ out' = Tail(out)
      /\ down' = [down EXCEPT ![Head(out).to] = Append(@, Head(out))]
      /\ UNCHANGED <<up, infCl, store, typed, state, roster, shown>>
  BY DEF ServerSend, client
<1>2. TypeOK /\ Newcomers
  BY DEF IInv
<1>3. TypeOK'
  <2>1. out \in Seq(Sent) /\ down \in [Clients -> Seq(Sent)]
    BY <1>2 DEF TypeOK, Sent
  <2>2. PICK m \in Sent : m = Head(out)
    BY <1>1, <2>1, HeadTailProperties
  <2>3. Tail(out) \in Seq(Sent)
    BY <1>1, <2>1, HeadTailProperties
  <2>4. m.to \in Clients
    BY DEF Sent, MessagesTo
  <2>5. PICK q \in Seq(Sent) : q = Append(down[m.to], m)
    BY <2>1, <2>4, AppendProperties
  <2>6. down' = [down EXCEPT ![m.to] = q]
    BY <1>1, <2>1, <2>2, <2>4, <2>5
  <2>7. down' \in [Clients -> Seq(Sent)]
    BY <2>1, <2>6
  <2> QED BY <1>1, <1>2, <2>3, <2>7 DEF TypeOK, Sent
<1>4. \A c \in Clients : OnTheWay(c)' = OnTheWay(c)
  BY <1>2, SendWay
<1>5. \A c \in Clients : Fresh(c) => Fresh(c)'
  BY <1>1, <1>4, FreshSame
<1>6. \A c \in Clients : Window(c)' = Window(c)
  BY <1>1, <1>4, WindowSame
<1>7. Windows'
  BY <1>1, <1>6, WindowsKept DEF IInv
<1>8. Newcomers'
  <2>1. \A c : Asked(c)' <=> Asked(c)
    BY <1>1 DEF Asked
  <2>2. AskOnce'
    BY <1>1, <1>2 DEF AskOnce, Newcomers
  <2> QED BY <1>1, <1>2, <1>5, <2>1, <2>2 DEF Newcomers
<1> QED BY <1>1, <1>3, <1>7, <1>8 DEF IInv

\* A line more at the end of the store.
LEMMA AppendIs ==
  ASSUME NEW s \in Seq(Lines), NEW x \in Lines
  PROVE  Append(s, x) = s \o <<x>> /\ Append(s, x) \in Seq(Lines)
<1>1. <<>> \in Seq(Lines)
  OBVIOUS
<1>2. Append(s, x) \in Seq(Lines) /\ Append(s, x) \o <<>> = s \o (<<x>> \o <<>>)
  BY <1>1, MoveOver
<1>3. <<x>> \in Seq(Lines)
  BY ConsIs
<1> QED BY <1>2, <1>3, NoLines

\* A line served is put at the end of the store and of every listed window.
LEMMA MessageKeeps ==
  ASSUME IInv, ServeMessage
  PROVE  IInv'
<1>1. /\ out = <<>> /\ down' = down /\ out' \in Seq(Sent) /\ infCl' = infCl
      /\ up # <<>> /\ up' = Tail(up) /\ Head(up).kind = "MESSAGE_FROM_CLIENT"
      /\ Head(up).line \in Lines /\ store' = Append(store, Head(up).line)
  BY MessageBurst
<1>2. \A c \in Clients : Keep(out', For(c)) =
              IF In(c, infCl) THEN <<Msg(c, "MESSAGE_FROM_CLIENT", Head(up).line)>> ELSE <<>>
  BY MessageBurst
<1>3. TypeOK /\ Newcomers /\ UNCHANGED <<typed, state, roster, shown>>
      /\ up \in Seq(Requests) /\ AskOnce /\ infCl \in Seq(Clients) /\ store \in Seq(Lines)
  BY DEF IInv, ServeMessage, client, Newcomers, TypeOK
<1>4. PICK x \in Lines : x = Head(up).line
  BY <1>1
<1>5. store' = store \o <<x>> /\ store' \in Seq(Lines) /\ store' = Append(store, x)
  BY <1>1, <1>3, <1>4, AppendIs
<1>6. /\ up' \in Seq(Requests) /\ AskOnce'
      /\ \A c : Asked(c)' => Asked(c) /\ Head(up) # Request("NEW_CLIENT", c, NoText)
  BY <1>1, <1>3, AskedTail
<1>7. TypeOK'
  BY <1>1, <1>3, <1>5, <1>6 DEF TypeOK, Sent
<1>8. \A c \in Clients : Fresh(c) => Fresh(c)'
  <2> SUFFICES ASSUME NEW c \in Clients, Fresh(c) PROVE Fresh(c)'
    OBVIOUS
  <2>1. ~In(c, infCl)
    BY <1>3, ListedIs DEF Fresh
  <2>2. OnTheWay(c)' = OnTheWay(c)
    BY <1>1, <1>2, <1>3, <2>1, Answered
  <2> QED BY <1>1, <1>3, <2>2, FreshSame
<1>9. Newcomers'
  BY <1>3, <1>6, <1>8 DEF Newcomers
<1>10. ASSUME NEW c \in Clients
       PROVE  PrefixOf(Window(c)', store') /\ (c \in Listed' => Window(c)' = store')
  <2>1. Window(c)' = Window(c) \o LinesOf(Keep(out', For(c)))
    BY <1>1, <1>3, Answered
  <2>2. Window(c) \in Seq(Lines) /\ PrefixOf(Window(c), store) /\ (c \in Listed => Window(c) = store)
    BY <1>3, WindowType DEF IInv, Windows
  <2>3. (c \in Listed <=> In(c, infCl)) /\ (c \in Listed' <=> In(c, infCl))
    BY <1>1, <1>3, ListedIs DEF Listed
  <2>4. CASE In(c, infCl)
    <3>1. PICK m \in Sent : m = Msg(c, "MESSAGE_FROM_CLIENT", x) /\ m.cat = "MESSAGE_FROM_CLIENT" /\ m.line = x
      BY SendableIs DEF Sendable
    <3>2. LinesOf(<<m>>) = <<x>>
      BY <3>1, LinesOne
    <3>3. Keep(out', For(c)) = <<m>>
      BY <1>2, <1>4, <2>4, <3>1
    <3>4. Window(c)' = store'
      BY <1>5, <2>1, <2>2, <2>3, <2>4, <3>2, <3>3
    <3> QED BY <1>5, <3>4, PrefixSame
  <2>5. CASE ~In(c, infCl)
    <3>1. Window(c)' = Window(c)
      BY <1>1, <1>2, <1>3, <2>5, NoLines, Answered
    <3>2. PrefixOf(Window(c), Append(store, x))
      BY <1>3, <2>2, PrefixGrows
    <3> QED BY <1>5, <2>3, <2>5, <3>1, <3>2
  <2> QED BY <2>4, <2>5
<1>11. Windows'
  BY <1>10 DEF Windows
<1> QED BY <1>1, <1>7, <1>9, <1>11 DEF IInv

\* Messages none of which is a line leave the window as it is.
LEMMA TwoNews ==
  ASSUME NEW c \in Clients, NEW line \in News
  PROVE  LET b == <<Msg(c, "MESSAGE_FROM_SERVER", line)>> \o <<Msg(c, "CLIENT_LEAVE", line)>> IN
         b \in Seq(Sent) /\ LinesOf(b) = <<>>
<1>1. PICK m \in Sent : m = Msg(c, "MESSAGE_FROM_SERVER", line) /\ m.cat # "MESSAGE_FROM_CLIENT"
  BY SendableIs DEF Sendable
<1>2. PICK n \in Sent : n = Msg(c, "CLIENT_LEAVE", line) /\ n.cat # "MESSAGE_FROM_CLIENT"
  BY SendableIs DEF Sendable
<1>3. PICK q \in Seq(Sent) : q = <<m>> /\ LinesOf(q) = <<>>
  BY <1>1, LinesOne
<1>4. PICK r \in Seq(Sent) : r = <<n>> /\ LinesOf(r) = <<>>
  BY <1>2, LinesOne
<1>5. LinesOf(q \o r) = LinesOf(q) \o LinesOf(r) /\ q \o r \in Seq(Sent)
  BY LinesConcat, ConcatProperties
<1>6. <<>> \o <<>> = <<>>
  BY EmptySeq, ConcatEmptySeq
<1> QED BY <1>1, <1>2, <1>3, <1>4, <1>5, <1>6

\* A leave served reaches the windows of those who stay with no line.
LEMMA ServeLeaveKeeps ==
  ASSUME IInv, ServeLeave
  PROVE  IInv'
<1>1. /\ out = <<>> /\ down' = down /\ out' \in Seq(Sent) /\ store' = store
      /\ up # <<>> /\ up' = Tail(up) /\ Head(up).kind = "CLIENT_LEAVE"
      /\ Head(up).line \in News /\ Head(up).line.from \in Clients
      /\ infCl' \in Seq(Clients) /\ Distinct(infCl') /\ Len(infCl') <= Len(infCl)
      /\ \A c \in Clients : In(c, infCl') => In(c, infCl)
  BY LeaveBurst
<1>2. \A c \in Clients : Keep(out', For(c)) =
              IF In(c, infCl') THEN <<Msg(c, "MESSAGE_FROM_SERVER", Head(up).line)>>
                                      \o <<Msg(c, "CLIENT_LEAVE", Head(up).line)>>
              ELSE <<>>
  BY LeaveBurst
<1>3. /\ TypeOK /\ Newcomers /\ UNCHANGED <<typed, state, roster, shown>>
      /\ up \in Seq(Requests) /\ AskOnce /\ infCl \in Seq(Clients) /\ Len(infCl) <= SIZE_CLIENTS
      /\ Len(infCl) \in Nat /\ Len(infCl') \in Nat /\ SIZE_CLIENTS \in Nat
  BY <1>1, SizeAssumption, LenProperties DEF IInv, ServeLeave, client, Newcomers, TypeOK
<1>4. /\ up' \in Seq(Requests) /\ AskOnce'
      /\ \A c : Asked(c)' => Asked(c) /\ Head(up) # Request("NEW_CLIENT", c, NoText)
  BY <1>1, <1>3, AskedTail
<1>5. TypeOK'
  <2>1. Len(infCl') <= SIZE_CLIENTS
    BY <1>1, <1>3
  <2> QED BY <1>1, <1>3, <1>4, <2>1 DEF TypeOK, Sent
<1>6. \A c \in Clients : (c \in Listed <=> In(c, infCl)) /\ (c \in Listed' <=> In(c, infCl'))
  BY <1>1, <1>3, ListedIs
<1>7. \A c \in Clients : Fresh(c) => Fresh(c)'
  <2> SUFFICES ASSUME NEW c \in Clients, Fresh(c) PROVE Fresh(c)'
    OBVIOUS
  <2>1. ~In(c, infCl) /\ ~In(c, infCl')
    BY <1>1, <1>6 DEF Fresh
  <2>2. OnTheWay(c)' = OnTheWay(c)
    BY <1>1, <1>2, <1>3, <2>1, Answered
  <2> QED BY <1>3, <1>6, <2>1, <2>2 DEF Fresh
<1>8. Newcomers'
  BY <1>3, <1>4, <1>7 DEF Newcomers
<1>9. \A c \in Clients : LinesOf(Keep(out', For(c))) = <<>>
  BY <1>1, <1>2, NoLines, TwoNews
<1>10. \A c \in Clients : Window(c)' = Window(c)
  BY <1>1, <1>3, <1>9, Answered
<1>11. Windows'
  BY <1>1, <1>6, <1>10 DEF IInv, Windows
<1> QED BY <1>1, <1>5, <1>8, <1>11 DEF IInv

\* A newcomer is sent every line of the store, and no one else a line.
LEMMA NewBurstLines ==
  ASSUME NEW l \in Seq(Clients), NEW x \in Clients, NEW c \in Clients, store \in Seq(Lines)
  PROVE  NewBurst(l, x, c) \in Seq(Sent) /\ LinesOf(NewBurst(l, x, c)) = IF c = x THEN store ELSE <<>>
<1>1. PICK a \in Seq(Sent) :
        /\ a = IF In(c, l) /\ (Len(l) > 1 => c # x) THEN <<Msg(c, "NEW_CLIENT", Line(x, NoText))>> ELSE <<>>
        /\ LinesOf(a) = <<>>
  <2>1. Sendable("NEW_CLIENT", Line(x, NoText))
    BY NewsIs DEF Sendable
  <2>2. PICK m \in Sent : m = Msg(c, "NEW_CLIENT", Line(x, NoText)) /\ m.cat # "MESSAGE_FROM_CLIENT"
    BY <2>1, SendableIs
  <2>3. <<m>> \in Seq(Sent) /\ LinesOf(<<m>>) = <<>>
    BY <2>2, LinesOne
  <2> QED BY <2>2, <2>3, NoLines
<1>2. PICK s \in Seq(Sent) : s = SendRoster(l, x) /\ LinesOf(s) = <<>>
  <2>1. PICK s \in Seq(Sent) : s = SendRoster(l, x)
    BY SendRosterIs, OnlyFor
  <2>2. \A i \in 1 .. Len(s) : s[i].cat # "MESSAGE_FROM_CLIENT"
    <3>1. \A i \in 1 .. Len(s) : s[i] = Msg(x, "NEW_CLIENT", Line(l[i], NoText))
      BY <2>1, SendRosterIs
    <3>2. \A to, cat, line : Msg(to, cat, line).cat = cat
      BY DEF Msg
    <3> QED BY <3>1, <3>2
  <2>3. LinesOf(s) = <<>>
    BY <2>2, LinesNone
  <2> QED BY <2>1, <2>3
<1>3. PICK r \in Seq(Sent) : r = Replay(x) /\ LinesOf(r) = store
  BY ReplayIs, ReplayLines, OnlyFor
<1>4. PICK d \in Seq(Sent) : d = s \o r /\ LinesOf(d) = store
  <2>1. s \o r \in Seq(Sent) /\ LinesOf(s \o r) = LinesOf(s) \o LinesOf(r)
    BY LinesConcat, ConcatProperties
  <2>2. <<>> \o store = store
    BY NoLines
  <2> QED BY <1>2, <1>3, <2>1, <2>2
<1>5. PICK e \in Seq(Sent) : /\ e = IF c = x THEN SendRoster(l, x) \o Replay(x) ELSE <<>>
                             /\ LinesOf(e) = IF c = x THEN store ELSE <<>>
  BY <1>2, <1>3, <1>4, NoLines
<1>6. a \o e \in Seq(Sent) /\ LinesOf(a \o e) = LinesOf(a) \o LinesOf(e)
  BY LinesConcat, ConcatProperties
<1>7. LinesOf(a) \o LinesOf(e) = IF c = x THEN store ELSE <<>>
  <2>1. <<>> \in Seq(Lines)
    OBVIOUS
  <2> QED BY <1>1, <1>5, <2>1, NoLines
<1>8. NewBurst(l, x, c) = a \o e
  BY <1>1, <1>5 DEF NewBurst
<1> QED BY <1>6, <1>7, <1>8

\* The window of a newcomer is the replayed store; the others keep theirs.
LEMMA NewKeeps ==
  ASSUME IInv, ServeNew
  PROVE  IInv'
<1>1. PICK x : x = Head(up).line.from
  OBVIOUS
<1>2. /\ out = <<>> /\ down' = down /\ out' \in Seq(Sent) /\ store' = store
      /\ up # <<>> /\ up' = Tail(up) /\ Head(up).kind = "NEW_CLIENT"
      /\ Head(up).line \in News /\ x \in Clients
      /\ Asked(x) /\ Fresh(x) /\ state[x] \in {"in", "dead"}
      /\ infCl' \in Seq(Clients) /\ Distinct(infCl') /\ Len(infCl') <= SIZE_CLIENTS
      /\ \A c \in Clients : In(c, infCl') <=> In(c, infCl) \/ (c = x /\ Len(infCl) < SIZE_CLIENTS)
  BY <1>1, NewcomerBurst
<1>3. \A c \in Clients : Keep(out', For(c)) = NewBurst(infCl', x, c)
  BY <1>1, NewcomerBurst
<1>4. /\ TypeOK /\ Newcomers /\ UNCHANGED <<typed, state, roster, shown>>
      /\ up \in Seq(Requests) /\ AskOnce /\ infCl \in Seq(Clients) /\ store \in Seq(Lines)
  BY DEF IInv, ServeNew, client, Newcomers, TypeOK
<1>5. /\ up' \in Seq(Requests) /\ AskOnce'
      /\ \A c : Asked(c)' => Asked(c) /\ Head(up) # Request("NEW_CLIENT", c, NoText)
  BY <1>2, <1>4, AskedTail
<1>6. TypeOK'
  BY <1>2, <1>4, <1>5 DEF TypeOK, Sent
<1>7. \A c \in Clients : (c \in Listed <=> In(c, infCl)) /\ (c \in Listed' <=> In(c, infCl'))
  BY <1>2, <1>4, ListedIs
<1>8. Head(up) = Request("NEW_CLIENT", x, NoText)
  <2>1. Head(up) \in Requests
    BY <1>2, <1>4, HeadTailProperties
  <2> QED BY <1>1, <1>2, <2>1 DEF Request, Requests, News, Line
<1>9. ASSUME NEW c \in Clients, c # x, Fresh(c) PROVE Fresh(c)'
  <2>1. ~In(c, infCl) /\ ~In(c, infCl')
    BY <1>2, <1>7, <1>9 DEF Fresh
  <2>2. NewBurst(infCl', x, c) = <<>>
    <3>1. <<>> \o <<>> = <<>>
      BY EmptySeq, ConcatEmptySeq
    <3> QED BY <1>9, <2>1, <3>1 DEF NewBurst
  <2>3. OnTheWay(c)' = OnTheWay(c)
    BY <1>2, <1>3, <1>4, <2>2, Answered
  <2> QED BY <1>4, <1>7, <1>9, <2>1, <2>3 DEF Fresh
<1>10. Newcomers'
  BY <1>2, <1>4, <1>5, <1>8, <1>9 DEF Newcomers
<1>11. ASSUME NEW c \in Clients
       PROVE  PrefixOf(Window(c)', store') /\ (c \in Listed' => Window(c)' = store')
  <2>1. Window(c)' = Window(c) \o LinesOf(Keep(out', For(c)))
    BY <1>2, <1>4, Answered
  <2>2. LinesOf(Keep(out', For(c))) = IF c = x THEN store ELSE <<>>
    BY <1>2, <1>3, <1>4, NewBurstLines
  <2>3. CASE c = x
    <3>1. shown[c] = <<>> /\ OnTheWay(c) = <<>>
      BY <1>2, <2>3 DEF Fresh
    <3>2. <<>> \in Seq(Lines)
      OBVIOUS
    <3>3. Window(c) = <<>>
      BY <3>1, <3>2, NoLines DEF Window
    <3>4. Window(c)' = store
      BY <1>4, <2>1, <2>2, <2>3, <3>3, NoLines
    <3> QED BY <1>2, <1>4, <3>4, PrefixSame
  <2>4. CASE c # x
    <3>1. Window(c)' = Window(c)
      BY <1>2, <1>4, <2>2, <2>4, Answered
    <3> QED BY <1>2, <1>7, <2>4, <3>1 DEF IInv, Windows
  <2> QED BY <2>3, <2>4
<1>12. Windows'
  BY <1>11 DEF Windows
<1> QED BY <1>2, <1>6, <1>10, <1>12 DEF IInv

--------------------------------------------------------------------------------
\* The invariant the theorems of this module rest on.
THEOREM Inductive == Spec => []IInv
<1>1. IInv /\ [Next]_vars => IInv'
  <2> SUFFICES ASSUME IInv, [Next]_vars PROVE IInv'
    OBVIOUS
  <2>1. CASE ServeNew
    BY <2>1, NewKeeps
  <2>2. CASE ServeMessage
    BY <2>2, MessageKeeps
  <2>3. CASE ServeLeave
    BY <2>3, ServeLeaveKeeps
  <2>4. CASE ServerSend
    BY <2>4, SendKeeps
  <2>5. ASSUME NEW c \in Clients, ReadStep(c) PROVE IInv'
    BY <2>5, ReadLineKeeps, ReadOtherKeeps DEF ReadStep
  <2>6. ASSUME NEW c \in Clients, Join(c) PROVE IInv'
    BY <2>6, JoinKeeps
  <2>7. ASSUME NEW c \in Clients, Say(c) PROVE IInv'
    BY <2>7, SayKeeps
  <2>8. ASSUME NEW c \in Clients, Leave(c) PROVE IInv'
    BY <2>8, LeaveKeeps
  <2>9. ASSUME NEW c \in Clients, Cancel(c) \/ Die(c) PROVE IInv'
    BY <2>9, StopKeeps
  <2>10. CASE UNCHANGED vars
    <3>1. UNCHANGED <<up, down, infCl, store, out, typed, state, roster, shown>>
      BY <2>10 DEF vars, server, client
    <3>2. TypeOK' /\ Distinct(infCl')
      BY <3>1 DEF IInv, TypeOK
    <3>3. \A c \in Clients : OnTheWay(c)' = OnTheWay(c) /\ (Asked(c)' <=> Asked(c))
      BY <3>1 DEF OnTheWay, Asked
    <3>4. Newcomers'
      <4>1. AskOnce'
        BY <3>1 DEF IInv, Newcomers, AskOnce
      <4>2. \A c \in Clients : Fresh(c) => Fresh(c)'
        BY <3>1, <3>3, FreshSame
      <4> QED BY <3>1, <3>3, <4>1, <4>2 DEF IInv, Newcomers
    <3>5. Windows'
      BY <3>1, <3>3, WindowSame, WindowsKept DEF IInv
    <3> QED BY <3>2, <3>4, <3>5 DEF IInv
  <2> QED BY <2>1, <2>2, <2>3, <2>4, <2>5, <2>6, <2>7, <2>8, <2>9, <2>10 DEF Next, ServerStep
<1> QED BY InitIs, <1>1, PTL DEF Spec

\* Only clients are listed.
LEMMA ListedClients ==
  ASSUME TypeOK
  PROVE  Listed \subseteq Clients
<1> SUFFICES ASSUME NEW c \in Listed PROVE c \in Clients
  OBVIOUS
<1>1. infCl \in Seq(Clients)
  BY DEF TypeOK
<1>2. In(c, infCl)
  BY <1>1, ListedIs
<1> QED BY <1>1, <1>2, ElementOfSeq DEF In

\* For any number of clients, places and lines and any size of the second queue,
\* and whoever joins, is turned away, leaves or is killed: what a listed client
\* has shown, followed by the lines on their way to it, is the server's store
\* (server.c:84-91 extends it, 134-144 replays it, 147-151 passes a line on).
THEOREM ChatIsStoreCorrect == Spec => []ChatIsStore
<1>1. IInv => ChatIsStore
  BY ListedClients DEF IInv, Windows, Window, ChatIsStore
<1> QED BY <1>1, Inductive, PTL

--------------------------------------------------------------------------------
\* The list has no client twice: it is as long as there are clients on it.
LEMMA ListedCount ==
  ASSUME TypeOK
  PROVE  IsFiniteSet(Listed) /\ Cardinality(Listed) <= Len(infCl)
<1>1. infCl \in Seq(Clients) /\ Len(infCl) \in Nat
  BY LenProperties DEF TypeOK
<1>2. DOMAIN infCl = 1 .. Len(infCl) /\ infCl \in [1 .. Len(infCl) -> Listed]
  <2>1. DOMAIN infCl = 1 .. Len(infCl) /\ infCl \in [1 .. Len(infCl) -> Clients]
    BY <1>1, LenProperties
  <2> QED BY <2>1 DEF Listed, ToSet
<1>3. infCl \in Surjection(1 .. Len(infCl), Listed)
  BY <1>2 DEF Surjection, Listed, ToSet
<1>4. IsFiniteSet(1 .. Len(infCl)) /\ Cardinality(1 .. Len(infCl)) = Len(infCl)
  BY <1>1, FS_Interval, SMTT(30)
<1> QED BY <1>3, <1>4, FS_Surjection

--------------------------------------------------------------------------------
\* The chat room counts as this module does.
LEMMA SameCount == Room!Cardinality(Listed) = Cardinality(Listed)
BY DEF Room!Cardinality, Cardinality

\* A line served is one put.
LEMMA MessagePuts ==
  ASSUME IInv, ServeMessage
  PROVE  Room!Next
<1>1. PICK x \in Lines : store' = Append(store, x)
  BY MessageBurst
<1>2. store \in Seq(Lines) /\ infCl' = infCl /\ shown' = shown
  BY DEF IInv, TypeOK, ServeMessage, client
<1>3. PICK s \in Seq(Lines) : s = store'
  BY <1>1, <1>2, AppendProperties
<1>4. Len(s) = Len(store) + 1 /\ Len(store) \in Nat /\ s[Len(store) + 1] = x
  BY <1>1, <1>2, <1>3, AppendProperties, LenProperties
<1>5. s # <<>>
  BY <1>4, EmptySeq
<1>6. store' # <<>> /\ store'[Len(store')] = x
  BY <1>3, <1>4, <1>5
<1>7. Room!Put(store'[Len(store')])
  BY <1>1, <1>2, <1>6 DEF Room!Put, Listed
<1> QED BY <1>6, <1>7 DEF Room!Next

\* A newcomer that is listed enters; one that finds the list full changes nothing.
LEMMA NewEnters ==
  ASSUME IInv, ServeNew
  PROVE  Room!Next \/ UNCHANGED Room!vars
<1>1. PICK x : x = Head(up).line.from
  OBVIOUS
<1>2. /\ x \in Clients /\ Fresh(x) /\ store' = store
      /\ infCl' = IF Len(infCl) >= SIZE_CLIENTS THEN infCl ELSE Append(infCl, x)
      /\ infCl' \in Seq(Clients)
      /\ \A c \in Clients : In(c, infCl') <=> In(c, infCl) \/ (c = x /\ Len(infCl) < SIZE_CLIENTS)
  BY <1>1, NewcomerBurst
<1>3. /\ TypeOK /\ infCl \in Seq(Clients) /\ shown' = shown /\ Len(infCl) \in Nat
      /\ SIZE_CLIENTS \in Nat
  BY LenProperties, SizeAssumption DEF IInv, TypeOK, ServeNew, client
<1>4. CASE Len(infCl) >= SIZE_CLIENTS
  BY <1>2, <1>3, <1>4 DEF Room!vars, Listed
<1>5. CASE Len(infCl) < SIZE_CLIENTS
  <2>1. \A c \in Clients : (c \in Listed <=> In(c, infCl)) /\ (c \in Listed' <=> In(c, infCl'))
    BY <1>2, <1>3, ListedIs
  <2>2. Listed \subseteq Clients /\ Listed' \subseteq Clients
    <3>1. \A i \in DOMAIN infCl' : infCl'[i] \in Clients
      BY <1>2, LenProperties, ElementOfSeq
    <3>2. Listed' \subseteq Clients
      BY <3>1 DEF Listed, ToSet
    <3> QED BY <1>3, <3>2, ListedClients
  <2>3. Listed' = Listed \cup {x}
    BY <1>2, <1>5, <2>1, <2>2
  <2>4. Room!Cardinality(Listed) < SIZE_CLIENTS
    <3>1. IsFiniteSet(Listed) /\ Cardinality(Listed) <= Len(infCl)
      BY <1>3, ListedCount
    <3>2. Cardinality(Listed) \in Nat
      BY <3>1, FS_CardinalityType
    <3>3. Cardinality(Listed) < SIZE_CLIENTS
      BY <1>3, <1>5, <3>1, <3>2
    <3> QED BY <3>3, SameCount
  <2>5. Room!Enter(x)
    BY <1>2, <1>3, <2>3, <2>4 DEF Room!Enter, Fresh
  <2> QED BY <1>2, <2>5 DEF Room!Next
<1> QED BY <1>3, <1>4, <1>5

\* A client that leaves departs, if it is still listed.
LEMMA LeaveDeparts ==
  ASSUME IInv, ServeLeave
  PROVE  Room!Next \/ UNCHANGED Room!vars
<1>1. PICK x : x = Head(up).line.from
  OBVIOUS
<1>2. /\ x \in Clients /\ store' = store /\ infCl' \in Seq(Clients)
      /\ \A c \in Clients : In(c, infCl') <=> In(c, infCl) /\ c # x
  BY <1>1, LeaveBurst
<1>3. TypeOK /\ infCl \in Seq(Clients) /\ shown' = shown
  BY DEF IInv, TypeOK, ServeLeave, client
<1>4. \A c \in Clients : (c \in Listed <=> In(c, infCl)) /\ (c \in Listed' <=> In(c, infCl'))
  BY <1>2, <1>3, ListedIs
<1>5. Listed \subseteq Clients /\ Listed' \subseteq Clients
  <2>1. \A i \in DOMAIN infCl' : infCl'[i] \in Clients
    BY <1>2, LenProperties, ElementOfSeq
  <2>2. Listed' \subseteq Clients
    BY <2>1 DEF Listed, ToSet
  <2> QED BY <1>3, <2>2, ListedClients
<1>6. Listed' = Listed \ {x}
  BY <1>2, <1>4, <1>5
<1>7. CASE x \in Listed
  <2>1. Room!Depart(x)
    BY <1>2, <1>3, <1>6, <1>7 DEF Room!Depart
  <2> QED BY <1>2, <2>1 DEF Room!Next
<1>8. CASE x \notin Listed
  BY <1>2, <1>3, <1>6, <1>8 DEF Room!vars
<1> QED BY <1>7, <1>8

\* Nothing else but a line read can be seen from outside.
LEMMA StepIsOfRoom ==
  ASSUME IInv, [Next]_vars
  PROVE  Room!Next \/ UNCHANGED Room!vars
<1>1. CASE ServeMessage
  BY <1>1, MessagePuts
<1>2. CASE ServeNew
  BY <1>2, NewEnters
<1>3. CASE ServeLeave
  BY <1>3, LeaveDeparts
<1>4. ASSUME NEW c \in Clients, ReadLine(c) PROVE Room!Next
  <2>1. Len(shown[c]) < Len(store) /\ shown' = [shown EXCEPT ![c] = Append(@, store[Len(@) + 1])]
    BY <1>4, ReadLineKeeps
  <2>2. store' = store /\ Listed' = Listed
    BY <1>4 DEF ReadLine, server, Listed
  <2>3. Room!See(c)
    BY <2>1, <2>2 DEF Room!See
  <2> QED BY <2>3 DEF Room!Next
<1>5. ASSUME UNCHANGED <<infCl, store, shown>> PROVE UNCHANGED Room!vars
  BY <1>5 DEF Room!vars, Listed
<1>6. CASE ServerSend
  BY <1>5, <1>6 DEF ServerSend, client
<1>7. ASSUME NEW c \in Clients,
             \/ ReadNew(c) \/ ReadNewOverrun(c) \/ ReadServerLine(c) \/ ReadLeave(c)
             \/ Join(c) \/ Say(c) \/ Leave(c) \/ Cancel(c) \/ Die(c)
      PROVE  UNCHANGED Room!vars
  <2>1. CASE ReadNew(c)
    BY <1>5, <2>1 DEF ReadNew, server
  <2>2. CASE ReadNewOverrun(c)
    BY <1>5, <2>2 DEF ReadNewOverrun, server
  <2>3. CASE ReadServerLine(c)
    BY <1>5, <2>3 DEF ReadServerLine, server, client
  <2>4. CASE ReadLeave(c)
    BY <1>5, <2>4 DEF ReadLeave, server
  <2>5. CASE Join(c)
    BY <1>5, <2>5 DEF Join, server
  <2>6. CASE Say(c)
    BY <1>5, <2>6 DEF Say, server, client
  <2>7. CASE Leave(c) \/ Cancel(c) \/ Die(c)
    BY <1>5, <2>7 DEF Leave, Cancel, Die, server
  <2> QED BY <1>7, <2>1, <2>2, <2>3, <2>4, <2>5, <2>6, <2>7
<1>8. CASE UNCHANGED vars
  BY <1>5, <1>8 DEF vars, server, client
<1> QED BY <1>1, <1>2, <1>3, <1>4, <1>6, <1>7, <1>8 DEF Next, ServerStep, ReadStep

\* For every value of the constants the two queues, the server's bursts and the
\* replay implement the chat room of ChatRoom: one order of the lines, which
\* every client sees from the first on (server.c:84-91, 134-151; client.c:45-50),
\* and never more than SIZE_CLIENTS clients in the room.
THEOREM ImplementsRoomCorrect == Spec => ImplementsRoom
<1>1. Init => Room!Init
  <2>1. ToSet(<<>>) = {}
    BY DEF ToSet
  <2> QED BY <2>1 DEF Init, Room!Init, Listed
<1>2. IInv /\ [Next]_vars => [Room!Next]_(Room!vars)
  BY StepIsOfRoom
<1> QED BY <1>1, <1>2, Inductive, PTL DEF Spec, ImplementsRoom, Room!Spec

--------------------------------------------------------------------------------
\* The lists of a client that reads the messages of q, one after the other, and
\* the list it ends with; none of them is too long for its array.
Route(l, q, p) ==
  /\ p \in [0 .. Len(q) -> Seq(Clients)]
  /\ p[0] = l
  /\ \A n \in 1 .. Len(q) : p[n] = After(p[n - 1], q[n])
  /\ \A n \in 0 .. Len(q) : Len(p[n]) <= SIZE_CLIENTS

Leads(l, q, m) == \E p : Route(l, q, p) /\ p[Len(q)] = m

Fits(l) == l \in Seq(Clients) /\ Len(l) <= SIZE_CLIENTS

\* There is one way to read messages: the one UpdatedBy describes.
LEMMA RouteIs ==
  ASSUME NEW l, NEW q, Len(q) \in Nat, NEW p, Route(l, q, p)
  PROVE  UpdatedBy(l, q) = p
<1> DEFINE H(g) == [n \in 0 .. Len(q) |-> IF n = 0 THEN l ELSE After(g[n - 1], q[n])]
           F == UpdatedBy(l, q)
<1>1. p = H(p)
  <2>1. DOMAIN p = 0 .. Len(q) /\ p = [n \in 0 .. Len(q) |-> p[n]]
    BY DEF Route
  <2>2. \A n \in 0 .. Len(q) : p[n] = IF n = 0 THEN l ELSE After(p[n - 1], q[n])
    <3> TAKE n \in 0 .. Len(q)
    <3>1. n = 0 \/ n \in 1 .. Len(q)
      OBVIOUS
    <3> QED BY <3>1 DEF Route
  <2> QED BY <2>1, <2>2
<1>2. F = CHOOSE g : g = H(g)
  BY DEF UpdatedBy
<1>3. F = H(F)
  BY <1>1, <1>2
<1> DEFINE G == {n \in 0 .. Len(q) : F[n] = p[n]}
<1>4. F[0] = l /\ \A n \in 1 .. Len(q) : F[n] = After(F[n - 1], q[n])
  <2> HIDE DEF F
  <2>1. \A n \in 0 .. Len(q) : F[n] = IF n = 0 THEN l ELSE After(F[n - 1], q[n])
    BY <1>3
  <2> QED BY <2>1
<1>5. DOMAIN F = 0 .. Len(q)
  <2> HIDE DEF F
  <2> QED BY <1>3
<1> HIDE DEF F, H
<1>6. 0 \in G
  BY <1>4 DEF Route
<1>7. \A n \in 1 .. Len(q) : n - 1 \in G => n \in G
  BY <1>4 DEF Route
<1> HIDE DEF G
<1>8. \A n \in 0 .. Len(q) : n \in G
  BY <1>6, <1>7, UpTo
<1>9. \A n \in 0 .. Len(q) : F[n] = p[n]
  BY <1>8 DEF G
<1>10. F = [n \in 0 .. Len(q) |-> F[n]] /\ p = [n \in 0 .. Len(q) |-> p[n]]
  <2>1. p = [n \in 0 .. Len(q) |-> p[n]]
    BY DEF Route
  <2>2. F = [n \in 0 .. Len(q) |-> F[n]]
    BY <1>3, <1>5 DEF H
  <2> QED BY <2>1, <2>2
<1>11. F = p
  BY <1>9, <1>10
<1> QED BY <1>11 DEF F

\* So a list that is led to is the one UpdatedBy ends with.
LEMMA LeadsIs ==
  ASSUME NEW l, NEW q, Len(q) \in Nat, NEW m, Leads(l, q, m)
  PROVE  /\ UpdatedBy(l, q)[Len(q)] = m
         /\ Fits(l) /\ Fits(m)
<1>1. PICK p : Route(l, q, p) /\ p[Len(q)] = m
  BY DEF Leads
<1>2. UpdatedBy(l, q) = p
  BY <1>1, RouteIs
<1>3. 0 \in 0 .. Len(q) /\ Len(q) \in 0 .. Len(q)
  OBVIOUS
<1>4. p[0] = l /\ p[0] \in Seq(Clients) /\ Len(p[0]) <= SIZE_CLIENTS
  BY <1>1, <1>3 DEF Route
<1>5. p[Len(q)] \in Seq(Clients) /\ Len(p[Len(q)]) <= SIZE_CLIENTS
  BY <1>1, <1>3 DEF Route
<1> QED BY <1>1, <1>2, <1>4, <1>5 DEF Fits

\* Nothing read.
LEMMA LeadsNone ==
  ASSUME NEW l, Fits(l)
  PROVE  Leads(l, <<>>, l)
<1> DEFINE p == [n \in 0 .. 0 |-> l]
<1>1. Len(<<>>) = 0 /\ 0 .. 0 = {0} /\ 1 .. 0 = {}
  OBVIOUS
<1>2. p \in [0 .. 0 -> Seq(Clients)] /\ p[0] = l /\ \A n \in 0 .. 0 : p[n] = l
  BY DEF Fits
<1> HIDE DEF p
<1>3. Route(l, <<>>, p)
  BY <1>1, <1>2 DEF Route, Fits
<1> QED BY <1>1, <1>2, <1>3 DEF Leads

\* One message read.
LEMMA LeadsOne ==
  ASSUME NEW l, Fits(l), NEW m, Fits(After(l, m))
  PROVE  Leads(l, <<m>>, After(l, m))
<1> DEFINE p == [n \in 0 .. 1 |-> IF n = 0 THEN l ELSE After(l, m)]
<1>1. Len(<<m>>) = 1 /\ <<m>>[1] = m
  OBVIOUS
<1>2. p \in [0 .. 1 -> Seq(Clients)] /\ p[0] = l /\ p[1] = After(l, m) /\ DOMAIN p = 0 .. 1
  BY DEF Fits
<1> HIDE DEF p
<1>3. \A n \in 0 .. 1 : Len(p[n]) <= SIZE_CLIENTS
  <2> TAKE n \in 0 .. 1
  <2>1. n = 0 \/ n = 1
    OBVIOUS
  <2> QED BY <1>2, <2>1 DEF Fits
<1>4. \A n \in 1 .. 1 : p[n] = After(p[n - 1], <<m>>[n])
  BY <1>1, <1>2
<1>5. Route(l, <<m>>, p)
  BY <1>1, <1>2, <1>3, <1>4 DEF Route
<1> QED BY <1>1, <1>2, <1>5 DEF Leads

\* Some messages read, and then others.
LEMMA LeadsOn ==
  ASSUME NEW X, NEW q \in Seq(X), NEW r \in Seq(X), NEW l, NEW m, NEW k, Leads(l, q, m), Leads(m, r, k)
  PROVE  Leads(l, q \o r, k)
<1>1. PICK p : Route(l, q, p) /\ p[Len(q)] = m
  BY DEF Leads
<1>2. PICK o : Route(m, r, o) /\ o[Len(r)] = k
  BY DEF Leads
<1>3. PICK a \in Nat : a = Len(q)
  BY LenProperties
<1>4. PICK b \in Nat : b = Len(r)
  BY LenProperties
<1>5. PICK u \in Seq(X) : u = q \o r
  BY ConcatProperties
<1>6. Len(u) = a + b /\ \A i \in 1 .. a + b : u[i] = IF i <= a THEN q[i] ELSE r[i - a]
  BY <1>3, <1>4, <1>5, ConcatProperties
<1>7. /\ p \in [0 .. a -> Seq(Clients)] /\ p[0] = l /\ p[a] = m
      /\ \A n \in 1 .. a : p[n] = After(p[n - 1], q[n])
      /\ \A n \in 0 .. a : Len(p[n]) <= SIZE_CLIENTS
  BY <1>1, <1>3 DEF Route
<1>8. /\ o \in [0 .. b -> Seq(Clients)] /\ o[0] = m /\ o[b] = k
      /\ \A n \in 1 .. b : o[n] = After(o[n - 1], r[n])
      /\ \A n \in 0 .. b : Len(o[n]) <= SIZE_CLIENTS
  BY <1>2, <1>4 DEF Route
<1> DEFINE f == [n \in 0 .. a + b |-> IF n <= a THEN p[n] ELSE o[n - a]]
<1>9. \A n \in 0 .. a + b : /\ n <= a => n \in 0 .. a /\ f[n] = p[n]
                            /\ n > a => n - a \in 1 .. b /\ f[n] = o[n - a]
  OBVIOUS
<1>10. f \in [0 .. a + b -> Seq(Clients)]
  <2>1. ASSUME NEW n \in 0 .. a + b PROVE (IF n <= a THEN p[n] ELSE o[n - a]) \in Seq(Clients)
    <3>1. CASE n <= a
      <4>1. n \in 0 .. a
        BY <3>1
      <4> QED BY <1>7, <3>1, <4>1
    <3>2. CASE ~(n <= a)
      <4>1. n - a \in 0 .. b
        BY <3>2
      <4> QED BY <1>8, <3>2, <4>1
    <3> QED BY <3>1, <3>2
  <2> QED BY <2>1
<1> HIDE DEF f
<1>11. ASSUME NEW n \in 0 .. a + b PROVE Len(f[n]) <= SIZE_CLIENTS
  <2>1. CASE n <= a
    BY <1>7, <1>9, <2>1
  <2>2. CASE n > a
    <3>1. PICK g \in 0 .. b : g = n - a /\ f[n] = o[g]
      BY <1>9, <2>2
    <3> QED BY <1>8, <3>1
  <2> QED BY <2>1, <2>2
<1>12. ASSUME NEW n \in 1 .. a + b PROVE f[n] = After(f[n - 1], u[n])
  <2>1. n - 1 \in 0 .. a + b /\ n \in 0 .. a + b
    OBVIOUS
  <2>2. CASE n <= a
    <3>1. n \in 1 .. a /\ n - 1 <= a
      BY <2>2
    <3>2. f[n] = p[n] /\ f[n - 1] = p[n - 1] /\ u[n] = q[n]
      BY <1>6, <1>9, <2>1, <2>2, <3>1
    <3> QED BY <1>7, <3>1, <3>2
  <2>3. CASE n > a
    <3>1. PICK g \in 1 .. b : g = n - a
      BY <2>3
    <3>2. f[n] = o[g] /\ u[n] = r[g]
      BY <1>6, <1>9, <2>1, <2>3, <3>1
    <3>3. f[n - 1] = o[g - 1]
      <4>1. CASE n - 1 <= a
        <5>1. n - 1 = a /\ g = 1 /\ g - 1 = 0
          BY <2>3, <3>1, <4>1
        <5>2. f[n - 1] = p[a]
          BY <1>9, <2>1, <5>1
        <5> QED BY <1>7, <1>8, <5>1, <5>2
      <4>2. CASE n - 1 > a
        <5>1. f[n - 1] = o[(n - 1) - a] /\ (n - 1) - a = g - 1
          BY <1>9, <2>1, <3>1, <4>2
        <5> QED BY <5>1
      <4> QED BY <4>1, <4>2
    <3> QED BY <1>8, <3>1, <3>2, <3>3
  <2> QED BY <2>2, <2>3
<1>13. f[0] = l
  <2>1. PICK z \in 0 .. a + b : z = 0 /\ z <= a
    OBVIOUS
  <2>2. f[z] = p[z]
    BY <1>9, <2>1
  <2> QED BY <1>7, <2>1, <2>2
<1>14. f[a + b] = k
  <2>1. CASE b = 0
    <3>1. f[a + b] = p[a]
      BY <1>9, <2>1
    <3> QED BY <1>7, <1>8, <2>1, <3>1
  <2>2. CASE b # 0
    <3>1. PICK g \in 0 .. a + b : g = a + b /\ g > a /\ g - a = b
      BY <2>2
    <3>2. f[g] = o[g - a]
      BY <1>9, <3>1
    <3> QED BY <1>8, <3>1, <3>2
  <2> QED BY <2>1, <2>2
<1>15. Route(l, u, f)
  BY <1>6, <1>10, <1>11, <1>12, <1>13 DEF Route
<1>16. f[Len(u)] = k
  BY <1>6, <1>14
<1> QED BY <1>5, <1>15, <1>16 DEF Leads

\* The first message read, and what is left to read.
LEMMA LeadsTail ==
  ASSUME NEW X, NEW q \in Seq(X), q # <<>>, NEW l, NEW m, Leads(l, q, m)
  PROVE  Fits(After(l, Head(q))) /\ Leads(After(l, Head(q)), Tail(q), m)
<1>1. PICK p : Route(l, q, p) /\ p[Len(q)] = m
  BY DEF Leads
<1>2. PICK a \in Nat : a = Len(q) /\ a # 0
  BY LenProperties, EmptySeq
<1>3. PICK t \in Seq(X) : t = Tail(q)
  BY HeadTailProperties
<1>4. Len(t) = a - 1 /\ Head(q) = q[1] /\ \A i \in 1 .. a - 1 : t[i] = q[i + 1]
  BY <1>2, <1>3, HeadTailProperties
<1>5. /\ p \in [0 .. a -> Seq(Clients)] /\ p[0] = l /\ p[a] = m
      /\ \A n \in 1 .. a : p[n] = After(p[n - 1], q[n])
      /\ \A n \in 0 .. a : Len(p[n]) <= SIZE_CLIENTS
  BY <1>1, <1>2 DEF Route
<1>6. p[1] = After(l, Head(q)) /\ Fits(p[1])
  <2>1. PICK g \in 1 .. a : g = 1 /\ g - 1 = 0 /\ g \in 0 .. a
    BY <1>2
  <2>2. p[g] = After(p[g - 1], q[g]) /\ p[g] \in Seq(Clients) /\ Len(p[g]) <= SIZE_CLIENTS
    BY <1>5, <2>1
  <2> QED BY <1>4, <1>5, <2>1, <2>2 DEF Fits
<1> DEFINE f == [n \in 0 .. a - 1 |-> p[n + 1]]
<1>7. f \in [0 .. a - 1 -> Seq(Clients)] /\ \A n \in 0 .. a - 1 : f[n] = p[n + 1] /\ n + 1 \in 0 .. a
  BY <1>5
<1> HIDE DEF f
<1>8. ASSUME NEW n \in 1 .. a - 1 PROVE f[n] = After(f[n - 1], t[n])
  <2>1. PICK g \in 1 .. a : g = n + 1 /\ g - 1 = n
    OBVIOUS
  <2>2. f[n] = p[g] /\ t[n] = q[g]
    BY <1>4, <1>7, <2>1
  <2>3. f[n - 1] = p[(n - 1) + 1] /\ (n - 1) + 1 = g - 1
    BY <1>7, <2>1
  <2> QED BY <1>5, <2>1, <2>2, <2>3
<1>9. \A n \in 0 .. a - 1 : Len(f[n]) <= SIZE_CLIENTS
  BY <1>5, <1>7
<1>10. f[0] = p[1] /\ f[a - 1] = m
  <2>1. f[a - 1] = p[(a - 1) + 1] /\ (a - 1) + 1 = a
    BY <1>2, <1>7
  <2> QED BY <1>2, <1>5, <1>7, <2>1
<1>11. Route(p[1], t, f)
  BY <1>4, <1>7, <1>8, <1>9, <1>10 DEF Route
<1>12. f[Len(t)] = m
  BY <1>4, <1>10
<1> QED BY <1>3, <1>6, <1>11, <1>12 DEF Leads

--------------------------------------------------------------------------------
\* What each message does to a list that is read with it.
LEMMA AfterIs ==
  ASSUME NEW l, Fits(l), NEW c \in Clients, NEW line, line.from \in Clients
  PROVE  /\ After(l, Msg(c, "NEW_CLIENT", line)) = Append(l, line.from)
         /\ After(l, Msg(c, "CLIENT_LEAVE", line)) = Drop(l, line.from)
         /\ After(l, Msg(c, "MESSAGE_FROM_SERVER", line)) = l
         /\ After(l, Msg(c, "MESSAGE_FROM_CLIENT", line)) = l
BY DEF After, Msg

\* Messages that are all lines leave the list as it is.
LEMMA LeadsNowhere ==
  ASSUME NEW q \in Seq(Sent), NEW l, Fits(l), \A i \in 1 .. Len(q) : q[i].cat = "MESSAGE_FROM_CLIENT"
  PROVE  Leads(l, q, l)
<1> DEFINE p == [n \in 0 .. Len(q) |-> l]
<1>1. Len(q) \in Nat
  BY LenProperties
<1>2. p \in [0 .. Len(q) -> Seq(Clients)] /\ \A n \in 0 .. Len(q) : p[n] = l
  BY DEF Fits
<1> HIDE DEF p
<1>3. \A n \in 1 .. Len(q) : n - 1 \in 0 .. Len(q) /\ n \in 0 .. Len(q)
  BY <1>1
<1>4. \A n \in 1 .. Len(q) : p[n] = After(p[n - 1], q[n])
  BY <1>2, <1>3 DEF After
<1>5. 0 \in 0 .. Len(q) /\ Len(q) \in 0 .. Len(q)
  BY <1>1
<1>6. Route(l, q, p)
  BY <1>2, <1>4, <1>5 DEF Route, Fits
<1> QED BY <1>2, <1>5, <1>6 DEF Leads

\* A client with an empty list that is sent a list comes to have it.
LEMMA LeadsRoster ==
  ASSUME NEW l, Fits(l), Len(l) > 1, NEW x \in Clients
  PROVE  Leads(<<>>, SendRoster(l, x), l)
<1>1. PICK k \in Nat : k = Len(l)
  BY LenProperties DEF Fits
<1>2. \A i \in 1 .. k : l[i] \in Clients
  BY <1>1, ElementOfSeq DEF Fits
<1>3. PICK q \in Seq(For(x)) : q = SendRoster(l, x)
  BY SendRosterIs DEF Fits
<1>4. Len(q) = k /\ \A i \in 1 .. k : q[i] = Msg(x, "NEW_CLIENT", Line(l[i], NoText))
  BY <1>1, <1>3, SendRosterIs DEF Fits
<1> DEFINE p == [n \in 0 .. k |-> [i \in 1 .. n |-> l[i]]]
<1>5. ASSUME NEW n \in 0 .. k
      PROVE  p[n] \in Seq(Clients) /\ Len(p[n]) = n /\ \A i \in 1 .. n : p[n][i] = l[i]
  <2>1. [i \in 1 .. n |-> l[i]] \in [1 .. n -> Clients] /\ n \in Nat
    BY <1>2
  <2>2. PICK f \in [1 .. n -> Clients] : f = [i \in 1 .. n |-> l[i]]
    BY <2>1
  <2>3. f \in Seq(Clients) /\ Len(f) = n
    BY <2>1, FunctionIsSeq
  <2> QED BY <2>2, <2>3
<1>6. p \in [0 .. k -> Seq(Clients)]
  <2>1. DOMAIN p = 0 .. k /\ p = [n \in 0 .. k |-> p[n]]
    OBVIOUS
  <2> HIDE DEF p
  <2> QED BY <1>5, <2>1
<1> HIDE DEF p
<1>7. p[0] = <<>>
  <2>1. PICK e \in Seq(Clients) : e = p[0] /\ Len(e) = 0
    BY <1>5
  <2> QED BY <2>1, EmptySeq
<1>8. p[k] = l
  <2>1. PICK e \in Seq(Clients) : e = p[k] /\ Len(e) = k /\ \A i \in 1 .. k : e[i] = l[i]
    <3>1. k \in 0 .. k
      BY <1>1
    <3> QED BY <1>5, <3>1
  <2>2. l \in Seq(Clients)
    BY DEF Fits
  <2> QED BY <1>1, <2>1, <2>2, SeqEqual
<1>9. ASSUME NEW n \in 1 .. k PROVE p[n] = After(p[n - 1], q[n])
  <2>1. n \in 0 .. k /\ n - 1 \in 0 .. k
    OBVIOUS
  <2>2. PICK d \in Seq(Clients) : d = p[n - 1] /\ Len(d) = n - 1 /\ \A i \in 1 .. n - 1 : d[i] = l[i]
    BY <1>5, <2>1
  <2>3. PICK e \in Seq(Clients) : e = p[n] /\ Len(e) = n /\ \A i \in 1 .. n : e[i] = l[i]
    BY <1>5, <2>1
  <2>4. PICK y \in Clients : y = l[n]
    BY <1>2
  <2>5. q[n] = Msg(x, "NEW_CLIENT", Line(y, NoText))
    BY <1>4, <2>4
  <2>6. After(d, q[n]) = Append(d, y)
    BY <2>5 DEF After, Msg, Line
  <2>7. PICK a \in Seq(Clients) : a = Append(d, y)
    BY AppendProperties
  <2>8. Len(a) = n /\ \A i \in 1 .. n : a[i] = IF i = n THEN y ELSE d[i]
    <3>1. Len(a) = Len(d) + 1 /\ \A i \in 1 .. Len(d) + 1 : a[i] = IF i = Len(d) + 1 THEN y ELSE d[i]
      BY <2>7, AppendProperties
    <3>2. Len(d) + 1 = n
      BY <2>2
    <3> QED BY <3>1, <3>2
  <2>9. a = e
    <3>1. ASSUME NEW i \in 1 .. n PROVE a[i] = e[i]
      <4>1. CASE i = n
        BY <2>3, <2>4, <2>8, <4>1
      <4>2. CASE i # n
        <5>1. i \in 1 .. n - 1
          BY <4>2
        <5> QED BY <2>2, <2>3, <2>8, <4>2, <5>1
      <4> QED BY <4>1, <4>2
    <3>2. Len(a) = Len(e) /\ \A i \in 1 .. Len(a) : a[i] = e[i]
      BY <2>3, <2>8, <3>1
    <3> QED BY <3>2, SeqEqual
  <2> QED BY <2>2, <2>3, <2>6, <2>7, <2>9
<1>10. \A n \in 0 .. k : Len(p[n]) <= SIZE_CLIENTS
  <2> TAKE n \in 0 .. k
  <2>1. Len(p[n]) = n /\ n <= k /\ k <= SIZE_CLIENTS /\ SIZE_CLIENTS \in Nat
    BY <1>1, <1>5, SizeAssumption DEF Fits
  <2> QED BY <2>1
<1>11. Route(<<>>, q, p)
  BY <1>4, <1>6, <1>7, <1>9, <1>10 DEF Route
<1> QED BY <1>3, <1>4, <1>8, <1>11 DEF Leads

--------------------------------------------------------------------------------
\* As long as nobody was turned away, every listed client comes to have the
\* server's list, and on the way to it no list too long.
Rosters ==
  (\A c \in Clients : ~TurnedAway(c)) => \A c \in Listed : Leads(roster[c], OnTheWay(c), infCl)

\* What has been turned away stays so.
LEMMA TurnedAwayIs ==
  ASSUME TypeOK, NEW c \in Clients
  PROVE  TurnedAway(c) <=> state[c] \in {"in", "dead"} /\ c \notin Listed /\ ~Asked(c)
<1>1. DOMAIN up = 1 .. Len(up)
  BY LenProperties DEF TypeOK
<1> QED BY <1>1 DEF TurnedAway, Asked

\* A client that was turned away stays so, whatever happens.
LEMMA AwayForGood ==
  ASSUME IInv, IInv', [Next]_vars, NEW c \in Clients, TurnedAway(c)
  PROVE  TurnedAway(c)'
<1>1. /\ TypeOK /\ TypeOK' /\ up \in Seq(Requests) /\ AskOnce
      /\ infCl \in Seq(Clients) /\ infCl' \in Seq(Clients) /\ DOMAIN state = Clients
  BY DEF IInv, TypeOK, Newcomers
<1>2. state[c] \in {"in", "dead"} /\ c \notin Listed /\ ~Asked(c)
  BY <1>1, TurnedAwayIs
<1>3. DOMAIN up' = 1 .. Len(up')
  BY <1>1, LenProperties DEF TypeOK
<1>4. (TurnedAway(c))' <=> state'[c] \in {"in", "dead"} /\ c \notin Listed' /\ ~Asked(c)'
  BY <1>3 DEF TurnedAway, Asked
<1>5. CASE ServeNew
  <2>1. PICK x : x = Head(up).line.from
    BY SMTT(30)
  <2>2. /\ Asked(x) /\ x \in Clients /\ up # <<>> /\ up' = Tail(up) /\ state' = state
        /\ \A d \in Clients : In(d, infCl') <=> In(d, infCl) \/ (d = x /\ Len(infCl) < SIZE_CLIENTS)
    BY <1>5, <2>1, NewcomerBurst DEF ServeNew, client
  <2>3. ~Asked(c)'
    BY <1>1, <1>2, <2>2, AskedTail
  <2>4. c \notin Listed'
    BY <1>1, <1>2, <2>2, ListedIs
  <2> QED BY <1>2, <1>4, <2>2, <2>3, <2>4
<1>6. CASE ServeMessage
  <2>1. up # <<>> /\ up' = Tail(up) /\ state' = state /\ infCl' = infCl
    BY <1>6, MessageBurst DEF ServeMessage, client
  <2>2. ~Asked(c)'
    BY <1>1, <1>2, <2>1, AskedTail
  <2> QED BY <1>2, <1>4, <2>1, <2>2 DEF Listed
<1>7. CASE ServeLeave
  <2>1. /\ up # <<>> /\ up' = Tail(up) /\ state' = state
        /\ \A d \in Clients : In(d, infCl') => In(d, infCl)
    BY <1>7, LeaveBurst DEF ServeLeave, client
  <2>2. ~Asked(c)'
    BY <1>1, <1>2, <2>1, AskedTail
  <2>3. c \notin Listed'
    BY <1>1, <1>2, <2>1, ListedIs
  <2> QED BY <1>2, <1>4, <2>1, <2>2, <2>3
<1>8. ASSUME UNCHANGED <<up, infCl>>, state'[c] = state[c] \/ state'[c] = "dead"
      PROVE  TurnedAway(c)'
  BY <1>2, <1>4, <1>8 DEF Asked, Listed
<1>9. CASE ServerSend
  BY <1>8, <1>9 DEF ServerSend, client
<1>10. ASSUME NEW d \in Clients, ReadStep(d) PROVE TurnedAway(c)'
  <2>1. UNCHANGED <<up, infCl>> /\ (state' = state \/ state' = [state EXCEPT ![d] = "dead"])
    BY <1>10 DEF ReadStep, ReadNew, ReadNewOverrun, ReadLine, ReadServerLine, ReadLeave, server, client
  <2>2. state'[c] = state[c] \/ state'[c] = "dead"
    BY <1>1, <2>1
  <2> QED BY <1>8, <2>1, <2>2
<1>11. ASSUME NEW d \in Clients, Cancel(d) \/ Die(d) PROVE TurnedAway(c)'
  <2>1. UNCHANGED <<up, infCl>>
    BY <1>11 DEF Cancel, Die, server
  <2>2. \/ state' = [state EXCEPT ![d] = "dead"]
        \/ state' = [state EXCEPT ![d] = "left"] /\ state[d] = "leaving"
    BY <1>11 DEF Cancel, Die
  <2>3. state'[c] = state[c] \/ state'[c] = "dead"
    BY <1>1, <1>2, <2>2
  <2> QED BY <1>8, <2>1, <2>3
<1>12. ASSUME NEW d \in Clients, NEW r, r \in Requests, up' = Append(up, r), infCl' = infCl,
              r = Request("NEW_CLIENT", d, NoText) \/ r.kind # "NEW_CLIENT",
              ~Asked(d) \/ r.kind # "NEW_CLIENT",
              c # d \/ r.kind # "NEW_CLIENT", state'[c] = state[c]
       PROVE  TurnedAway(c)'
  <2>1. ~Asked(c)'
    <3>1. r.kind = "NEW_CLIENT" => \A i \in 1 .. Len(up) : up[i] # r
      BY <1>12 DEF Asked
    <3>2. r # Request("NEW_CLIENT", c, NoText)
      <4>1. Request("NEW_CLIENT", c, NoText).kind = "NEW_CLIENT"
        BY RequestsAre
      <4>2. Request("NEW_CLIENT", c, NoText) = Request("NEW_CLIENT", d, NoText) => c = d
        BY RequestsAre
      <4> QED BY <1>12, <4>1, <4>2
    <3> QED BY <1>1, <1>2, <1>12, <3>1, <3>2, AskedAppend
  <2> QED BY <1>2, <1>4, <1>12, <2>1 DEF Listed
<1>13. ASSUME NEW d \in Clients, Join(d) PROVE TurnedAway(c)'
  <2>1. /\ state[d] = "off" /\ state' = [state EXCEPT ![d] = "in"] /\ infCl' = infCl
        /\ up' = Append(up, Request("NEW_CLIENT", d, NoText))
    BY <1>13 DEF Join, server
  <2>2. c # d /\ state'[c] = state[c] /\ ~Asked(d)
    BY <1>1, <1>2, <2>1 DEF IInv, Newcomers
  <2> QED BY <1>12, <2>1, <2>2, RequestsAre
<1>14. ASSUME NEW d \in Clients, Say(d) PROVE TurnedAway(c)'
  <2>1. /\ typed' \in 1 .. MaxLines /\ state' = state /\ infCl' = infCl
        /\ up' = Append(up, Request("MESSAGE_FROM_CLIENT", d, typed'))
    BY <1>1, <1>14, SizeAssumption DEF Say, server, client, TypeOK
  <2>2. Request("MESSAGE_FROM_CLIENT", d, typed').kind = "MESSAGE_FROM_CLIENT"
    BY DEF Request
  <2>3. Request("MESSAGE_FROM_CLIENT", d, typed') \in Requests
    BY <2>1, RequestsAre
  <2> QED BY <1>12, <2>1, <2>2, <2>3
<1>15. ASSUME NEW d \in Clients, Leave(d) PROVE TurnedAway(c)'
  <2>1. /\ d \in Listed /\ state' = [state EXCEPT ![d] = "leaving"] /\ infCl' = infCl
        /\ up' = Append(up, Request("CLIENT_LEAVE", d, NoText))
    BY <1>15 DEF Leave, server
  <2>2. state'[c] = state[c]
    BY <1>1, <1>2, <2>1
  <2>3. Request("CLIENT_LEAVE", d, NoText).kind # "NEW_CLIENT"
    BY DEF Request
  <2> QED BY <1>12, <2>1, <2>2, <2>3, RequestsAre
<1>16. CASE UNCHANGED vars
  BY <1>8, <1>16 DEF vars, server, client
<1> QED BY <1>5, <1>6, <1>7, <1>9, <1>10, <1>11, <1>13, <1>14, <1>15, <1>16 DEF Next, ServerStep

--------------------------------------------------------------------------------
\* Nobody is listed at first.
LEMMA InitRosters == Init => Rosters
<1>1. ToSet(<<>>) = {}
  BY DEF ToSet
<1> QED BY <1>1 DEF Init, Rosters, Listed

\* The list of a listed client and what is on its way to it are untouched.
LEMMA RostersKept ==
  ASSUME Rosters, IInv, IInv', [Next]_vars, infCl' = infCl,
         \A c \in Clients : c \in Listed /\ Leads(roster[c], OnTheWay(c), infCl)
           => Leads(roster'[c], OnTheWay(c)', infCl)
  PROVE  Rosters'
<1> SUFFICES ASSUME (\A c \in Clients : ~TurnedAway(c))', NEW c \in Listed'
             PROVE  Leads(roster[c], OnTheWay(c), infCl)'
  BY DEF Rosters
<1>1. \A d \in Clients : ~TurnedAway(d)
  BY AwayForGood
<1>2. c \in Listed /\ c \in Clients
  BY ListedClients DEF Listed, IInv
<1>3. Leads(roster'[c], OnTheWay(c)', infCl)
  BY <1>1, <1>2 DEF Rosters
<1> QED BY <1>3

\* A step of no server and no reading thread leaves lists and messages alone.
LEMMA WritingRosters ==
  ASSUME Rosters, IInv, IInv', [Next]_vars, UNCHANGED <<down, out, infCl, roster>>
  PROVE  Rosters'
<1>1. \A c \in Clients : OnTheWay(c)' = OnTheWay(c)
  BY WayKept
<1> QED BY <1>1, RostersKept

\* Sending changes nothing that is on the way.
LEMMA SendRosters ==
  ASSUME Rosters, IInv, IInv', [Next]_vars, ServerSend
  PROVE  Rosters'
<1>1. \A c \in Clients : OnTheWay(c)' = OnTheWay(c)
  BY SendWay DEF IInv
<1>2. infCl' = infCl /\ roster' = roster
  BY DEF ServerSend, client
<1> QED BY <1>1, <1>2, RostersKept

\* What a client reads changes its list as the message says; no list is too
\* long, so a listed client does not overrun its array.
LEMMA ReadRosters ==
  ASSUME Rosters, IInv, IInv', [Next]_vars, NEW c \in Clients, ReadStep(c)
  PROVE  Rosters'
<1>1. PICK cats : Received(c, cats) /\ UNCHANGED <<up, infCl, store, out>>
  BY DEF ReadStep, ReadNew, ReadNewOverrun, ReadLine, ReadServerLine, ReadLeave, server, client
<1>2. TypeOK /\ roster \in [Clients -> Seq(Clients)] /\ state \in [Clients -> {"off", "in", "leaving", "left", "dead"}]
  BY DEF IInv, TypeOK
<1>3. /\ OnTheWay(c) # <<>> /\ OnTheWay(c)' = Tail(OnTheWay(c)) /\ Head(OnTheWay(c)) = Head(down[c])
      /\ \A d \in Clients : d # c => OnTheWay(d)' = OnTheWay(d)
  BY <1>1, <1>2, ReadWay
<1>4. PICK q \in Seq(Sent) : q = OnTheWay(c)
  BY <1>2, WayType
<1>5. /\ roster'[c] = After(roster[c], Head(q)) \/ ReadNewOverrun(c)
      /\ \A d \in Clients : d # c => roster'[d] = roster[d]
  <2>1. CASE ReadNew(c)
    <3>1. Head(q).cat = "NEW_CLIENT"
      BY <1>3, <1>4, <2>1 DEF ReadNew, Received
    <3>2. After(roster[c], Head(q)) = Append(roster[c], Head(down[c]).line.from)
      BY <1>3, <1>4, <3>1 DEF After
    <3> QED BY <1>2, <2>1, <3>2 DEF ReadNew
  <2>2. CASE ReadLeave(c)
    <3>1. Head(q).cat = "CLIENT_LEAVE"
      BY <1>3, <1>4, <2>2 DEF ReadLeave, Received
    <3>2. After(roster[c], Head(q)) = Drop(roster[c], Head(down[c]).line.from)
      BY <1>3, <1>4, <3>1 DEF After
    <3> QED BY <1>2, <2>2, <3>2 DEF ReadLeave
  <2>3. CASE ReadLine(c) \/ ReadServerLine(c)
    <3>1. Head(q).cat \in {"MESSAGE_FROM_CLIENT", "MESSAGE_FROM_SERVER"} /\ roster' = roster
      BY <1>3, <1>4, <2>3 DEF ReadLine, ReadServerLine, Received, client
    <3>2. After(roster[c], Head(q)) = roster[c]
      BY <3>1 DEF After
    <3> QED BY <3>1, <3>2
  <2>4. CASE ReadNewOverrun(c)
    BY <2>4 DEF ReadNewOverrun
  <2> QED BY <2>1, <2>2, <2>3, <2>4 DEF ReadStep
<1>6. ASSUME Leads(roster[c], OnTheWay(c), infCl) PROVE Leads(roster'[c], OnTheWay(c)', infCl)
  <2>1. Fits(After(roster[c], Head(q))) /\ Leads(After(roster[c], Head(q)), Tail(q), infCl)
    BY <1>3, <1>4, <1>6, LeadsTail
  <2>2. ~ReadNewOverrun(c)
    <3> SUFFICES ASSUME ReadNewOverrun(c) PROVE FALSE
      OBVIOUS
    <3>1. Head(q).cat = "NEW_CLIENT" /\ Len(roster[c]) >= SIZE_CLIENTS
      BY <1>3, <1>4 DEF ReadNewOverrun, Received
    <3>2. PICK x \in Clients : x = Head(q).line.from
      BY <1>1, <1>2, <1>3, <1>4, ReceivedType
    <3>3. PICK l \in Seq(Clients) : l = roster[c]
      BY <1>2
    <3>4. After(roster[c], Head(q)) = Append(l, x)
      BY <3>1, <3>2, <3>3 DEF After
    <3>5. Len(Append(l, x)) = Len(l) + 1 /\ Len(l) \in Nat /\ SIZE_CLIENTS \in Nat
      BY AppendProperties, LenProperties, SizeAssumption
    <3> QED BY <2>1, <3>1, <3>3, <3>4, <3>5 DEF Fits
  <2> QED BY <1>3, <1>4, <1>5, <2>1, <2>2
<1>7. \A d \in Clients : Leads(roster[d], OnTheWay(d), infCl) => Leads(roster'[d], OnTheWay(d)', infCl)
  BY <1>3, <1>5, <1>6
<1> QED BY <1>1, <1>7, RostersKept

\* A line served changes no list.
LEMMA MessageRosters ==
  ASSUME Rosters, IInv, IInv', [Next]_vars, ServeMessage
  PROVE  Rosters'
<1>1. /\ out = <<>> /\ down' = down /\ out' \in Seq(Sent) /\ infCl' = infCl /\ Head(up).line \in Lines
      /\ \A c \in Clients : Keep(out', For(c)) =
              IF In(c, infCl) THEN <<Msg(c, "MESSAGE_FROM_CLIENT", Head(up).line)>> ELSE <<>>
  BY MessageBurst
<1>2. TypeOK /\ infCl \in Seq(Clients) /\ Len(infCl) <= SIZE_CLIENTS /\ shown' = shown /\ roster' = roster
  BY DEF IInv, TypeOK, ServeMessage, client
<1>3. ASSUME NEW c \in Clients, c \in Listed, Leads(roster[c], OnTheWay(c), infCl)
      PROVE  Leads(roster'[c], OnTheWay(c)', infCl)
  <2>1. PICK line \in Lines : line = Head(up).line
    BY <1>1
  <2>2. line.from \in Clients
    BY DEF Lines
  <2>3. PICK m \in Sent : m = Msg(c, "MESSAGE_FROM_CLIENT", line)
    BY SendableIs DEF Sendable
  <2>4. PICK r \in Seq(Sent) : r = <<m>>
    BY LinesOne
  <2>5. OnTheWay(c)' = OnTheWay(c) \o r
    <3>1. In(c, infCl)
      BY <1>2, <1>3, ListedIs
    <3> QED BY <1>1, <1>2, <2>1, <2>3, <2>4, <3>1, Answered
  <2>6. Leads(infCl, r, infCl)
    <3>1. Fits(infCl) /\ After(infCl, m) = infCl
      BY <1>2, <2>2, <2>3, AfterIs DEF Fits
    <3>2. Leads(infCl, <<m>>, After(infCl, m))
      BY <3>1, LeadsOne
    <3> QED BY <2>4, <3>1, <3>2
  <2>7. PICK q \in Seq(Sent) : q = OnTheWay(c)
    BY <1>2, WayType
  <2>8. Leads(roster[c], q \o r, infCl)
    BY <1>3, <2>6, <2>7, LeadsOn
  <2> QED BY <1>2, <2>5, <2>7, <2>8
<1> QED BY <1>1, <1>3, RostersKept

\* A leave served takes the client from the server's list and, once read, from the others'.
LEMMA LeaveRosters ==
  ASSUME Rosters, IInv, IInv', [Next]_vars, ServeLeave
  PROVE  Rosters'
<1>1. PICK line : line = Head(up).line
  OBVIOUS
<1>2. /\ out = <<>> /\ down' = down /\ out' \in Seq(Sent) /\ line \in News /\ line.from \in Clients
      /\ infCl' = Drop(infCl, line.from) /\ infCl' \in Seq(Clients)
      /\ \A c \in Clients : In(c, infCl') => In(c, infCl)
      /\ \A c \in Clients : Keep(out', For(c)) =
              IF In(c, infCl') THEN <<Msg(c, "MESSAGE_FROM_SERVER", line)>> \o <<Msg(c, "CLIENT_LEAVE", line)>>
              ELSE <<>>
  BY <1>1, LeaveBurst
<1>3. /\ TypeOK /\ infCl \in Seq(Clients) /\ Fits(infCl) /\ Fits(infCl')
      /\ shown' = shown /\ roster' = roster
  BY DEF IInv, TypeOK, ServeLeave, client, Fits
<1> SUFFICES ASSUME (\A c \in Clients : ~TurnedAway(c))', NEW c \in Listed'
             PROVE  Leads(roster[c], OnTheWay(c), infCl)'
  BY DEF Rosters
<1>4. \A d \in Clients : ~TurnedAway(d)
  BY AwayForGood
<1>5. c \in Clients
  <2>1. Listed' \subseteq Clients
    <3>1. DOMAIN infCl' = 1 .. Len(infCl') /\ \A i \in 1 .. Len(infCl') : infCl'[i] \in Clients
      BY <1>2, LenProperties, ElementOfSeq
    <3> QED BY <3>1 DEF Listed, ToSet
  <2> QED BY <2>1
<1>6. In(c, infCl') /\ c \in Listed
  BY <1>2, <1>3, <1>5, ListedIs
<1>7. Leads(roster[c], OnTheWay(c), infCl)
  BY <1>4, <1>6 DEF Rosters
<1>8. PICK m \in Sent : m = Msg(c, "MESSAGE_FROM_SERVER", line)
  BY <1>2, <1>5, SendableIs DEF Sendable
<1>9. PICK n \in Sent : n = Msg(c, "CLIENT_LEAVE", line)
  BY <1>2, <1>5, SendableIs DEF Sendable
<1>10. PICK r \in Seq(Sent) : r = <<m>>
  BY LinesOne
<1>11. PICK s \in Seq(Sent) : s = <<n>>
  BY LinesOne
<1>12. PICK t \in Seq(Sent) : t = r \o s
  BY ConcatProperties
<1>13. Leads(infCl, t, infCl')
  <2>1. After(infCl, m) = infCl /\ After(infCl, n) = infCl'
    BY <1>2, <1>3, <1>5, <1>8, <1>9, AfterIs
  <2>2. Leads(infCl, <<m>>, After(infCl, m))
    BY <1>3, <2>1, LeadsOne
  <2>3. Leads(infCl, <<n>>, After(infCl, n))
    BY <1>3, <2>1, LeadsOne
  <2>4. Leads(infCl, r, infCl) /\ Leads(infCl, s, infCl')
    BY <1>10, <1>11, <2>1, <2>2, <2>3
  <2> QED BY <1>12, <2>4, LeadsOn
<1>14. OnTheWay(c)' = OnTheWay(c) \o t
  BY <1>2, <1>3, <1>5, <1>6, <1>8, <1>9, <1>10, <1>11, <1>12, Answered
<1>15. PICK q \in Seq(Sent) : q = OnTheWay(c)
  BY <1>3, <1>5, WayType
<1>16. Leads(roster[c], q \o t, infCl')
  BY <1>7, <1>13, <1>15, LeadsOn
<1> QED BY <1>3, <1>14, <1>15, <1>16

--------------------------------------------------------------------------------
\* The newcomer comes to have the server's list from what it is sent.
LEMMA NewcomerList ==
  ASSUME NEW l, Fits(l), NEW x \in Clients, Fits(Append(l, x)), store \in Seq(Lines)
  PROVE  Leads(<<>>, NewBurst(Append(l, x), x, x), Append(l, x))
<1> DEFINE k == Append(l, x)
<1>1. /\ k \in Seq(Clients) /\ Len(k) = Len(l) + 1 /\ Len(l) \in Nat
      /\ \A i \in 1 .. Len(l) + 1 : k[i] = IF i = Len(l) + 1 THEN x ELSE l[i]
  BY AppendProperties, LenProperties DEF Fits
<1>2. In(x, k)
  <2>1. Len(l) + 1 \in 1 .. Len(k)
    BY <1>1
  <2> QED BY <1>1, <2>1 DEF In
<1>3. PICK r \in Seq(Sent) : r = Replay(x)
  BY ReplayIs, OnlyFor
<1>4. Leads(k, r, k)
  <2>1. Fits(k)
    OBVIOUS
  <2>2. \A i \in 1 .. Len(r) : r[i] = Msg(x, "MESSAGE_FROM_CLIENT", store[i])
    BY <1>3, ReplayIs
  <2>3. \A to, cat, line : Msg(to, cat, line).cat = cat
    BY DEF Msg
  <2>4. \A i \in 1 .. Len(r) : r[i].cat = "MESSAGE_FROM_CLIENT"
    BY <2>2, <2>3
  <2> HIDE DEF k
  <2> QED BY <2>1, <2>4, LeadsNowhere
<1>5. Sendable("NEW_CLIENT", Line(x, NoText)) /\ Line(x, NoText).from = x
  BY NewsIs DEF Sendable
<1>6. PICK m \in Sent : m = Msg(x, "NEW_CLIENT", Line(x, NoText))
  BY <1>5, SendableIs
<1>7. <<>> \in Seq(Sent) /\ \A q \in Seq(Sent) : <<>> \o q = q
  BY EmptySeq, ConcatEmptySeq
<1> HIDE DEF k
<1>8. CASE Len(k) > 1
  <2>1. PICK s \in Seq(Sent) : s = SendRoster(k, x)
    BY <1>1, SendRosterIs, OnlyFor
  <2>2. Leads(<<>>, s, k)
    BY <1>8, <2>1, LeadsRoster DEF k
  <2>3. Leads(<<>>, s \o r, k) /\ s \o r \in Seq(Sent)
    BY <1>4, <2>2, LeadsOn, ConcatProperties
  <2>4. NewBurst(k, x, x) = <<>> \o (s \o r)
    BY <1>3, <1>8, <2>1 DEF NewBurst
  <2> QED BY <1>7, <2>3, <2>4 DEF k
<1>9. CASE ~(Len(k) > 1)
  <2>1. l = <<>>
    <3>1. Len(l) = 0 /\ l \in Seq(Clients)
      BY <1>1, <1>9 DEF Fits
    <3> QED BY <3>1, EmptySeq
  <2>2. SendRoster(k, x) = <<>>
    BY <1>9 DEF SendRoster
  <2>3. PICK a \in Seq(Sent) : a = <<m>>
    BY LinesOne
  <2>4. NewBurst(k, x, x) = a \o (<<>> \o r)
    BY <1>2, <1>3, <1>6, <1>9, <2>2, <2>3 DEF NewBurst
  <2>5. NewBurst(k, x, x) = a \o r
    BY <1>7, <2>4
  <2>6. Leads(<<>>, a, k)
    <3>1. After(l, m) = Append(l, x)
      BY <1>5, <1>6, AfterIs
    <3>2. After(<<>>, m) = k /\ Fits(k) /\ Fits(<<>>)
      BY <2>1, <3>1 DEF k
    <3>3. Leads(<<>>, <<m>>, After(<<>>, m))
      BY <3>2, LeadsOne
    <3> QED BY <2>3, <3>2, <3>3
  <2>7. Leads(<<>>, a \o r, k)
    BY <1>4, <2>6, LeadsOn
  <2> QED BY <2>5, <2>7 DEF k
<1> QED BY <1>8, <1>9

\* A newcomer that is listed is told the list, and the others are told of it.
LEMMA NewRosters ==
  ASSUME Rosters, IInv, IInv', [Next]_vars, ServeNew
  PROVE  Rosters'
<1>1. PICK x : x = Head(up).line.from
  OBVIOUS
<1>2. /\ out = <<>> /\ down' = down /\ out' \in Seq(Sent) /\ store' = store
      /\ x \in Clients /\ Fresh(x) /\ state[x] \in {"in", "dead"}
      /\ up # <<>> /\ up' = Tail(up) /\ Head(up).kind = "NEW_CLIENT"
      /\ infCl' = IF Len(infCl) >= SIZE_CLIENTS THEN infCl ELSE Append(infCl, x)
      /\ infCl' \in Seq(Clients) /\ Len(infCl') <= SIZE_CLIENTS
      /\ \A c \in Clients : In(c, infCl') <=> In(c, infCl) \/ (c = x /\ Len(infCl) < SIZE_CLIENTS)
      /\ \A c \in Clients : Keep(out', For(c)) = NewBurst(infCl', x, c)
  BY <1>1, NewcomerBurst, SMTT(30)
<1>3. /\ TypeOK /\ TypeOK' /\ infCl \in Seq(Clients) /\ Len(infCl) \in Nat /\ SIZE_CLIENTS \in Nat
      /\ Fits(infCl) /\ Fits(infCl') /\ store \in Seq(Lines) /\ up \in Seq(Requests) /\ AskOnce
      /\ shown' = shown /\ roster' = roster /\ state' = state
  BY <1>2, LenProperties, SizeAssumption DEF IInv, TypeOK, ServeNew, client, Fits, Newcomers
<1>4. Head(up) = Request("NEW_CLIENT", x, NoText)
  <2>1. Head(up) \in Requests
    BY <1>2, <1>3, HeadTailProperties
  <2> QED BY <1>1, <1>2, <2>1 DEF Request, Requests, News, Line
<1>5. CASE Len(infCl) >= SIZE_CLIENTS
  <2>1. x \notin Listed' /\ ~Asked(x)'
    BY <1>2, <1>3, <1>4, <1>5, AskedTail DEF Fresh, Listed
  <2>2. DOMAIN up' = 1 .. Len(up')
    BY <1>3, LenProperties DEF TypeOK
  <2>3. (TurnedAway(x))'
    BY <1>2, <1>3, <2>1, <2>2 DEF TurnedAway, Asked
  <2> QED BY <1>2, <2>3 DEF Rosters
<1>6. CASE Len(infCl) < SIZE_CLIENTS
  <2> SUFFICES ASSUME (\A c \in Clients : ~TurnedAway(c))', NEW c \in Listed'
               PROVE  Leads(roster[c], OnTheWay(c), infCl)'
    BY DEF Rosters
  <2>1. \A d \in Clients : ~TurnedAway(d)
    BY AwayForGood
  <2>2. c \in Clients
    <3>1. Listed' \subseteq Clients
      <4>1. DOMAIN infCl' = 1 .. Len(infCl') /\ \A i \in 1 .. Len(infCl') : infCl'[i] \in Clients
        BY <1>2, LenProperties, ElementOfSeq
      <4> QED BY <4>1 DEF Listed, ToSet
    <3> QED BY <3>1
  <2>3. In(c, infCl')
    BY <1>2, <1>3, <2>2, ListedIs
  <2>4. infCl' = Append(infCl, x)
    BY <1>2, <1>3, <1>6
  <2>5. PICK b \in Seq(Sent) : b = NewBurst(infCl', x, c)
    BY <1>2, <1>3, <2>2, NewBurstLines
  <2>6. OnTheWay(c)' = OnTheWay(c) \o b
    BY <1>2, <1>3, <2>2, <2>5, Answered
  <2>7. CASE c = x
    <3>1. roster[c] = <<>> /\ OnTheWay(c) = <<>>
      BY <1>2, <2>7 DEF Fresh
    <3>2. OnTheWay(c)' = b
      BY <2>6, <3>1, ConcatEmptySeq
    <3>3. Leads(<<>>, b, infCl')
      BY <1>2, <1>3, <2>4, <2>5, <2>7, NewcomerList
    <3> QED BY <1>3, <3>1, <3>2, <3>3
  <2>8. CASE c # x
    <3>1. c \in Listed
      BY <1>2, <1>3, <2>2, <2>3, <2>8, ListedIs
    <3>2. Leads(roster[c], OnTheWay(c), infCl)
      BY <2>1, <3>1 DEF Rosters
    <3>3. Sendable("NEW_CLIENT", Line(x, NoText)) /\ Line(x, NoText).from = x
      BY <1>2, NewsIs DEF Sendable
    <3>4. PICK m \in Sent : m = Msg(c, "NEW_CLIENT", Line(x, NoText))
      BY <2>2, <3>3, SendableIs
    <3>5. b = <<m>>
      <4>1. PICK a \in Seq(Sent) : a = <<m>>
        BY LinesOne
      <4>2. NewBurst(infCl', x, c) = a \o <<>>
        BY <2>3, <2>8, <3>4, <4>1 DEF NewBurst
      <4> QED BY <2>5, <4>1, <4>2, ConcatEmptySeq
    <3>6. Leads(infCl, b, infCl')
      <4>1. After(infCl, m) = infCl'
        BY <1>2, <1>3, <2>2, <2>4, <3>3, <3>4, AfterIs
      <4>2. Leads(infCl, <<m>>, After(infCl, m))
        BY <1>3, <4>1, LeadsOne
      <4> QED BY <3>5, <4>1, <4>2
    <3>7. PICK q \in Seq(Sent) : q = OnTheWay(c)
      BY <1>3, <2>2, WayType
    <3>8. Leads(roster[c], q \o b, infCl')
      BY <3>2, <3>6, <3>7, LeadsOn
    <3> QED BY <1>3, <2>6, <3>7, <3>8
  <2> QED BY <2>7, <2>8
<1> QED BY <1>3, <1>5, <1>6

\* Spec => []Rosters: a burst leads from the server's old list to its new one.
THEOREM RostersHold == Spec => []Rosters
<1>1. IInv /\ Rosters /\ [Next]_vars /\ IInv' => Rosters'
  <2> SUFFICES ASSUME IInv, Rosters, [Next]_vars, IInv' PROVE Rosters'
    OBVIOUS
  <2>1. CASE ServeNew
    BY <2>1, NewRosters
  <2>2. CASE ServeMessage
    BY <2>2, MessageRosters
  <2>3. CASE ServeLeave
    BY <2>3, LeaveRosters
  <2>4. CASE ServerSend
    BY <2>4, SendRosters
  <2>5. ASSUME NEW c \in Clients, ReadStep(c) PROVE Rosters'
    BY <2>5, ReadRosters
  <2>6. ASSUME NEW c \in Clients, Join(c) \/ Say(c) \/ Leave(c) \/ Cancel(c) \/ Die(c) PROVE Rosters'
    <3>1. UNCHANGED <<down, out, infCl, roster>>
      BY <2>6 DEF Join, Say, Leave, Cancel, Die, server, client
    <3> QED BY <3>1, WritingRosters
  <2>7. CASE UNCHANGED vars
    BY <2>7, WritingRosters DEF vars, server, client
  <2> QED BY <2>1, <2>2, <2>3, <2>4, <2>5, <2>6, <2>7 DEF Next, ServerStep
<1> QED BY InitRosters, <1>1, Inductive, PTL DEF Spec

\* For every value of the constants: as long as no client was turned away, the
\* list a listed client comes to from what is on its way to it is the server's
\* (server.c:112-131, 153-160; client.c:39-60).
THEOREM RosterAgreesCorrect == Spec => []RosterAgrees
<1>1. IInv /\ Rosters => RosterAgrees
  <2> SUFFICES ASSUME IInv, Rosters, \A c \in Clients : ~TurnedAway(c), NEW c \in Listed
               PROVE  LET q == OnTheWay(c) IN UpdatedBy(roster[c], q)[Len(q)] = infCl
    BY DEF RosterAgrees
  <2>1. c \in Clients
    BY ListedClients DEF IInv
  <2>2. PICK q \in Seq(Sent) : q = OnTheWay(c)
    BY <2>1, WayType DEF IInv
  <2>3. Leads(roster[c], q, infCl)
    BY <2>2 DEF Rosters
  <2>4. UpdatedBy(roster[c], q)[Len(q)] = infCl
    BY <2>3, LeadsIs, LenProperties
  <2> QED BY <2>2, <2>4
<1> QED BY <1>1, Inductive, RostersHold, PTL

--------------------------------------------------------------------------------
\* As long as no client was turned away, a listed client never writes an entry
\* past its array of SIZE_CLIENTS, though it does not look at its length
\* (client.c:39-43): the lists it goes through are all as short as the server's.
NoOverrun ==
  [][\A c \in Listed : ReadNewOverrun(c) => \E d \in Clients : TurnedAway(d)]_vars

\* The theorem holds for every number of clients and places and every order of
\* joins, leaves and reads.
THEOREM NoOverrunCorrect == Spec => NoOverrun
<1>1. ASSUME IInv, Rosters, NEW c \in Listed, ReadNewOverrun(c), \A d \in Clients : ~TurnedAway(d)
      PROVE  FALSE
  <2>1. TypeOK /\ c \in Clients /\ Len(roster[c]) \in Nat /\ SIZE_CLIENTS \in Nat
    <3>1. TypeOK /\ c \in Clients
      BY <1>1, ListedClients DEF IInv
    <3> QED BY <3>1, LenProperties, SizeAssumption DEF TypeOK
  <2>2. Leads(roster[c], OnTheWay(c), infCl)
    BY <1>1, <2>1 DEF Rosters
  <2>3. Received(c, {"NEW_CLIENT"}) /\ out' = out /\ Len(roster[c]) >= SIZE_CLIENTS
    BY <1>1 DEF ReadNewOverrun, server
  <2>4. /\ OnTheWay(c) # <<>> /\ Head(OnTheWay(c)) = Head(down[c]) /\ Head(down[c]).cat = "NEW_CLIENT"
        /\ Head(down[c]).line.from \in Clients
    BY <2>1, <2>3, ReadWay, ReceivedType
  <2>5. PICK q \in Seq(Sent) : q = OnTheWay(c)
    BY <2>1, WayType
  <2>6. Fits(After(roster[c], Head(q)))
    BY <2>2, <2>4, <2>5, LeadsTail
  <2>7. PICK x \in Clients : x = Head(q).line.from
    BY <2>4, <2>5
  <2>8. PICK l \in Seq(Clients) : l = roster[c]
    BY <2>1 DEF TypeOK
  <2>9. After(roster[c], Head(q)) = Append(l, x)
    BY <2>4, <2>5, <2>7, <2>8 DEF After
  <2>10. Len(Append(l, x)) = Len(l) + 1
    BY AppendProperties
  <2>11. Len(Append(l, x)) <= SIZE_CLIENTS
    BY <2>6, <2>9 DEF Fits
  <2> QED BY <2>1, <2>3, <2>8, <2>10, <2>11
<1>2. IInv /\ Rosters /\ [Next]_vars
        => [\A c \in Listed : ReadNewOverrun(c) => \E d \in Clients : TurnedAway(d)]_vars
  BY <1>1
<1> QED BY <1>2, Inductive, RostersHold, PTL DEF Spec, NoOverrun
================================================================================
