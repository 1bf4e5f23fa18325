------------------------------- MODULE TablesProofs ------------------------------
(***************************************************************************)
(* What the programs of Tables promise, for every number of clients,       *)
(* workers, descriptors, plugins, customers and shops.  Each gets an       *)
(* inductive invariant of its own; they share no variable, so a step of    *)
(* one leaves the others' invariants alone.                                *)
(***************************************************************************)
EXTENDS Tables, DataLemmas

--------------------------------------------------------------------------------
(* The echo server (RawEcho) *)

\* The members of a sequence without its first, and with one more.
LEMMA TailMembers ==
  ASSUME NEW S, NEW q \in Seq(S), q # <<>>
  PROVE  /\ Tail(q) \in Seq(S) /\ Head(q) = q[1] /\ 1 \in DOMAIN q /\ q[1] \in S
         /\ \A i \in DOMAIN Tail(q) : i \in Nat /\ i + 1 \in DOMAIN q /\ i + 1 > 1 /\ Tail(q)[i] = q[i + 1]
OBVIOUS

LEMMA AppendMembers ==
  ASSUME NEW S, NEW q \in Seq(S), NEW x \in S
  PROVE  /\ Append(q, x) \in Seq(S)
         /\ \A i \in DOMAIN Append(q, x) :
              \/ i \in DOMAIN q /\ Append(q, x)[i] = q[i]
              \/ /\ i = Len(q) + 1 /\ i \notin DOMAIN q /\ Append(q, x)[i] = x
                 /\ \A j \in DOMAIN q : j < i
         /\ \A i \in DOMAIN q : i \in DOMAIN Append(q, x) /\ Append(q, x)[i] = q[i]
         /\ Len(q) + 1 \in DOMAIN Append(q, x)
<1>1. Append(q, x) \in Seq(S) /\ Len(Append(q, x)) = Len(q) + 1 /\ Append(q, x)[Len(q) + 1] = x
      /\ \A i \in 1 .. Len(q) : Append(q, x)[i] = q[i]
  OBVIOUS
<1>2. Len(q) \in Nat /\ DOMAIN q = 1 .. Len(q) /\ DOMAIN Append(q, x) = 1 .. Len(q) + 1
  BY <1>1
<1>q. QED BY <1>1, <1>2

LEMMA LastAppended ==
  ASSUME NEW S, NEW q \in Seq(S), NEW x \in S
  PROVE  \A i \in DOMAIN Append(q, x) :
           \/ i \in DOMAIN q /\ Append(q, x)[i] = q[i]
           \/ /\ i \notin DOMAIN q /\ Append(q, x)[i] = x
              /\ \A j \in DOMAIN Append(q, x) : j = i \/ (j < i /\ j \in DOMAIN q)
<1>1. Append(q, x) \in Seq(S) /\ Len(Append(q, x)) = Len(q) + 1 /\ Append(q, x)[Len(q) + 1] = x
      /\ \A i \in 1 .. Len(q) : Append(q, x)[i] = q[i]
  OBVIOUS
<1>2. Len(q) \in Nat /\ DOMAIN q = 1 .. Len(q) /\ DOMAIN Append(q, x) = 1 .. Len(q) + 1
  BY <1>1
<1>3. TAKE i \in DOMAIN Append(q, x)
<1>4. CASE i \in 1 .. Len(q) BY <1>1, <1>2, <1>4
<1>5. CASE i = Len(q) + 1
  <2>1. i \notin DOMAIN q /\ Append(q, x)[i] = x BY <1>1, <1>2, <1>5
  <2>2. \A j \in 1 .. Len(q) + 1 : j = i \/ (j < i /\ j \in 1 .. Len(q))
    BY <1>2, <1>5
  <2>q. QED BY <1>2, <2>1, <2>2
<1>q. QED BY <1>2, <1>4, <1>5

\* The members behind the removed one move up.
Without(s, f) == SubSeq(s, 1, f - 1) \o SubSeq(s, f + 1, Len(s))

LEMMA RemoveMembers ==
  ASSUME NEW S, NEW s \in Seq(S), NEW f \in DOMAIN s
  PROVE  /\ Without(s, f) \in Seq(S) /\ DOMAIN Without(s, f) = 1 .. Len(s) - 1
         /\ \A i \in 1 .. Len(s) - 1 : Without(s, f)[i] = IF i < f THEN s[i] ELSE s[i + 1]
<1>1. PICK N \in Nat : N = Len(s) /\ DOMAIN s = 1 .. N BY LenProperties
<1>2. f \in 1 .. N /\ \A i \in 1 .. N : s[i] \in S BY <1>1, ElementOfSeq
<1> DEFINE l == SubSeq(s, 1, f - 1)
           r == SubSeq(s, f + 1, Len(s))
           u == Without(s, f)
<1>3. l \in Seq(S) /\ Len(l) = f - 1 /\ \A i \in 1 .. f - 1 : l[i] = s[i]
  <2>1. \A i \in 1 .. f - 1 : s[i] \in S BY <1>2
  <2>2. /\ l \in Seq(S) /\ Len(l) = IF 1 <= f - 1 THEN f - 1 - 1 + 1 ELSE 0
        /\ \A i \in 1 .. f - 1 - 1 + 1 : l[i] = s[1 + i - 1]
    BY <1>2, <2>1, SubSeqProperties
  <2> HIDE DEF l
  <2>3. f - 1 - 1 + 1 = f - 1 /\ \A i \in 1 .. f - 1 : 1 + i - 1 = i BY <1>2
  <2>4. Len(l) = f - 1 BY <2>2, <1>2
  <2>q. QED BY <2>2, <2>3, <2>4
<1>4. r \in Seq(S) /\ Len(r) = N - f /\ \A i \in 1 .. N - f : r[i] = s[f + i]
  <2>1. \A i \in f + 1 .. N : s[i] \in S BY <1>2
  <2>2. /\ r \in Seq(S) /\ Len(r) = IF f + 1 <= N THEN N - (f + 1) + 1 ELSE 0
        /\ \A i \in 1 .. N - (f + 1) + 1 : r[i] = s[f + 1 + i - 1]
    BY <1>1, <1>2, <2>1, SubSeqProperties
  <2> HIDE DEF r
  <2>3. N - (f + 1) + 1 = N - f /\ \A i \in 1 .. N - f : f + 1 + i - 1 = f + i BY <1>2
  <2>4. Len(r) = N - f BY <2>2, <1>2
  <2>q. QED BY <2>2, <2>3, <2>4
<1>5. u = l \o r BY DEF Without
<1> HIDE DEF l, r
<1>6. /\ u \in Seq(S) /\ Len(u) = Len(l) + Len(r)
      /\ \A i \in 1 .. Len(l) + Len(r) : u[i] = IF i <= Len(l) THEN l[i] ELSE r[i - Len(l)]
  BY <1>3, <1>4, <1>5, ConcatProperties, SMTT(30)
<1> HIDE DEF u
<1>7. Len(l) + Len(r) = N - 1 BY <1>2, <1>3, <1>4
<1>8. ASSUME NEW i \in 1 .. N - 1 PROVE u[i] = IF i < f THEN s[i] ELSE s[i + 1]
  <2>1. u[i] = IF i <= f - 1 THEN l[i] ELSE r[i - (f - 1)] BY <1>3, <1>6, <1>7
  <2>2. CASE i < f
    <3>1. i \in 1 .. f - 1 BY <1>2, <2>2
    <3>q. QED BY <1>3, <2>1, <2>2, <3>1
  <2>3. CASE ~(i < f)
    <3>1. i - (f - 1) \in 1 .. N - f /\ f + (i - (f - 1)) = i + 1 /\ ~(i <= f - 1)
      BY <1>2, <2>3
    <3>q. QED BY <1>4, <2>1, <2>3, <3>1
  <2>q. QED BY <2>2, <2>3
<1>9. DOMAIN u = 1 .. N - 1 BY <1>6, <1>7, LenProperties
<1>q. QED BY <1>1, <1>6, <1>8, <1>9 DEF u

Entry == [port : Echo!Ports, counter : Nat]

TableIs(t) ==
  /\ t \in Seq(Entry)
  /\ \A i, j \in DOMAIN t : t[i].port = t[j].port => i = j

\* The number an address is at in a table, 0 without an entry.
At(t, p) == {i \in DOMAIN t : t[i].port = p}
CountIn(t, p) == IF At(t, p) = {} THEN 0 ELSE t[Echo!FirstOf(At(t, p))].counter

TableOK == TableIs(table)
CountOf(p) == CountIn(table, p)

LEMMA EntryIn ==
  ASSUME NEW t, TableIs(t)
  PROVE  /\ \A i \in DOMAIN t :
              /\ At(t, t[i].port) = {i} /\ Echo!FirstOf(At(t, t[i].port)) = i
              /\ CountIn(t, t[i].port) = t[i].counter
         /\ \A p : (\A i \in DOMAIN t : t[i].port # p) => At(t, p) = {} /\ CountIn(t, p) = 0
         /\ \A p : At(t, p) # {} => Echo!FirstOf(At(t, p)) \in DOMAIN t /\ t[Echo!FirstOf(At(t, p))].port = p
         /\ \A p : CountIn(t, p) \in Nat
<1>1. ASSUME NEW i \in DOMAIN t
      PROVE  /\ At(t, t[i].port) = {i} /\ Echo!FirstOf(At(t, t[i].port)) = i
             /\ CountIn(t, t[i].port) = t[i].counter
  <2>1. At(t, t[i].port) = {i} BY <1>1 DEF TableIs, At
  <2>2. i <= i BY <1>1 DEF TableIs
  <2>3. Echo!FirstOf({i}) = i BY <2>2 DEF Echo!FirstOf
  <2>q. QED BY <2>1, <2>3 DEF CountIn
<1>2. ASSUME NEW p, \A i \in DOMAIN t : t[i].port # p
      PROVE  At(t, p) = {} /\ CountIn(t, p) = 0
  BY <1>2 DEF At, CountIn
<1>3. ASSUME NEW p, At(t, p) # {}
      PROVE  Echo!FirstOf(At(t, p)) \in DOMAIN t /\ t[Echo!FirstOf(At(t, p))].port = p
  <2>1. PICK i \in DOMAIN t : t[i].port = p BY <1>3 DEF At
  <2>q. QED BY <2>1, <1>1
<1>4. ASSUME NEW p PROVE CountIn(t, p) \in Nat
  <2>1. CASE At(t, p) = {} BY <2>1 DEF CountIn
  <2>2. CASE At(t, p) # {}
    <3>1. Echo!FirstOf(At(t, p)) \in DOMAIN t BY <2>2, <1>3
    <3>2. t[Echo!FirstOf(At(t, p))] \in Entry
      BY <3>1, LenProperties, ElementOfSeq DEF TableIs
    <3>q. QED BY <2>2, <3>2 DEF CountIn, Entry
  <2>q. QED BY <2>1, <2>2
<1>q. QED BY <1>1, <1>2, <1>3, <1>4

\* Of an entry the number is in it; two tables with the same entry for an address, or
\* none, have it at the same number.
LEMMA SameEntry ==
  ASSUME NEW t, NEW u, TableIs(t), TableIs(u), NEW p,
         \A i \in DOMAIN t : t[i].port = p => \E k \in DOMAIN u : u[k] = t[i],
         \A k \in DOMAIN u : u[k].port = p => \E i \in DOMAIN t : t[i].port = p
  PROVE  CountIn(u, p) = CountIn(t, p)
<1>1. CASE \A i \in DOMAIN t : t[i].port # p
  <2>1. \A k \in DOMAIN u : u[k].port # p BY <1>1
  <2>q. QED BY <1>1, <2>1, EntryIn
<1>2. CASE \E i \in DOMAIN t : t[i].port = p
  <2>1. PICK i \in DOMAIN t : t[i].port = p BY <1>2
  <2>2. PICK k \in DOMAIN u : u[k] = t[i] BY <2>1
  <2>3. CountIn(t, p) = t[i].counter BY <2>1, EntryIn
  <2>4. CountIn(u, p) = u[k].counter BY <2>1, <2>2, EntryIn
  <2>q. QED BY <2>2, <2>3, <2>4
<1>q. QED BY <1>1, <1>2

LEMMA HaveIs == \A p : Echo!Have(p) = At(table, p)
BY DEF Echo!Have, At

\* A datagram raises its own address's number by one.
LEMMA CountedRaises ==
  ASSUME TableOK, NEW q \in Echo!Ports, NEW u, u = Echo!Counted(q)
  PROVE  /\ TableIs(u)
         /\ CountIn(u, q) = CountOf(q) + 1
         /\ \A p \in Echo!Ports \ {q} : CountIn(u, p) = CountOf(p)
         /\ u[IF Echo!Have(q) = {} THEN Len(table) + 1 ELSE Echo!FirstOf(Echo!Have(q))].counter = CountOf(q) + 1
<1>1. CASE Echo!Have(q) = {}
  <2>1. Echo!Info(q, 1) \in Entry BY DEF Echo!Info, Entry
  <2>2. u = Append(table, Echo!Info(q, 1)) BY <1>1 DEF Echo!Counted
  <2>3. \A i \in DOMAIN table : table[i].port # q BY <1>1 DEF Echo!Have
  <2>4. /\ u \in Seq(Entry)
        /\ \A i \in DOMAIN u :
             \/ i \in DOMAIN table /\ u[i] = table[i]
             \/ i = Len(table) + 1 /\ i \notin DOMAIN table /\ u[i] = Echo!Info(q, 1)
        /\ \A i \in DOMAIN table : i \in DOMAIN u /\ u[i] = table[i]
        /\ Len(table) + 1 \in DOMAIN u
    BY <2>1, <2>2, AppendMembers DEF TableOK, TableIs
  <2>5. Echo!Info(q, 1).port = q /\ Echo!Info(q, 1).counter = 1 BY DEF Echo!Info
  <2>6. TableIs(u) BY <2>3, <2>4, <2>5 DEF TableOK, TableIs
  <2>7. u[Len(table) + 1] = Echo!Info(q, 1)
    <3>1. Len(table) + 1 \notin DOMAIN table BY DEF TableOK, TableIs
    <3>q. QED BY <2>4, <3>1
  <2>8. CountIn(u, q) = 1 BY <2>4, <2>5, <2>6, <2>7, EntryIn
  <2>9. CountOf(q) = 0 BY <1>1, HaveIs DEF CountOf, CountIn
  <2>10. \A p \in Echo!Ports \ {q} : CountIn(u, p) = CountOf(p)
    BY <2>4, <2>5, <2>6, SameEntry DEF CountOf, TableOK
  <2>q. QED BY <1>1, <2>5, <2>6, <2>7, <2>8, <2>9, <2>10
<1>2. CASE Echo!Have(q) # {}
  <2> DEFINE f == Echo!FirstOf(Echo!Have(q))
  <2>1. f \in DOMAIN table /\ table[f].port = q BY <1>2, EntryIn, HaveIs DEF TableOK
  <2>2. u = [table EXCEPT ![f].counter = @ + 1] BY <1>2 DEF Echo!Counted
  <2>c. table[f].counter = CountOf(q) BY <2>1, EntryIn DEF TableOK, CountOf
  <2> HIDE DEF f
  <2>t. /\ table \in Seq(Entry)
        /\ table[f] \in Entry
    BY <2>1, LenProperties, ElementOfSeq DEF TableOK, TableIs
  <2>v. u = [table EXCEPT ![f] = [port |-> q, counter |-> table[f].counter + 1]]
    BY <2>1, <2>2, <2>t DEF Entry
  <2>3. /\ u \in Seq(Entry) /\ DOMAIN u = DOMAIN table
        /\ u[f] = [port |-> q, counter |-> table[f].counter + 1]
        /\ \A i \in DOMAIN table : i # f => u[i] = table[i]
    <3>1. [port |-> q, counter |-> table[f].counter + 1] \in Entry BY <2>t DEF Entry
    <3>q. QED BY <2>1, <2>v, <2>t, <3>1, LenProperties
  <2>4. u[f].port = q /\ u[f].counter = table[f].counter + 1 BY <2>3
  <2>5. TableIs(u) 
    <3>1. \A i \in DOMAIN table : u[i].port = table[i].port BY <2>1, <2>3, <2>4
    <3>q. QED BY <2>3, <3>1 DEF TableOK, TableIs
  <2>6. CountIn(u, q) = CountOf(q) + 1 BY <2>1, <2>3, <2>4, <2>5, <2>c, EntryIn
  <2>7. \A p \in Echo!Ports \ {q} : CountIn(u, p) = CountOf(p)
    BY <2>1, <2>3, <2>4, <2>5, SameEntry DEF CountOf, TableOK
  <2>q. QED BY <1>2, <2>4, <2>5, <2>6, <2>7, <2>c DEF f
<1>q. QED BY <1>1, <1>2

\* A removed address is at 0 again, and the others where they were.
LEMMA RemovedClears ==
  ASSUME TableOK, NEW q \in Echo!Ports, NEW u,
         u = IF Echo!Have(q) = {} THEN table ELSE Echo!Removed(Echo!FirstOf(Echo!Have(q)))
  PROVE  /\ TableIs(u)
         /\ CountIn(u, q) = 0
         /\ \A p \in Echo!Ports \ {q} : CountIn(u, p) = CountOf(p)
<1>1. CASE Echo!Have(q) = {}
  <2>1. CountIn(table, q) = 0 BY <1>1, HaveIs DEF CountIn
  <2>q. QED BY <1>1, <2>1 DEF TableOK, CountOf
<1>2. CASE Echo!Have(q) # {}
  <2> DEFINE f == Echo!FirstOf(Echo!Have(q))
  <2>1. f \in DOMAIN table /\ table[f].port = q BY <1>2, EntryIn, HaveIs DEF TableOK
  <2>2. u = Without(table, f) BY <1>2 DEF Echo!Removed, Echo!RemoveAt, Without
  <2> HIDE DEF f
  <2>3. PICK N \in Nat : N = Len(table) /\ DOMAIN table = 1 .. N
    BY LenProperties DEF TableOK, TableIs
  <2>4. /\ u \in Seq(Entry) /\ DOMAIN u = 1 .. N - 1
        /\ \A i \in 1 .. N - 1 : u[i] = IF i < f THEN table[i] ELSE table[i + 1]
    BY <2>1, <2>2, <2>3, RemoveMembers DEF TableOK, TableIs
  <2>t. f \in 1 .. N /\ \A i, j \in 1 .. N : table[i].port = table[j].port => i = j
    BY <2>1, <2>3 DEF TableOK, TableIs
  <2> DEFINE old == [i \in 1 .. N - 1 |-> IF i < f THEN i ELSE i + 1]
  <2>m. \A i \in 1 .. N - 1 : /\ old[i] \in 1 .. N /\ old[i] # f /\ u[i] = table[old[i]]
                              /\ \A j \in 1 .. N - 1 : old[i] = old[j] => i = j
    <3>1. \A i \in 1 .. N - 1 : old[i] \in 1 .. N /\ old[i] # f BY <2>t
    <3>2. \A i \in 1 .. N - 1 : u[i] = table[old[i]] BY <2>4
    <3>3. \A i, j \in 1 .. N - 1 : old[i] = old[j] => i = j BY <2>t
    <3>q. QED BY <3>1, <3>2, <3>3
  <2>o. \A j \in 1 .. N : j # f => \E i \in 1 .. N - 1 : old[i] = j
    <3> TAKE j \in 1 .. N
    <3>1. CASE j < f
      <4>1. j \in 1 .. N - 1 BY <3>1, <2>t
      <4>q. QED BY <3>1, <4>1
    <3>2. CASE j > f
      <4>1. j - 1 \in 1 .. N - 1 /\ ~(j - 1 < f) /\ (j - 1) + 1 = j BY <3>2, <2>t
      <4>q. QED BY <4>1
    <3>q. QED BY <3>1, <3>2, <2>t
  <2> HIDE DEF old
  <2>5. TableIs(u)
    <3>1. ASSUME NEW i \in DOMAIN u, NEW j \in DOMAIN u, u[i].port = u[j].port
          PROVE  i = j
      <4>1. i \in 1 .. N - 1 /\ j \in 1 .. N - 1 BY <2>4
      <4>2. old[i] \in 1 .. N /\ old[j] \in 1 .. N /\ u[i] = table[old[i]] /\ u[j] = table[old[j]]
        BY <4>1, <2>m
      <4>3. old[i] = old[j] BY <4>2, <2>t, <3>1
      <4>q. QED BY <4>1, <4>3, <2>m
    <3>q. QED BY <2>4, <3>1 DEF TableIs
  <2>6. CountIn(u, q) = 0
    <3>1. ASSUME NEW i \in DOMAIN u PROVE u[i].port # q
      <4>1. i \in 1 .. N - 1 BY <2>4
      <4>2. old[i] \in 1 .. N /\ old[i] # f /\ u[i] = table[old[i]] BY <4>1, <2>m
      <4>q. QED BY <4>2, <2>1, <2>t
    <3>q. QED BY <2>5, <3>1, EntryIn
  <2>7. ASSUME NEW p \in Echo!Ports \ {q} PROVE CountIn(u, p) = CountOf(p)
    <3>1. ASSUME NEW i \in DOMAIN table, table[i].port = p
          PROVE  \E k \in DOMAIN u : u[k] = table[i]
      <4>1. i \in 1 .. N /\ i # f BY <2>1, <2>3, <2>7, <3>1
      <4>2. PICK k \in 1 .. N - 1 : old[k] = i BY <4>1, <2>o
      <4>3. u[k] = table[i] BY <4>2, <2>m
      <4>q. QED BY <4>2, <4>3, <2>4
    <3>2. ASSUME NEW k \in DOMAIN u, u[k].port = p
          PROVE  \E i \in DOMAIN table : table[i].port = p
      <4>1. k \in 1 .. N - 1 BY <2>4
      <4>2. old[k] \in 1 .. N /\ u[k] = table[old[k]] BY <4>1, <2>m
      <4>q. QED BY <4>2, <2>3, <3>2
    <3>q. QED BY <2>5, <3>1, <3>2, SameEntry DEF CountOf, TableOK
  <2>q. QED BY <2>5, <2>6, <2>7
<1>q. QED BY <1>1, <1>2

--------------------------------------------------------------------------------
Sent == [port : Echo!Ports, text : Nat]

EchoTypes ==
  /\ TableOK
  /\ toServer \in Seq(Sent)
  /\ inbox \in [EchoClients -> Seq(Echo!Answers)] /\ shown \in [EchoClients -> Seq(Echo!Answers)]
  /\ state \in [EchoClients -> {"off", "on", "gone"}]
  /\ typed \in [EchoClients -> Nat]
  /\ restarts \in 0 .. MaxRestarts

\* What a client has read and is about to read; what of it the server has to take.
Trail(c) == shown[c] \o inbox[c]
Pending(c) == {i \in DOMAIN toServer : toServer[i].port = PortOf(c)}
Lines(c) == {i \in Pending(c) : toServer[i].text # Echo!CLOSE}

\* The lines that are still to be taken are new to the server, and in order.
Ahead(c) ==
  /\ CountOf(PortOf(c)) <= typed[c]
  /\ \A i \in Pending(c) \ Lines(c) : state[c] = "gone"
  /\ \A i \in Lines(c) : CountOf(PortOf(c)) < toServer[i].text /\ toServer[i].text <= typed[c]
  /\ \A i, j \in Lines(c) : i < j => toServer[i].text < toServer[j].text

\* The answers are in order, and those of this life are to lines that were taken.
InOrder(c, a) ==
  /\ \A i \in DOMAIN a : a[i].n <= a[i].text /\ a[i].text <= typed[c] /\ a[i].life <= restarts
  /\ \A i, j \in DOMAIN a :
       i < j /\ a[i].life = a[j].life => a[i].n < a[j].n /\ a[i].text < a[j].text

Taken(c, a) ==
  \A i \in DOMAIN a : state[c] # "gone" /\ a[i].life = restarts =>
    /\ a[i].n <= CountOf(PortOf(c))
    /\ \A k \in Lines(c) : a[i].text < toServer[k].text

EchoInv ==
  /\ EchoTypes
  /\ \A c \in EchoClients : Echo!Alone(c) => Ahead(c) /\ InOrder(c, Trail(c)) /\ Taken(c, Trail(c))

LEMMA EchoInvSays == ASSUME EchoInv PROVE Echo!AnswersInOrder
<1>1. Echo!TypeOK BY DEF EchoInv, EchoTypes, TableOK, TableIs, Entry, Sent, Echo!TypeOK
<1>q. QED BY <1>1 DEF EchoInv, InOrder, Trail, Echo!AnswersInOrder

LEMMA EchoInitial == ASSUME Echo!EchoAssumption, Echo!Init PROVE EchoInv
<1>1. EchoTypes
  <2>1. TableOK BY DEF Echo!Init, TableOK, TableIs
  <2>2. toServer \in Seq(Sent) /\ <<>> \in Seq(Echo!Answers) BY DEF Echo!Init
  <2>q. QED BY <2>1, <2>2 DEF Echo!EchoAssumption, Echo!Init, EchoTypes
<1>2. ASSUME NEW c \in EchoClients
      PROVE  Ahead(c) /\ InOrder(c, Trail(c)) /\ Taken(c, Trail(c))
  <2>1. Pending(c) = {} /\ Lines(c) = {} BY DEF Echo!Init, Pending, Lines
  <2>2. DOMAIN Trail(c) = {}
    <3>1. Trail(c) = <<>> \o <<>> BY <1>2 DEF Echo!Init, Trail
    <3>q. QED BY <3>1
  <2>3. CountOf(PortOf(c)) = 0 BY DEF Echo!Init, CountOf, CountIn, At
  <2>4. typed[c] = 0 BY <1>2 DEF Echo!Init
  <2>q. QED BY <2>1, <2>2, <2>3, <2>4 DEF Ahead, InOrder, Taken
<1>q. QED BY <1>1, <1>2 DEF EchoInv

\* A datagram more is queued, or it is lost.
LEMMA QueuedIs ==
  ASSUME Echo!EchoAssumption, NEW S, NEW q \in Seq(S), NEW x \in S
  PROVE  Echo!Queued(q, x) \in Seq(S) /\ Echo!Queued(q, x) \in {q, Append(q, x)}
BY DEF Echo!Queued

\* Reading moves an answer along a trail, and changes nothing of it.
LEMMA Moved ==
  ASSUME NEW S, NEW s \in Seq(S), NEW q \in Seq(S)
  PROVE  /\ q # <<>> => Append(s, Head(q)) \o Tail(q) = s \o q
         /\ \A x \in S : s \o Append(q, x) = Append(s \o q, x)
         /\ s \o q \in Seq(S)
         /\ s \o <<>> = s
         /\ \A i \in DOMAIN s : i \in DOMAIN (s \o q) /\ (s \o q)[i] = s[i]
<1>1. s \o q \in Seq(S) /\ s \o <<>> = s OBVIOUS
<1>4. ASSUME NEW x \in S PROVE s \o Append(q, x) = Append(s \o q, x) OBVIOUS
<1>2. ASSUME q # <<>> PROVE Append(s, Head(q)) \o Tail(q) = s \o q
  <2>1. q = <<Head(q)>> \o Tail(q) BY <1>2
  <2>2. Append(s, Head(q)) = s \o <<Head(q)>> BY <1>2
  <2>3. <<Head(q)>> \in Seq(S) /\ Tail(q) \in Seq(S) BY <1>2
  <2>q. QED BY <2>1, <2>2, <2>3
<1>3. \A i \in DOMAIN s : i \in DOMAIN (s \o q) /\ (s \o q)[i] = s[i] OBVIOUS
<1>q. QED BY <1>1, <1>2, <1>3, <1>4

--------------------------------------------------------------------------------
InStep(c) == Ahead(c) /\ InOrder(c, Trail(c)) /\ Taken(c, Trail(c))

\* A step that is no concern of a client may remove what is not the client's from the
\* server's socket, and drop the answers that the client had not read.
LEMMA Undisturbed ==
  ASSUME NEW c \in EchoClients, InStep(c),
         restarts' = restarts, CountOf(PortOf(c))' = CountOf(PortOf(c)),
         typed'[c] = typed[c], state[c] = "gone" => state'[c] = "gone",
         NEW m, \A i \in Pending(c)' : m[i] \in Pending(c) /\ toServer[m[i]] = toServer'[i],
         \A i, j \in Pending(c)' : i < j => m[i] < m[j],
         \A i \in DOMAIN Trail(c)' : i \in DOMAIN Trail(c) /\ Trail(c)'[i] = Trail(c)[i]
  PROVE  InStep(c)'
<1>1. \A i \in Lines(c)' : /\ i \in Pending(c)' /\ m[i] \in Lines(c)
                           /\ toServer[m[i]] = toServer'[i]
  BY DEF Lines
<1>2. Ahead(c)'
  <2>1. \A i \in Pending(c)' \ Lines(c)' : m[i] \in Pending(c) \ Lines(c) BY DEF Lines
  <2>2. \A i \in Pending(c)' \ Lines(c)' : state'[c] = "gone" BY <2>1 DEF InStep, Ahead
  <2>3. \A i \in Lines(c)' : /\ CountOf(PortOf(c)) < toServer'[i].text
                             /\ toServer'[i].text <= typed[c]
    BY <1>1 DEF InStep, Ahead
  <2>4. \A i, j \in Lines(c)' : i < j => toServer'[i].text < toServer'[j].text
    BY <1>1 DEF InStep, Ahead
  <2>q. QED BY <2>2, <2>3, <2>4 DEF InStep, Ahead
<1>3. InOrder(c, Trail(c))' BY DEF InStep, InOrder
<1>4. Taken(c, Trail(c))' BY <1>1 DEF InStep, Taken
<1>q. QED BY <1>2, <1>3, <1>4 DEF InStep

\* The trail of a client whose sockets no step touches.
LEMMA SameTrail ==
  ASSUME NEW c \in EchoClients, shown'[c] = shown[c], inbox'[c] = inbox[c]
  PROVE  Trail(c)' = Trail(c)
BY DEF Trail

\* A client that goes leaves what it had not read.
LEMMA TrailLeft ==
  ASSUME EchoTypes, NEW c \in EchoClients, shown'[c] = shown[c], inbox'[c] = <<>>
  PROVE  \A i \in DOMAIN Trail(c)' : i \in DOMAIN Trail(c) /\ Trail(c)'[i] = Trail(c)[i]
<1>1. shown[c] \in Seq(Echo!Answers) /\ inbox[c] \in Seq(Echo!Answers) BY DEF EchoTypes
<1>2. Trail(c)' = shown[c] BY <1>1, Moved DEF Trail
<1>3. \A i \in DOMAIN shown[c] : i \in DOMAIN Trail(c) /\ Trail(c)[i] = shown[c][i]
  BY <1>1, Moved DEF Trail
<1>q. QED BY <1>2, <1>3

\* What a datagram of another port does to a client's part of the server's socket.
LEMMA OthersQueued ==
  ASSUME Echo!EchoAssumption, EchoTypes, NEW c \in EchoClients, NEW x \in Sent, x.port # PortOf(c),
         toServer' = Echo!Queued(toServer, x)
  PROVE  /\ \A i \in Pending(c)' : i \in Pending(c) /\ toServer[i] = toServer'[i]
<1>1. toServer' \in {toServer, Append(toServer, x)} BY QueuedIs DEF EchoTypes
<1>2. CASE toServer' = toServer BY <1>2 DEF Pending
<1>3. CASE toServer' = Append(toServer, x)
  BY <1>3, AppendMembers DEF Pending, EchoTypes
<1>q. QED BY <1>1, <1>2, <1>3

\* What is left of it behind the head.
LEMMA TailPending ==
  ASSUME EchoTypes, NEW c \in EchoClients, toServer # <<>>, toServer' = Tail(toServer)
  PROVE  /\ Head(toServer) = toServer[1] /\ toServer[1] \in Sent
         /\ 1 \in DOMAIN toServer
         /\ \A i \in Pending(c)' : i \in Nat /\ i + 1 > 1 /\ i + 1 \in Pending(c)
                                   /\ toServer[i + 1] = toServer'[i]
         /\ \A i \in Lines(c)' : i + 1 \in Lines(c)
<1>1. /\ Head(toServer) = toServer[1] /\ toServer[1] \in Sent /\ 1 \in DOMAIN toServer
      /\ \A i \in DOMAIN Tail(toServer) :
           i \in Nat /\ i + 1 \in DOMAIN toServer /\ i + 1 > 1
           /\ Tail(toServer)[i] = toServer[i + 1]
  <2> HIDE DEF Sent
  <2>q. QED BY TailMembers DEF EchoTypes
<1>2. \A i \in Pending(c)' : i \in Nat /\ i + 1 > 1 /\ i + 1 \in Pending(c)
                             /\ toServer[i + 1] = toServer'[i]
  BY <1>1 DEF Pending
<1>3. \A i \in Lines(c)' : i + 1 \in Lines(c) BY <1>2 DEF Lines
<1>q. QED BY <1>1, <1>2, <1>3

LEMMA SendLineTypes ==
  ASSUME Echo!EchoAssumption, EchoTypes, NEW d \in EchoClients, Echo!SendLine(d)
  PROVE  EchoTypes' /\ typed'[d] = typed[d] + 1 /\ Echo!Datagram(PortOf(d), typed'[d]) \in Sent
<1>1. typed'[d] = typed[d] + 1 /\ typed' \in [EchoClients -> Nat]
  BY DEF EchoTypes, Echo!SendLine
<1>2. Echo!Datagram(PortOf(d), typed'[d]) \in Sent
  BY <1>1 DEF Echo!Datagram, Sent, Echo!Ports, EchoTypes
<1>3. toServer' \in Seq(Sent) BY <1>2, QueuedIs DEF EchoTypes, Echo!SendLine
<1>q. QED BY <1>1, <1>2, <1>3 DEF EchoTypes, TableOK, Echo!SendLine

LEMMA SendCloseTypes ==
  ASSUME Echo!EchoAssumption, EchoTypes, NEW d \in EchoClients, Echo!SendClose(d)
  PROVE  EchoTypes' /\ Echo!Datagram(PortOf(d), Echo!CLOSE) \in Sent
<1>1. Echo!Datagram(PortOf(d), Echo!CLOSE) \in Sent
  BY DEF Echo!Datagram, Sent, Echo!Ports, Echo!CLOSE
<1>2. toServer' \in Seq(Sent) BY <1>1, QueuedIs DEF EchoTypes, Echo!SendClose
<1>3. inbox' \in [EchoClients -> Seq(Echo!Answers)] BY DEF EchoTypes, Echo!SendClose
<1>q. QED BY <1>1, <1>2, <1>3 DEF EchoTypes, TableOK, Echo!SendClose

LEMMA ReadTypes ==
  ASSUME EchoTypes, NEW d \in EchoClients, Echo!ReadAnswer(d)
  PROVE  EchoTypes' /\ Trail(d)' = Trail(d)
<1>1. shown[d] \in Seq(Echo!Answers) /\ inbox[d] \in Seq(Echo!Answers) /\ inbox[d] # <<>>
  BY DEF EchoTypes, Echo!ReadAnswer
<1>2. Head(inbox[d]) \in Echo!Answers /\ Tail(inbox[d]) \in Seq(Echo!Answers)
  <2> HIDE DEF Echo!Answers
  <2>q. QED BY <1>1, TailMembers
<1>3. shown'[d] = Append(shown[d], Head(inbox[d])) /\ inbox'[d] = Tail(inbox[d])
  BY DEF EchoTypes, Echo!ReadAnswer
<1>4. shown' \in [EchoClients -> Seq(Echo!Answers)] /\ inbox' \in [EchoClients -> Seq(Echo!Answers)]
  <2>1. Append(shown[d], Head(inbox[d])) \in Seq(Echo!Answers)
    <3> HIDE DEF Echo!Answers
    <3>q. QED BY <1>1, <1>2
  <2>q. QED BY <1>2, <2>1 DEF EchoTypes, Echo!ReadAnswer
<1>5. Trail(d)' = Trail(d)
  <2>1. Append(shown[d], Head(inbox[d])) \o Tail(inbox[d]) = shown[d] \o inbox[d]
    <3> DEFINE s == shown[d]
               q == inbox[d]
    <3>1. s \in Seq(Echo!Answers) /\ q \in Seq(Echo!Answers) /\ q # <<>> BY <1>1
    <3> HIDE DEF Echo!Answers, s, q
    <3>2. Append(s, Head(q)) \o Tail(q) = s \o q BY ONLY <3>1, Moved
    <3>q. QED BY <3>2 DEF s, q
  <2>q. QED BY <1>3, <2>1 DEF Trail
<1>q. QED BY <1>4, <1>5 DEF EchoTypes, TableOK, Echo!ReadAnswer

\* The steps of a client but sending.
LEMMA ClientQuiet ==
  ASSUME EchoInv, NEW d \in EchoClients, Echo!Start(d) \/ Echo!Die(d) \/ Echo!ReadAnswer(d)
  PROVE  EchoInv'
<1>1. EchoTypes'
  <2>1. CASE Echo!Start(d) BY <2>1 DEF EchoInv, EchoTypes, TableOK, Echo!Start
  <2>2. CASE Echo!Die(d) BY <2>2 DEF EchoInv, EchoTypes, TableOK, Echo!Die
  <2>3. CASE Echo!ReadAnswer(d) BY <2>3, ReadTypes DEF EchoInv
  <2>q. QED BY <2>1, <2>2, <2>3
<1>2. ASSUME NEW c \in EchoClients, Echo!Alone(c) PROVE InStep(c)'
  <2> DEFINE m == [i \in Nat |-> i]
  <2>1. table' = table /\ toServer' = toServer /\ typed' = typed /\ restarts' = restarts
    BY DEF Echo!Start, Echo!Die, Echo!ReadAnswer
  <2>2. CountOf(PortOf(c))' = CountOf(PortOf(c)) /\ Pending(c)' = Pending(c)
    BY <2>1 DEF CountOf, Pending
  <2>3. \A i \in Pending(c) : i \in Nat BY DEF Pending, EchoInv, EchoTypes
  <2>4. state[c] = "gone" => state'[c] = "gone"
    BY DEF EchoInv, EchoTypes, Echo!Start, Echo!Die, Echo!ReadAnswer
  <2>5. \A i \in DOMAIN Trail(c)' : i \in DOMAIN Trail(c) /\ Trail(c)'[i] = Trail(c)[i]
    <3>1. CASE Echo!Start(d) BY <3>1, SameTrail DEF Echo!Start
    <3>2. CASE Echo!Die(d)
      <4>1. CASE c = d BY <3>2, <4>1, TrailLeft DEF Echo!Die, EchoInv, EchoTypes
      <4>2. CASE c # d BY <3>2, <4>2, SameTrail DEF Echo!Die, EchoInv, EchoTypes
      <4>q. QED BY <4>1, <4>2
    <3>3. CASE Echo!ReadAnswer(d)
      <4>1. CASE c = d BY <3>3, <4>1, ReadTypes DEF EchoInv
      <4>2. CASE c # d BY <3>3, <4>2, SameTrail DEF Echo!ReadAnswer, EchoInv, EchoTypes
      <4>q. QED BY <4>1, <4>2
    <3>q. QED BY <3>1, <3>2, <3>3
  <2>6. InStep(c) BY <1>2 DEF EchoInv, InStep
  <2>7. /\ \A i \in Pending(c)' : m[i] \in Pending(c) /\ toServer[m[i]] = toServer'[i]
        /\ \A i, j \in Pending(c)' : i < j => m[i] < m[j]
    BY <2>1, <2>2, <2>3
  <2> HIDE DEF m
  <2>q. QED BY <2>1, <2>2, <2>4, <2>5, <2>6, <2>7, Undisturbed
<1>q. QED BY <1>1, <1>2 DEF EchoInv, InStep, Echo!Alone

LEMMA SentTypes ==
  ASSUME EchoTypes, NEW c \in EchoClients
  PROVE  \A i \in Pending(c) : i \in Nat /\ toServer[i].text \in Nat
<1>1. \A i \in DOMAIN toServer : i \in Nat /\ toServer[i] \in Sent
  <2> HIDE DEF Sent
  <2>q. QED BY LenProperties, ElementOfSeq DEF EchoTypes
<1>q. QED BY <1>1 DEF Pending, Sent

LEMMA SentTypesNext ==
  ASSUME EchoTypes', NEW c \in EchoClients
  PROVE  \A i \in Pending(c)' : i \in Nat
<1>1. toServer' \in Seq(Sent) BY DEF EchoTypes
<1>2. \A i \in DOMAIN toServer' : i \in Nat BY <1>1
<1>q. QED BY <1>2 DEF Pending

LEMMA TrailTypes ==
  ASSUME EchoTypes, NEW c \in EchoClients
  PROVE  /\ Trail(c) \in Seq(Echo!Answers)
         /\ \A i \in DOMAIN Trail(c) : i \in Nat /\ Trail(c)[i] \in Echo!Answers
                                       /\ Trail(c)[i].text \in Nat /\ Trail(c)[i].n \in Nat
                                       /\ Trail(c)[i].life \in Nat
<1>1. shown[c] \in Seq(Echo!Answers) /\ inbox[c] \in Seq(Echo!Answers) BY DEF EchoTypes
<1>2. Trail(c) \in Seq(Echo!Answers) BY <1>1, Moved DEF Trail
<1>3. \A i \in DOMAIN Trail(c) : i \in Nat /\ Trail(c)[i] \in Echo!Answers
  <2> HIDE DEF Echo!Answers
  <2>q. QED BY <1>2, LenProperties, ElementOfSeq
<1>q. QED BY <1>2, <1>3 DEF Echo!Answers

\* What a datagram of its own does to a client's part of the server's socket.
LEMMA OwnQueued ==
  ASSUME Echo!EchoAssumption, EchoTypes, NEW c \in EchoClients, NEW x \in Sent,
         toServer' = Echo!Queued(toServer, x)
  PROVE  \A i \in Pending(c)' :
           \/ i \in Pending(c) /\ toServer'[i] = toServer[i]
           \/ /\ toServer'[i] = x
              /\ \A j \in Pending(c) : j < i /\ toServer'[j] = toServer[j] /\ j \in Pending(c)'
              /\ \A j \in Pending(c)' \ Pending(c) : j = i
<1>1. toServer' \in {toServer, Append(toServer, x)} BY QueuedIs DEF EchoTypes
<1>2. CASE toServer' = toServer BY <1>2 DEF Pending
<1>3. CASE toServer' = Append(toServer, x)
  <2>1. /\ \A i \in DOMAIN toServer' :
             \/ i \in DOMAIN toServer /\ toServer'[i] = toServer[i]
             \/ /\ i = Len(toServer) + 1 /\ i \notin DOMAIN toServer /\ toServer'[i] = x
                /\ \A j \in DOMAIN toServer : j < i
        /\ \A i \in DOMAIN toServer : i \in DOMAIN toServer' /\ toServer'[i] = toServer[i]
    <3> HIDE DEF Sent
    <3>q. QED BY <1>3, AppendMembers DEF EchoTypes
  <2>q. QED BY <2>1 DEF Pending
<1>q. QED BY <1>1, <1>2, <1>3

\* A line more: of another client it is no concern of c, of c itself it is a new one.
LEMMA SendLineStep ==
  ASSUME Echo!EchoAssumption, EchoInv, NEW d \in EchoClients, Echo!SendLine(d)
  PROVE  EchoInv'
<1> DEFINE x == Echo!Datagram(PortOf(d), typed'[d])
<1>1. EchoTypes' /\ typed'[d] = typed[d] + 1 /\ x \in Sent /\ typed[d] \in Nat
  BY SendLineTypes DEF EchoInv, EchoTypes
<1>2. toServer' = Echo!Queued(toServer, x) /\ x.port = PortOf(d) /\ x.text = typed'[d]
  BY DEF Echo!SendLine, Echo!Datagram
<1> HIDE DEF x
<1>3. ASSUME NEW c \in EchoClients, Echo!Alone(c) PROVE InStep(c)'
  <2>1. InStep(c) BY <1>3 DEF EchoInv, InStep
  <2>2. /\ CountOf(PortOf(c))' = CountOf(PortOf(c)) /\ restarts' = restarts /\ state' = state
        /\ Trail(c)' = Trail(c)
    BY SameTrail DEF Echo!SendLine, CountOf
  <2>3. CASE c # d
    <3> DEFINE m == [i \in Nat |-> i]
    <3>1. x.port # PortOf(c) BY <1>2, <1>3, <2>3 DEF Echo!Alone
    <3>2. \A i \in Pending(c)' : i \in Pending(c) /\ toServer[i] = toServer'[i]
      BY <1>1, <1>2, <3>1, OthersQueued DEF EchoInv
    <3>3. \A i \in Pending(c) : i \in Nat BY DEF Pending, EchoInv, EchoTypes
    <3>4. /\ \A i \in Pending(c)' : m[i] \in Pending(c) /\ toServer[m[i]] = toServer'[i]
          /\ \A i, j \in Pending(c)' : i < j => m[i] < m[j]
      BY <3>2, <3>3
    <3>5. typed'[c] = typed[c] BY <2>3 DEF Echo!SendLine, EchoInv, EchoTypes
    <3> HIDE DEF m
    <3>q. QED BY <2>1, <2>2, <3>4, <3>5, Undisturbed
  <2>4. CASE c = d
    <3>1. /\ CountOf(PortOf(c)) \in Nat /\ typed'[c] = typed[c] + 1 /\ typed[c] \in Nat
          /\ state[c] # "gone"
      BY <1>1, <2>4, EntryIn DEF CountOf, EchoInv, EchoTypes, TableOK, Echo!SendLine
    <3>2. \A i \in Lines(c)' :
            \/ i \in Lines(c) /\ toServer'[i] = toServer[i]
            \/ /\ toServer'[i].text = typed[c] + 1
               /\ \A j \in Lines(c) : j < i /\ toServer'[j] = toServer[j]
               /\ \A j \in Lines(c)' \ Lines(c) : j = i
      BY <1>1, <1>2, <2>4, <3>1, OwnQueued DEF Lines, EchoInv
    <3>3. \A i \in Pending(c)' \ Lines(c)' : i \in Pending(c) \ Lines(c)
      <4>1. typed[c] + 1 # Echo!CLOSE BY <3>1 DEF Echo!CLOSE
      <4>q. QED BY <1>1, <1>2, <2>4, <3>1, <4>1, OwnQueued DEF Lines, EchoInv
    <3>4. \A i \in Lines(c) : i \in Nat /\ toServer[i].text \in Nat
      BY SentTypes DEF Lines, EchoInv
    <3>5. Ahead(c)'
      <4>1. \A i \in Pending(c)' \ Lines(c)' : state'[c] = "gone"
        BY <2>1, <2>2, <3>3 DEF InStep, Ahead
      <4>2. \A i \in Lines(c)' : /\ CountOf(PortOf(c)) < toServer'[i].text
                                 /\ toServer'[i].text <= typed[c] + 1
        BY <2>1, <3>1, <3>2, <3>4 DEF InStep, Ahead
      <4>3. ASSUME NEW i \in Lines(c)', NEW j \in Lines(c)', i < j
            PROVE  toServer'[i].text < toServer'[j].text
        <5>1. CASE j \in Lines(c) /\ i \in Lines(c) /\ toServer'[i] = toServer[i] /\ toServer'[j] = toServer[j]
          BY <2>1, <4>3, <5>1 DEF InStep, Ahead
        <5>2. CASE i \in Lines(c) /\ toServer'[i] = toServer[i] /\ toServer'[j].text = typed[c] + 1
          BY <2>1, <3>1, <3>4, <5>2 DEF InStep, Ahead
        <5>3. i \in Nat /\ j \in Nat /\ ~(j < i) /\ i # j
          BY <1>1, <4>3, SentTypesNext DEF Lines
        <5>q. QED BY <3>2, <5>1, <5>2, <5>3
      <4>q. QED BY <2>1, <2>2, <3>1, <4>1, <4>2, <4>3 DEF InStep, Ahead
    <3>6. \A i \in DOMAIN Trail(c) : Trail(c)[i].text \in Nat /\ Trail(c)[i].text <= typed[c]
      BY <2>1, TrailTypes DEF InStep, InOrder, EchoInv
    <3>7. InOrder(c, Trail(c))' BY <2>1, <2>2, <3>1, <3>6 DEF InStep, InOrder
    <3>8. Taken(c, Trail(c))'
      <4>1. ASSUME NEW i \in DOMAIN Trail(c), Trail(c)[i].life = restarts, NEW k \in Lines(c)'
            PROVE  Trail(c)[i].text < toServer'[k].text
        BY <2>1, <3>1, <3>2, <3>4, <3>6, <4>1 DEF InStep, Taken
      <4>q. QED BY <2>1, <2>2, <3>1, <4>1 DEF InStep, Taken
    <3>q. QED BY <3>5, <3>7, <3>8 DEF InStep
  <2>q. QED BY <2>3, <2>4
<1>q. QED BY <1>1, <1>3 DEF EchoInv, InStep, Echo!Alone

LEMMA SendCloseStep ==
  ASSUME Echo!EchoAssumption, EchoInv, NEW d \in EchoClients, Echo!SendClose(d)
  PROVE  EchoInv'
<1> DEFINE x == Echo!Datagram(PortOf(d), Echo!CLOSE)
<1>1. EchoTypes' /\ x \in Sent BY SendCloseTypes DEF EchoInv
<1>2. toServer' = Echo!Queued(toServer, x) /\ x.port = PortOf(d) /\ x.text = Echo!CLOSE
  BY DEF Echo!SendClose, Echo!Datagram
<1> HIDE DEF x
<1>3. ASSUME NEW c \in EchoClients, Echo!Alone(c) PROVE InStep(c)'
  <2>1. InStep(c) BY <1>3 DEF EchoInv, InStep
  <2>2. /\ CountOf(PortOf(c))' = CountOf(PortOf(c)) /\ restarts' = restarts
        /\ typed' = typed
    BY DEF Echo!SendClose, CountOf
  <2>3. CASE c # d
    <3> DEFINE m == [i \in Nat |-> i]
    <3>1. x.port # PortOf(c) BY <1>2, <1>3, <2>3 DEF Echo!Alone
    <3>2. \A i \in Pending(c)' : i \in Pending(c) /\ toServer[i] = toServer'[i]
      BY <1>1, <1>2, <3>1, OthersQueued DEF EchoInv
    <3>3. \A i \in Pending(c) : i \in Nat BY SentTypes DEF EchoInv
    <3>4. /\ \A i \in Pending(c)' : m[i] \in Pending(c) /\ toServer[m[i]] = toServer'[i]
          /\ \A i, j \in Pending(c)' : i < j => m[i] < m[j]
      BY <3>2, <3>3
    <3>5. state'[c] = state[c] /\ Trail(c)' = Trail(c)
      BY <2>3, SameTrail DEF Echo!SendClose, EchoInv, EchoTypes
    <3> HIDE DEF m
    <3>q. QED BY <2>1, <2>2, <3>4, <3>5, Undisturbed
  <2>4. CASE c = d
    <3>1. state'[c] = "gone" BY <2>4 DEF Echo!SendClose, EchoInv, EchoTypes
    <3>2. \A i \in Lines(c)' : i \in Lines(c) /\ toServer'[i] = toServer[i]
      BY <1>1, <1>2, <2>4, OwnQueued DEF Lines, EchoInv
    <3>3. Ahead(c)' BY <2>1, <2>2, <3>1, <3>2 DEF InStep, Ahead
    <3>4. \A i \in DOMAIN Trail(c)' : i \in DOMAIN Trail(c) /\ Trail(c)'[i] = Trail(c)[i]
      BY <2>4, TrailLeft DEF Echo!SendClose, EchoInv, EchoTypes
    <3>5. InOrder(c, Trail(c))' BY <2>1, <2>2, <3>4 DEF InStep, InOrder
    <3>6. Taken(c, Trail(c))' BY <3>1 DEF Taken
    <3>q. QED BY <3>3, <3>5, <3>6 DEF InStep
  <2>q. QED BY <2>3, <2>4
<1>q. QED BY <1>1, <1>3 DEF EchoInv, InStep, Echo!Alone

--------------------------------------------------------------------------------
\* What the server takes off, and what it says.
LEMMA EchoTypesStep ==
  ASSUME Echo!EchoAssumption, EchoTypes, Echo!Echo
  PROVE  /\ EchoTypes'
         /\ toServer # <<>> /\ toServer' = Tail(toServer)
         /\ Head(toServer) \in Sent /\ Head(toServer).text # Echo!CLOSE
         /\ LET p == Head(toServer).port
                x == Echo!Answer(Head(toServer).text, CountOf(p) + 1)
            IN  /\ table' = Echo!Counted(p)
                /\ x \in Echo!Answers
                /\ \A c \in EchoClients :
                     \/ inbox'[c] = inbox[c]
                     \/ state[c] = "on" /\ PortOf(c) = p /\ inbox'[c] = Append(inbox[c], x)
<1> DEFINE p == Head(toServer).port
           n == CountOf(p) + 1
           x == Echo!Answer(Head(toServer).text, n)
           i == IF Echo!Have(p) = {} THEN Len(table) + 1 ELSE Echo!FirstOf(Echo!Have(p))
<1>1. toServer # <<>> /\ toServer' = Tail(toServer) /\ Head(toServer).text # Echo!CLOSE
      /\ table' = Echo!Counted(p)
  BY DEF Echo!Echo
<1>2. Head(toServer) \in Sent /\ toServer' \in Seq(Sent)
  <2> HIDE DEF Sent
  <2>q. QED BY <1>1, TailMembers DEF EchoTypes
<1>3. p \in Echo!Ports BY <1>2 DEF Sent
<1>4. TableIs(table') /\ table'[i].counter = n
  BY <1>1, <1>3, CountedRaises DEF EchoTypes
<1>5. n \in Nat BY EntryIn DEF CountOf, EchoTypes, TableOK
<1>6. x \in Echo!Answers
  BY <1>1, <1>2, <1>5 DEF Echo!Answer, Echo!Answers, EchoTypes, Sent, Echo!CLOSE
<1>7. inbox' = [c \in EchoClients |-> IF state[c] = "on" /\ PortOf(c) = p THEN Echo!Queued(inbox[c], x)
                                  ELSE inbox[c]]
  BY <1>4 DEF Echo!Echo
<1> HIDE DEF p, n, x, i
<1>8. ASSUME NEW c \in EchoClients
      PROVE  /\ inbox'[c] \in Seq(Echo!Answers)
             /\ \/ inbox'[c] = inbox[c]
                \/ state[c] = "on" /\ PortOf(c) = p /\ inbox'[c] = Append(inbox[c], x)
  <2>1. inbox[c] \in Seq(Echo!Answers) BY DEF EchoTypes
  <2>2. Echo!Queued(inbox[c], x) \in Seq(Echo!Answers) /\ Echo!Queued(inbox[c], x) \in {inbox[c], Append(inbox[c], x)}
    BY <1>6, <2>1, QueuedIs
  <2>q. QED BY <1>7, <2>1, <2>2
<1>9. inbox' \in [EchoClients -> Seq(Echo!Answers)] BY <1>7, <1>8
<1>10. EchoTypes' BY <1>2, <1>4, <1>9 DEF EchoTypes, TableOK, Echo!Echo
<1>q. QED BY <1>1, <1>2, <1>6, <1>8, <1>10 DEF p, x, n

LEMMA CloseTypesStep ==
  ASSUME Echo!EchoAssumption, EchoTypes, Echo!Close
  PROVE  /\ EchoTypes'
         /\ toServer # <<>> /\ toServer' = Tail(toServer)
         /\ Head(toServer) \in Sent /\ Head(toServer).text = Echo!CLOSE
         /\ CountIn(table', Head(toServer).port) = 0
         /\ \A p \in Echo!Ports \ {Head(toServer).port} : CountIn(table', p) = CountOf(p)
<1> DEFINE q == Head(toServer).port
<1>1. toServer # <<>> /\ toServer' = Tail(toServer) /\ Head(toServer).text = Echo!CLOSE
      /\ table' = IF Echo!Have(q) = {} THEN table ELSE Echo!Removed(Echo!FirstOf(Echo!Have(q)))
  BY DEF Echo!Close
<1>2. Head(toServer) \in Sent /\ toServer' \in Seq(Sent)
  <2> HIDE DEF Sent
  <2>q. QED BY <1>1, TailMembers DEF EchoTypes
<1>3. q \in Echo!Ports BY <1>2 DEF Sent
<1>4. TableIs(table') /\ CountIn(table', q) = 0
      /\ \A p \in Echo!Ports \ {q} : CountIn(table', p) = CountOf(p)
  <2> HIDE DEF q
  <2>q. QED BY <1>1, <1>3, RemovedClears DEF EchoTypes
<1>5. EchoTypes' BY <1>2, <1>4 DEF EchoTypes, TableOK, Echo!Close
<1>q. QED BY <1>1, <1>2, <1>4, <1>5

\* A step of the server for another port is no concern of a client.
LEMMA OthersTaken ==
  ASSUME EchoTypes, NEW c \in EchoClients, InStep(c), toServer # <<>>, toServer' = Tail(toServer),
         restarts' = restarts, typed' = typed, state' = state,
         CountIn(table', PortOf(c)) = CountOf(PortOf(c)), Trail(c)' = Trail(c)
  PROVE  InStep(c)'
<1> DEFINE m == [i \in Nat |-> i + 1]
<1>1. \A i \in Pending(c)' : i \in Nat /\ i + 1 \in Pending(c) /\ toServer[i + 1] = toServer'[i]
  BY TailPending
<1>2. /\ \A i \in Pending(c)' : m[i] \in Pending(c) /\ toServer[m[i]] = toServer'[i]
      /\ \A i, j \in Pending(c)' : i < j => m[i] < m[j]
  <2>1. \A i \in Pending(c)' : i \in Nat /\ m[i] = i + 1 BY <1>1
  <2>2. \A i \in Pending(c)' : m[i] \in Pending(c) /\ toServer[m[i]] = toServer'[i]
    BY <1>1, <2>1
  <2>3. \A i, j \in Nat : i < j => i + 1 < j + 1 OBVIOUS
  <2> HIDE DEF m
  <2>4. \A i, j \in Pending(c)' : i < j => m[i] < m[j] BY <2>1, <2>3
  <2>q. QED BY <2>2, <2>4
<1>3. CountOf(PortOf(c))' = CountOf(PortOf(c)) BY DEF CountOf
<1> HIDE DEF m
<1>q. QED BY <1>2, <1>3, Undisturbed

\* The line at the head was the client's oldest: the answer is the last of its trail.
LEMMA EchoStep ==
  ASSUME Echo!EchoAssumption, EchoInv, Echo!Echo
  PROVE  EchoInv'
<1> DEFINE p == Head(toServer).port
           t == Head(toServer).text
           n == CountOf(p) + 1
           x == Echo!Answer(t, n)
<1>1. /\ EchoTypes' /\ EchoTypes /\ TableOK
      /\ toServer # <<>> /\ toServer' = Tail(toServer)
      /\ Head(toServer) \in Sent /\ t # Echo!CLOSE
      /\ table' = Echo!Counted(p) /\ x \in Echo!Answers
      /\ \A c \in EchoClients :
           \/ inbox'[c] = inbox[c]
           \/ state[c] = "on" /\ PortOf(c) = p /\ inbox'[c] = Append(inbox[c], x)
  BY EchoTypesStep DEF EchoInv, EchoTypes
<1>2. p \in Echo!Ports /\ restarts' = restarts /\ typed' = typed /\ state' = state /\ shown' = shown
  BY <1>1 DEF Sent, Echo!Echo
<1>3. CountIn(table', p) = n /\ \A r \in Echo!Ports \ {p} : CountIn(table', r) = CountOf(r)
  BY <1>1, <1>2, CountedRaises
<1>4. x.text = t /\ x.n = n /\ x.life = restarts BY DEF Echo!Answer
<1>5. n \in Nat /\ CountOf(p) \in Nat BY <1>1, EntryIn DEF CountOf, TableOK
<1>6. ASSUME NEW c \in EchoClients, Echo!Alone(c) PROVE InStep(c)'
  <2>1. InStep(c) BY <1>6 DEF EchoInv, InStep
  <2>2. CASE PortOf(c) # p
    <3>1. Trail(c)' = Trail(c) BY <1>1, <1>2, <2>2, SameTrail
    <3>2. PortOf(c) \in Echo!Ports \ {p} BY <2>2 DEF Echo!Ports
    <3> HIDE DEF p
    <3>q. QED BY <1>1, <1>2, <1>3, <2>1, <3>1, <3>2, OthersTaken
  <2>3. CASE PortOf(c) = p
    <3>1. /\ Head(toServer) = toServer[1] /\ 1 \in Lines(c)
          /\ \A i \in Pending(c)' : i \in Nat /\ i + 1 > 1 /\ i + 1 \in Pending(c)
                                    /\ toServer[i + 1] = toServer'[i]
          /\ \A i \in Lines(c)' : i \in Nat /\ i + 1 > 1 /\ i + 1 \in Lines(c)
                                  /\ toServer[i + 1] = toServer'[i]
      BY <1>1, <2>3, TailPending DEF Lines, Pending
    <3>2. CountOf(PortOf(c))' = n /\ CountOf(PortOf(c)) = n - 1
      BY <1>3, <1>5, <2>3 DEF CountOf
    <3>3. /\ n <= t /\ t <= typed[c] /\ t \in Nat /\ typed[c] \in Nat
          /\ \A i \in Lines(c)' : t < toServer'[i].text /\ toServer'[i].text <= typed[c]
                                  /\ toServer'[i].text \in Nat
      <4>1. t \in Nat /\ typed[c] \in Nat /\ \A i \in Lines(c)' : toServer'[i].text \in Nat
        BY <1>1, <3>1, SentTypes DEF Sent, EchoTypes, Lines
      <4>2. n - 1 < t /\ t <= typed[c] BY <2>1, <3>1, <3>2 DEF InStep, Ahead
      <4>3. \A i \in Lines(c)' : t < toServer'[i].text /\ toServer'[i].text <= typed[c]
        BY <2>1, <3>1 DEF InStep, Ahead
      <4>q. QED BY <1>5, <4>1, <4>2, <4>3
    <3>4. Ahead(c)'
      <4>1. \A i \in Pending(c)' \ Lines(c)' : state'[c] = "gone"
        BY <1>2, <2>1, <3>1 DEF InStep, Ahead, Lines
      <4>2. \A i, j \in Lines(c)' : i < j => toServer'[i].text < toServer'[j].text
        BY <2>1, <3>1 DEF InStep, Ahead
      <4>q. QED BY <1>2, <1>5, <3>2, <3>3, <4>1, <4>2 DEF Ahead
    <3>5. CASE inbox'[c] = inbox[c]
      <4>1. Trail(c)' = Trail(c) BY <1>2, <3>5, SameTrail
      <4>2. InOrder(c, Trail(c))' BY <1>2, <2>1, <4>1 DEF InStep, InOrder
      <4>3. Taken(c, Trail(c))'
        <5>1. \A i \in DOMAIN Trail(c) : Trail(c)[i].n \in Nat BY <1>1, TrailTypes
        <5>q. QED BY <1>2, <1>5, <2>1, <3>1, <3>2, <4>1, <5>1 DEF InStep, Taken
      <4>q. QED BY <3>4, <4>2, <4>3 DEF InStep
    <3>6. CASE state[c] = "on" /\ inbox'[c] = Append(inbox[c], x)
      <4> DEFINE a == Trail(c)
      <4>1. /\ a \in Seq(Echo!Answers)
            /\ \A i \in DOMAIN a : i \in Nat /\ a[i].text \in Nat /\ a[i].n \in Nat
        BY <1>1, TrailTypes
      <4>2. Trail(c)' = Append(a, x)
        <5>1. shown[c] \in Seq(Echo!Answers) /\ inbox[c] \in Seq(Echo!Answers)
          BY <1>1 DEF EchoTypes
        <5> HIDE DEF x
        <5>2. shown[c] \o Append(inbox[c], x) = Append(shown[c] \o inbox[c], x)
          <6> DEFINE s == shown[c]
                     q == inbox[c]
          <6>1. s \in Seq(Echo!Answers) /\ q \in Seq(Echo!Answers) /\ x \in Echo!Answers
            BY <1>1, <5>1
          <6> HIDE DEF Echo!Answers, s, q
          <6>2. s \o Append(q, x) = Append(s \o q, x) BY ONLY <6>1, Moved
          <6>q. QED BY <6>2 DEF s, q
        <5>q. QED BY <1>2, <3>6, <5>2 DEF Trail
      <4>3. \A i \in DOMAIN Append(a, x) :
              \/ i \in DOMAIN a /\ Append(a, x)[i] = a[i]
              \/ i \notin DOMAIN a /\ Append(a, x)[i] = x
                 /\ \A j \in DOMAIN Append(a, x) : j = i \/ (j < i /\ j \in DOMAIN a)
        <5> HIDE DEF a, x
        <5>q. QED BY <1>1, <4>1, LastAppended
      <4>4. \A i \in DOMAIN a : a[i].life = restarts => a[i].n < n /\ a[i].text < t
        BY <1>5, <2>1, <3>1, <3>2, <3>6, <4>1 DEF InStep, Taken
      <4>5. \A i \in DOMAIN a : a[i].n <= a[i].text /\ a[i].text <= typed[c] /\ a[i].life <= restarts
        BY <2>1 DEF InStep, InOrder
      <4>6. restarts <= restarts BY <1>1 DEF EchoTypes
      <4> HIDE DEF a, x, n, t
      <4>7. InOrder(c, Trail(c))'
        <5>1. \A i \in DOMAIN Append(a, x) :
                /\ Append(a, x)[i].n <= Append(a, x)[i].text
                /\ Append(a, x)[i].text <= typed[c] /\ Append(a, x)[i].life <= restarts
          BY <1>4, <3>3, <4>3, <4>5, <4>6
        <5>2. ASSUME NEW i \in DOMAIN Append(a, x), NEW j \in DOMAIN Append(a, x), i < j,
                     Append(a, x)[i].life = Append(a, x)[j].life
              PROVE  /\ Append(a, x)[i].n < Append(a, x)[j].n
                     /\ Append(a, x)[i].text < Append(a, x)[j].text
          <6>1. i \in DOMAIN a /\ Append(a, x)[i] = a[i]
            BY <4>1, <4>3, <5>2
          <6>2. CASE j \in DOMAIN a /\ Append(a, x)[j] = a[j]
            BY <2>1, <5>2, <6>1, <6>2 DEF InStep, InOrder, a
          <6>3. CASE Append(a, x)[j] = x
            BY <1>4, <4>4, <5>2, <6>1, <6>3
          <6>q. QED BY <4>3, <6>2, <6>3
        <5>q. QED BY <1>2, <4>2, <5>1, <5>2 DEF InOrder
      <4>8. Taken(c, Trail(c))'
        <5>1. \A i \in DOMAIN Append(a, x) : Append(a, x)[i].life = restarts =>
                /\ Append(a, x)[i].n <= n
                /\ \A k \in Lines(c)' : Append(a, x)[i].text < toServer'[k].text
          BY <1>4, <1>5, <3>3, <4>1, <4>3, <4>4
        <5>q. QED BY <1>2, <3>2, <4>2, <5>1 DEF Taken
      <4>q. QED BY <3>4, <4>7, <4>8 DEF InStep
    <3>q. QED BY <1>1, <2>3, <3>5, <3>6
  <2>q. QED BY <2>2, <2>3
<1>q. QED BY <1>1, <1>6 DEF EchoInv, InStep, Echo!Alone

\* A CLOSE at the head means that its client is gone.
LEMMA CloseStep ==
  ASSUME Echo!EchoAssumption, EchoInv, Echo!Close
  PROVE  EchoInv'
<1> DEFINE p == Head(toServer).port
<1>1. /\ EchoTypes' /\ EchoTypes
      /\ toServer # <<>> /\ toServer' = Tail(toServer)
      /\ Head(toServer) \in Sent /\ Head(toServer).text = Echo!CLOSE
      /\ CountIn(table', p) = 0
      /\ \A r \in Echo!Ports \ {p} : CountIn(table', r) = CountOf(r)
  BY CloseTypesStep DEF EchoInv
<1>2. restarts' = restarts /\ typed' = typed /\ state' = state /\ shown' = shown /\ inbox' = inbox
  BY DEF Echo!Close
<1>3. ASSUME NEW c \in EchoClients, Echo!Alone(c) PROVE InStep(c)'
  <2>1. InStep(c) /\ Trail(c)' = Trail(c) BY <1>2, <1>3, SameTrail DEF EchoInv, InStep
  <2>2. CASE PortOf(c) # p
    <3>1. PortOf(c) \in Echo!Ports \ {p} BY <2>2 DEF Echo!Ports
    <3> HIDE DEF p
    <3>q. QED BY <1>1, <1>2, <2>1, <3>1, OthersTaken
  <2>3. CASE PortOf(c) = p
    <3>1. /\ 1 \in Pending(c) \ Lines(c)
          /\ \A i \in Lines(c)' : i \in Nat /\ i + 1 \in Lines(c) /\ toServer[i + 1] = toServer'[i]
      BY <1>1, <2>3, TailPending DEF Lines, Pending
    <3>2. state[c] = "gone" BY <2>1, <3>1 DEF InStep, Ahead
    <3>3. CountOf(PortOf(c))' = 0 /\ typed[c] \in Nat
      BY <1>1, <2>3 DEF CountOf, EchoTypes
    <3>4. CountOf(PortOf(c)) \in Nat BY <1>1, EntryIn DEF CountOf, EchoTypes, TableOK
    <3>5. Ahead(c)'
      <4>1. \A i \in Lines(c)' : 0 < toServer'[i].text /\ toServer'[i].text <= typed[c]
        <5>1. \A i \in Lines(c)' : toServer[i + 1].text \in Nat
          BY <1>1, <3>1, SentTypes DEF Lines
        <5>q. QED BY <2>1, <3>1, <3>4, <5>1 DEF InStep, Ahead
      <4>2. \A i, j \in Lines(c)' : i < j => toServer'[i].text < toServer'[j].text
        BY <2>1, <3>1 DEF InStep, Ahead
      <4>q. QED BY <1>2, <3>2, <3>3, <4>1, <4>2 DEF Ahead
    <3>6. InOrder(c, Trail(c))' BY <1>2, <2>1 DEF InStep, InOrder
    <3>7. Taken(c, Trail(c))' BY <1>2, <3>2 DEF Taken
    <3>q. QED BY <3>5, <3>6, <3>7 DEF InStep
  <2>q. QED BY <2>2, <2>3
<1>q. QED BY <1>1, <1>3 DEF EchoInv, InStep, Echo!Alone

\* In the server's next life nothing is counted, and no answer is of that life.
LEMMA RestartStep ==
  ASSUME Echo!EchoAssumption, EchoInv, Echo!Restart
  PROVE  EchoInv'
<1>1. EchoTypes'
  <2>1. TableOK' BY DEF Echo!Restart, TableOK, TableIs
  <2>2. toServer' \in Seq(Sent) BY DEF Echo!Restart
  <2>q. QED BY <2>1, <2>2 DEF Echo!EchoAssumption, EchoInv, EchoTypes, Echo!Restart
<1>2. ASSUME NEW c \in EchoClients, Echo!Alone(c) PROVE InStep(c)'
  <2>1. InStep(c) /\ Trail(c)' = Trail(c)
    BY <1>2, SameTrail DEF EchoInv, InStep, Echo!Restart
  <2>2. Pending(c)' = {} /\ Lines(c)' = {} BY DEF Echo!Restart, Pending, Lines
  <2>3. CountOf(PortOf(c))' = 0 BY DEF Echo!Restart, CountOf, CountIn, At
  <2>4. typed'[c] = typed[c] /\ typed[c] \in Nat /\ restarts' = restarts + 1 /\ restarts \in Nat
    BY DEF EchoInv, EchoTypes, Echo!EchoAssumption, Echo!Restart
  <2>5. \A i \in DOMAIN Trail(c) : Trail(c)[i].life \in Nat BY TrailTypes DEF EchoInv
  <2>6. Ahead(c)' BY <2>2, <2>3, <2>4 DEF Ahead
  <2>7. InOrder(c, Trail(c))' BY <2>1, <2>4, <2>5 DEF InStep, InOrder
  <2>8. \A i \in DOMAIN Trail(c) : Trail(c)[i].life # restarts'
    BY <2>1, <2>4, <2>5 DEF InStep, InOrder
  <2>9. Taken(c, Trail(c))' BY <2>1, <2>8 DEF Taken
  <2>q. QED BY <2>6, <2>7, <2>9 DEF InStep
<1>q. QED BY <1>1, <1>2 DEF EchoInv, InStep, Echo!Alone

LEMMA EchoStutter ==
  ASSUME EchoInv, UNCHANGED echoVars
  PROVE  EchoInv'
<1>1. EchoTypes' BY DEF echoVars, EchoInv, EchoTypes, TableOK
<1>2. ASSUME NEW c \in EchoClients, Echo!Alone(c) PROVE InStep(c)'
  <2> DEFINE m == [i \in Nat |-> i]
  <2>1. InStep(c) BY <1>2 DEF EchoInv, InStep
  <2>2. \A i \in Pending(c) : i \in Nat BY SentTypes DEF EchoInv
  <2>3. Pending(c)' = Pending(c) /\ Trail(c)' = Trail(c) /\ CountOf(PortOf(c))' = CountOf(PortOf(c))
    BY DEF echoVars, Pending, Trail, CountOf
  <2>4. /\ \A i \in Pending(c)' : m[i] \in Pending(c) /\ toServer[m[i]] = toServer'[i]
        /\ \A i, j \in Pending(c)' : i < j => m[i] < m[j]
    BY <2>2, <2>3 DEF echoVars
  <2> HIDE DEF m
  <2>q. QED BY <2>1, <2>3, <2>4, Undisturbed DEF echoVars
<1>q. QED BY <1>1, <1>2 DEF EchoInv, InStep, Echo!Alone

LEMMA EchoInvStep ==
  ASSUME Echo!EchoAssumption, EchoInv, [Echo!Next]_echoVars
  PROVE  EchoInv'
<1>1. CASE Echo!Next
  BY <1>1, EchoStep, CloseStep, RestartStep, ClientQuiet, SendLineStep, SendCloseStep
  DEF Echo!Next
<1>q. QED BY <1>1, EchoStutter

--------------------------------------------------------------------------------
LEMMA CountIs == Echo!Count = [p \in Echo!Ports |-> CountOf(p)]
BY HaveIs DEF Echo!Count, CountOf, CountIn

LEMMA CountIsNext == Echo!Count' = [p \in Echo!Ports |-> CountIn(table', p)]
BY DEF Echo!Count, CountIn, Echo!Have, At

LEMMA CountersInitial == ASSUME Echo!Init PROVE Echo!Counters!Init
<1>1. \A p : CountOf(p) = 0 BY DEF Echo!Init, CountOf, CountIn, At
<1>q. QED BY <1>1, CountIs DEF Echo!Init, Echo!Counters!Init

\* Taking a datagram off counts it, or forgets its address.
LEMMA CountersTake ==
  ASSUME Echo!EchoAssumption, EchoInv, Echo!Echo \/ Echo!Close
  PROVE  Echo!Counters!Take
<1> DEFINE p == Head(toServer).port
           n == IF Head(toServer).text = Echo!CLOSE THEN 0 ELSE CountOf(p) + 1
<1>1. /\ toServer # <<>> /\ toServer' = Tail(toServer) /\ p \in Echo!Ports
      /\ CountIn(table', p) = n
      /\ \A r \in Echo!Ports \ {p} : CountIn(table', r) = CountOf(r)
  <2>1. CASE Echo!Echo
    <3>1. /\ toServer # <<>> /\ toServer' = Tail(toServer) /\ p \in Echo!Ports
          /\ Head(toServer).text # Echo!CLOSE /\ table' = Echo!Counted(p)
      BY <2>1, EchoTypesStep DEF EchoInv, Sent
    <3>2. TableOK BY DEF EchoInv, EchoTypes
    <3>q. QED BY <3>1, <3>2, CountedRaises
  <2>2. CASE Echo!Close
    BY <2>2, CloseTypesStep DEF EchoInv, Sent
  <2>q. QED BY <2>1, <2>2
<1>2. Echo!Count = [r \in Echo!Ports |-> CountOf(r)] /\ Echo!Count' = [r \in Echo!Ports |-> CountIn(table', r)]
  BY CountIs, CountIsNext
<1> HIDE DEF p
<1>3. Echo!Count' = [Echo!Count EXCEPT ![p] = IF Head(toServer).text = Echo!CLOSE THEN 0 ELSE @ + 1]
  BY <1>1, <1>2
<1>q. QED BY <1>1, <1>3 DEF Echo!Counters!Take, p

LEMMA CountersRestart == ASSUME Echo!Restart PROVE Echo!Counters!Restart
<1>1. \A p : CountIn(table', p) = 0 BY DEF Echo!Restart, CountIn, At
<1>q. QED BY <1>1, CountIsNext DEF Echo!Restart, Echo!Counters!Restart

\* A datagram comes, or is lost.
LEMMA CountersCome ==
  ASSUME Echo!EchoAssumption, EchoInv, NEW d \in EchoClients, Echo!SendLine(d) \/ Echo!SendClose(d)
  PROVE  Echo!Counters!Come \/ UNCHANGED <<Echo!Count, toServer>>
<1>1. Echo!Count' = Echo!Count
  BY DEF Echo!SendLine, Echo!SendClose, Echo!Count, Echo!Have
<1>2. PICK x \in Sent : toServer' = Echo!Queued(toServer, x)
  BY SendLineTypes, SendCloseTypes DEF EchoInv, Echo!SendLine, Echo!SendClose
<1>3. toServer \in Seq(Sent) BY SMTT(30) DEF EchoInv, EchoTypes
<1> HIDE DEF Sent
<1>4. CASE toServer' = Append(toServer, x)
  <2>1. Len(Append(toServer, x)) = Len(toServer) + 1 BY <1>3
  <2>2. SubSeq(Append(toServer, x), 1, Len(toServer)) = toServer BY <1>3
  <2>q. QED BY <1>1, <1>4, <2>1, <2>2 DEF Echo!Counters!Come
<1>q. QED BY <1>1, <1>2, <1>3, <1>4, QueuedIs

LEMMA CountersStep ==
  ASSUME Echo!EchoAssumption, EchoInv, [Echo!Next]_echoVars
  PROVE  [Echo!Counters!Next]_(Echo!Counters!vars)
<1>1. CASE Echo!Echo \/ Echo!Close BY <1>1, CountersTake DEF Echo!Counters!Next
<1>2. CASE Echo!Restart BY <1>2, CountersRestart DEF Echo!Counters!Next
<1>3. CASE \E d \in EchoClients : Echo!SendLine(d) \/ Echo!SendClose(d)
  BY <1>3, CountersCome DEF Echo!Counters!Next, Echo!Counters!vars
<1>4. CASE table' = table /\ toServer' = toServer
  BY <1>4 DEF Echo!Counters!vars, Echo!Count, Echo!Have
<1>q. QED
  BY <1>1, <1>2, <1>3, <1>4
  DEF Echo!Next, echoVars, Echo!Start, Echo!Die, Echo!ReadAnswer

--------------------------------------------------------------------------------
(* The pool of workers (PullThreads) *)

PoolMarked == {w \in Pull!Workers : ~idx_threads[w]}

LEMMA PoolMarkedFinite ==
  ASSUME Pull!PullAssumption
  PROVE  IsFiniteSet(PoolMarked) /\ Cardinality(PoolMarked) \in 0 .. Threads
<1>1. IsFiniteSet(Pull!Workers) /\ Cardinality(Pull!Workers) = Threads
  <2>1. 0 \in Int /\ Threads - 1 \in Int BY DEF Pull!PullAssumption
  <2>q. QED BY <2>1, FS_Interval DEF Pull!Workers, Pull!PullAssumption
<1>2. PoolMarked \subseteq Pull!Workers BY DEF PoolMarked
<1>3. IsFiniteSet(PoolMarked) /\ Cardinality(PoolMarked) <= Threads
  BY <1>1, <1>2, FS_Subset
<1>4. Cardinality(PoolMarked) \in Nat BY <1>3, FS_CardinalityType
<1>q. QED BY <1>3, <1>4 DEF Pull!PullAssumption

\* The types but for the upper bound of count, which is a matter of the marks.
PoolTypes ==
  /\ idx_threads \in [Pull!Workers -> BOOLEAN]
  /\ count \in Int /\ count >= -MaxBelow
  /\ fd_socket \in Fds \cup {None}
  /\ at \in {"accept", "mark", "refuse", "signal"}
  /\ main_fd \in Fds \cup {None}
  /\ idx \in Pull!Workers
  /\ pc \in [Pull!Workers -> {"idle", "wait", "send", "close", "done"}]
  /\ fd \in [Pull!Workers -> Fds \cup {None}]
  /\ conn \in [Fds -> Clients \cup {None}]
  /\ client \in [Clients -> {"away", "backlog", "open", "closed"}]
  /\ outcome \in [Clients -> {"none", "answered", "refused"}]
  /\ spurious \in 0 .. MaxSpurious
  /\ disturbed \in BOOLEAN /\ running \in BOOLEAN

PoolBounded == count <= Cardinality(PoolMarked)

LEMMA PoolCardinality == ASSUME NEW S PROVE Pull!Cardinality(S) = Cardinality(S)
BY DEF Pull!Cardinality, Cardinality

LEMMA PoolTypesAndBound ==
  ASSUME Pull!PullAssumption, PoolTypes, PoolBounded PROVE Pull!CountedAreMarked
<1>1. count <= Threads
  BY PoolMarkedFinite DEF PoolBounded, PoolTypes, Pull!PullAssumption
<1>2. count \in -MaxBelow .. Threads BY <1>1 DEF PoolTypes, Pull!PullAssumption
<1>q. QED
  BY <1>2, PoolCardinality
  DEF PoolTypes, PoolBounded, PoolMarked, Pull!CountedAreMarked, Pull!TypeOK

--------------------------------------------------------------------------------
LEMMA PoolAnsweredType ==
  ASSUME PoolTypes, NEW f \in Fds \cup {None}, NEW a \in {"answered", "refused"}
  PROVE  Pull!Answered(f, a) \in [Clients -> {"none", "answered", "refused"}]
BY DEF PoolTypes, Pull!Answered, Pull!Connected

LEMMA PoolHangupType ==
  ASSUME PoolTypes, NEW f \in Fds \cup {None}, Pull!Hangup(f)
  PROVE  /\ conn' \in [Fds -> Clients \cup {None}]
         /\ client' \in [Clients -> {"away", "backlog", "open", "closed"}]
BY DEF PoolTypes, Pull!Hangup, Pull!Connected

LEMMA PoolInitial ==
  ASSUME Pull!PullAssumption, Pull!Init PROVE PoolTypes /\ PoolBounded
<1>1. PoolTypes
  <2>1. idx \in Pull!Workers BY DEF Pull!Init, Pull!Workers, Pull!PullAssumption
  <2>2. idx_threads \in [Pull!Workers -> BOOLEAN] BY DEF Pull!Init
  <2>3. pc \in [Pull!Workers -> {"idle", "wait", "send", "close", "done"}]
    BY DEF Pull!Init
  <2>4. fd \in [Pull!Workers -> Fds \cup {None}] /\ conn \in [Fds -> Clients \cup {None}]
    BY DEF Pull!Init
  <2>5. client \in [Clients -> {"away", "backlog", "open", "closed"}] BY DEF Pull!Init
  <2>6. outcome \in [Clients -> {"none", "answered", "refused"}] BY DEF Pull!Init
  <2>7. count \in Int /\ count >= -MaxBelow /\ spurious \in 0 .. MaxSpurious
    BY DEF Pull!Init, Pull!PullAssumption
  <2>q. QED BY <2>1, <2>2, <2>3, <2>4, <2>5, <2>6, <2>7 DEF Pull!Init, PoolTypes
<1>2. PoolBounded BY PoolMarkedFinite DEF Pull!Init, PoolBounded, Pull!PullAssumption
<1>q. QED BY <1>1, <1>2

LEMMA PoolTypesStep == ASSUME Pull!PullAssumption, PoolTypes, Pull!Next PROVE PoolTypes'
<1>1. ASSUME NEW c \in Clients, Pull!Connect(c) PROVE PoolTypes'
  BY <1>1 DEF PoolTypes, Pull!Connect, Pull!shared, Pull!main, Pull!workers
<1>2. ASSUME NEW c \in Clients, NEW f \in Fds, Pull!Accept(c, f) PROVE PoolTypes'
  BY <1>2 DEF PoolTypes, Pull!Accept, Pull!shared, Pull!workers
<1>3. ASSUME NEW i \in Pull!Workers, Pull!Mark(i) PROVE PoolTypes'
  BY <1>3 DEF Pull!PullAssumption, PoolTypes, Pull!Mark, Pull!workers, Pull!kernel
<1>4. CASE Pull!Refuse
  BY <1>4, PoolAnsweredType DEF PoolTypes, Pull!Refuse, Pull!shared, Pull!workers
<1>5. CASE Pull!CloseRefused
  <2>1. Pull!Hangup(main_fd) BY <1>5 DEF Pull!CloseRefused
  <2>q. QED
    BY <1>5, <2>1, PoolHangupType
    DEF PoolTypes, Pull!CloseRefused, Pull!shared, Pull!workers
<1>6. CASE Pull!Signal
  BY <1>6 DEF PoolTypes, Pull!Signal, Pull!shared, Pull!kernel
<1>7. ASSUME NEW w \in Pull!Workers, Pull!Wait(w) PROVE PoolTypes'
  BY <1>7 DEF PoolTypes, Pull!Wait, Pull!shared, Pull!main, Pull!kernel
<1>8. ASSUME NEW w \in Pull!Workers, Pull!SpuriousWakeup(w) PROVE PoolTypes'
  BY <1>8
  DEF Pull!PullAssumption, PoolTypes, Pull!SpuriousWakeup, Pull!shared, Pull!main,
    Pull!kernel
<1>9. ASSUME NEW w \in Pull!Workers, Pull!Take(w) PROVE PoolTypes'
  BY <1>9 DEF PoolTypes, Pull!Take, Pull!shared, Pull!main, Pull!kernel
<1>10. ASSUME NEW w \in Pull!Workers, Pull!Send(w) PROVE PoolTypes'
  BY <1>10, PoolAnsweredType DEF PoolTypes, Pull!Send, Pull!shared, Pull!main
<1>11. ASSUME NEW w \in Pull!Workers, Pull!Close(w) PROVE PoolTypes'
  <2>1. fd[w] \in Fds \cup {None} /\ Pull!Hangup(fd[w])
    BY <1>11 DEF PoolTypes, Pull!Close
  <2>q. QED
    BY <1>11, <2>1, PoolHangupType DEF PoolTypes, Pull!Close, Pull!shared, Pull!main
<1>12. ASSUME NEW w \in Pull!Workers, Pull!Done(w) PROVE PoolTypes'
  BY <1>12 DEF Pull!PullAssumption, PoolTypes, Pull!Done, Pull!main, Pull!kernel
<1>13. CASE Pull!Interrupt
  BY <1>13 DEF PoolTypes, Pull!Interrupt, Pull!shared, Pull!main, Pull!workers
<1>q. QED
  BY <1>1, <1>2, <1>3, <1>4, <1>5, <1>6, <1>7, <1>8, <1>9, <1>10, <1>11, <1>12, <1>13
  DEF Pull!Next, Pull!MainStep, Pull!WorkerStep

--------------------------------------------------------------------------------
\* One more is announced, and one more is marked.
LEMMA PoolMarkBound ==
  ASSUME Pull!PullAssumption, PoolTypes, PoolBounded, NEW i \in Pull!Workers, Pull!Mark(i)
  PROVE  PoolBounded'
<1>1. PoolMarked' = PoolMarked \cup {i} /\ i \notin PoolMarked
  BY DEF PoolTypes, Pull!Mark, PoolMarked
<1>2. Cardinality(PoolMarked') = Cardinality(PoolMarked) + 1
  BY <1>1, PoolMarkedFinite, FS_AddElement
<1>q. QED BY <1>2, PoolMarkedFinite DEF PoolTypes, PoolBounded, Pull!Mark

\* One less is announced, and at most one less is marked.
LEMMA PoolDoneBound ==
  ASSUME Pull!PullAssumption, PoolTypes, PoolBounded, NEW w \in Pull!Workers, Pull!Done(w)
  PROVE  PoolBounded'
<1>1. PoolMarked' = PoolMarked \ {w} BY DEF PoolTypes, Pull!Done, PoolMarked
<1>2. Cardinality(PoolMarked') >= Cardinality(PoolMarked) - 1
  <2>1. Cardinality(PoolMarked') = IF w \in PoolMarked THEN Cardinality(PoolMarked) - 1 ELSE Cardinality(PoolMarked)
    BY <1>1, PoolMarkedFinite, FS_RemoveElement
  <2>q. QED BY <2>1, PoolMarkedFinite
<1>3. Cardinality(PoolMarked') \in Int BY <1>1, PoolMarkedFinite, FS_RemoveElement
<1>q. QED BY <1>2, <1>3, PoolMarkedFinite DEF PoolTypes, PoolBounded, Pull!Done

LEMMA PoolBoundStep ==
  ASSUME Pull!PullAssumption, PoolTypes, PoolBounded, Pull!Next PROVE PoolBounded'
<1>1. CASE UNCHANGED <<idx_threads, count>> BY <1>1 DEF PoolBounded, PoolMarked
<1>2. CASE \E i \in Pull!Workers : Pull!Mark(i) BY <1>2, PoolMarkBound
<1>3. CASE \E w \in Pull!Workers : Pull!Done(w) BY <1>3, PoolDoneBound
<1>q. QED
  BY <1>1, <1>2, <1>3
  DEF Pull!Next, Pull!MainStep, Pull!WorkerStep, Pull!Connect, Pull!Accept, Pull!Refuse,
    Pull!CloseRefused, Pull!Signal, Pull!Wait, Pull!SpuriousWakeup, Pull!Take,
    Pull!Send, Pull!Close, Pull!Interrupt, Pull!shared

\* The stages of the one connection there is while nobody is disturbed.
PoolAllWait == \A w \in Pull!Workers : pc[w] = "wait"
PoolAllIdle == count = 0 /\ \A w \in Pull!Workers : idx_threads[w]
OneBusy(i) == count = 1 /\ ~idx_threads[i] /\ \A w \in Pull!Workers \ {i} : idx_threads[w]
PoolNoneOpen == \A f \in Fds : conn[f] = None
OneOpen(c, f) == client[c] = "open" /\ conn[f] = c /\ \A g \in Fds \ {f} : conn[g] = None
PoolQuiet(C) == \A d \in C : client[d] \in {"away", "closed"}

Resting ==
  /\ at = "accept" /\ PoolAllIdle /\ PoolNoneOpen /\ PoolQuiet(Clients)
  /\ \A w \in Pull!Workers : pc[w] \in {"idle", "wait"}

Arrived(c) ==
  /\ at = "accept" /\ PoolAllIdle /\ PoolNoneOpen /\ PoolAllWait
  /\ client[c] = "backlog" /\ PoolQuiet(Clients \ {c})

Accepted(c, f) ==
  /\ at = "mark" /\ PoolAllIdle /\ OneOpen(c, f) /\ PoolAllWait
  /\ main_fd = f /\ PoolQuiet(Clients \ {c})

Announced(c, f, i) ==
  /\ at = "signal" /\ OneBusy(i) /\ OneOpen(c, f) /\ PoolAllWait
  /\ idx = i /\ fd_socket = f /\ PoolQuiet(Clients \ {c})

Serving(c, f, i) ==
  /\ at = "accept" /\ OneBusy(i) /\ OneOpen(c, f) /\ PoolQuiet(Clients \ {c})
  /\ \A w \in Pull!Workers \ {i} : pc[w] = "wait"
  /\ \/ pc[i] = "idle" /\ fd_socket = f
     \/ pc[i] = "send" /\ fd[i] = f
     \/ pc[i] = "close" /\ fd[i] = f /\ outcome[c] = "answered"

Served(i) ==
  /\ at = "accept" /\ OneBusy(i) /\ PoolNoneOpen /\ PoolQuiet(Clients)
  /\ \A w \in Pull!Workers \ {i} : pc[w] = "wait"
  /\ pc[i] = "done"

Stages ==
  \/ Resting
  \/ \E c \in Clients :
       \/ Arrived(c)
       \/ \E f \in Fds : Accepted(c, f)
                         \/ \E i \in Pull!Workers : Announced(c, f, i) \/ Serving(c, f, i)
  \/ \E i \in Pull!Workers : Served(i)

AllAnswered == \A c \in Clients : client[c] = "closed" => outcome[c] = "answered"

OneAtATime == running /\ ~disturbed => Stages /\ AllAnswered

LEMMA OneAtATimeSays ==
  ASSUME Pull!PullAssumption, PoolTypes, OneAtATime PROVE Pull!RestIsClean
<1>1. SUFFICES ASSUME running, ~disturbed, Pull!Calm, Stages
               PROVE  count = 0 /\ (\A w \in Pull!Workers : idx_threads[w]) /\ PoolNoneOpen
  BY DEF OneAtATime, Pull!RestIsClean, AllAnswered, PoolNoneOpen
<1>2. CASE Resting BY <1>2 DEF Resting, PoolAllIdle
<1>3. ASSUME NEW c \in Clients, Arrived(c) PROVE FALSE
  BY <1>1, <1>3 DEF Arrived, Pull!Calm
<1>4. ASSUME NEW c \in Clients, NEW f \in Fds, Accepted(c, f) PROVE FALSE
  BY <1>1, <1>4 DEF Accepted, Pull!Calm
<1>5. ASSUME NEW c \in Clients, NEW f \in Fds, NEW i \in Pull!Workers, Announced(c, f, i)
      PROVE  FALSE
  BY <1>1, <1>5 DEF Announced, Pull!Calm
<1>6. ASSUME NEW c \in Clients, NEW f \in Fds, NEW i \in Pull!Workers, Serving(c, f, i)
      PROVE  FALSE
  BY <1>1, <1>6 DEF Serving, Pull!Calm
<1>7. ASSUME NEW i \in Pull!Workers, Served(i) PROVE FALSE
  BY <1>1, <1>7 DEF Served, Pull!Calm
<1>q. QED BY <1>1, <1>2, <1>3, <1>4, <1>5, <1>6, <1>7 DEF Stages

LEMMA OneAtATimeInitial == ASSUME Pull!PullAssumption, Pull!Init PROVE OneAtATime
<1>1. Resting BY DEF Pull!Init, Resting, PoolAllIdle, PoolNoneOpen, PoolQuiet
<1>q. QED BY <1>1 DEF Pull!Init, OneAtATime, Stages, AllAnswered

LEMMA HangupOfOne ==
  ASSUME Pull!PullAssumption, PoolTypes, NEW c \in Clients, NEW f \in Fds, OneOpen(c, f), Pull!Hangup(f)
  PROVE  /\ PoolNoneOpen' /\ client' = [client EXCEPT ![c] = "closed"]
<1>1. Pull!Connected(f) BY DEF OneOpen, Pull!Connected, Pull!PullAssumption
<1>q. QED BY <1>1 DEF Pull!Hangup, OneOpen, PoolNoneOpen, PoolTypes

\* Each stage leads to the next or to itself, unless somebody disturbs.
LEMMA FromResting ==
  ASSUME Pull!PullAssumption, PoolTypes, Resting, AllAnswered, Pull!Next, running', ~disturbed'
  PROVE  Stages' /\ AllAnswered'
<1> USE DEF Resting, PoolAllIdle, PoolNoneOpen, PoolQuiet
<1>1. ASSUME NEW c \in Clients, Pull!Connect(c) PROVE Arrived(c)' /\ AllAnswered'
  BY <1>1
  DEF Pull!Connect, Pull!Calm, Arrived, PoolAllWait, AllAnswered, PoolTypes,
    Pull!shared, Pull!main, Pull!workers
<1>2. ASSUME NEW w \in Pull!Workers, Pull!Wait(w) PROVE Resting' /\ AllAnswered'
  BY <1>2 DEF Pull!Wait, AllAnswered, PoolTypes, Pull!shared, Pull!main, Pull!kernel
<1>3. ~Pull!MainStep
  BY DEF Pull!MainStep, Pull!Accept, Pull!Mark, Pull!Refuse, Pull!CloseRefused,
    Pull!Signal
<1>4. ~(\E w \in Pull!Workers : Pull!Take(w) \/ Pull!Send(w) \/ Pull!Close(w) \/ Pull!Done(w))
  BY DEF Pull!Take, Pull!Send, Pull!Close, Pull!Done
<1>5. ~(\E w \in Pull!Workers : Pull!SpuriousWakeup(w)) /\ ~Pull!Interrupt
  BY DEF Pull!SpuriousWakeup, Pull!Interrupt
<1>q. QED BY <1>1, <1>2, <1>3, <1>4, <1>5 DEF Pull!Next, Pull!WorkerStep, Stages

LEMMA FromArrived ==
  ASSUME Pull!PullAssumption, PoolTypes, NEW c \in Clients, Arrived(c), AllAnswered, Pull!Next,
         running', ~disturbed'
  PROVE  Stages' /\ AllAnswered'
<1> USE DEF Arrived, PoolAllIdle, PoolNoneOpen, PoolQuiet, PoolAllWait
<1>1. ~(\E d \in Clients : Pull!Connect(d)) BY DEF Pull!Connect, Pull!Calm
<1>2. ASSUME NEW d \in Clients, NEW f \in Fds, Pull!Accept(d, f)
      PROVE  Accepted(c, f)' /\ AllAnswered'
  <2>1. d = c BY <1>2 DEF Pull!Accept
  <2>q. QED
    BY <1>2, <2>1
    DEF Pull!Accept, Accepted, OneOpen, AllAnswered, PoolTypes, Pull!shared,
      Pull!workers
<1>3. ~(\E i \in Pull!Workers : Pull!Mark(i)) /\ ~Pull!Refuse /\ ~Pull!CloseRefused /\ ~Pull!Signal
  BY DEF Pull!Mark, Pull!Refuse, Pull!CloseRefused, Pull!Signal
<1>4. ~(\E w \in Pull!Workers : Pull!WorkerStep(w))
  BY DEF Pull!WorkerStep, Pull!Wait, Pull!Take, Pull!Send, Pull!Close, Pull!Done
<1>5. ~(\E w \in Pull!Workers : Pull!SpuriousWakeup(w)) /\ ~Pull!Interrupt
  BY DEF Pull!SpuriousWakeup, Pull!Interrupt
<1>q. QED BY <1>1, <1>2, <1>3, <1>4, <1>5 DEF Pull!Next, Pull!MainStep, Stages

LEMMA FromAccepted ==
  ASSUME Pull!PullAssumption, PoolTypes, NEW c \in Clients, NEW f \in Fds, Accepted(c, f),
         AllAnswered, Pull!Next, running', ~disturbed'
  PROVE  Stages' /\ AllAnswered'
<1> USE DEF Accepted, PoolAllIdle, OneOpen, PoolQuiet, PoolAllWait
<1>1. ~(\E d \in Clients : Pull!Connect(d)) BY DEF Pull!Connect, Pull!Calm
<1>2. ASSUME NEW i \in Pull!Workers, Pull!Mark(i)
      PROVE  Announced(c, f, i)' /\ AllAnswered'
  BY <1>2
  DEF Pull!Mark, Announced, OneBusy, AllAnswered, PoolTypes, Pull!workers, Pull!kernel
<1>3. ~Pull!Refuse
  <2>1. 0 \in Pull!Workers BY DEF Pull!Workers, Pull!PullAssumption
  <2>q. QED BY <2>1 DEF Pull!Refuse
<1>4. ~(\E d \in Clients, g \in Fds : Pull!Accept(d, g)) /\ ~Pull!CloseRefused /\ ~Pull!Signal
  BY DEF Pull!Accept, Pull!CloseRefused, Pull!Signal
<1>5. ~(\E w \in Pull!Workers : Pull!WorkerStep(w))
  BY DEF Pull!WorkerStep, Pull!Wait, Pull!Take, Pull!Send, Pull!Close, Pull!Done
<1>6. ~(\E w \in Pull!Workers : Pull!SpuriousWakeup(w)) /\ ~Pull!Interrupt
  BY DEF Pull!SpuriousWakeup, Pull!Interrupt
<1>q. QED BY <1>1, <1>2, <1>3, <1>4, <1>5, <1>6 DEF Pull!Next, Pull!MainStep, Stages

LEMMA FromAnnounced ==
  ASSUME Pull!PullAssumption, PoolTypes, NEW c \in Clients, NEW f \in Fds, NEW i \in Pull!Workers,
         Announced(c, f, i), AllAnswered, Pull!Next, running', ~disturbed'
  PROVE  Stages' /\ AllAnswered'
<1> USE DEF Announced, OneBusy, OneOpen, PoolQuiet, PoolAllWait
<1>1. ~(\E d \in Clients : Pull!Connect(d)) BY DEF Pull!Connect, Pull!Calm
<1>2. CASE Pull!Signal
  <2>1. Serving(c, f, i)' /\ AllAnswered'
    BY <1>2 DEF Pull!Signal, Serving, AllAnswered, PoolTypes, Pull!shared, Pull!kernel
  <2>q. QED BY <2>1 DEF Stages
<1>3. ~(\E d \in Clients, g \in Fds : Pull!Accept(d, g)) /\ ~(\E j \in Pull!Workers : Pull!Mark(j))
      /\ ~Pull!Refuse /\ ~Pull!CloseRefused
  BY DEF Pull!Accept, Pull!Mark, Pull!Refuse, Pull!CloseRefused
<1>4. ~(\E w \in Pull!Workers : Pull!WorkerStep(w))
  BY DEF Pull!WorkerStep, Pull!Wait, Pull!Take, Pull!Send, Pull!Close, Pull!Done
<1>5. ~(\E w \in Pull!Workers : Pull!SpuriousWakeup(w)) /\ ~Pull!Interrupt
  BY DEF Pull!SpuriousWakeup, Pull!Interrupt
<1>q. QED BY <1>1, <1>2, <1>3, <1>4, <1>5 DEF Pull!Next, Pull!MainStep

LEMMA FromServing ==
  ASSUME Pull!PullAssumption, PoolTypes, NEW c \in Clients, NEW f \in Fds, NEW i \in Pull!Workers,
         Serving(c, f, i), AllAnswered, Pull!Next, running', ~disturbed'
  PROVE  Stages' /\ AllAnswered'
<1> USE DEF Serving, OneBusy, OneOpen, PoolQuiet
<1>1. ~(\E d \in Clients : Pull!Connect(d)) BY DEF Pull!Connect, Pull!Calm
<1>2. ~(\E w \in Pull!Workers : Pull!Wait(w) \/ Pull!Done(w))
  <2>1. count # 0 OBVIOUS
  <2>2. \A w \in Pull!Workers : pc[w] # "done" OBVIOUS
  <2>q. QED BY <2>1, <2>2 DEF Pull!Wait, Pull!Done
<1>3. ASSUME NEW w \in Pull!Workers, Pull!Take(w)
      PROVE  Serving(c, f, i)' /\ AllAnswered'
  <2>1. w = i /\ pc[i] = "idle" BY <1>3 DEF Pull!Take
  <2>q. QED
    BY <1>3, <2>1
    DEF Pull!Take, AllAnswered, PoolTypes, Pull!shared, Pull!main, Pull!kernel
<1>4. ASSUME NEW w \in Pull!Workers, Pull!Send(w)
      PROVE  Serving(c, f, i)' /\ AllAnswered'
  <2>1. w = i /\ pc[i] = "send" /\ fd[i] = f BY <1>4 DEF Pull!Send
  <2>2. outcome' = [outcome EXCEPT ![c] = "answered"]
    BY <1>4, <2>1 DEF Pull!Send, Pull!Answered, Pull!Connected, Pull!PullAssumption
  <2>q. QED
    BY <1>4, <2>1, <2>2 DEF Pull!Send, AllAnswered, PoolTypes, Pull!shared, Pull!main
<1>5. ASSUME NEW w \in Pull!Workers, Pull!Close(w) PROVE Served(i)' /\ AllAnswered'
  <2>1. w = i /\ pc[i] = "close" /\ fd[i] = f /\ outcome[c] = "answered"
    BY <1>5 DEF Pull!Close
  <2>2. PoolNoneOpen' /\ client' = [client EXCEPT ![c] = "closed"]
    BY <1>5, <2>1, HangupOfOne DEF Pull!Close
  <2>q. QED
    BY <1>5, <2>1, <2>2
    DEF Pull!Close, Served, AllAnswered, PoolTypes, Pull!shared, Pull!main
<1>6. ~(\E d \in Clients, g \in Fds : Pull!Accept(d, g)) /\ ~(\E j \in Pull!Workers : Pull!Mark(j))
      /\ ~Pull!Refuse /\ ~Pull!CloseRefused /\ ~Pull!Signal
  BY DEF Pull!Accept, Pull!Mark, Pull!Refuse, Pull!CloseRefused, Pull!Signal
<1>7. ~(\E w \in Pull!Workers : Pull!SpuriousWakeup(w)) /\ ~Pull!Interrupt
  BY DEF Pull!SpuriousWakeup, Pull!Interrupt
<1>q. QED
  BY <1>1, <1>2, <1>3, <1>4, <1>5, <1>6, <1>7
  DEF Pull!Next, Pull!MainStep, Pull!WorkerStep, Stages

LEMMA FromServed ==
  ASSUME Pull!PullAssumption, PoolTypes, NEW i \in Pull!Workers, Served(i), AllAnswered, Pull!Next,
         running', ~disturbed'
  PROVE  Stages' /\ AllAnswered'
<1> USE DEF Served, OneBusy, PoolNoneOpen, PoolQuiet
<1>1. ~(\E d \in Clients : Pull!Connect(d)) BY DEF Pull!Connect, Pull!Calm
<1>2. ASSUME NEW w \in Pull!Workers, Pull!Done(w) PROVE Resting' /\ AllAnswered'
  <2>1. w = i BY <1>2 DEF Pull!Done
  <2>q. QED
    BY <1>2, <2>1
    DEF Pull!Done, Resting, PoolAllIdle, AllAnswered, PoolTypes, Pull!main, Pull!kernel
<1>3. ~(\E w \in Pull!Workers : Pull!Wait(w) \/ Pull!Take(w) \/ Pull!Send(w) \/ Pull!Close(w))
  BY DEF Pull!Wait, Pull!Take, Pull!Send, Pull!Close
<1>4. ~Pull!MainStep
  BY DEF Pull!MainStep, Pull!Accept, Pull!Mark, Pull!Refuse, Pull!CloseRefused,
    Pull!Signal
<1>5. ~(\E w \in Pull!Workers : Pull!SpuriousWakeup(w)) /\ ~Pull!Interrupt
  BY DEF Pull!SpuriousWakeup, Pull!Interrupt
<1>q. QED BY <1>1, <1>2, <1>3, <1>4, <1>5 DEF Pull!Next, Pull!WorkerStep, Stages

LEMMA OneAtATimeStep ==
  ASSUME Pull!PullAssumption, PoolTypes, OneAtATime, Pull!Next PROVE OneAtATime'
<1>1. SUFFICES ASSUME running', ~disturbed' PROVE Stages' /\ AllAnswered'
  BY DEF OneAtATime
<1>2. running /\ ~disturbed
  BY <1>1
  DEF PoolTypes, Pull!Next, Pull!MainStep, Pull!WorkerStep, Pull!Connect, Pull!Accept,
    Pull!Mark, Pull!Refuse, Pull!CloseRefused, Pull!Signal, Pull!Wait,
    Pull!SpuriousWakeup, Pull!Take, Pull!Send, Pull!Close, Pull!Done, Pull!Interrupt
<1>3. Stages /\ AllAnswered BY <1>2 DEF OneAtATime
<1>q. QED
  BY <1>1, <1>3, FromResting, FromArrived, FromAccepted, FromAnnounced, FromServing,
    FromServed DEF Stages

LEMMA OneAtATimeStutter == ASSUME OneAtATime, UNCHANGED pullVars PROVE OneAtATime'
BY DEF OneAtATime, Stages, AllAnswered, Resting, Arrived, Accepted, Announced, Serving,
  Served, PoolAllWait, PoolAllIdle, OneBusy, PoolNoneOpen, OneOpen, PoolQuiet, pullVars,
  Pull!shared, Pull!main, Pull!workers, Pull!kernel

\* The whole of it.
PoolInv == PoolTypes /\ PoolBounded /\ OneAtATime

LEMMA PoolStart == ASSUME Pull!PullAssumption, Pull!Init PROVE PoolInv
BY PoolInitial, OneAtATimeInitial DEF PoolInv

LEMMA PoolStep == ASSUME Pull!PullAssumption, PoolInv, [Pull!Next]_pullVars PROVE PoolInv'
<1>1. CASE Pull!Next BY <1>1, PoolTypesStep, PoolBoundStep, OneAtATimeStep DEF PoolInv
<1>2. CASE UNCHANGED pullVars
  BY <1>2, OneAtATimeStutter
  DEF PoolInv, PoolTypes, PoolBounded, PoolMarked, pullVars, Pull!shared, Pull!main,
    Pull!workers, Pull!kernel
<1>q. QED BY <1>1, <1>2

--------------------------------------------------------------------------------
(* The loaded commands (Plugins) *)

LEMMA CommandsKeep ==
  ASSUME NEW s, NEW S PROVE Commands!Keep(s, S) = Keep(s, S)
BY DEF Commands!Keep, Commands!KeptOf, Keep, KeptOf

Slot == [lib : BOOLEAN, func : Nat]

\* The slot after the counted ones is the only one that may have been written in vain,
\* and the list has room for one more than that.
PluginsTypes ==
  /\ entries \in Seq(Commands!Kinds)
  /\ slots \in Seq(Slot)
  /\ listSize \in Nat /\ listCapacity \in Nat
  /\ phase \in {"load", "menu", "end"} /\ called \in {"nothing", "function"}
  /\ Commands!Good \in Seq(Nat \ {0})

PluginsCounted ==
  /\ listSize = Len(Commands!Good)
  /\ listSize <= Len(slots) /\ Len(slots) <= listSize + 1
  /\ listSize < listCapacity - 1
  /\ \A k \in 1 .. listSize : slots[k] = [lib |-> TRUE, func |-> Commands!Good[k]]

PluginsInv == PluginsTypes /\ PluginsCounted

\* What the next entry adds to the numbers of the plugins.
LEMMA GoodNext ==
  ASSUME entries \in Seq(Commands!Kinds), NEW kind \in Commands!Kinds,
         entries' = Append(entries, kind)
  PROVE  Commands!Good' =
           IF kind = "good" THEN Append(Commands!Good, Len(entries) + 1) ELSE Commands!Good
<1> DEFINE n == Len(entries)
           ids == [k \in 1 .. n |-> k]
           old == {k \in 1 .. n : entries[k] = "good"}
           more == [k \in 1 .. n + 1 |-> k]
           new == {k \in 1 .. n + 1 : entries'[k] = "good"}
<1>1. /\ n \in Nat /\ DOMAIN entries = 1 .. n /\ DOMAIN entries' = 1 .. n + 1
      /\ \A k \in 1 .. n : entries'[k] = entries[k]
      /\ entries'[n + 1] = kind
  BY AppendProperties, LenProperties
<1>2. Commands!Good = Keep(ids, old) /\ Commands!Good' = Keep(more, new)
  BY <1>1, CommandsKeep DEF Commands!Good
<1> HIDE DEF n
<1>3. ids \in Seq(Nat) /\ Len(ids) = n BY <1>1, FunctionIsSeq
<1>4. Append(ids, n + 1) = more
  <2>1. more \in Seq(Nat) /\ Len(more) = n + 1 BY <1>1, FunctionIsSeq
  <2>2. Append(ids, n + 1) \in Seq(Nat) /\ Len(Append(ids, n + 1)) = n + 1
        /\ \A k \in 1 .. n + 1 : Append(ids, n + 1)[k] = k
    BY <1>1, <1>3
  <2>q. QED BY <1>1, <2>1, <2>2, SeqEqual
<1>5. Keep(more, new) = IF n + 1 \in new THEN Append(Keep(ids, new), n + 1) ELSE Keep(ids, new)
  <2> DEFINE m == n + 1
  <2>1. m \in Nat BY <1>1
  <2>2. ids \in Seq(Nat) BY <1>3
  <2> HIDE DEF ids, more, new, m
  <2>3. Keep(Append(ids, m), new) = IF m \in new THEN Append(Keep(ids, new), m) ELSE Keep(ids, new)
    BY ONLY <2>1, <2>2, KeepAppend
  <2>q. QED BY <1>4, <2>3 DEF m
<1>6. Keep(ids, new) = Keep(ids, old)
  BY <1>1, <1>3, KeepSame
<1>7. n + 1 \in new <=> kind = "good" BY <1>1
<1>q. QED BY <1>2, <1>5, <1>6, <1>7 DEF n

\* What is put behind the counted slots.
LEMMA PutIs ==
  ASSUME NEW R, NEW s \in Seq(R), NEW k \in Nat, NEW x \in R,
         k <= Len(s), Len(s) <= k + 1,
         NEW u, u = IF k < Len(s) THEN [s EXCEPT ![k + 1] = x] ELSE Append(s, x)
  PROVE  u \in Seq(R) /\ Len(u) = k + 1 /\ u[k + 1] = x /\ \A j \in 1 .. k : u[j] = s[j]
<1>1. CASE k < Len(s)
  <2>1. Len(s) = k + 1 /\ u = [s EXCEPT ![k + 1] = x] BY <1>1
  <2>q. QED BY <2>1, ExceptSeq
<1>2. CASE ~(k < Len(s))
  <2>1. Len(s) = k /\ u = Append(s, x) BY <1>2
  <2>q. QED BY <2>1, AppendProperties
<1>q. QED BY <1>1, <1>2

LEMMA PluginsInitial == ASSUME Commands!PluginsAssumption, Commands!Init PROVE PluginsInv
<1>1. entries \in Seq(Commands!Kinds) /\ slots \in Seq(Slot)
      /\ Len(entries) = 0 /\ Len(slots) = 0
  BY DEF Commands!Init
<1>2. Commands!Good = <<>>
  <2>1. [k \in DOMAIN entries |-> k] \in Seq(Nat) /\ Len([k \in DOMAIN entries |-> k]) = 0
    BY <1>1, FunctionIsSeq, LenProperties
  <2>q. QED BY <2>1, KeepNone, CommandsKeep DEF Commands!Good
<1>q. QED
  BY <1>1, <1>2 DEF Commands!Init, Commands!PluginsAssumption, PluginsInv, PluginsTypes,
    PluginsCounted

LEMMA PluginsLoad ==
  ASSUME Commands!PluginsAssumption, PluginsInv, NEW kind \in Commands!Kinds, Commands!LoadNext(kind)
  PROVE  PluginsInv'
<1> DEFINE n == Len(entries) + 1
<1>1. n \in Nat \ {0} /\ entries' \in Seq(Commands!Kinds)
  BY AppendProperties, LenProperties DEF PluginsInv, PluginsTypes, Commands!LoadNext
<1>2. Commands!Good' = IF kind = "good" THEN Append(Commands!Good, n) ELSE Commands!Good
  BY GoodNext DEF PluginsInv, PluginsTypes, Commands!LoadNext
<1>3. /\ Commands!Good' \in Seq(Nat \ {0})
      /\ kind = "good" => /\ Len(Commands!Good') = Len(Commands!Good) + 1
                          /\ Commands!Good'[Len(Commands!Good) + 1] = n
                          /\ \A k \in 1 .. Len(Commands!Good) : Commands!Good'[k] = Commands!Good[k]
  BY <1>1, <1>2, AppendProperties DEF PluginsInv, PluginsTypes
<1>4. CASE kind = "other"
  BY <1>1, <1>2, <1>3, <1>4 DEF PluginsInv, PluginsTypes, PluginsCounted, Commands!LoadNext
<1>5. CASE kind # "other"
  <2>1. Commands!Loaded(kind) \in Slot
    BY <1>1 DEF Commands!Loaded, Slot
  <2>2. /\ slots' \in Seq(Slot) /\ Len(slots') = listSize + 1
        /\ slots'[listSize + 1] = Commands!Loaded(kind)
        /\ \A j \in 1 .. listSize : slots'[j] = slots[j]
    <3> DEFINE x == Commands!Loaded(kind)
    <3>1. slots' = IF listSize < Len(slots) THEN [slots EXCEPT ![listSize + 1] = x]
                   ELSE Append(slots, x)
      BY <1>5 DEF Commands!LoadNext, Commands!Put
    <3>2. /\ slots \in Seq(Slot) /\ listSize \in Nat
          /\ listSize <= Len(slots) /\ Len(slots) <= listSize + 1
      BY DEF PluginsInv, PluginsTypes, PluginsCounted
    <3>3. x \in Slot BY <2>1
    <3> HIDE DEF Slot, x
    <3>4. /\ slots' \in Seq(Slot) /\ Len(slots') = listSize + 1 /\ slots'[listSize + 1] = x
          /\ \A j \in 1 .. listSize : slots'[j] = slots[j]
      BY ONLY <3>1, <3>2, <3>3, PutIs
    <3>q. QED BY <3>4 DEF x
  <2>3. /\ listSize' = IF kind = "good" THEN listSize + 1 ELSE listSize
        /\ listCapacity' = IF listSize' = listCapacity - 1 THEN 2 * listCapacity ELSE listCapacity
        /\ phase' = phase /\ called' = called
    BY <1>5 DEF Commands!LoadNext, Commands!Counts
  <2>4. PluginsTypes' BY <1>1, <1>3, <2>2, <2>3 DEF PluginsInv, PluginsTypes
  <2>5. CASE kind = "good"
    <3>1. Commands!Loaded(kind) = [lib |-> TRUE, func |-> n] BY <2>5 DEF Commands!Loaded
    <3>2. \A k \in 1 .. listSize + 1 : slots'[k] = [lib |-> TRUE, func |-> Commands!Good'[k]]
      <4>1. listSize \in Nat /\ listSize = Len(Commands!Good)
            /\ \A k \in 1 .. listSize : slots[k] = [lib |-> TRUE, func |-> Commands!Good[k]]
        BY DEF PluginsInv, PluginsTypes, PluginsCounted
      <4>2. Commands!Good'[listSize + 1] = n
            /\ \A k \in 1 .. listSize : Commands!Good'[k] = Commands!Good[k]
        BY <1>3, <2>5, <4>1
      <4> HIDE DEF n
      <4>3. TAKE k \in 1 .. listSize + 1
      <4>4. CASE k = listSize + 1 BY <2>2, <3>1, <4>2, <4>4
      <4>5. CASE k \in 1 .. listSize BY <2>2, <4>1, <4>2, <4>5
      <4>q. QED BY <4>1, <4>4, <4>5
    <3>3. listSize' < listCapacity' - 1
      BY <2>3, <2>5 DEF PluginsInv, PluginsTypes, PluginsCounted
    <3>q. QED
      BY <1>3, <2>2, <2>3, <2>4, <2>5, <3>2, <3>3 DEF PluginsInv, PluginsTypes, PluginsCounted
  <2>6. CASE kind # "good"
    <3>1. listSize' < listCapacity' - 1
      BY <2>3, <2>6 DEF PluginsInv, PluginsTypes, PluginsCounted
    <3>2. \A k \in 1 .. listSize : slots'[k] = [lib |-> TRUE, func |-> Commands!Good[k]]
      BY <2>2 DEF PluginsInv, PluginsCounted
    <3>q. QED
      BY <1>2, <2>2, <2>3, <2>4, <2>6, <3>1, <3>2 DEF PluginsInv, PluginsTypes, PluginsCounted
  <2>q. QED BY <2>5, <2>6
<1>q. QED BY <1>4, <1>5

\* No other step touches the list, and the functions called are those of plugins.
LEMMA PluginsStep ==
  ASSUME Commands!PluginsAssumption, PluginsInv, [Commands!Next]_commandVars
  PROVE  PluginsInv'
<1>1. ASSUME NEW kind \in Commands!Kinds, Commands!LoadNext(kind) PROVE PluginsInv'
  BY <1>1, PluginsLoad
<1>2. ASSUME entries' = entries, slots' = slots, listSize' = listSize,
             listCapacity' = listCapacity, phase' \in {"load", "menu", "end"},
             called' \in {"nothing", "function"}
      PROVE  PluginsInv'
  BY <1>2 DEF PluginsInv, PluginsTypes, PluginsCounted, Commands!Good
<1>3. CASE Commands!Menu \/ Commands!Leave \/ UNCHANGED commandVars
  BY <1>2, <1>3 DEF PluginsInv, PluginsTypes, Commands!Menu, Commands!Leave, commandVars
<1>4. ASSUME NEW num \in 1 .. MaxEntries, Commands!Call(num) PROVE PluginsInv'
  <2>1. num \in 1 .. listSize /\ num \in 1 .. Len(Commands!Good)
    BY <1>4 DEF PluginsInv, PluginsCounted, Commands!Call
  <2>2. slots[num].func = Commands!Good[num]
    <3>1. slots[num] = [lib |-> TRUE, func |-> Commands!Good[num]]
      BY <2>1 DEF PluginsInv, PluginsCounted
    <3>q. QED BY <3>1
  <2>3. Commands!Good[num] # 0
    BY <2>1, ElementOfSeq DEF PluginsInv, PluginsTypes
  <2>q. QED BY <1>2, <1>4, <2>2, <2>3 DEF PluginsInv, PluginsTypes, Commands!Call
<1>q. QED BY <1>1, <1>3, <1>4 DEF Commands!Next

LEMMA PluginsGood == ASSUME PluginsInv PROVE Commands!SlotsAreGood
BY DEF PluginsInv, PluginsTypes, PluginsCounted, Commands!SlotsAreGood

--------------------------------------------------------------------------------
(* The shops (Shops) *)

\* What each customer has been charged for and not yet taken off the shelf.
ShopCharged == [c \in Customers |-> IF actor[c] = "bought" THEN Store[numberStore[c]] ELSE 0]

LEMMA ShopSumIs == ASSUME NEW f PROVE Shopping!SumOf(f) = Sum(f, DOMAIN f)
BY DEF Shopping!SumOf, Shopping!MapThenSumSet, Shopping!MapThenFoldSet, Sum, Sums,
  SumStep

LEMMA ShopsFinite ==
  ASSUME Shopping!ShopsAssumption PROVE IsFiniteSet(Stores) /\ IsFiniteSet(Customers)
BY DEF Shopping!ShopsAssumption, Shopping!IsFiniteSet, IsFiniteSet

\* Whoever is in a shop holds it, and the supplier has read what is still there.
ShopHeld ==
  /\ \A a \in Shopping!Actors :
       /\ actor[a] = "lock" => numberStore[a] \in Stores
       /\ actor[a] \in {"in", "bought", "unlock"} =>
            numberStore[a] \in Stores /\ mutex[numberStore[a]] = a
  /\ actor[Supplier] = "bought" => seen = Store[numberStore[Supplier]]
  /\ actor[Supplier] \in {"lock", "in", "bought"} => loads < MaxLoads

ShopBalance == Sum(Store, Stores) - Sum(ShopCharged, Customers) - Sum(desire_spend, Customers) = total + Load * loads

ShopInv == Shopping!TypeOK /\ ShopHeld /\ ShopBalance

LEMMA ShopChargedType ==
  ASSUME Shopping!ShopsAssumption, Shopping!TypeOK, ShopHeld
  PROVE  ShopCharged \in [Customers -> Int]
BY DEF Shopping!ShopsAssumption, Shopping!TypeOK, ShopHeld, ShopCharged, Shopping!Actors

LEMMA ShopSays == ASSUME Shopping!ShopsAssumption, ShopInv PROVE Shopping!Conserved
<1>1. DOMAIN Store = Stores /\ DOMAIN desire_spend = Customers /\ DOMAIN ShopCharged = Customers
  BY DEF ShopInv, Shopping!TypeOK, ShopCharged
<1>2. Shopping!OnTheCounter = Sum(ShopCharged, Customers)
  <2>1. Shopping!OnTheCounter = Shopping!SumOf(ShopCharged)
    BY DEF Shopping!OnTheCounter, ShopCharged
  <2>q. QED BY <1>1, <2>1, ShopSumIs
<1>3. Shopping!SumOf(Store) = Sum(Store, Stores) /\ Shopping!SumOf(desire_spend) = Sum(desire_spend, Customers)
  BY <1>1, ShopSumIs
<1>q. QED BY <1>2, <1>3 DEF ShopInv, ShopBalance, Shopping!Conserved

LEMMA ShopInitial == ASSUME Shopping!ShopsAssumption, Shopping!Init PROVE ShopInv
<1>1. DOMAIN Store = Stores /\ DOMAIN desire_spend = Customers
      /\ Store \in [Stores -> Nat] /\ Store \in [Stores -> Int] /\ desire_spend \in [Customers -> Int]
  <2>1. Store \in [Stores -> Stocks] /\ desire_spend \in [Customers -> Desires]
    BY DEF Shopping!Init
  <2>2. Stocks \subseteq Nat /\ Desires \subseteq Int BY DEF Shopping!ShopsAssumption
  <2>3. \A s \in Stores : Store[s] \in Nat BY <2>1, <2>2
  <2>4. \A c \in Customers : desire_spend[c] \in Int BY <2>1, <2>2
  <2>5. Store \in [Stores -> Nat] BY <2>1, <2>3
  <2>6. Store \in [Stores -> Int] BY <2>5
  <2>7. desire_spend \in [Customers -> Int] BY <2>1, <2>4
  <2>q. QED BY <2>5, <2>6, <2>7
<1>2. /\ total = Sum(Store, Stores) - Sum(desire_spend, Customers)
      /\ Sum(Store, Stores) \in Int /\ Sum(desire_spend, Customers) \in Int
  <2>1. Sum(Store, Stores) \in Int /\ Sum(desire_spend, Customers) \in Int
    BY <1>1, SumIsInt, ShopsFinite
  <2>q. QED BY <1>1, <2>1, ShopSumIs DEF Shopping!Init
<1>3. Shopping!TypeOK
  <2>1. mutex \in [Stores -> Shopping!Actors \cup {Nobody}] /\ numberStore \in [Shopping!Actors -> Stores \cup {Nobody}]
    BY DEF Shopping!Init
  <2>2. actor \in [Shopping!Actors -> {"choose", "lock", "in", "bought", "unlock", "gone"}]
    BY DEF Shopping!Init
  <2>3. seen \in Nat /\ loads \in 0 .. MaxLoads
    BY DEF Shopping!Init, Shopping!ShopsAssumption
  <2>4. total \in Int BY <1>2
  <2>q. QED BY <1>1, <2>1, <2>2, <2>3, <2>4 DEF Shopping!TypeOK
<1>4. ShopHeld
  <2>1. Supplier \in Shopping!Actors BY DEF Shopping!Actors
  <2>q. QED BY <2>1 DEF Shopping!Init, ShopHeld
<1>5. Sum(ShopCharged, Customers) = 0
  <2>1. ShopCharged \in [Customers -> Int] /\ \A c \in Customers : ShopCharged[c] = 0
    BY DEF Shopping!Init, ShopCharged, Shopping!Actors
  <2>q. QED BY <2>1, SumZero, ShopsFinite
<1>6. Load * loads = 0 BY DEF Shopping!Init, Shopping!ShopsAssumption
<1>q. QED BY <1>2, <1>3, <1>4, <1>5, <1>6 DEF ShopInv, ShopBalance

LEMMA ShopTypes ==
  ASSUME Shopping!ShopsAssumption, ShopInv, Shopping!Next PROVE Shopping!TypeOK'
<1> USE DEF ShopInv, Shopping!TypeOK
<1>1. ASSUME NEW a \in Shopping!Actors, Shopping!Choose(a) PROVE Shopping!TypeOK'
  BY <1>1 DEF Shopping!Choose
<1>2. ASSUME NEW a \in Shopping!Actors, Shopping!Lock(a) PROVE Shopping!TypeOK'
  BY <1>2 DEF Shopping!Lock
<1>3. ASSUME NEW a \in Shopping!Actors, Shopping!Unlock(a) PROVE Shopping!TypeOK'
  BY <1>3 DEF Shopping!Unlock
<1>4. ASSUME NEW c \in Customers, Shopping!Buy(c) PROVE Shopping!TypeOK'
  <2>1. c \in Shopping!Actors /\ numberStore[c] \in Stores
    BY <1>4 DEF Shopping!Buy, ShopHeld, Shopping!Actors
  <2>q. QED BY <1>4, <2>1 DEF Shopping!Buy
<1>5. ASSUME NEW c \in Customers, Shopping!Empty(c) PROVE Shopping!TypeOK'
  BY <1>5 DEF Shopping!Empty
<1>6. CASE Shopping!Look
  <2>1. Supplier \in Shopping!Actors /\ numberStore[Supplier] \in Stores
    BY <1>6 DEF Shopping!Look, ShopHeld, Shopping!Actors
  <2>q. QED BY <1>6, <2>1 DEF Shopping!Look
<1>7. CASE Shopping!Deliver
  <2>1. loads + 1 \in 0 .. MaxLoads
    BY <1>7 DEF Shopping!Deliver, ShopHeld, Shopping!ShopsAssumption
  <2>2. seen + Load \in Nat BY DEF Shopping!ShopsAssumption
  <2>q. QED BY <1>7, <2>1, <2>2 DEF Shopping!Deliver
<1>8. CASE Shopping!Cancel BY <1>8 DEF Shopping!Cancel
<1>q. QED BY <1>1, <1>2, <1>3, <1>4, <1>5, <1>6, <1>7, <1>8 DEF Shopping!Next

LEMMA ShopHeldStep ==
  ASSUME Shopping!ShopsAssumption, ShopInv, Shopping!Next PROVE ShopHeld'
<1> USE DEF ShopInv, Shopping!TypeOK, ShopHeld
<1>0. Supplier \in Shopping!Actors /\ Customers \subseteq Shopping!Actors /\ Supplier \notin Customers
      /\ Nobody \notin Shopping!Actors /\ Nobody \notin Stores
  BY DEF Shopping!Actors, Shopping!ShopsAssumption
<1>1. ASSUME NEW a \in Shopping!Actors, Shopping!Choose(a) PROVE ShopHeld'
  BY <1>0, <1>1 DEF Shopping!Choose
<1>2. ASSUME NEW a \in Shopping!Actors, Shopping!Lock(a) PROVE ShopHeld'
  BY <1>0, <1>2 DEF Shopping!Lock
<1>3. ASSUME NEW a \in Shopping!Actors, Shopping!Unlock(a) PROVE ShopHeld'
  BY <1>0, <1>3 DEF Shopping!Unlock
<1>4. ASSUME NEW c \in Customers, Shopping!Buy(c) PROVE ShopHeld'
  BY <1>0, <1>4 DEF Shopping!Buy
<1>5. ASSUME NEW c \in Customers, Shopping!Empty(c) PROVE ShopHeld'
  BY <1>0, <1>5 DEF Shopping!Empty
<1>6. CASE Shopping!Look BY <1>0, <1>6 DEF Shopping!Look
<1>7. CASE Shopping!Deliver BY <1>0, <1>7 DEF Shopping!Deliver
<1>8. CASE Shopping!Cancel BY <1>0, <1>8 DEF Shopping!Cancel
<1>q. QED BY <1>1, <1>2, <1>3, <1>4, <1>5, <1>6, <1>7, <1>8 DEF Shopping!Next

\* Only a purchase and a delivery move goods; the others leave all three sums alone.
LEMMA ShopBalanceStep ==
  ASSUME Shopping!ShopsAssumption, ShopInv, Shopping!Next, Shopping!TypeOK', ShopHeld'
  PROVE  ShopBalance'
<1>0. /\ Supplier \in Shopping!Actors /\ Customers \subseteq Shopping!Actors /\ Supplier \notin Customers
      /\ IsFiniteSet(Stores) /\ IsFiniteSet(Customers) /\ Load \in Nat
      /\ Store \in [Stores -> Int] /\ desire_spend \in [Customers -> Int]
      /\ ShopCharged \in [Customers -> Int] /\ ShopCharged' \in [Customers -> Int]
      /\ Store' \in [Stores -> Int] /\ desire_spend' \in [Customers -> Int]
      /\ loads \in Int /\ total \in Int
  <2>1. ShopCharged' \in [Customers -> Int]
    BY DEF Shopping!ShopsAssumption, Shopping!TypeOK, ShopHeld, ShopCharged,
      Shopping!Actors
  <2>q. QED
    BY <2>1, ShopChargedType, ShopsFinite
    DEF Shopping!Actors, Shopping!ShopsAssumption, ShopInv, Shopping!TypeOK
<1>s. /\ Sum(Store, Stores) \in Int /\ Sum(desire_spend, Customers) \in Int
      /\ Sum(ShopCharged, Customers) \in Int
  BY <1>0, SumIsInt
<1>b. Sum(Store, Stores) - Sum(ShopCharged, Customers) - Sum(desire_spend, Customers) = total + Load * loads
  BY DEF ShopInv, ShopBalance
<1>1. ASSUME Store' = Store, desire_spend' = desire_spend, loads' = loads, total' = total,
             \A c \in Customers : ShopCharged'[c] = ShopCharged[c]
      PROVE  ShopBalance'
  <2>1. ShopCharged' = ShopCharged BY <1>0, <1>1
  <2>q. QED BY <1>1, <1>b, <2>1 DEF ShopBalance
<1>2. ASSUME NEW a \in Shopping!Actors, Shopping!Choose(a) \/ Shopping!Lock(a) \/ Shopping!Unlock(a)
      PROVE  ShopBalance'
  <2>1. \A c \in Customers : /\ actor'[c] = "bought" <=> actor[c] = "bought"
                             /\ actor[c] = "bought" => numberStore'[c] = numberStore[c]
    BY <1>0, <1>2
    DEF ShopInv, Shopping!TypeOK, Shopping!Choose, Shopping!Lock, Shopping!Unlock
  <2>2. /\ Store' = Store /\ desire_spend' = desire_spend /\ loads' = loads /\ total' = total
    BY <1>2 DEF Shopping!Choose, Shopping!Lock, Shopping!Unlock
  <2>q. QED BY <1>1, <2>1, <2>2 DEF ShopCharged
<1>3. CASE Shopping!Look \/ Shopping!Cancel
  <2>1. \A c \in Customers : actor'[c] = actor[c]
    BY <1>0, <1>3 DEF ShopInv, Shopping!TypeOK, Shopping!Look, Shopping!Cancel
  <2>2. /\ Store' = Store /\ desire_spend' = desire_spend /\ loads' = loads /\ total' = total
        /\ numberStore' = numberStore
    BY <1>3 DEF Shopping!Look, Shopping!Cancel
  <2>q. QED BY <1>1, <2>1, <2>2 DEF ShopCharged
<1>4. ASSUME NEW c \in Customers, Shopping!Buy(c) PROVE ShopBalance'
  <2> DEFINE x == Store[numberStore[c]]
  <2>1. x \in Int /\ numberStore[c] \in Stores
    BY <1>0, <1>4 DEF ShopInv, Shopping!TypeOK, ShopHeld, Shopping!Buy
  <2>2. \A d \in Customers \ {c} : ShopCharged'[d] = ShopCharged[d] /\ desire_spend'[d] = desire_spend[d]
    BY <1>0, <1>4 DEF ShopInv, Shopping!TypeOK, Shopping!Buy, ShopCharged
  <2>3. ShopCharged[c] = 0 /\ ShopCharged'[c] = x /\ desire_spend'[c] = desire_spend[c] - x
    BY <1>0, <1>4, <2>1 DEF ShopInv, Shopping!TypeOK, Shopping!Buy, ShopCharged
  <2>4. Sum(ShopCharged, Customers)' = Sum(ShopCharged, Customers) + x
    <3> HIDE DEF x
    <3>1. Sum(ShopCharged', Customers) = Sum(ShopCharged, Customers) - ShopCharged[c] + ShopCharged'[c]
      BY <1>0, <2>2, SumChanges
    <3>q. QED BY <1>s, <2>1, <2>3, <3>1
  <2>5. Sum(desire_spend', Customers) = Sum(desire_spend, Customers) - x
    <3> HIDE DEF x
    <3>1. Sum(desire_spend', Customers)
            = Sum(desire_spend, Customers) - desire_spend[c] + desire_spend'[c]
      BY <1>0, <2>2, SumChanges
    <3>2. desire_spend[c] \in Int BY <1>0
    <3>q. QED BY <1>s, <2>1, <2>3, <3>1, <3>2
  <2>6. Store' = Store /\ loads' = loads /\ total' = total BY <1>4 DEF Shopping!Buy
  <2> HIDE DEF x
  <2>7. Load * loads \in Int BY <1>0
  <2>q. QED BY <1>s, <1>b, <2>1, <2>4, <2>5, <2>6, <2>7 DEF ShopBalance
<1>5. ASSUME NEW c \in Customers, Shopping!Empty(c) PROVE ShopBalance'
  <2> DEFINE s == numberStore[c]
             x == Store[s]
  <2>1. x \in Int /\ s \in Stores
    BY <1>0, <1>5 DEF ShopInv, Shopping!TypeOK, ShopHeld, Shopping!Empty
  <2>2. \A d \in Customers \ {c} : actor[d] = "bought" => numberStore[d] # s
    BY <1>0, <1>5 DEF ShopInv, Shopping!TypeOK, ShopHeld, Shopping!Empty
  <2>3. \A d \in Customers \ {c} : ShopCharged'[d] = ShopCharged[d]
    BY <1>0, <1>5, <2>2 DEF ShopInv, Shopping!TypeOK, Shopping!Empty, ShopCharged
  <2>4. ShopCharged[c] = x /\ ShopCharged'[c] = 0 /\ Store'[s] = 0
        /\ \A t \in Stores \ {s} : Store'[t] = Store[t]
    BY <1>0, <1>5, <2>1 DEF ShopInv, Shopping!TypeOK, Shopping!Empty, ShopCharged
  <2> HIDE DEF s, x
  <2>5. Sum(ShopCharged', Customers) = Sum(ShopCharged, Customers) - x
    <3>1. Sum(ShopCharged', Customers) = Sum(ShopCharged, Customers) - ShopCharged[c] + ShopCharged'[c]
      BY <1>0, <2>3, SumChanges
    <3>q. QED BY <1>s, <2>1, <2>4, <3>1
  <2>6. Sum(Store', Stores) = Sum(Store, Stores) - x
    <3>0. IsFiniteSet(Stores) /\ Store \in [Stores -> Int] /\ Store' \in [Stores -> Int] /\ s \in Stores
      BY <1>0, <2>1
    <3>1. Sum(Store', Stores) = Sum(Store, Stores) - Store[s] + Store'[s]
      BY <3>0, <2>4, SumChanges
    <3>q. QED BY <1>s, <2>1, <2>4, <3>1 DEF x
  <2>7. desire_spend' = desire_spend /\ loads' = loads /\ total' = total
    BY <1>5 DEF Shopping!Empty
  <2>8. Load * loads \in Int BY <1>0
  <2>q. QED BY <1>s, <1>b, <2>1, <2>5, <2>6, <2>7, <2>8 DEF ShopBalance
<1>6. CASE Shopping!Deliver
  <2> DEFINE s == numberStore[Supplier]
  <2>1. s \in Stores /\ seen = Store[s] /\ seen \in Int
    BY <1>0, <1>6 DEF ShopInv, Shopping!TypeOK, ShopHeld, Shopping!Deliver
  <2>2. \A d \in Customers : actor[d] = "bought" => numberStore[d] # s
    BY <1>0, <1>6 DEF ShopInv, Shopping!TypeOK, ShopHeld, Shopping!Deliver
  <2>3. \A d \in Customers : ShopCharged'[d] = ShopCharged[d]
    BY <1>0, <1>6, <2>2 DEF ShopInv, Shopping!TypeOK, Shopping!Deliver, ShopCharged
  <2>4. Store'[s] = Store[s] + Load /\ \A t \in Stores \ {s} : Store'[t] = Store[t]
    BY <1>0, <1>6, <2>1 DEF ShopInv, Shopping!TypeOK, Shopping!Deliver
  <2> HIDE DEF s
  <2>5. ShopCharged' = ShopCharged BY <1>0, <2>3
  <2>6. Sum(Store', Stores) = Sum(Store, Stores) + Load
    <3>1. Sum(Store', Stores) = Sum(Store, Stores) - Store[s] + Store'[s]
      BY <1>0, <2>1, <2>4, SumChanges
    <3>q. QED BY <1>0, <1>s, <2>1, <2>4, <3>1
  <2>7. desire_spend' = desire_spend /\ loads' = loads + 1 /\ total' = total
    BY <1>6 DEF Shopping!Deliver
  <2>8. Load * loads \in Int /\ Load * (loads + 1) = Load * loads + Load BY <1>0
  <2>q. QED BY <1>0, <1>s, <1>b, <2>5, <2>6, <2>7, <2>8 DEF ShopBalance
<1>q. QED BY <1>2, <1>3, <1>4, <1>5, <1>6 DEF Shopping!Next

LEMMA ShopStep ==
  ASSUME Shopping!ShopsAssumption, ShopInv, [Shopping!Next]_shopVars PROVE ShopInv'
<1>1. CASE Shopping!Next BY <1>1, ShopTypes, ShopHeldStep, ShopBalanceStep DEF ShopInv
<1>2. CASE UNCHANGED shopVars
  BY <1>2 DEF shopVars, ShopInv, Shopping!TypeOK, ShopHeld, ShopBalance, ShopCharged
<1>q. QED BY <1>1, <1>2

--------------------------------------------------------------------------------
(* The panels of the file manager (Commander).  One comparison keeps an order of the
   directory and what is settled behind it, one turn settles one place more, and so the
   sort settles all of them; a panel then shows an order with all places settled. *)

\* The order of a panel is a preorder on what stat() does not fail on.
LEMMA OutOfOrderIs ==
  ASSUME NEW d, NEW e, NEW x, d.ord \in Int, e.ord \in Int, x.ord \in Int
  PROVE  /\ ~Files!OutOfOrder(d, d)
         /\ Files!OutOfOrder(d, e)
              => ~Files!OutOfOrder(e, d) /\ Files!Statable(d) /\ Files!Statable(e)
         /\ Files!Statable(e) /\ ~Files!OutOfOrder(d, e) /\ ~Files!OutOfOrder(e, x)
              => ~Files!OutOfOrder(d, x)
<1> DEFINE a == d.ord
           b == e.ord
           c == x.ord
<1>1. a \in Int /\ b \in Int /\ c \in Int OBVIOUS
<1> DEFINE Passes(u, v, less) ==
             /\ Files!Statable(u) /\ Files!Statable(v)
             /\ \/ Files!IsDir(v) /\ ~Files!IsDir(u)
                \/ less /\ (Files!IsDir(u) <=> Files!IsDir(v))
<1>2. /\ Files!OutOfOrder(d, d) => a > a
      /\ Files!OutOfOrder(d, e) <=> Passes(d, e, a > b)
      /\ Files!OutOfOrder(e, d) <=> Passes(e, d, b > a)
      /\ Files!OutOfOrder(e, x) <=> Passes(e, x, b > c)
      /\ Files!OutOfOrder(d, x) <=> Passes(d, x, a > c)
  BY DEF Files!OutOfOrder
<1> HIDE DEF a, b, c
<1>q. QED BY <1>1, <1>2

\* All orders of the members of S, n of them.
Orders(S, n) ==
  {a \in [1 .. n -> S] : /\ \A i, j \in 1 .. n : a[i] = a[j] => i = j
                         /\ \A e \in S : \E i \in 1 .. n : a[i] = e}

\* No entry before place k that could have passed the one there should come after it.
Settled(a, k) ==
  \A j \in 1 .. k - 1 :
    (\A h \in j .. k : Files!Statable(a[h])) => ~Files!OutOfOrder(a[j], a[k])

\* One comparison: the larger one of two settles behind the smaller one, and what is
\* settled behind them stays so.
LEMMA ComparedKeeps ==
  ASSUME NEW n \in Nat, NEW S, \A e \in S : e.ord \in Int,
         NEW a \in Orders(S, n), NEW j \in 1 .. n - 1
  PROVE  LET b == Files!Compared(a, j) IN
         /\ b \in Orders(S, n)
         /\ Settled(a, j) => Settled(b, j + 1)
         /\ \A k \in j + 2 .. n : Settled(a, k) => Settled(b, k)
<1> DEFINE b == Files!Compared(a, j)
<1>1. /\ j \in 1 .. n /\ j + 1 \in 1 .. n /\ \A i \in 1 .. n : a[i] \in S
      /\ \A i, k \in 1 .. n : a[i] = a[k] => i = k
      /\ \A e \in S : \E i \in 1 .. n : a[i] = e
      /\ a \in [1 .. n -> S]
  BY DEF Orders
<1>2. CASE ~Files!OutOfOrder(a[j], a[j + 1])
  <2>1. b = a BY <1>2 DEF Files!Compared
  <2>2. ASSUME Settled(a, j) PROVE Settled(a, j + 1)
    <3>1. ASSUME NEW i \in 1 .. j, \A h \in i .. j + 1 : Files!Statable(a[h])
          PROVE  ~Files!OutOfOrder(a[i], a[j + 1])
      <4>1. CASE i = j BY <1>2, <4>1
      <4>2. CASE i # j
        <5>1. i \in 1 .. j - 1 /\ \A h \in i .. j : Files!Statable(a[h]) BY <3>1, <4>2
        <5>2. ~Files!OutOfOrder(a[i], a[j]) BY <2>2, <5>1 DEF Settled
        <5>3. i \in 1 .. n /\ Files!Statable(a[j]) BY <3>1
        <5>4. a[i].ord \in Int /\ a[j].ord \in Int /\ a[j + 1].ord \in Int BY <1>1, <5>3
        <5>q. QED BY <1>2, <5>2, <5>3, <5>4, OutOfOrderIs
      <4>q. QED BY <4>1, <4>2
    <3>2. (j + 1) - 1 = j OBVIOUS
    <3>q. QED BY <3>1, <3>2 DEF Settled
  <2>q. QED BY <2>1, <2>2
<1>3. CASE Files!OutOfOrder(a[j], a[j + 1])
  <2>1. b = [a EXCEPT ![j] = a[j + 1], ![j + 1] = a[j]] BY <1>3 DEF Files!Compared
  <2>2. /\ b \in [1 .. n -> S] /\ b[j] = a[j + 1] /\ b[j + 1] = a[j]
        /\ \A i \in 1 .. n : i \notin {j, j + 1} => b[i] = a[i]
    BY <1>1, <2>1
  <2>3. Files!Statable(a[j]) /\ Files!Statable(a[j + 1]) BY <1>3 DEF Files!OutOfOrder
  <2>4. \A i \in 1 .. n : Files!Statable(b[i]) <=> Files!Statable(a[i]) BY <1>1, <2>2, <2>3
  <2> HIDE DEF b
  <2>5. b \in Orders(S, n)
    <3>1. ASSUME NEW i \in 1 .. n, NEW k \in 1 .. n, b[i] = b[k] PROVE i = k
      <4> DEFINE from(m) == IF m = j THEN j + 1 ELSE IF m = j + 1 THEN j ELSE m
      <4>1. \A m \in 1 .. n : from(m) \in 1 .. n /\ b[m] = a[from(m)] BY <1>1, <2>2
      <4>2. from(i) = from(k) BY <1>1, <3>1, <4>1
      <4>q. QED BY <4>2
    <3>2. ASSUME NEW e \in S PROVE \E i \in 1 .. n : b[i] = e
      <4>1. PICK i \in 1 .. n : a[i] = e BY <1>1
      <4>q. QED BY <1>1, <2>2, <4>1
    <3>q. QED BY <2>2, <3>1, <3>2 DEF Orders
  <2>6. ASSUME Settled(a, j) PROVE Settled(b, j + 1)
    <3>1. ASSUME NEW i \in 1 .. j, \A h \in i .. j + 1 : Files!Statable(b[h])
          PROVE  ~Files!OutOfOrder(b[i], b[j + 1])
      <4>1. CASE i = j
        <5>1. a[j].ord \in Int /\ a[j + 1].ord \in Int BY <1>1
        <5>q. QED BY <1>3, <2>2, <4>1, <5>1, OutOfOrderIs
      <4>2. CASE i # j
        <5>1. i \in 1 .. j - 1 /\ i \in 1 .. n
              /\ \A h \in i .. j : h \in 1 .. n /\ h \in i .. j + 1
          BY <4>2
        <5>2. \A h \in i .. j : Files!Statable(a[h]) BY <2>4, <3>1, <5>1
        <5>3. ~Files!OutOfOrder(a[i], a[j]) BY <2>6, <5>1, <5>2 DEF Settled
        <5>q. QED BY <2>2, <5>1, <5>3
      <4>q. QED BY <4>1, <4>2
    <3>2. (j + 1) - 1 = j OBVIOUS
    <3>q. QED BY <3>1, <3>2 DEF Settled
  <2>7. ASSUME NEW k \in j + 2 .. n, Settled(a, k) PROVE Settled(b, k)
    <3>0. b[k] = a[k] /\ k \in 1 .. n BY <2>2
    <3>1. ASSUME NEW i \in 1 .. k - 1, \A h \in i .. k : Files!Statable(b[h])
          PROVE  ~Files!OutOfOrder(b[i], b[k])
      <4>1. \A h \in i .. k : h \in 1 .. n OBVIOUS
      <4>2. \A h \in i .. k : Files!Statable(a[h]) BY <2>4, <3>1, <4>1
      <4>3. j \in 1 .. k - 1 /\ j + 1 \in 1 .. k - 1 /\ i \in 1 .. n OBVIOUS
      <4>4. CASE i \notin {j, j + 1} BY <2>2, <2>7, <3>0, <4>2, <4>3, <4>4 DEF Settled
      <4>5. CASE i = j
        <5>1. \A h \in j + 1 .. k : h \in i .. k BY <4>5
        <5>q. QED BY <2>2, <2>7, <3>0, <4>2, <4>3, <4>5, <5>1 DEF Settled
      <4>6. CASE i = j + 1
        <5>1. \A h \in j .. k : h = j \/ h \in i .. k BY <4>6
        <5>q. QED BY <2>2, <2>3, <2>7, <3>0, <4>2, <4>3, <4>6, <5>1 DEF Settled
      <4>q. QED BY <4>4, <4>5, <4>6
    <3>q. QED BY <3>1 DEF Settled
  <2>q. QED BY <2>5, <2>6, <2>7 DEF b
<1>q. QED BY <1>2, <1>3

\* The pairs of one turn, compared one after another.
TurnRun(h, a, S, n, m) ==
  /\ h[0] = a /\ \A k \in 0 .. m : h[k] \in Orders(S, n)
  /\ \A k \in 1 .. m : h[k] = Files!Compared(h[k - 1], k)
  /\ Files!FoldLeft(Files!Compared, a, [j \in 1 .. m |-> j]) = h[m]

LEMMA TurnRuns ==
  ASSUME NEW n \in Nat, NEW S, \A e \in S : e.ord \in Int,
         NEW a \in Orders(S, n), NEW m \in 0 .. n - 1
  PROVE  \E h : TurnRun(h, a, S, n, m)
<1> DEFINE U == Orders(S, n)
           D == 1 .. n - 1
           seq == [j \in 1 .. m |-> j]
           f == [x \in U \X D |-> Files!Compared(x[1], x[2])]
           Made(g, s) == IF s = {} THEN a ELSE Files!Compared(g[s \ {Latest(s)}], seq[Latest(s)])
           it == CHOOSE g : g = [s \in SUBSET (DOMAIN seq) |-> Made(g, s)]
<1>1. f \in [U \X D -> U] BY ComparedKeeps
<1>2. seq \in [1 .. m -> D] /\ m \in Nat /\ DOMAIN seq = 1 .. m OBVIOUS
<1>3. \A x \in U, j \in D : f[<<x, j>>] = Files!Compared(x, j) OBVIOUS
<1> HIDE DEF f, seq, D
<1>a. a \in U OBVIOUS
<1>4. PICK g : Folding(g, m, U, f, a, seq)
  <2> HIDE DEF U
  <2>q. QED BY <1>a, <1>1, <1>2, FoldExists
<1>5. ASSUME NEW s \in SUBSET (1 .. m), NEW r,
             \A t \in SUBSET (1 .. m) : r[t] \in U
      PROVE  FoldStep(f, a, seq, r, s) = Made(r, s)
  <2>1. CASE s = {} BY <2>1 DEF FoldStep
  <2>2. CASE s # {}
    <3>1. Latest(s) \in 1 .. m BY <1>2, <2>2, LatestIs
    <3>2. seq[Latest(s)] \in D /\ r[s \ {Latest(s)}] \in U BY <1>2, <1>5, <3>1
    <3>q. QED BY <1>3, <2>2, <3>2 DEF FoldStep
  <2>q. QED BY <2>1, <2>2
<1>6. g = [s \in SUBSET (DOMAIN seq) |-> Made(g, s)]
  <2>1. /\ g = [s \in SUBSET (1 .. m) |-> g[s]] /\ \A s \in SUBSET (1 .. m) : g[s] \in U
        /\ \A s \in SUBSET (1 .. m) : g[s] = FoldStep(f, a, seq, g, s)
    BY <1>4 DEF Folding
  <2>2. \A s \in SUBSET (1 .. m) : g[s] = Made(g, s) BY <1>5, <2>1
  <2> HIDE DEF Made
  <2>q. QED BY <1>2, <2>1, <2>2
<1>7. it = [s \in SUBSET (DOMAIN seq) |-> Made(it, s)]
  <2> HIDE DEF Made
  <2>q. QED BY <1>6
<1>8. \A s \in SUBSET (1 .. m) : it[s] = Made(it, s)
  <2> HIDE DEF it, Made
  <2>q. QED BY <1>2, <1>7
<1> DEFINE h == [k \in 0 .. m |-> it[1 .. k]]
<1>9. Files!FoldLeft(Files!Compared, a, seq) = it[1 .. m]
  BY <1>2 DEF Files!FoldLeft, Files!MapThenFoldSet, Files!Max, Latest
<1> HIDE DEF it
<1>10. h[0] = a
  <2>1. 1 .. 0 = {} /\ 0 \in 0 .. m /\ {} \in SUBSET (1 .. m) OBVIOUS
  <2>q. QED BY <1>8, <2>1
<1>11. ASSUME NEW k \in 1 .. m PROVE h[k] = Files!Compared(h[k - 1], k)
  <2>0. k \in Nat \ {0} OBVIOUS
  <2>1. /\ Latest(1 .. k) = k /\ (1 .. k) \ {k} = 1 .. k - 1 /\ 1 .. k # {}
    BY <2>0, LatestOfFirst
  <2>2. 1 .. k \in SUBSET (1 .. m) /\ seq[k] = k /\ k \in 0 .. m /\ k - 1 \in 0 .. m
    BY DEF seq
  <2>q. QED BY <1>8, <2>1, <2>2
<1>12. \A k \in 0 .. m : h[k] \in U
  <2> DEFINE G == {k \in 0 .. m : h[k] \in U}
  <2>1. 0 \in G BY <1>10
  <2>2. ASSUME NEW k \in 1 .. m, k - 1 \in G PROVE k \in G
    <3>1. h[k - 1] \in U /\ k \in 1 .. n - 1 BY <2>2
    <3>2. Files!Compared(h[k - 1], k) \in U
      <4> DEFINE b == h[k - 1]
      <4>1. b \in Orders(S, n) BY <3>1
      <4> HIDE DEF b
      <4>2. Files!Compared(b, k) \in Orders(S, n) BY <3>1, <4>1, ComparedKeeps
      <4>q. QED BY <4>2 DEF b
    <3>3. h[k] \in U BY <1>11, <3>2
    <3>q. QED BY <3>3
  <2> HIDE DEF G
  <2>3. \A k \in 0 .. m : k \in G BY <1>2, <2>1, <2>2, UpTo
  <2>q. QED BY <2>3 DEF G
<1>13. m \in 0 .. m OBVIOUS
<1>14. h[m] = it[1 .. m] BY <1>13 DEF h
<1> HIDE DEF h
<1>q. QED BY <1>9, <1>10, <1>11, <1>12, <1>14 DEF TurnRun, seq

LEMMA OrdersLen ==
  ASSUME NEW n \in Nat, NEW S, NEW a \in Orders(S, n) PROVE Len(a) = n /\ a \in Seq(S)
BY DEF Orders

\* One turn settles one more place.
LEMMA TurnSettles ==
  ASSUME NEW n \in Nat, NEW S, \A e \in S : e.ord \in Int,
         NEW a \in Orders(S, n), NEW i \in 1 .. n
  PROVE  /\ Files!Turn(a, i) \in Orders(S, n)
         /\ (\A k \in n - i + 2 .. n : Settled(a, k))
              => \A k \in n - i + 1 .. n : Settled(Files!Turn(a, i), k)
<1> DEFINE m == n - i
<1>1. m \in 0 .. n - 1 /\ m \in Nat /\ Len(a) - i = m BY OrdersLen
<1>r. PICK h : TurnRun(h, a, S, n, m)
  <2> HIDE DEF m
  <2>q. QED BY <1>1, TurnRuns
<1>2. /\ h[0] = a /\ \A k \in 0 .. m : h[k] \in Orders(S, n)
      /\ \A k \in 1 .. m : h[k] = Files!Compared(h[k - 1], k)
      /\ Files!FoldLeft(Files!Compared, a, [j \in 1 .. m |-> j]) = h[m]
  BY <1>r DEF TurnRun
<1>3. Files!Turn(a, i) = h[m] BY <1>1, <1>2 DEF Files!Turn
<1>4. Files!Turn(a, i) \in Orders(S, n)
  <2> HIDE DEF m
  <2>1. m \in 0 .. m BY <1>1
  <2>q. QED BY <1>2, <1>3, <2>1
<1>5. ASSUME \A k \in n - i + 2 .. n : Settled(a, k)
      PROVE  \A k \in n - i + 1 .. n : Settled(Files!Turn(a, i), k)
  <2> DEFINE Good(c, k) == Settled(c, k + 1) /\ \A x \in m + 2 .. n : Settled(c, x)
             G == {k \in 0 .. m : Good(h[k], k)}
  <2>1. 0 \in G
    <3>1. Settled(a, 0 + 1) BY DEF Settled
    <3>2. \A x \in m + 2 .. n : Settled(a, x) BY <1>5
    <3>q. QED BY <1>1, <1>2, <3>1, <3>2
  <2>2. ASSUME NEW k \in 1 .. m, k - 1 \in G PROVE k \in G
    <3> DEFINE c == h[k - 1]
    <3>1. Good(c, k - 1) /\ k \in 1 .. n - 1 /\ (k - 1) + 1 = k BY <1>1, <2>2
    <3>2. c \in Orders(S, n) /\ h[k] = Files!Compared(c, k)
      <4>1. k - 1 \in 0 .. m BY <1>1
      <4>q. QED BY <1>2, <4>1
    <3> HIDE DEF c, m
    <3>3. /\ Settled(c, k) => Settled(Files!Compared(c, k), k + 1)
          /\ \A x \in k + 2 .. n : Settled(c, x) => Settled(Files!Compared(c, k), x)
      BY <3>1, <3>2, ComparedKeeps
    <3>4. \A x \in m + 2 .. n : x \in k + 2 .. n BY <1>1, <3>1
    <3>5. Good(h[k], k) BY <3>1, <3>2, <3>3, <3>4
    <3>6. k \in 0 .. m BY <1>1
    <3>q. QED BY <3>5, <3>6
  <2> HIDE DEF G, m
  <2>3. \A k \in 0 .. m : k \in G BY <1>1, <2>1, <2>2, UpTo
  <2>4. m \in 0 .. m BY <1>1
  <2>5. Good(h[m], m) BY <2>3, <2>4 DEF G
  <2>6. \A x \in n - i + 1 .. n : x = m + 1 \/ x \in m + 2 .. n BY <1>1 DEF m
  <2>q. QED BY <1>3, <2>5, <2>6
<1>q. QED BY <1>4, <1>5

\* The turns of the sort, one after another.
SortRun(h, a, S, n) ==
  /\ h[0] = a /\ \A k \in 0 .. n : h[k] \in Orders(S, n)
  /\ \A k \in 1 .. n : h[k] = Files!Turn(h[k - 1], k)
  /\ Files!FoldLeft(Files!Turn, a, [j \in 1 .. n |-> j]) = h[n]

LEMMA SortRuns ==
  ASSUME NEW n \in Nat, NEW S, \A e \in S : e.ord \in Int,
         NEW a \in Orders(S, n)
  PROVE  \E h : SortRun(h, a, S, n)
<1> DEFINE U == Orders(S, n)
           D == 1 .. n
           seq == [j \in 1 .. n |-> j]
           f == [x \in U \X D |-> Files!Turn(x[1], x[2])]
           Made(g, s) == IF s = {} THEN a ELSE Files!Turn(g[s \ {Latest(s)}], seq[Latest(s)])
           it == CHOOSE g : g = [s \in SUBSET (DOMAIN seq) |-> Made(g, s)]
<1>1. f \in [U \X D -> U] BY TurnSettles
<1>2. seq \in [1 .. n -> D] /\ n \in Nat /\ DOMAIN seq = 1 .. n OBVIOUS
<1>3. \A x \in U, j \in D : f[<<x, j>>] = Files!Turn(x, j) OBVIOUS
<1> HIDE DEF f, seq, D
<1>a. a \in U OBVIOUS
<1>4. PICK g : Folding(g, n, U, f, a, seq)
  <2> HIDE DEF U
  <2>q. QED BY <1>a, <1>1, <1>2, FoldExists
<1>5. ASSUME NEW s \in SUBSET (1 .. n), NEW r,
             \A t \in SUBSET (1 .. n) : r[t] \in U
      PROVE  FoldStep(f, a, seq, r, s) = Made(r, s)
  <2>1. CASE s = {} BY <2>1 DEF FoldStep
  <2>2. CASE s # {}
    <3>1. Latest(s) \in 1 .. n BY <1>2, <2>2, LatestIs
    <3>2. seq[Latest(s)] \in D /\ r[s \ {Latest(s)}] \in U BY <1>2, <1>5, <3>1
    <3>q. QED BY <1>3, <2>2, <3>2 DEF FoldStep
  <2>q. QED BY <2>1, <2>2
<1>6. g = [s \in SUBSET (DOMAIN seq) |-> Made(g, s)]
  <2>1. /\ g = [s \in SUBSET (1 .. n) |-> g[s]] /\ \A s \in SUBSET (1 .. n) : g[s] \in U
        /\ \A s \in SUBSET (1 .. n) : g[s] = FoldStep(f, a, seq, g, s)
    BY <1>4 DEF Folding
  <2>2. \A s \in SUBSET (1 .. n) : g[s] = Made(g, s) BY <1>5, <2>1
  <2> HIDE DEF Made
  <2>q. QED BY <1>2, <2>1, <2>2
<1>7. it = [s \in SUBSET (DOMAIN seq) |-> Made(it, s)]
  <2> HIDE DEF Made
  <2>q. QED BY <1>6
<1>8. \A s \in SUBSET (1 .. n) : it[s] = Made(it, s)
  <2> HIDE DEF it, Made
  <2>q. QED BY <1>2, <1>7
<1> DEFINE h == [k \in 0 .. n |-> it[1 .. k]]
<1>9. Files!FoldLeft(Files!Turn, a, seq) = it[1 .. n]
  BY <1>2 DEF Files!FoldLeft, Files!MapThenFoldSet, Files!Max, Latest
<1> HIDE DEF it
<1>10. h[0] = a
  <2>1. 1 .. 0 = {} /\ 0 \in 0 .. n /\ {} \in SUBSET (1 .. n) OBVIOUS
  <2>q. QED BY <1>8, <2>1
<1>11. ASSUME NEW k \in 1 .. n PROVE h[k] = Files!Turn(h[k - 1], k)
  <2>0. k \in Nat \ {0} OBVIOUS
  <2>1. /\ Latest(1 .. k) = k /\ (1 .. k) \ {k} = 1 .. k - 1 /\ 1 .. k # {}
    BY <2>0, LatestOfFirst
  <2>2. 1 .. k \in SUBSET (1 .. n) /\ seq[k] = k /\ k \in 0 .. n /\ k - 1 \in 0 .. n
    BY DEF seq
  <2>q. QED BY <1>8, <2>1, <2>2
<1>12. \A k \in 0 .. n : h[k] \in U
  <2> DEFINE G == {k \in 0 .. n : h[k] \in U}
  <2>1. 0 \in G BY <1>10
  <2>2. ASSUME NEW k \in 1 .. n, k - 1 \in G PROVE k \in G
    <3>1. h[k - 1] \in U /\ k \in 1 .. n BY <2>2
    <3>2. Files!Turn(h[k - 1], k) \in U
      <4> DEFINE b == h[k - 1]
      <4>1. b \in Orders(S, n) BY <3>1
      <4> HIDE DEF b
      <4>2. Files!Turn(b, k) \in Orders(S, n) BY <3>1, <4>1, TurnSettles
      <4>q. QED BY <4>2 DEF b
    <3>3. h[k] \in U BY <1>11, <3>2
    <3>q. QED BY <3>3
  <2> HIDE DEF G
  <2>3. \A k \in 0 .. n : k \in G BY <1>2, <2>1, <2>2, UpTo
  <2>q. QED BY <2>3 DEF G
<1>13. n \in 0 .. n OBVIOUS
<1>14. h[n] = it[1 .. n] BY <1>13 DEF h
<1> HIDE DEF h
<1>q. QED BY <1>9, <1>10, <1>11, <1>12, <1>14 DEF SortRun, seq

LEMMA SortSettles ==
  ASSUME NEW n \in Nat, NEW S, \A e \in S : e.ord \in Int, NEW a \in Orders(S, n)
  PROVE  /\ Files!sortList(a) \in Orders(S, n)
         /\ \A k \in 1 .. n : Settled(Files!sortList(a), k)
<1>r. PICK h : SortRun(h, a, S, n) BY SortRuns
<1>1. /\ h[0] = a /\ \A k \in 0 .. n : h[k] \in Orders(S, n)
      /\ \A k \in 1 .. n : h[k] = Files!Turn(h[k - 1], k)
      /\ Files!FoldLeft(Files!Turn, a, [j \in 1 .. n |-> j]) = h[n]
  BY <1>r DEF SortRun
<1>2. Files!sortList(a) = h[n] BY <1>1, OrdersLen DEF Files!sortList
<1> DEFINE Good(c, i) == \A k \in n - i + 1 .. n : Settled(c, k)
           G == {i \in 0 .. n : Good(h[i], i)}
<1>3. 0 \in G BY <1>1
<1>4. ASSUME NEW i \in 1 .. n, i - 1 \in G PROVE i \in G
  <2> DEFINE c == h[i - 1]
  <2>1. i - 1 \in 0 .. n /\ i \in 0 .. n /\ Good(c, i - 1) BY <1>4
  <2>2. c \in Orders(S, n) /\ h[i] = Files!Turn(c, i) BY <1>1, <2>1
  <2>3. n - (i - 1) + 1 = n - i + 2 OBVIOUS
  <2> HIDE DEF c
  <2>4. \A k \in n - i + 2 .. n : Settled(c, k) BY <2>1, <2>3
  <2>5. Good(h[i], i) BY <2>2, <2>4, TurnSettles
  <2>q. QED BY <2>1, <2>5
<1> HIDE DEF G
<1>5. \A i \in 0 .. n : i \in G BY <1>3, <1>4, UpTo
<1>6. n \in 0 .. n /\ n - n + 1 = 1 OBVIOUS
<1>7. Good(h[n], n) BY <1>5, <1>6 DEF G
<1>q. QED BY <1>1, <1>2, <1>6, <1>7

\* All that a directory may hold.
Entries ==
  {Files!Dot, Files!DotDot}
    \cup UNION {Worlds[w][d] : w \in DOMAIN Worlds, d \in {Files!Home, Files!Sub}}

\* What the two panels may show.
Shown(l) ==
  /\ l \in Seq(Entries)
  /\ \A i, j \in 1 .. Len(l) : l[i] = l[j] => i = j
  /\ \E i \in 1 .. Len(l) : l[i] = Files!Dot
  /\ \E i \in 1 .. Len(l) : l[i] = Files!DotDot
  /\ \A k \in 1 .. Len(l) : Settled(l, k)

Steps == {"start", "left", "right", "keys", "end", "exit"}

FilesTypes ==
  /\ scan \in Steps /\ current_catalog \in Files!Panels
  /\ scan # "start" => world \in DOMAIN Worlds
  /\ pathSize \in [Files!Panels -> Nat] /\ capacity \in [Files!Panels -> Nat]
  /\ dir \in [Files!Panels -> {Files!Home, Files!Sub, Files!Back}]
  /\ current_index \in [Files!Panels -> Nat] /\ list \in [Files!Panels -> Seq(Entries)]

\* Panels not yet read may be empty; the cursor is on top until they are, and a path's
\* buffer never gets smaller.
FilesInv ==
  /\ FilesTypes
  /\ \A i \in Files!Panels :
       /\ list[i] = <<>> \/ Shown(list[i])
       /\ scan = "keys" \/ (scan = "right" /\ i = "left") => Shown(list[i])
       /\ scan \in {"start", "left", "right"} => current_index[i] = 0
       /\ scan = "keys" => current_index[i] <= Len(list[i]) - 2
       /\ pathSize[i] <= capacity[i] /\ Capacity <= capacity[i]

\* What an entry of the assumed trees is like.
LEMMA EntriesFine ==
  ASSUME Files!CommanderAssumption, NEW e \in Entries
  PROVE  /\ e.ord \in Int /\ e.len \in Nat /\ e.len + 2 <= Capacity
         /\ e.ord = 2 => e = Files!Dot
         /\ e.ord = 3 => e = Files!DotDot
         /\ e.name \in {"d", ".."} => Files!IsDir(e)
<1>1. CASE e = Files!Dot
  BY <1>1 DEF Files!Dot, Files!DotDot, Files!Entry, Files!IsDir, Files!CommanderAssumption
<1>2. CASE e = Files!DotDot
  BY <1>2 DEF Files!Dot, Files!DotDot, Files!Entry, Files!IsDir, Files!CommanderAssumption
<1>3. CASE e \in UNION {Worlds[w][d] : w \in DOMAIN Worlds, d \in {Files!Home, Files!Sub}}
  <2>1. PICK w \in DOMAIN Worlds, d \in {Files!Home, Files!Sub} : e \in Worlds[w][d] BY <1>3
  <2>q. QED BY <2>1 DEF Files!CommanderAssumption, Files!IsDir
<1>q. QED BY <1>1, <1>2, <1>3 DEF Entries

LEMMA Dots ==
  /\ Files!Dot.ord = 2 /\ Files!DotDot.ord = 3 /\ Files!Dot # Files!DotDot
  /\ Files!IsDir(Files!Dot) /\ Files!IsDir(Files!DotDot)
  /\ Files!Statable(Files!Dot) /\ Files!Statable(Files!DotDot)
  /\ Files!Dot \in Entries /\ Files!DotDot \in Entries
BY DEF Files!Dot, Files!DotDot, Files!Entry, Files!IsDir, Files!Statable, Entries

\* What a sorted panel looks like.
LEMMA ShownSorted ==
  ASSUME Files!CommanderAssumption, NEW l, Shown(l)
  PROVE  /\ Len(l) \in Nat /\ Len(l) >= 2 /\ DOMAIN l = 1 .. Len(l)
         /\ \A j \in 1 .. Len(l) : l[j] \in Entries
         /\ \A j \in 1 .. Len(l) - 1 : ~Files!OutOfOrder(l[j], l[j + 1])
         /\ \A j, k \in 1 .. Len(l) :
              j < k /\ Files!Plain(l) => ~(Files!IsDir(l[k]) /\ ~Files!IsDir(l[j]))
         /\ Files!Plain(l) => l[1] = Files!Dot /\ l[2] = Files!DotDot
<1> DEFINE n == Len(l)
<1>1. n \in Nat /\ DOMAIN l = 1 .. n /\ \A j \in 1 .. n : l[j] \in Entries BY DEF Shown
<1>2. PICK p \in 1 .. n : l[p] = Files!Dot BY DEF Shown
<1>3. PICK q \in 1 .. n : l[q] = Files!DotDot BY DEF Shown
<1>4. p # q /\ n >= 2 /\ 1 \in 1 .. n /\ 2 \in 1 .. n BY <1>1, <1>2, <1>3, Dots
<1>5. \A k \in 1 .. n, i \in 1 .. n :
         i < k /\ (\A h \in i .. k : Files!Statable(l[h])) => ~Files!OutOfOrder(l[i], l[k])
  BY <1>1 DEF Shown, Settled
<1>6. \A i, j \in 1 .. n : l[i] = l[j] => i = j BY DEF Shown
<1>7. \A j \in 1 .. n : l[j].ord \in Int /\ (l[j].ord = 2 => l[j] = Files!Dot)
                        /\ (l[j].ord = 3 => l[j] = Files!DotDot)
  BY <1>1, EntriesFine
<1> HIDE DEF n
<1>8. ASSUME NEW j \in 1 .. n - 1 PROVE ~Files!OutOfOrder(l[j], l[j + 1])
  <2>1. CASE Files!Statable(l[j]) /\ Files!Statable(l[j + 1])
    <3>1. \A h \in j .. j + 1 : h = j \/ h = j + 1 BY <1>1
    <3>2. j \in 1 .. n /\ j + 1 \in 1 .. n /\ j < j + 1 BY <1>1
    <3>q. QED BY <1>5, <2>1, <3>1, <3>2
  <2>2. CASE ~(Files!Statable(l[j]) /\ Files!Statable(l[j + 1])) BY <2>2 DEF Files!OutOfOrder
  <2>q. QED BY <2>1, <2>2
<1>9. ASSUME Files!Plain(l)
      PROVE  /\ \A j \in 1 .. n : Files!Statable(l[j]) /\ (Files!IsDir(l[j]) => l[j].ord >= 2)
             /\ \A j, k \in 1 .. n : j < k => ~Files!OutOfOrder(l[j], l[k])
  <2>1. \A j \in 1 .. n : Files!Statable(l[j]) /\ (Files!IsDir(l[j]) => l[j].ord >= 2)
    BY <1>1, <1>9, Dots DEF Files!Plain
  <2>2. \A j, k \in 1 .. n : \A h \in j .. k : h \in 1 .. n BY <1>1
  <2>q. QED BY <1>5, <2>1, <2>2
<1>10. ASSUME Files!Plain(l), NEW j \in 1 .. n, NEW k \in 1 .. n, j < k
       PROVE  ~(Files!IsDir(l[k]) /\ ~Files!IsDir(l[j]))
  BY <1>9, <1>10 DEF Files!OutOfOrder
<1>11. ASSUME Files!Plain(l) PROVE l[1] = Files!Dot /\ l[2] = Files!DotDot
  <2>1. p = 1
    <3>1. SUFFICES ASSUME p # 1 PROVE FALSE OBVIOUS
    <3>2. 1 < p BY <1>1, <3>1
    <3>3. ~Files!OutOfOrder(l[1], Files!Dot) /\ Files!Statable(l[1])
      BY <1>2, <1>4, <1>9, <1>11, <3>2
    <3>4. Files!IsDir(l[1]) /\ ~(l[1].ord > 2) BY <3>3, Dots DEF Files!OutOfOrder
    <3>5. l[1].ord = 2 BY <1>4, <1>7, <1>9, <1>11, <3>4
    <3>q. QED BY <1>2, <1>4, <1>6, <1>7, <3>1, <3>5
  <2>2. q = 2
    <3>1. SUFFICES ASSUME q # 2 PROVE FALSE OBVIOUS
    <3>2. 2 < q BY <1>1, <1>4, <2>1, <3>1
    <3>3. ~Files!OutOfOrder(l[2], Files!DotDot) /\ Files!Statable(l[2])
      BY <1>3, <1>4, <1>9, <1>11, <3>2
    <3>4. Files!IsDir(l[2]) /\ ~(l[2].ord > 3) BY <3>3, Dots DEF Files!OutOfOrder
    <3>5. l[2].ord = 2 \/ l[2].ord = 3 BY <1>4, <1>7, <1>9, <1>11, <3>4
    <3>6. l[2] = Files!Dot \/ l[2] = Files!DotDot BY <1>4, <1>7, <3>5
    <3>q. QED BY <1>2, <1>3, <1>4, <1>6, <2>1, <3>1, <3>6
  <2>q. QED BY <1>2, <1>3, <2>1, <2>2
<1>q. QED BY <1>1, <1>4, <1>8, <1>10, <1>11 DEF n

LEMMA FilesCardinality == ASSUME NEW S PROVE Files!Cardinality(S) = Cardinality(S)
BY DEF Files!Cardinality, Cardinality

\* Whatever order a directory is read in, its panel is sorted.
LEMMA ContentShown ==
  ASSUME Files!CommanderAssumption, world \in DOMAIN Worlds,
         NEW d \in {Files!Home, Files!Sub, Files!Back},
         NEW order \in Files!SetToSeqs(Files!Content(d))
  PROVE  Shown(Files!sortList(order))
<1> DEFINE S == Files!Content(d)
           n == Cardinality(S)
           w == Worlds[world][IF d = Files!Sub THEN Files!Sub ELSE Files!Home]
<1>1. IsFiniteSet(w) /\ w \subseteq Entries
  <2>1. Files!IsFiniteSet(w) /\ w \subseteq Entries
    BY DEF Files!CommanderAssumption, Entries
  <2>q. QED BY <2>1 DEF Files!IsFiniteSet, IsFiniteSet
<1>2. S \subseteq {Files!Dot, Files!DotDot} \cup w BY DEF Files!Content
<1>3. IsFiniteSet({Files!Dot, Files!DotDot})
  <2>1. {Files!Dot, Files!DotDot} = {Files!Dot} \cup {Files!DotDot} OBVIOUS
  <2>2. IsFiniteSet({Files!Dot}) /\ IsFiniteSet({Files!DotDot}) BY FS_Singleton
  <2>q. QED BY <2>1, <2>2, FS_Union
<1>4. IsFiniteSet(S) BY <1>1, <1>2, <1>3, FS_Union, FS_Subset
<1>5. S \subseteq Entries /\ Files!Dot \in S /\ Files!DotDot \in S
  BY <1>1, <1>2, Dots DEF Files!Content
<1>6. order \in [1 .. n -> S] /\ \A i, j \in 1 .. n : i # j => order[i] # order[j]
  <2>1. Files!Cardinality(S) = n BY FilesCardinality
  <2>q. QED BY <2>1 DEF Files!SetToSeqs
<1> HIDE DEF S, n
<1>7. n \in Nat BY <1>4, FS_CardinalityType DEF n
<1>8. order \in Orders(S, n)
  <2>1. order \in Injection(1 .. n, S) BY <1>6 DEF Injection, IsInjective
  <2>2. Cardinality(1 .. n) = n BY <1>7, FS_Interval
  <2>3. order \in Surjection(1 .. n, S) BY <1>4, <2>1, <2>2, FS_Injection DEF n
  <2>4. \A e \in S : \E i \in 1 .. n : order[i] = e BY <2>3 DEF Surjection
  <2>q. QED BY <1>6, <2>4 DEF Orders
<1>9. \A e \in S : e.ord \in Int BY <1>5, EntriesFine
<1> DEFINE l == Files!sortList(order)
<1>10. l \in Orders(S, n) /\ \A k \in 1 .. n : Settled(l, k) BY <1>7, <1>8, <1>9, SortSettles
<1> HIDE DEF l
<1>11. Len(l) = n /\ l \in Seq(S) BY <1>7, <1>10, OrdersLen
<1>12. l \in Seq(Entries) BY <1>5, <1>7, <1>10, <1>11 DEF Orders
<1>13. /\ \A i, j \in 1 .. n : l[i] = l[j] => i = j
       /\ \E i \in 1 .. n : l[i] = Files!Dot
       /\ \E i \in 1 .. n : l[i] = Files!DotDot
  BY <1>5, <1>10 DEF Orders
<1>q. QED BY <1>10, <1>11, <1>12, <1>13 DEF Shown, l

LEMMA FilesStart == ASSUME Files!CommanderAssumption, Files!Init PROVE FilesInv
BY DEF Files!CommanderAssumption, Files!Init, FilesInv, FilesTypes, Steps, Files!Panels

LEMMA FilesChoose ==
  ASSUME FilesInv, NEW w \in DOMAIN Worlds, Files!Choose(w) PROVE FilesInv'
BY DEF FilesInv, FilesTypes, Steps, Files!Choose, Files!Panels, Shown, Settled

LEMMA FilesScan ==
  ASSUME Files!CommanderAssumption, FilesInv, NEW i \in Files!Panels, Files!Scan(i)
  PROVE  FilesInv'
<1>1. /\ scan = i /\ scan \in {"left", "right"} /\ world \in DOMAIN Worlds
      /\ dir[i] \in {Files!Home, Files!Sub, Files!Back} /\ DOMAIN list = Files!Panels
  BY DEF Files!Scan, Files!Panels, FilesInv, FilesTypes
<1>2. UNCHANGED <<world, removed, dir, pathSize, capacity, current_index, current_catalog>>
  BY DEF Files!Scan
<1>4. CASE scan' = "exit" /\ UNCHANGED list
  <2>1. FilesTypes' BY <1>1, <1>2, <1>4 DEF FilesInv, FilesTypes, Steps, Files!Panels
  <2>2. \A p \in Files!Panels : /\ list[p] = <<>> \/ Shown(list[p])
                           /\ pathSize[p] <= capacity[p] /\ Capacity <= capacity[p]
    BY DEF FilesInv
  <2>3. \A p \in Files!Panels : /\ list'[p] = <<>> \/ Shown(list'[p])
                           /\ pathSize'[p] <= capacity'[p] /\ Capacity <= capacity'[p]
    BY <1>2, <1>4, <2>2
  <2>q. QED BY <1>4, <2>1, <2>3 DEF FilesInv, Shown, Settled
<1>5. CASE /\ \E order \in Files!SetToSeqs(Files!Content(dir[i])) :
                list' = [list EXCEPT ![i] = Files!sortList(order)]
           /\ scan' = IF i = "left" THEN "right" ELSE "keys"
  <2>1. PICK order \in Files!SetToSeqs(Files!Content(dir[i])) :
            list' = [list EXCEPT ![i] = Files!sortList(order)]
    BY <1>5
  <2>2. Shown(Files!sortList(order)) BY <1>1, ContentShown
  <2> DEFINE l == Files!sortList(order)
  <2>3. Shown(l) /\ l \in Seq(Entries) /\ Len(l) \in Nat /\ Len(l) >= 2
    BY <2>2, ShownSorted DEF Shown
  <2>4. list' = [list EXCEPT ![i] = l] BY <2>1
  <2> HIDE DEF l
  <2>5. /\ list'[i] = l /\ \A p \in Files!Panels \ {i} : list'[p] = list[p]
        /\ list' \in [Files!Panels -> Seq(Entries)]
    BY <1>1, <2>3, <2>4 DEF FilesInv, FilesTypes
  <2>6. FilesTypes'
    BY <1>1, <1>2, <1>5, <2>5 DEF FilesInv, FilesTypes, Steps, Files!Panels
  <2>7. ASSUME NEW p \in Files!Panels
        PROVE  /\ list'[p] = <<>> \/ Shown(list'[p])
               /\ scan' = "keys" \/ (scan' = "right" /\ p = "left") => Shown(list'[p])
    BY <1>1, <1>5, <2>3, <2>5, <2>7 DEF FilesInv, Files!Panels
  <2>8. ASSUME NEW p \in Files!Panels
        PROVE  /\ scan' \in {"start", "left", "right"} => current_index'[p] = 0
               /\ scan' = "keys" => current_index'[p] <= Len(list'[p]) - 2
               /\ pathSize'[p] <= capacity'[p] /\ Capacity <= capacity'[p]
    <3>1. current_index[p] = 0 BY <1>1 DEF FilesInv
    <3>2. scan' = "keys" => Len(list'[p]) \in Nat /\ Len(list'[p]) >= 2
      BY <2>7, ShownSorted
    <3>q. QED BY <1>2, <3>1, <3>2 DEF FilesInv
  <2>q. QED BY <2>6, <2>7, <2>8 DEF FilesInv, Shown, Settled
<1>q. QED BY <1>4, <1>5 DEF Files!Scan

LEMMA FilesKeep ==
  ASSUME FilesInv, Files!RemoveSub \/ Files!Tab \/ Files!F1 \/ UNCHANGED fileVars
  PROVE  FilesInv'
<1>1. UNCHANGED <<world, dir, pathSize, capacity, list, current_index>>
  BY DEF Files!RemoveSub, Files!Tab, Files!F1, fileVars
<1>2. scan' = scan \/ (scan = "keys" /\ scan' = "end")
  BY DEF Files!RemoveSub, Files!Tab, Files!F1, fileVars
<1>3. current_catalog' \in Files!Panels
  BY DEF Files!RemoveSub, Files!Tab, Files!F1, fileVars, FilesInv, FilesTypes, Files!Panels
<1>q. QED BY <1>1, <1>2, <1>3 DEF FilesInv, FilesTypes, Steps, Shown, Settled

LEMMA FilesKey ==
  ASSUME Files!CommanderAssumption, FilesInv, NEW step \in {1, -1}, Files!Key(step)
  PROVE  FilesInv'
<1> DEFINE c == current_catalog
           n == Len(Files!Rows(c))
           x == (current_index[c] + n + step) % n
<1>1. /\ scan = "keys" /\ c \in Files!Panels /\ current_index' = [current_index EXCEPT ![c] = x]
      /\ UNCHANGED <<world, removed, scan, dir, pathSize, capacity, list, current_catalog>>
  BY DEF Files!Key, FilesInv, FilesTypes
<1>2. Shown(list[c]) BY <1>1 DEF FilesInv
<1>3. Len(list[c]) \in Nat /\ Len(list[c]) >= 2 /\ list[c] \in Seq(Entries)
  BY <1>2, ShownSorted DEF Shown
<1>4. n \in Nat \ {0} /\ n = Len(list[c]) - 1
  <2> DEFINE l == list[c]
  <2>1. l \in Seq(Entries) /\ Len(l) \in Nat /\ Len(l) >= 2 BY <1>3
  <2> HIDE DEF l
  <2>2. Len(Tail(l)) = Len(l) - 1 BY <2>1
  <2>3. n = Len(Tail(l)) BY DEF Files!Rows, l
  <2>4. n \in Nat \ {0} /\ n = Len(l) - 1
    <3> HIDE DEF n
    <3>1. n = Len(l) - 1 BY <2>2, <2>3, Zenon
    <3> DEFINE q == Len(l)
    <3>2. q \in Nat /\ q >= 2 BY <2>1
    <3> HIDE DEF q
    <3>3. q - 1 \in Nat \ {0} BY <3>2
    <3>q. QED BY <3>1, <3>3 DEF q
  <2>q. QED BY <2>4 DEF l
<1>5. current_index[c] \in Nat BY <1>1 DEF FilesInv, FilesTypes
<1>6. x \in 0 .. n - 1
  <2> DEFINE y == current_index[c] + n + step
  <2> HIDE DEF n
  <2>1. y \in Int BY <1>4, <1>5
  <2> HIDE DEF y
  <2>2. ASSUME NEW a \in Int, NEW b \in Nat \ {0} PROVE a % b \in 0 .. b - 1 BY Z3
  <2>3. y % n \in 0 .. n - 1 BY <1>4, <2>1, <2>2
  <2>q. QED BY <2>3 DEF y
<1> HIDE DEF n, x
<1>7. x \in Nat /\ x <= Len(list[c]) - 2 BY <1>3, <1>4, <1>6
<1>8. /\ current_index' \in [Files!Panels -> Nat]
      /\ \A p \in Files!Panels : current_index'[p] <= Len(list[p]) - 2
  BY <1>1, <1>7 DEF FilesInv, FilesTypes
<1>q. QED BY <1>1, <1>8 DEF FilesInv, FilesTypes, Steps, Shown, Settled

\* What the cursor is on is an entry of the panel.
LEMMA SelectedListed ==
  ASSUME Files!CommanderAssumption, FilesInv, scan = "keys" PROVE Files!Selected \in Entries
<1> DEFINE c == current_catalog
           l == list[c]
           k == current_index[c]
<1>1. c \in Files!Panels /\ k \in Nat /\ k <= Len(l) - 2 /\ Shown(l) BY DEF FilesInv, FilesTypes
<1>2. Len(l) \in Nat /\ Len(l) >= 2 /\ l \in Seq(Entries) BY <1>1, ShownSorted DEF Shown
<1> HIDE DEF l, k
<1>3. Tail(l)[k + 1] \in Entries BY <1>1, <1>2
<1>q. QED BY <1>3 DEF Files!Selected, Files!Rows, l, k

LEMMA FilesEnter == ASSUME Files!CommanderAssumption, FilesInv, Files!Enter PROVE FilesInv'
<1> DEFINE i == current_catalog
           e == Files!Selected
           n == Files!NameLength(e)
<1>1. /\ scan = "keys" /\ i \in Files!Panels /\ Files!Status(e) = 0 /\ scan' = "left"
      /\ capacity' = [capacity EXCEPT ![i] = IF Files!Grows(pathSize[i], n, @) THEN 2 * @ ELSE @]
      /\ pathSize' = [pathSize EXCEPT ![i] = @ + n + 1]
      /\ dir' = [dir EXCEPT ![i] = Files!Leads(@, e)]
      /\ list' = [p \in Files!Panels |-> <<>>] /\ current_index' = [p \in Files!Panels |-> 0]
      /\ UNCHANGED <<world, removed, current_catalog>>
  BY DEF Files!Enter, FilesInv, FilesTypes
<1>2. e \in Entries BY <1>1, SelectedListed
<1>3. n \in Nat /\ n + 1 <= Capacity
  <2>1. e.len \in Nat /\ e.len + 2 <= Capacity /\ Capacity \in Nat
    BY <1>2, EntriesFine DEF Files!CommanderAssumption
  <2>q. QED BY <2>1 DEF Files!NameLength
<1>4. Files!Leads(dir[i], e) \in {Files!Home, Files!Sub, Files!Back}
  BY <1>1 DEF Files!Leads, FilesInv, FilesTypes
<1> HIDE DEF n, e, i
<1>5. /\ pathSize \in [Files!Panels -> Nat] /\ capacity \in [Files!Panels -> Nat]
      /\ Capacity \in Nat
      /\ dir \in [Files!Panels -> {Files!Home, Files!Sub, Files!Back}]
      /\ \A p \in Files!Panels : pathSize[p] <= capacity[p] /\ Capacity <= capacity[p]
  BY DEF FilesInv, FilesTypes, Files!CommanderAssumption
<1>6. pathSize' \in [Files!Panels -> Nat] /\ capacity' \in [Files!Panels -> Nat]
      /\ dir' \in [Files!Panels -> {Files!Home, Files!Sub, Files!Back}]
  BY <1>1, <1>3, <1>4, <1>5
<1>7. \A p \in Files!Panels : pathSize'[p] <= capacity'[p] /\ Capacity <= capacity'[p]
  <2>1. /\ pathSize'[i] = pathSize[i] + n + 1
        /\ capacity'[i] = IF pathSize[i] + n >= capacity[i] THEN 2 * capacity[i] ELSE capacity[i]
        /\ \A p \in Files!Panels \ {i} : pathSize'[p] = pathSize[p] /\ capacity'[p] = capacity[p]
    BY <1>1, <1>5 DEF Files!Grows
  <2>2. pathSize'[i] <= capacity'[i] /\ Capacity <= capacity'[i]
    BY <1>1, <1>3, <1>5, <2>1
  <2>q. QED BY <1>5, <2>1, <2>2
<1>8. list' \in [Files!Panels -> Seq(Entries)] /\ current_index' \in [Files!Panels -> Nat]
      /\ \A p \in Files!Panels : list'[p] = <<>> /\ current_index'[p] = 0
  BY <1>1
<1>q. QED
  BY <1>1, <1>6, <1>7, <1>8 DEF FilesInv, FilesTypes, Steps, Files!Panels, Shown, Settled

LEMMA FilesStep ==
  ASSUME Files!CommanderAssumption, FilesInv, [Files!Next]_fileVars PROVE FilesInv'
<1>1. \A i \in Files!Panels : Files!Scan(i) => FilesInv' BY FilesScan
<1>2. \A w \in DOMAIN Worlds : Files!Choose(w) => FilesInv' BY FilesChoose
<1>q. QED BY <1>1, <1>2, FilesKeep, FilesKey, FilesEnter DEF Files!Next

LEMMA FilesSound == ASSUME Files!CommanderAssumption, FilesInv PROVE Files!PanelsSound
<1>1. ASSUME NEW i \in Files!Panels
      PROVE  /\ \A j \in 1 .. Len(list[i]) - 1 : ~Files!OutOfOrder(list[i][j], list[i][j + 1])
             /\ \A j, k \in DOMAIN list[i] :
                  j < k /\ Files!Plain(list[i])
                    => ~(Files!IsDir(list[i][k]) /\ ~Files!IsDir(list[i][j]))
             /\ list[i] # <<>> /\ Files!Plain(list[i])
                  => list[i][1] = Files!Dot /\ list[i][2] = Files!DotDot
  <2> DEFINE l == list[i]
  <2>1. l = <<>> \/ Shown(l) BY DEF FilesInv
  <2> HIDE DEF l
  <2>2. CASE l = <<>> BY <2>2 DEF l
  <2>3. CASE Shown(l)
    <3>1. /\ DOMAIN l = 1 .. Len(l)
          /\ \A j \in 1 .. Len(l) - 1 : ~Files!OutOfOrder(l[j], l[j + 1])
          /\ \A j, k \in 1 .. Len(l) :
               j < k /\ Files!Plain(l) => ~(Files!IsDir(l[k]) /\ ~Files!IsDir(l[j]))
          /\ Files!Plain(l) => l[1] = Files!Dot /\ l[2] = Files!DotDot
      BY <2>3, ShownSorted
    <3>q. QED BY <3>1 DEF l
  <2>q. QED BY <2>1, <2>2, <2>3
<1>2. ASSUME NEW i \in Files!Panels, scan = "keys"
      PROVE  /\ current_index[i] \in 0 .. Len(Files!Rows(i)) - 1
             /\ \A j \in DOMAIN Files!Rows(i) :
                  Files!Status(Files!Rows(i)[j]) = 0 /\ ~Files!IsDir(Files!Rows(i)[j])
                    => Files!Leads(dir[i], Files!Rows(i)[j]) = dir[i]
  <2> DEFINE l == list[i]
  <2>1. /\ Shown(l) /\ current_index[i] \in Nat /\ current_index[i] <= Len(l) - 2
        /\ dir[i] \in {Files!Home, Files!Sub, Files!Back}
    BY <1>2 DEF FilesInv, FilesTypes
  <2>2. Len(l) \in Nat /\ Len(l) >= 2 /\ l \in Seq(Entries) BY <2>1, ShownSorted DEF Shown
  <2> HIDE DEF l
  <2>3. /\ Len(Tail(l)) = Len(l) - 1 /\ Tail(l) \in Seq(Entries)
        /\ DOMAIN Tail(l) = 1 .. Len(l) - 1
        /\ \A j \in 1 .. Len(l) - 1 : Tail(l)[j] \in Entries
    BY <2>2
  <2>4. current_index[i] \in 0 .. Len(Tail(l)) - 1 BY <2>1, <2>2, <2>3
  <2>5. \A e \in Entries : ~Files!IsDir(e) => Files!Leads(dir[i], e) = dir[i]
    BY <2>1, EntriesFine DEF Files!Leads
  <2>q. QED BY <2>3, <2>4, <2>5 DEF Files!Rows, l
<1>q. QED BY <1>1, <1>2 DEF Files!PanelsSound, FilesInv, FilesTypes, Steps

--------------------------------------------------------------------------------
(* The small computations (Algorithms).  Each loop of the code is a fold, and its run is
   followed step by step: the bits counted so far, the cells exchanged so far, the sum
   that stays the same modulo the largest word, the cells the snail has filled.  The
   snail stands where the closed form says the next number is, and goes where it says
   the snail goes; the wall it turns at is the border or a smaller number. *)

\* The fold of Shifted, one step after another.
ShiftedRun(h, base, seq, n, U) ==
  /\ h[0] = base /\ \A k \in 0 .. n : h[k] \in U
  /\ \A k \in 1 .. n : h[k] = Computing!Shifted(h[k - 1], seq[k])
  /\ Computing!FoldLeft(Computing!Shifted, base, seq) = h[n]

LEMMA ShiftedRuns ==
  ASSUME NEW n \in Nat, NEW U, NEW base \in U, NEW D, NEW seq \in [1 .. n -> D],
         \A x \in U, y \in D : Computing!Shifted(x, y) \in U
  PROVE  \E h : ShiftedRun(h, base, seq, n, U)
<1> DEFINE f == [x \in U \X D |-> Computing!Shifted(x[1], x[2])]
           Made(g, s) ==
             IF s = {} THEN base ELSE Computing!Shifted(g[s \ {Latest(s)}], seq[Latest(s)])
           it == CHOOSE g : g = [s \in SUBSET (DOMAIN seq) |-> Made(g, s)]
           h == [k \in 0 .. n |-> it[1 .. k]]
<1>1. f \in [U \X D -> U] /\ \A x \in U, y \in D : f[<<x, y>>] = Computing!Shifted(x, y)
  OBVIOUS
<1> HIDE DEF f
<1>2. PICK g : Folding(g, n, U, f, base, seq) BY <1>1, FoldExists
<1>3. \A s \in SUBSET (1 .. n) : g[s] = FoldStep(f, base, seq, g, s) /\ g[s] \in U
  BY <1>2 DEF Folding
<1>4. ASSUME NEW s \in SUBSET (1 .. n) PROVE g[s] = Made(g, s)
  <2>1. CASE s = {} BY <1>3, <2>1 DEF FoldStep
  <2>2. CASE s # {}
    <3>1. Latest(s) \in 1 .. n BY <2>2, LatestIs
    <3>2. seq[Latest(s)] \in D /\ g[s \ {Latest(s)}] \in U BY <1>3, <3>1
    <3>q. QED BY <1>1, <1>3, <2>2, <3>2 DEF FoldStep
  <2>q. QED BY <2>1, <2>2
<1>5. g = [s \in SUBSET (DOMAIN seq) |-> Made(g, s)]
  <2>1. g = [s \in SUBSET (1 .. n) |-> g[s]] BY <1>2 DEF Folding
  <2> HIDE DEF Made
  <2>q. QED BY <1>4, <2>1
<1>6. it = [s \in SUBSET (DOMAIN seq) |-> Made(it, s)]
  <2> HIDE DEF Made
  <2>q. QED BY <1>5
<1>7. Computing!FoldLeft(Computing!Shifted, base, seq) = it[1 .. n]
  BY DEF Computing!FoldLeft, Computing!MapThenFoldSet, Computing!Max, Latest
<1>8. \A s \in SUBSET (1 .. n) : it[s] = Made(it, s)
  <2> HIDE DEF it, Made
  <2>q. QED BY <1>6
<1> HIDE DEF it
<1>9. h[0] = base
  <2>1. 1 .. 0 = {} /\ 0 \in 0 .. n /\ {} \in SUBSET (1 .. n) OBVIOUS
  <2>q. QED BY <1>8, <2>1
<1>10. ASSUME NEW k \in 1 .. n PROVE h[k] = Computing!Shifted(h[k - 1], seq[k])
  <2>1. k \in Nat \ {0} OBVIOUS
  <2>2. Latest(1 .. k) = k /\ (1 .. k) \ {k} = 1 .. k - 1 /\ 1 .. k # {}
    BY <2>1, LatestOfFirst
  <2>3. 1 .. k \in SUBSET (1 .. n) /\ k \in 0 .. n /\ k - 1 \in 0 .. n OBVIOUS
  <2>q. QED BY <1>8, <2>2, <2>3
<1>11. n \in 0 .. n /\ h[n] = it[1 .. n] OBVIOUS
<1> HIDE DEF h
<1>12. \A k \in 0 .. n : h[k] \in U
  <2> DEFINE G == {k \in 0 .. n : h[k] \in U}
  <2>1. 0 \in G BY <1>9
  <2>2. ASSUME NEW k \in 1 .. n, k - 1 \in G PROVE k \in G BY <1>10, <2>2
  <2> HIDE DEF G
  <2>3. \A k \in 0 .. n : k \in G BY <2>1, <2>2, UpTo
  <2>q. QED BY <2>3 DEF G
<1>q. QED BY <1>7, <1>9, <1>10, <1>11, <1>12 DEF ShiftedRun

\* The fold of Exchanged, one step after another.
ExchangedRun(h, base, seq, n, U) ==
  /\ h[0] = base /\ \A k \in 0 .. n : h[k] \in U
  /\ \A k \in 1 .. n : h[k] = Computing!Exchanged(h[k - 1], seq[k])
  /\ Computing!FoldLeft(Computing!Exchanged, base, seq) = h[n]

LEMMA ExchangedRuns ==
  ASSUME NEW n \in Nat, NEW U, NEW base \in U, NEW D, NEW seq \in [1 .. n -> D],
         \A x \in U, y \in D : Computing!Exchanged(x, y) \in U
  PROVE  \E h : ExchangedRun(h, base, seq, n, U)
<1> DEFINE f == [x \in U \X D |-> Computing!Exchanged(x[1], x[2])]
           Made(g, s) ==
             IF s = {} THEN base ELSE Computing!Exchanged(g[s \ {Latest(s)}], seq[Latest(s)])
           it == CHOOSE g : g = [s \in SUBSET (DOMAIN seq) |-> Made(g, s)]
           h == [k \in 0 .. n |-> it[1 .. k]]
<1>1. f \in [U \X D -> U] /\ \A x \in U, y \in D : f[<<x, y>>] = Computing!Exchanged(x, y)
  OBVIOUS
<1> HIDE DEF f
<1>2. PICK g : Folding(g, n, U, f, base, seq) BY <1>1, FoldExists
<1>3. \A s \in SUBSET (1 .. n) : g[s] = FoldStep(f, base, seq, g, s) /\ g[s] \in U
  BY <1>2 DEF Folding
<1>4. ASSUME NEW s \in SUBSET (1 .. n) PROVE g[s] = Made(g, s)
  <2>1. CASE s = {} BY <1>3, <2>1 DEF FoldStep
  <2>2. CASE s # {}
    <3>1. Latest(s) \in 1 .. n BY <2>2, LatestIs
    <3>2. seq[Latest(s)] \in D /\ g[s \ {Latest(s)}] \in U BY <1>3, <3>1
    <3>q. QED BY <1>1, <1>3, <2>2, <3>2 DEF FoldStep
  <2>q. QED BY <2>1, <2>2
<1>5. g = [s \in SUBSET (DOMAIN seq) |-> Made(g, s)]
  <2>1. g = [s \in SUBSET (1 .. n) |-> g[s]] BY <1>2 DEF Folding
  <2> HIDE DEF Made
  <2>q. QED BY <1>4, <2>1
<1>6. it = [s \in SUBSET (DOMAIN seq) |-> Made(it, s)]
  <2> HIDE DEF Made
  <2>q. QED BY <1>5
<1>7. Computing!FoldLeft(Computing!Exchanged, base, seq) = it[1 .. n]
  BY DEF Computing!FoldLeft, Computing!MapThenFoldSet, Computing!Max, Latest
<1>8. \A s \in SUBSET (1 .. n) : it[s] = Made(it, s)
  <2> HIDE DEF it, Made
  <2>q. QED BY <1>6
<1> HIDE DEF it
<1>9. h[0] = base
  <2>1. 1 .. 0 = {} /\ 0 \in 0 .. n /\ {} \in SUBSET (1 .. n) OBVIOUS
  <2>q. QED BY <1>8, <2>1
<1>10. ASSUME NEW k \in 1 .. n PROVE h[k] = Computing!Exchanged(h[k - 1], seq[k])
  <2>1. k \in Nat \ {0} OBVIOUS
  <2>2. Latest(1 .. k) = k /\ (1 .. k) \ {k} = 1 .. k - 1 /\ 1 .. k # {}
    BY <2>1, LatestOfFirst
  <2>3. 1 .. k \in SUBSET (1 .. n) /\ k \in 0 .. n /\ k - 1 \in 0 .. n OBVIOUS
  <2>q. QED BY <1>8, <2>2, <2>3
<1>11. n \in 0 .. n /\ h[n] = it[1 .. n] OBVIOUS
<1> HIDE DEF h
<1>12. \A k \in 0 .. n : h[k] \in U
  <2> DEFINE G == {k \in 0 .. n : h[k] \in U}
  <2>1. 0 \in G BY <1>9
  <2>2. ASSUME NEW k \in 1 .. n, k - 1 \in G PROVE k \in G BY <1>10, <2>2
  <2> HIDE DEF G
  <2>3. \A k \in 0 .. n : k \in G BY <2>1, <2>2, UpTo
  <2>q. QED BY <2>3 DEF G
<1>q. QED BY <1>7, <1>9, <1>10, <1>11, <1>12 DEF ExchangedRun

\* The fold of SnailStep, one step after another.
SnailStepRun(h, base, seq, n, U) ==
  /\ h[0] = base /\ \A k \in 0 .. n : h[k] \in U
  /\ \A k \in 1 .. n : h[k] = Computing!SnailStep(h[k - 1], seq[k])
  /\ Computing!FoldLeft(Computing!SnailStep, base, seq) = h[n]

LEMMA SnailStepRuns ==
  ASSUME NEW n \in Nat, NEW U, NEW base \in U, NEW D, NEW seq \in [1 .. n -> D],
         \A x \in U, y \in D : Computing!SnailStep(x, y) \in U
  PROVE  \E h : SnailStepRun(h, base, seq, n, U)
<1> DEFINE f == [x \in U \X D |-> Computing!SnailStep(x[1], x[2])]
           Made(g, s) ==
             IF s = {} THEN base ELSE Computing!SnailStep(g[s \ {Latest(s)}], seq[Latest(s)])
           it == CHOOSE g : g = [s \in SUBSET (DOMAIN seq) |-> Made(g, s)]
           h == [k \in 0 .. n |-> it[1 .. k]]
<1>1. f \in [U \X D -> U] /\ \A x \in U, y \in D : f[<<x, y>>] = Computing!SnailStep(x, y)
  OBVIOUS
<1> HIDE DEF f
<1>2. PICK g : Folding(g, n, U, f, base, seq) BY <1>1, FoldExists
<1>3. \A s \in SUBSET (1 .. n) : g[s] = FoldStep(f, base, seq, g, s) /\ g[s] \in U
  BY <1>2 DEF Folding
<1>4. ASSUME NEW s \in SUBSET (1 .. n) PROVE g[s] = Made(g, s)
  <2>1. CASE s = {} BY <1>3, <2>1 DEF FoldStep
  <2>2. CASE s # {}
    <3>1. Latest(s) \in 1 .. n BY <2>2, LatestIs
    <3>2. seq[Latest(s)] \in D /\ g[s \ {Latest(s)}] \in U BY <1>3, <3>1
    <3>q. QED BY <1>1, <1>3, <2>2, <3>2 DEF FoldStep
  <2>q. QED BY <2>1, <2>2
<1>5. g = [s \in SUBSET (DOMAIN seq) |-> Made(g, s)]
  <2>1. g = [s \in SUBSET (1 .. n) |-> g[s]] BY <1>2 DEF Folding
  <2> HIDE DEF Made
  <2>q. QED BY <1>4, <2>1
<1>6. it = [s \in SUBSET (DOMAIN seq) |-> Made(it, s)]
  <2> HIDE DEF Made
  <2>q. QED BY <1>5
<1>7. Computing!FoldLeft(Computing!SnailStep, base, seq) = it[1 .. n]
  BY DEF Computing!FoldLeft, Computing!MapThenFoldSet, Computing!Max, Latest
<1>8. \A s \in SUBSET (1 .. n) : it[s] = Made(it, s)
  <2> HIDE DEF it, Made
  <2>q. QED BY <1>6
<1> HIDE DEF it
<1>9. h[0] = base
  <2>1. 1 .. 0 = {} /\ 0 \in 0 .. n /\ {} \in SUBSET (1 .. n) OBVIOUS
  <2>q. QED BY <1>8, <2>1
<1>10. ASSUME NEW k \in 1 .. n PROVE h[k] = Computing!SnailStep(h[k - 1], seq[k])
  <2>1. k \in Nat \ {0} OBVIOUS
  <2>2. Latest(1 .. k) = k /\ (1 .. k) \ {k} = 1 .. k - 1 /\ 1 .. k # {}
    BY <2>1, LatestOfFirst
  <2>3. 1 .. k \in SUBSET (1 .. n) /\ k \in 0 .. n /\ k - 1 \in 0 .. n OBVIOUS
  <2>q. QED BY <1>8, <2>2, <2>3
<1>11. n \in 0 .. n /\ h[n] = it[1 .. n] OBVIOUS
<1> HIDE DEF h
<1>12. \A k \in 0 .. n : h[k] \in U
  <2> DEFINE G == {k \in 0 .. n : h[k] \in U}
  <2>1. 0 \in G BY <1>9
  <2>2. ASSUME NEW k \in 1 .. n, k - 1 \in G PROVE k \in G BY <1>10, <2>2
  <2> HIDE DEF G
  <2>3. \A k \in 0 .. n : k \in G BY <2>1, <2>2, UpTo
  <2>q. QED BY <2>3 DEF G
<1>q. QED BY <1>7, <1>9, <1>10, <1>11, <1>12 DEF SnailStepRun

\* The fold of CarryAdded, one step after another.
CarryAddedRun(h, base, seq, n, U) ==
  /\ h[0] = base /\ \A k \in 0 .. n : h[k] \in U
  /\ \A k \in 1 .. n : h[k] = Computing!CarryAdded(h[k - 1], seq[k])
  /\ Computing!FoldLeft(Computing!CarryAdded, base, seq) = h[n]

LEMMA CarryAddedRuns ==
  ASSUME NEW n \in Nat, NEW U, NEW base \in U, NEW D, NEW seq \in [1 .. n -> D],
         \A x \in U, y \in D : Computing!CarryAdded(x, y) \in U
  PROVE  \E h : CarryAddedRun(h, base, seq, n, U)
<1> DEFINE f == [x \in U \X D |-> Computing!CarryAdded(x[1], x[2])]
           Made(g, s) ==
             IF s = {} THEN base ELSE Computing!CarryAdded(g[s \ {Latest(s)}], seq[Latest(s)])
           it == CHOOSE g : g = [s \in SUBSET (DOMAIN seq) |-> Made(g, s)]
           h == [k \in 0 .. n |-> it[1 .. k]]
<1>1. f \in [U \X D -> U] /\ \A x \in U, y \in D : f[<<x, y>>] = Computing!CarryAdded(x, y)
  OBVIOUS
<1> HIDE DEF f
<1>2. PICK g : Folding(g, n, U, f, base, seq) BY <1>1, FoldExists
<1>3. \A s \in SUBSET (1 .. n) : g[s] = FoldStep(f, base, seq, g, s) /\ g[s] \in U
  BY <1>2 DEF Folding
<1>4. ASSUME NEW s \in SUBSET (1 .. n) PROVE g[s] = Made(g, s)
  <2>1. CASE s = {} BY <1>3, <2>1 DEF FoldStep
  <2>2. CASE s # {}
    <3>1. Latest(s) \in 1 .. n BY <2>2, LatestIs
    <3>2. seq[Latest(s)] \in D /\ g[s \ {Latest(s)}] \in U BY <1>3, <3>1
    <3>q. QED BY <1>1, <1>3, <2>2, <3>2 DEF FoldStep
  <2>q. QED BY <2>1, <2>2
<1>5. g = [s \in SUBSET (DOMAIN seq) |-> Made(g, s)]
  <2>1. g = [s \in SUBSET (1 .. n) |-> g[s]] BY <1>2 DEF Folding
  <2> HIDE DEF Made
  <2>q. QED BY <1>4, <2>1
<1>6. it = [s \in SUBSET (DOMAIN seq) |-> Made(it, s)]
  <2> HIDE DEF Made
  <2>q. QED BY <1>5
<1>7. Computing!FoldLeft(Computing!CarryAdded, base, seq) = it[1 .. n]
  BY DEF Computing!FoldLeft, Computing!MapThenFoldSet, Computing!Max, Latest
<1>8. \A s \in SUBSET (1 .. n) : it[s] = Made(it, s)
  <2> HIDE DEF it, Made
  <2>q. QED BY <1>6
<1> HIDE DEF it
<1>9. h[0] = base
  <2>1. 1 .. 0 = {} /\ 0 \in 0 .. n /\ {} \in SUBSET (1 .. n) OBVIOUS
  <2>q. QED BY <1>8, <2>1
<1>10. ASSUME NEW k \in 1 .. n PROVE h[k] = Computing!CarryAdded(h[k - 1], seq[k])
  <2>1. k \in Nat \ {0} OBVIOUS
  <2>2. Latest(1 .. k) = k /\ (1 .. k) \ {k} = 1 .. k - 1 /\ 1 .. k # {}
    BY <2>1, LatestOfFirst
  <2>3. 1 .. k \in SUBSET (1 .. n) /\ k \in 0 .. n /\ k - 1 \in 0 .. n OBVIOUS
  <2>q. QED BY <1>8, <2>2, <2>3
<1>11. n \in 0 .. n /\ h[n] = it[1 .. n] OBVIOUS
<1> HIDE DEF h
<1>12. \A k \in 0 .. n : h[k] \in U
  <2> DEFINE G == {k \in 0 .. n : h[k] \in U}
  <2>1. 0 \in G BY <1>9
  <2>2. ASSUME NEW k \in 1 .. n, k - 1 \in G PROVE k \in G BY <1>10, <2>2
  <2> HIDE DEF G
  <2>3. \A k \in 0 .. n : k \in G BY <2>1, <2>2, UpTo
  <2>q. QED BY <2>3 DEF G
<1>q. QED BY <1>7, <1>9, <1>10, <1>11, <1>12 DEF CarryAddedRun

\* The fold of Added, one step after another.
AddedRun(h, base, seq, n, U) ==
  /\ h[0] = base /\ \A k \in 0 .. n : h[k] \in U
  /\ \A k \in 1 .. n : h[k] = Computing!Added(h[k - 1], seq[k])
  /\ Computing!FoldLeft(Computing!Added, base, seq) = h[n]

LEMMA AddedRuns ==
  ASSUME NEW n \in Nat, NEW U, NEW base \in U, NEW D, NEW seq \in [1 .. n -> D],
         \A x \in U, y \in D : Computing!Added(x, y) \in U
  PROVE  \E h : AddedRun(h, base, seq, n, U)
<1> DEFINE f == [x \in U \X D |-> Computing!Added(x[1], x[2])]
           Made(g, s) ==
             IF s = {} THEN base ELSE Computing!Added(g[s \ {Latest(s)}], seq[Latest(s)])
           it == CHOOSE g : g = [s \in SUBSET (DOMAIN seq) |-> Made(g, s)]
           h == [k \in 0 .. n |-> it[1 .. k]]
<1>1. f \in [U \X D -> U] /\ \A x \in U, y \in D : f[<<x, y>>] = Computing!Added(x, y)
  OBVIOUS
<1> HIDE DEF f
<1>2. PICK g : Folding(g, n, U, f, base, seq) BY <1>1, FoldExists
<1>3. \A s \in SUBSET (1 .. n) : g[s] = FoldStep(f, base, seq, g, s) /\ g[s] \in U
  BY <1>2 DEF Folding
<1>4. ASSUME NEW s \in SUBSET (1 .. n) PROVE g[s] = Made(g, s)
  <2>1. CASE s = {} BY <1>3, <2>1 DEF FoldStep
  <2>2. CASE s # {}
    <3>1. Latest(s) \in 1 .. n BY <2>2, LatestIs
    <3>2. seq[Latest(s)] \in D /\ g[s \ {Latest(s)}] \in U BY <1>3, <3>1
    <3>q. QED BY <1>1, <1>3, <2>2, <3>2 DEF FoldStep
  <2>q. QED BY <2>1, <2>2
<1>5. g = [s \in SUBSET (DOMAIN seq) |-> Made(g, s)]
  <2>1. g = [s \in SUBSET (1 .. n) |-> g[s]] BY <1>2 DEF Folding
  <2> HIDE DEF Made
  <2>q. QED BY <1>4, <2>1
<1>6. it = [s \in SUBSET (DOMAIN seq) |-> Made(it, s)]
  <2> HIDE DEF Made
  <2>q. QED BY <1>5
<1>7. Computing!FoldLeft(Computing!Added, base, seq) = it[1 .. n]
  BY DEF Computing!FoldLeft, Computing!MapThenFoldSet, Computing!Max, Latest
<1>8. \A s \in SUBSET (1 .. n) : it[s] = Made(it, s)
  <2> HIDE DEF it, Made
  <2>q. QED BY <1>6
<1> HIDE DEF it
<1>9. h[0] = base
  <2>1. 1 .. 0 = {} /\ 0 \in 0 .. n /\ {} \in SUBSET (1 .. n) OBVIOUS
  <2>q. QED BY <1>8, <2>1
<1>10. ASSUME NEW k \in 1 .. n PROVE h[k] = Computing!Added(h[k - 1], seq[k])
  <2>1. k \in Nat \ {0} OBVIOUS
  <2>2. Latest(1 .. k) = k /\ (1 .. k) \ {k} = 1 .. k - 1 /\ 1 .. k # {}
    BY <2>1, LatestOfFirst
  <2>3. 1 .. k \in SUBSET (1 .. n) /\ k \in 0 .. n /\ k - 1 \in 0 .. n OBVIOUS
  <2>q. QED BY <1>8, <2>2, <2>3
<1>11. n \in 0 .. n /\ h[n] = it[1 .. n] OBVIOUS
<1> HIDE DEF h
<1>12. \A k \in 0 .. n : h[k] \in U
  <2> DEFINE G == {k \in 0 .. n : h[k] \in U}
  <2>1. 0 \in G BY <1>9
  <2>2. ASSUME NEW k \in 1 .. n, k - 1 \in G PROVE k \in G BY <1>10, <2>2
  <2> HIDE DEF G
  <2>3. \A k \in 0 .. n : k \in G BY <2>1, <2>2, UpTo
  <2>q. QED BY <2>3 DEF G
<1>q. QED BY <1>7, <1>9, <1>10, <1>11, <1>12 DEF AddedRun

\* The powers of two.
LEMMA TwoIs ==
  ASSUME Width \in Nat
  PROVE  /\ \A k \in 0 .. Width : Computing!Two[k] \in Nat \ {0}
         /\ Computing!Two[0] = 1
         /\ \A k \in 1 .. Width : Computing!Two[k] = 2 * Computing!Two[k - 1]
<1> DEFINE Is(g, m) == g = [k \in 0 .. m |-> IF k = 0 THEN 1 ELSE 2 * g[k - 1]]
           G == {m \in 0 .. Width : \E g : Is(g, m)}
<1>1. 0 \in G
  <2> DEFINE g == [k \in 0 .. 0 |-> 1]
  <2>1. \A k \in 0 .. 0 : k = 0 OBVIOUS
  <2>2. Is(g, 0) BY <2>1
  <2> HIDE DEF Is
  <2>q. QED BY <2>2
<1>2. ASSUME NEW m \in 1 .. Width, m - 1 \in G PROVE m \in G
  <2>1. PICK g : Is(g, m - 1) BY <1>2
  <2>2. \A k \in 0 .. m - 1 : g[k] = IF k = 0 THEN 1 ELSE 2 * g[k - 1] BY <2>1
  <2> DEFINE h == [k \in 0 .. m |-> IF k = 0 THEN 1 ELSE 2 * g[k - 1]]
  <2>3. \A k \in 0 .. m - 1 : h[k] = g[k] BY <2>2
  <2>4. ASSUME NEW k \in 0 .. m PROVE h[k] = IF k = 0 THEN 1 ELSE 2 * h[k - 1]
    <3>1. CASE k = 0 BY <3>1
    <3>2. CASE k # 0
      <4>1. k - 1 \in 0 .. m - 1 BY <3>2
      <4>q. QED BY <2>3, <3>2, <4>1
    <3>q. QED BY <3>1, <3>2
  <2>5. h = [k \in 0 .. m |-> h[k]] OBVIOUS
  <2> HIDE DEF h
  <2>6. Is(h, m) BY <2>4, <2>5
  <2> HIDE DEF Is
  <2>q. QED BY <2>6
<1> HIDE DEF G
<1>3. Width \in G
  <2>1. \A m \in 0 .. Width : m \in G BY <1>1, <1>2, UpTo
  <2>q. QED BY <2>1
<1>4. \E g : Is(g, Width) BY <1>3 DEF G
<1>5. Is(Computing!Two, Width) BY <1>4 DEF Computing!Two
<1>6. \A k \in 0 .. Width : Computing!Two[k] = IF k = 0 THEN 1 ELSE 2 * Computing!Two[k - 1]
  BY <1>5
<1> DEFINE P == {k \in 0 .. Width : Computing!Two[k] \in Nat \ {0}}
<1>7. 0 \in P BY <1>6
<1>8. ASSUME NEW k \in 1 .. Width, k - 1 \in P PROVE k \in P
  <2>1. Computing!Two[k] = 2 * Computing!Two[k - 1] BY <1>6
  <2>2. Computing!Two[k - 1] \in Nat \ {0} BY <1>8
  <2>q. QED BY <2>1, <2>2
<1> HIDE DEF P
<1>9. \A k \in 0 .. Width : k \in P BY <1>7, <1>8, UpTo
<1>10. \A k \in 1 .. Width : Computing!Two[k] = 2 * Computing!Two[k - 1] BY <1>6
<1>q. QED BY <1>6, <1>9, <1>10 DEF P

\* Each of them divides the larger ones.
LEMMA TwoDivides ==
  ASSUME Width \in Nat, NEW k \in 0 .. Width
  PROVE  \A l \in k .. Width : \E m \in Nat \ {0} : Computing!Two[l] = Computing!Two[k] * m
<1> DEFINE G == {d \in 0 .. Width - k :
                   \E m \in Nat \ {0} : Computing!Two[k + d] = Computing!Two[k] * m}
<1>1. 0 \in G
  <2>1. Computing!Two[k] \in Nat /\ k + 0 = k BY TwoIs
  <2>2. Computing!Two[k + 0] = Computing!Two[k] * 1 BY <2>1
  <2>q. QED BY <2>2
<1>2. ASSUME NEW d \in 1 .. Width - k, d - 1 \in G PROVE d \in G
  <2>1. PICK m \in Nat \ {0} : Computing!Two[k + (d - 1)] = Computing!Two[k] * m BY <1>2
  <2>2. k + d \in 1 .. Width /\ k + (d - 1) = (k + d) - 1 OBVIOUS
  <2>3. Computing!Two[k + d] = 2 * Computing!Two[(k + d) - 1] BY <2>2, TwoIs
  <2>4. Computing!Two[k + d] = 2 * (Computing!Two[k] * m) BY <2>1, <2>2, <2>3
  <2>5. Computing!Two[k] \in Nat BY TwoIs
  <2>6. 2 * (Computing!Two[k] * m) = Computing!Two[k] * (2 * m) BY <2>5
  <2>q. QED BY <2>4, <2>6
<1> HIDE DEF G
<1>3. Width - k \in Nat OBVIOUS
<1>4. \A d \in 0 .. Width - k : d \in G BY <1>1, <1>2, <1>3, UpTo
<1>5. TAKE l \in k .. Width
<1>6. l - k \in 0 .. Width - k /\ k + (l - k) = l OBVIOUS
<1>q. QED BY <1>4, <1>6 DEF G

LEMMA DivModIs ==
  ASSUME NEW x \in Int, NEW d \in Nat \ {0}, NEW q \in Int, NEW r \in 0 .. d - 1,
         x = q * d + r
  PROVE  x \div d = q /\ x % d = r
OBVIOUS

LEMMA DivModExists ==
  ASSUME NEW x \in Int, NEW d \in Nat \ {0}
  PROVE  /\ x \div d \in Int /\ x % d \in 0 .. d - 1
         /\ x = (x \div d) * d + (x % d)
<1>1. x \div d \in Int OBVIOUS
<1>2. x % d \in 0 .. d - 1 BY Z3
<1>3. x % d = x - (x \div d) * d OBVIOUS
<1> DEFINE y == (x \div d) * d
<1>4. y \in Int BY <1>1
<1>5. x % d = x - y BY <1>3
<1> HIDE DEF y
<1> DEFINE z == x % d
<1>6. x = y + z
  <2>1. z \in Int /\ z = x - y BY <1>2, <1>5
  <2> HIDE DEF z
  <2>q. QED BY <1>4, <2>1
<1>7. x = (x \div d) * d + (x % d) BY <1>6, Zenon DEF y, z
<1>q. QED BY <1>1, <1>2, <1>7

DivMod(x, d, q, r) == q \in Int /\ r \in 0 .. d - 1 /\ x = q * d + r

LEMMA DivModExist ==
  ASSUME NEW x \in Int, NEW d \in Nat \ {0} PROVE DivMod(x, d, x \div d, x % d)
BY DivModExists DEF DivMod

\* The bits of a number shifted to the left.
LEMMA ShiftedBits ==
  ASSUME Width \in Nat, Width > 0, NEW x \in 0 .. Computing!Word - 1
  PROVE  /\ (2 * x) % Computing!Word \in 0 .. Computing!Word - 1
         /\ \A j \in 1 .. Width - 1 :
              Computing!Bit((2 * x) % Computing!Word, j) = Computing!Bit(x, j - 1)
<1> DEFINE y == (2 * x) % Computing!Word
           c == (2 * x) \div Computing!Word
<1>1. Computing!Word \in Nat \ {0} BY TwoIs DEF Computing!Word
<1>d. 2 * x \in Int BY <1>1
<1>e. DivMod(2 * x, Computing!Word, c, y) BY <1>1, <1>d, DivModExist
<1> HIDE DEF y, c
<1>2. c \in Int /\ y \in 0 .. Computing!Word - 1 /\ 2 * x = c * Computing!Word + y
  BY <1>e DEF DivMod
<1>3. ASSUME NEW j \in 1 .. Width - 1 PROVE Computing!Bit(y, j) = Computing!Bit(x, j - 1)
  <2> DEFINE t == Computing!Two[j - 1]
             q == x \div t
             r == x % t
  <2>1. j \in 0 .. Width /\ Width - 1 \in j .. Width /\ j - 1 \in 0 .. Width
    OBVIOUS
  <2>2. PICK m \in Nat \ {0} : Computing!Two[Width - 1] = Computing!Two[j] * m
    BY <2>1, TwoDivides
  <2>3. t \in Nat \ {0} /\ Computing!Two[j] = 2 * t /\ Computing!Word = 2 * Computing!Two[Width - 1]
    BY <2>1, TwoIs DEF Computing!Word
  <2>4. Computing!Word = (2 * t) * (2 * m)
    <3> HIDE DEF t
    <3>1. Computing!Word = 2 * ((2 * t) * m) BY <2>2, <2>3
    <3>q. QED BY <2>3, <3>1
  <2> HIDE DEF t
  <2>d. x \in Int BY <1>1
  <2>e. DivMod(x, t, q, r) BY <2>3, <2>d, DivModExist
  <2> HIDE DEF q, r
  <2>5. q \in Int /\ r \in 0 .. t - 1 /\ x = q * t + r BY <2>e DEF DivMod
  <2>6. y = (q - c * (2 * m)) * (2 * t) + 2 * r
    <3>1. y = 2 * (q * t + r) - c * ((2 * t) * (2 * m)) BY <1>1, <1>2, <2>4, <2>5
    <3>2. (q - c * (2 * m)) * (2 * t) = 2 * (q * t) - c * ((2 * t) * (2 * m))
      BY <1>2, <2>3, <2>5
    <3> DEFINE u == q * t
               v == c * ((2 * t) * (2 * m))
    <3>3. u \in Int /\ v \in Int BY <1>2, <2>3, <2>5
    <3> HIDE DEF u, v
    <3>4. y = 2 * (u + r) - v /\ (q - c * (2 * m)) * (2 * t) = 2 * u - v
      BY <3>1, <3>2 DEF u, v
    <3>q. QED BY <2>5, <3>3, <3>4
  <2>7. y \div (2 * t) = q - c * (2 * m)
    <3>1. 2 * t \in Nat \ {0} /\ 2 * r \in 0 .. (2 * t) - 1 /\ q - c * (2 * m) \in Int
      BY <1>2, <2>3, <2>5
    <3>q. QED BY <1>2, <2>6, <3>1, DivModIs
  <2>8. (q - c * (2 * m)) % 2 = q % 2
    <3> DEFINE e == c * m
               p == q \div 2
               b == q % 2
    <3>1. e \in Int /\ q - c * (2 * m) = q - 2 * e BY <1>2, <2>5
    <3>d. DivMod(q, 2, p, b) BY <2>5, DivModExist
    <3> HIDE DEF e, p, b
    <3>2. p \in Int /\ b \in 0 .. 1 /\ q = p * 2 + b BY <3>d DEF DivMod
    <3>3. q - 2 * e = (p - e) * 2 + b BY <3>1, <3>2
    <3>4. (q - 2 * e) % 2 = b BY <2>5, <3>1, <3>2, <3>3, DivModIs
    <3>q. QED BY <3>1, <3>4 DEF b
  <2>q. QED BY <2>3, <2>7, <2>8 DEF Computing!Bit, q, t
<1>q. QED BY <1>2, <1>3 DEF y

LEMMA BitIs ==
  ASSUME Width \in Nat, NEW x \in Int, NEW k \in 0 .. Width
  PROVE  Computing!Bit(x, k) \in {0, 1}
<1>1. Computing!Two[k] \in Nat \ {0} BY TwoIs
<1>2. x \div Computing!Two[k] \in Int BY <1>1
<1>q. QED BY <1>2 DEF Computing!Bit

\* The bits above those counted are counted one by one.
LEMMA OnesRight ==
  ASSUME Computing!AlgorithmsAssumption, NEW x \in 0 .. Computing!Word - 1
  PROVE  Computing!CountOnes(x) = Cardinality({k \in 0 .. Width - 1 : Computing!Bit(x, k) = 1})
<1> DEFINE U == [x : 0 .. Computing!Word - 1, n : Nat]
           base == [x |-> x, n |-> 0]
           seq == [k \in 1 .. Width |-> k]
           Ones(k) == {i \in Width - k .. Width - 1 : Computing!Bit(x, i) = 1}
<1>w. Width \in Nat /\ Width > 0 /\ Width - 1 \in 0 .. Width
  BY DEF Computing!AlgorithmsAssumption
<1>1. Computing!Word \in Nat \ {0} BY <1>w, TwoIs DEF Computing!Word
<1>2. ASSUME NEW s \in U, NEW k \in 1 .. Width PROVE Computing!Shifted(s, k) \in U
  <2>1. s.x \in 0 .. Computing!Word - 1 /\ s.n \in Nat OBVIOUS
  <2>2. (2 * s.x) % Computing!Word \in 0 .. Computing!Word - 1 BY <1>w, <2>1, ShiftedBits
  <2>3. s.x \in Int BY <1>1, <2>1
  <2>4. Computing!Bit(s.x, Width - 1) \in {0, 1} BY <1>w, <2>3, BitIs
  <2>5. s.n + Computing!Bit(s.x, Width - 1) \in Nat BY <2>1, <2>4
  <2>q. QED BY <2>2, <2>5 DEF Computing!Shifted
<1>3. base \in U /\ seq \in [1 .. Width -> 1 .. Width] OBVIOUS
<1>4. PICK h : ShiftedRun(h, base, seq, Width, U)
  <2> HIDE DEF U, base, seq
  <2>q. QED BY <1>w, <1>2, <1>3, ShiftedRuns
<1>5. /\ h[0] = base /\ \A k \in 0 .. Width : h[k] \in U
      /\ \A k \in 1 .. Width : h[k] = Computing!Shifted(h[k - 1], k)
      /\ Computing!CountOnes(x) = h[Width].n
  BY <1>4 DEF ShiftedRun, Computing!CountOnes
<1> DEFINE Good(k) == /\ \A j \in k .. Width - 1 : Computing!Bit(h[k].x, j) = Computing!Bit(x, j - k)
                      /\ IsFiniteSet(Ones(k)) /\ h[k].n = Cardinality(Ones(k))
           G == {k \in 0 .. Width : Good(k)}
<1>6. 0 \in G
  <2>1. Ones(0) = {} BY <1>w
  <2>2. IsFiniteSet({}) /\ Cardinality({}) = 0 BY FS_EmptySet
  <2>3. \A j \in 0 .. Width - 1 : j - 0 = j BY <1>w
  <2>q. QED BY <1>w, <1>5, <2>1, <2>2, <2>3
<1>7. ASSUME NEW k \in 1 .. Width, k - 1 \in G PROVE k \in G
  <2> DEFINE s == h[k - 1]
             i == Width - k
  <2>1. s \in U /\ h[k] = Computing!Shifted(s, k) /\ s.x \in 0 .. Computing!Word - 1
    BY <1>w, <1>5
  <2>2. /\ h[k].x = (2 * s.x) % Computing!Word /\ h[k].n = s.n + Computing!Bit(s.x, Width - 1)
    BY <2>1 DEF Computing!Shifted
  <2>3. /\ \A j \in k - 1 .. Width - 1 : Computing!Bit(s.x, j) = Computing!Bit(x, j - (k - 1))
        /\ IsFiniteSet(Ones(k - 1)) /\ s.n = Cardinality(Ones(k - 1))
    BY <1>7
  <2> HIDE DEF s, Ones
  <2>4. ASSUME NEW j \in k .. Width - 1
        PROVE  Computing!Bit(h[k].x, j) = Computing!Bit(x, j - k)
    <3>1. j \in 1 .. Width - 1 /\ j - 1 \in k - 1 .. Width - 1 /\ (j - 1) - (k - 1) = j - k
      BY <1>w
    <3>2. Computing!Bit(h[k].x, j) = Computing!Bit(s.x, j - 1)
      BY <1>w, <2>1, <2>2, <3>1, ShiftedBits
    <3>q. QED BY <2>3, <3>1, <3>2
  <2>5. Computing!Bit(s.x, Width - 1) = Computing!Bit(x, i)
    <3>1. Width - 1 \in k - 1 .. Width - 1 /\ (Width - 1) - (k - 1) = Width - k BY <1>w
    <3>q. QED BY <2>3, <3>1
  <2>6. /\ i \in 0 .. Width - 1 /\ i \in Int
        /\ \A j \in Width - k .. Width - 1 : j = i \/ j \in Width - (k - 1) .. Width - 1
    BY <1>w
  <2>7. \A j \in Width - (k - 1) .. Width - 1 : j \in Width - k .. Width - 1 /\ j # i
    BY <1>w
  <2>8. i \in Width - k .. Width - 1 BY <1>w
  <2>9. i \notin Ones(k - 1) BY <2>7 DEF Ones
  <2>10. Computing!Bit(x, i) \in {0, 1} BY <1>w, <1>1, <2>6, BitIs
  <2>11. CASE Computing!Bit(x, i) = 1
    <3>1. Ones(k) = Ones(k - 1) \cup {i} BY <2>6, <2>7, <2>8, <2>11 DEF Ones
    <3>2. IsFiniteSet(Ones(k)) /\ Cardinality(Ones(k)) = Cardinality(Ones(k - 1)) + 1
      BY <2>3, <2>9, <3>1, FS_AddElement
    <3>q. QED BY <2>2, <2>3, <2>4, <2>5, <2>11, <3>2
  <2>12. CASE Computing!Bit(x, i) = 0
    <3>1. Ones(k) = Ones(k - 1) BY <2>6, <2>7, <2>8, <2>12 DEF Ones
    <3>2. Cardinality(Ones(k - 1)) \in Nat BY <2>3, FS_CardinalityType
    <3>q. QED BY <2>2, <2>3, <2>4, <2>5, <2>12, <3>1, <3>2
  <2>q. QED BY <2>10, <2>11, <2>12
<1> HIDE DEF G
<1>8. \A k \in 0 .. Width : k \in G BY <1>w, <1>6, <1>7, UpTo
<1>9. Width \in 0 .. Width /\ Width - Width = 0 BY <1>w
<1>10. h[Width].n = Cardinality(Ones(Width)) BY <1>8, <1>9 DEF G
<1>11. Ones(Width) = {k \in 0 .. Width - 1 : Computing!Bit(x, k) = 1} BY <1>9
<1>q. QED BY <1>5, <1>10, <1>11

\* Blocks of eight are counted alike whatever stands below.
LEMMA EighthsOf ==
  ASSUME NEW q \in Int, NEW m \in Nat \ {0}, NEW t \in 0 .. 7
  PROVE  (8 * q + t) \div (8 * m) = q \div m
<1> DEFINE p == q \div m
           r == q % m
<1>d. DivMod(q, m, p, r) BY DivModExist
<1> HIDE DEF p, r
<1>1. p \in Int /\ r \in 0 .. m - 1 /\ q = p * m + r BY <1>d DEF DivMod
<1>2. 8 * q + t = p * (8 * m) + (8 * r + t)
  <2> DEFINE u == p * m
  <2>1. u \in Int /\ p * (8 * m) = 8 * u BY <1>1
  <2>2. q = u + r BY <1>1
  <2> HIDE DEF u
  <2>q. QED BY <1>1, <2>1, <2>2
<1>3. 8 * r + t \in 0 .. (8 * m) - 1 /\ 8 * m \in Nat \ {0} /\ 8 * q + t \in Int BY <1>1
<1>4. (8 * q + t) \div (8 * m) = p BY <1>1, <1>2, <1>3, DivModIs
<1>q. QED BY <1>4 DEF p

LEMMA BitRight ==
  ASSUME Computing!AlgorithmsAssumption, NEW x \in 0 .. Computing!Word - 1,
         NEW replace \in {0, 1}, NEW k \in 0 .. Width - 1
  PROVE  Computing!Bit(Computing!ReplaceBit(x, replace), k)
           = IF k = 2 THEN replace ELSE Computing!Bit(x, k)
<1>w. Width \in Nat /\ Width > 2 BY DEF Computing!AlgorithmsAssumption
<1>1. /\ Computing!Two[0] = 1 /\ Computing!Two[1] = 2
      /\ Computing!Two[2] = 4 /\ Computing!Two[3] = 8
  <2>1. 0 \in 0 .. Width /\ 1 \in 1 .. Width /\ 2 \in 1 .. Width /\ 3 \in 1 .. Width BY <1>w
  <2>2. /\ Computing!Two[1] = 2 * Computing!Two[1 - 1]
        /\ Computing!Two[2] = 2 * Computing!Two[2 - 1]
        /\ Computing!Two[3] = 2 * Computing!Two[3 - 1]
    BY <1>w, <2>1, TwoIs
  <2>q. QED BY <1>w, <2>2, TwoIs
<1> DEFINE y == Computing!ReplaceBit(x, replace)
           q == x \div 8
           t == x % 8
<1>2. Computing!Word \in Nat \ {0} /\ x \in Int BY <1>w, TwoIs DEF Computing!Word
<1>d. DivMod(x, 8, q, t) BY <1>2, DivModExist
<1> HIDE DEF q, t
<1>3. q \in Int /\ t \in 0 .. 7 /\ x = q * 8 + t BY <1>d DEF DivMod
<1>4. \A u \in 0 .. 7 : /\ Computing!Bit(8 * q + u, 0) = u % 2
                        /\ Computing!Bit(8 * q + u, 1) = (u \div 2) % 2
                        /\ Computing!Bit(8 * q + u, 2) = u \div 4
  BY <1>1, <1>3 DEF Computing!Bit
<1>5. x = 8 * q + t BY <1>3
<1>6. \E u \in 0 .. 7 : /\ y = 8 * q + u /\ u \div 4 = replace
                        /\ u % 2 = t % 2 /\ (u \div 2) % 2 = (t \div 2) % 2
  <2>1. Computing!Bit(x, 2) = t \div 4 BY <1>3, <1>4, <1>5
  <2>2. CASE t \div 4 = replace
    <3>1. y = x BY <2>1, <2>2 DEF Computing!ReplaceBit
    <3>q. QED BY <1>3, <1>5, <2>2, <3>1
  <2>3. CASE t \div 4 = 1 /\ replace = 0
    <3>1. y = 8 * q + (t - 4) BY <1>3, <1>5, <2>1, <2>3 DEF Computing!ReplaceBit
    <3>2. t \in 4 .. 7 BY <1>3, <2>3
    <3> HIDE DEF y
    <3>3. t - 4 \in 0 .. 3 /\ (t - 4) \div 4 = 0 /\ (t - 4) % 2 = t % 2
          /\ ((t - 4) \div 2) % 2 = (t \div 2) % 2
      BY <3>2
    <3>q. QED BY <2>3, <3>1, <3>3
  <2>4. CASE t \div 4 = 0 /\ replace = 1
    <3>1. y = 8 * q + (t + 4) BY <1>3, <1>5, <2>1, <2>4 DEF Computing!ReplaceBit
    <3>2. t \in 0 .. 3 BY <1>3, <2>4
    <3> HIDE DEF y
    <3>3. t + 4 \in 0 .. 7 /\ (t + 4) \div 4 = 1 /\ (t + 4) % 2 = t % 2
          /\ ((t + 4) \div 2) % 2 = (t \div 2) % 2
      BY <3>2
    <3>q. QED BY <2>4, <3>1, <3>3
  <2>5. t \div 4 \in {0, 1} BY <1>3
  <2>q. QED BY <2>2, <2>3, <2>4, <2>5
<1>7. PICK u \in 0 .. 7 : /\ y = 8 * q + u /\ u \div 4 = replace
                          /\ u % 2 = t % 2 /\ (u \div 2) % 2 = (t \div 2) % 2
  BY <1>6
<1> HIDE DEF y
<1>8. CASE k \in 0 .. 2
  <2>1. k = 0 \/ k = 1 \/ k = 2 BY <1>8
  <2>q. QED BY <1>3, <1>4, <1>5, <1>7, <2>1 DEF y
<1>9. CASE k \notin 0 .. 2
  <2>1. k \in 3 .. Width /\ 3 \in 0 .. Width BY <1>w, <1>9
  <2>2. PICK m \in Nat \ {0} : Computing!Two[k] = Computing!Two[3] * m
    BY <1>w, <2>1, TwoDivides
  <2>3. Computing!Two[k] = 8 * m BY <1>1, <2>2
  <2>4. x \div Computing!Two[k] = y \div Computing!Two[k]
    <3>1. (8 * q + t) \div (8 * m) = q \div m BY <1>3, EighthsOf
    <3>2. (8 * q + u) \div (8 * m) = q \div m BY <1>3, EighthsOf
    <3>q. QED BY <1>5, <1>7, <2>3, <3>1, <3>2, Zenon
  <2>q. QED BY <1>9, <2>4 DEF Computing!Bit, y
<1>q. QED BY <1>8, <1>9

\* The two sums and differences exchange the cells though they wrap.
Exchange(b, a, i, j, n) ==
  /\ b \in [1 .. n -> 0 .. Computing!Word - 1]
  /\ i \in 1 .. n /\ j \in 1 .. n /\ i < j
  /\ b[i] = a[j] /\ b[j] = a[i]
  /\ \A p \in 1 .. n \ {i, j} : b[p] = a[p]

LEMMA ExchangedIs ==
  ASSUME Width \in Nat, NEW n \in Nat, NEW a \in [1 .. n -> 0 .. Computing!Word - 1],
         NEW i \in 1 .. n \div 2
  PROVE  Exchange(Computing!Exchanged(a, i), a, i, n + 1 - i, n)
<1> DEFINE j == n + 1 - i
           x == a[i]
           y == a[j]
           sum == (x + y) % Computing!Word
           c == (x + y) \div Computing!Word
<1>0. n = 2 * (n \div 2) \/ n = 2 * (n \div 2) + 1 OBVIOUS
<1>1. i \in 1 .. n /\ j \in 1 .. n /\ i < j BY <1>0
<1>2. x \in 0 .. Computing!Word - 1 /\ y \in 0 .. Computing!Word - 1 BY <1>1
<1>3. Computing!Word \in Nat \ {0} BY TwoIs DEF Computing!Word
<1>4. Len(a) = n BY FunctionIsSeq
<1>5. Computing!Exchanged(a, i)
        = [a EXCEPT ![i] = (sum - ((sum - y) % Computing!Word)) % Computing!Word,
                    ![j] = (sum - y) % Computing!Word]
  BY <1>4 DEF Computing!Exchanged
<1> HIDE DEF x, y
<1>d. x + y \in Int BY <1>2, <1>3
<1>e. DivMod(x + y, Computing!Word, c, sum) BY <1>3, <1>d, DivModExist
<1> HIDE DEF sum, c
<1>6. c \in Int /\ sum \in 0 .. Computing!Word - 1 /\ x + y = c * Computing!Word + sum
  BY <1>e DEF DivMod
<1>7. \A u \in 0 .. Computing!Word - 1, v \in 0 .. Computing!Word - 1 :
         u + v = c * Computing!Word + sum => (sum - v) % Computing!Word = u
  <2>1. ASSUME NEW u \in 0 .. Computing!Word - 1, NEW v \in 0 .. Computing!Word - 1,
               u + v = c * Computing!Word + sum
        PROVE  (sum - v) % Computing!Word = u
    <3>1. sum - v = (-c) * Computing!Word + u
      <4> DEFINE w == c * Computing!Word
      <4>1. w \in Int /\ (-c) * Computing!Word = -w BY <1>3, <1>6
      <4>2. u + v = w + sum BY <2>1
      <4> HIDE DEF w
      <4>q. QED BY <1>3, <1>6, <4>1, <4>2
    <3>2. sum - v \in Int /\ -c \in Int BY <1>3, <1>6
    <3>q. QED BY <1>3, <3>1, <3>2, DivModIs
  <2>q. QED BY <2>1
<1>8. (sum - y) % Computing!Word = x BY <1>2, <1>6, <1>7
<1>9. (sum - x) % Computing!Word = y
  <2>1. y + x = c * Computing!Word + sum BY <1>2, <1>3, <1>6
  <2>q. QED BY <1>2, <1>7, <2>1
<1>10. Computing!Exchanged(a, i) = [a EXCEPT ![i] = y, ![j] = x] BY <1>5, <1>8, <1>9
<1>q. QED BY <1>1, <1>2, <1>10 DEF x, y, Exchange

LEMMA SwapRight ==
  ASSUME Width \in Nat, NEW a \in Seq(0 .. Computing!Word - 1)
  PROVE  Computing!swap_array(a) = Computing!Reverse(a)
<1> DEFINE n == Len(a)
           m == n \div 2
           U == [1 .. n -> 0 .. Computing!Word - 1]
           seq == [i \in 1 .. m |-> i]
<1>1. n \in Nat /\ a \in U BY LenProperties
<1> HIDE DEF n
<1>0. m \in Nat /\ (n = 2 * m \/ n = 2 * m + 1) BY <1>1
<1>2. \A b \in U, i \in 1 .. m : Computing!Exchanged(b, i) \in U
  BY <1>1, ExchangedIs DEF Exchange
<1>3. seq \in [1 .. m -> 1 .. m] OBVIOUS
<1>4. PICK h : ExchangedRun(h, a, seq, m, U)
  <2> HIDE DEF U, seq, m
  <2>q. QED BY <1>0, <1>1, <1>2, <1>3, ExchangedRuns
<1>5. /\ h[0] = a /\ \A k \in 0 .. m : h[k] \in U
      /\ \A k \in 1 .. m : h[k] = Computing!Exchanged(h[k - 1], k)
      /\ Computing!swap_array(a) = h[m]
  BY <1>4 DEF ExchangedRun, Computing!swap_array, n
<1> DEFINE Good(b, k) ==
             \A p \in 1 .. n : b[p] = IF p <= k \/ p >= n + 1 - k THEN a[n + 1 - p] ELSE a[p]
           G == {k \in 0 .. m : Good(h[k], k)}
<1> HIDE DEF m
<1>6. 0 \in G BY <1>0, <1>1, <1>5
<1>7. ASSUME NEW k \in 1 .. m, k - 1 \in G PROVE k \in G
  <2> DEFINE b == h[k - 1]
             j == n + 1 - k
  <2>1. k - 1 \in 0 .. m /\ k \in 0 .. m BY <1>0
  <2>2. b \in U /\ h[k] = Computing!Exchanged(b, k) /\ Good(b, k - 1) BY <1>5, <1>7, <2>1
  <2> HIDE DEF b
  <2>3. /\ k \in 1 .. n /\ j \in 1 .. n /\ k < j
        /\ h[k][k] = b[j] /\ h[k][j] = b[k]
        /\ \A p \in 1 .. n \ {k, j} : h[k][p] = b[p]
    <3>1. k \in 1 .. n \div 2 BY DEF m
    <3>2. Exchange(h[k], b, k, j, n) BY <1>1, <2>2, <3>1, ExchangedIs
    <3>q. QED BY <3>2 DEF Exchange
  <2>4. b[j] = a[j] /\ b[k] = a[k]
    <3>1. ~(j <= k - 1) /\ ~(j >= n + 1 - (k - 1)) /\ ~(k <= k - 1) /\ ~(k >= n + 1 - (k - 1))
      BY <1>0, <1>1, <2>3
    <3>q. QED BY <2>2, <2>3, <3>1
  <2>5. ASSUME NEW p \in 1 .. n
        PROVE  h[k][p] = IF p <= k \/ p >= n + 1 - k THEN a[n + 1 - p] ELSE a[p]
    <3>1. CASE p = k BY <2>3, <2>4, <3>1
    <3>2. CASE p = j
      <4>1. n + 1 - p = k BY <1>1, <3>2
      <4>q. QED BY <2>3, <2>4, <3>2, <4>1
    <3>3. CASE p # k /\ p # j
      <4>1. h[k][p] = b[p] BY <2>3, <3>3
      <4>2. b[p] = IF p <= k - 1 \/ p >= n + 1 - (k - 1) THEN a[n + 1 - p] ELSE a[p]
        BY <2>2
      <4>3. /\ p <= k - 1 <=> p <= k
            /\ p >= n + 1 - (k - 1) <=> p >= n + 1 - k
        BY <1>0, <1>1, <3>3
      <4>q. QED BY <4>1, <4>2, <4>3
    <3>q. QED BY <3>1, <3>2, <3>3
  <2>q. QED BY <2>1, <2>5
<1> HIDE DEF G
<1>8. \A k \in 0 .. m : k \in G BY <1>0, <1>6, <1>7, UpTo
<1>9. m \in 0 .. m BY <1>0
<1>10. Good(h[m], m) /\ h[m] \in U BY <1>5, <1>8, <1>9 DEF G
<1>11. \A p \in 1 .. n : h[m][p] = a[n + 1 - p]
  <2>1. \A p \in 1 .. n : p <= m \/ p >= n + 1 - m \/ n + 1 - p = p BY <1>0, <1>1
  <2>q. QED BY <1>10, <2>1
<1>12. h[m] = [p \in 1 .. n |-> a[(n - p) + 1]]
  <2>1. \A p \in 1 .. n : n + 1 - p = (n - p) + 1 BY <1>1
  <2>q. QED BY <1>10, <1>11, <2>1
<1>q. QED BY <1>5, <1>12 DEF Computing!Reverse, n

\* What a CHOOSE of the first place finds.
LEMMA FirstIs ==
  ASSUME NEW I \in SUBSET Nat, I # {}, NEW c, c = CHOOSE k \in I : \A l \in I : k <= l
  PROVE  c \in I /\ \A l \in I : c <= l
BY Least

LEMMA LengthRight ==
  ASSUME NEW s \in Seq(STRING)
  PROVE  /\ Computing!mystrlen(s) \in 0 .. Len(s)
         /\ \A k \in 1 .. Computing!mystrlen(s) : s[k] # Computing!NL
         /\ Computing!mystrlen(s) < Len(s) => s[Computing!mystrlen(s) + 1] = Computing!NL
<1> DEFINE ends == {k \in DOMAIN s : s[k] = Computing!NL}
           c == CHOOSE k \in ends : \A l \in ends : k <= l
           n == Len(s)
<1>1. n \in Nat /\ DOMAIN s = 1 .. n BY LenProperties
<1> HIDE DEF n
<1>2. CASE ends = {}
  <2>1. Computing!mystrlen(s) = n BY <1>2 DEF Computing!mystrlen, n
  <2>q. QED BY <1>1, <1>2, <2>1 DEF n
<1>3. CASE ends # {}
  <2>1. Computing!mystrlen(s) = c - 1 BY <1>3 DEF Computing!mystrlen
  <2>2. ends \in SUBSET Nat BY <1>1
  <2> HIDE DEF ends
  <2>3. c \in ends /\ \A l \in ends : c <= l BY <1>3, <2>2, FirstIs
  <2> HIDE DEF c
  <2>4. c \in 1 .. n /\ s[c] = Computing!NL BY <1>1, <2>3 DEF ends
  <2>5. \A k \in 1 .. c - 1 : s[k] # Computing!NL
    <3>1. SUFFICES ASSUME NEW k \in 1 .. c - 1, s[k] = Computing!NL PROVE FALSE OBVIOUS
    <3>2. k \in ends BY <1>1, <2>4, <3>1 DEF ends
    <3>q. QED BY <2>3, <2>4, <3>2
  <2>6. (c - 1) + 1 = c /\ c - 1 \in 0 .. n BY <1>1, <2>4
  <2>q. QED BY <2>1, <2>4, <2>5, <2>6 DEF n
<1>q. QED BY <1>2, <1>3

LEMMA FindRight ==
  ASSUME Computing!AlgorithmsAssumption, NEW s \in Strings, NEW t \in Strings,
         s \in Computing!Lines, t \in Computing!Lines, NEW p \in DOMAIN s, Computing!Occurs(s, t, p)
  PROVE  /\ Computing!find_substring(s, t) \in 1 .. p
         /\ Computing!Occurs(s, t, Computing!find_substring(s, t))
<1> DEFINE stops == {k \in DOMAIN s : Computing!Agree(s, t, k)}
           c == CHOOSE k \in stops : \A l \in stops : k <= l
           n == Len(s)
           m == Len(t)
<1>0. s \in Seq(STRING) /\ t \in Seq(STRING) BY DEF Computing!AlgorithmsAssumption
<1>1. n \in Nat /\ DOMAIN s = 1 .. n /\ m \in Nat /\ DOMAIN t = 1 .. m
  BY <1>0, LenProperties
<1>2. Computing!mystrlen(s) = n /\ Computing!mystrlen(t) = m
  <2>1. \A k \in 1 .. n : s[k] # Computing!NL BY <1>1 DEF Computing!Lines
  <2>2. \A k \in 1 .. m : t[k] # Computing!NL BY <1>1 DEF Computing!Lines
  <2>q. QED BY <1>1, <2>1, <2>2 DEF Computing!mystrlen
<1> HIDE DEF n, m
<1>3. p + m - 1 <= n /\ \A k \in 1 .. m : s[p + k - 1] = t[k] /\ p \in 1 .. n
  BY <1>1 DEF Computing!Occurs, n, m
<1>4. ~(n < m) BY <1>1, <1>3
<1>5. p \in stops BY <1>1, <1>3 DEF Computing!Agree
<1>6. stops \in SUBSET Nat BY <1>1
<1>7. Computing!find_substring(s, t) = c BY <1>2, <1>4, <1>5 DEF Computing!find_substring
<1> HIDE DEF stops
<1>8. c \in stops /\ \A l \in stops : c <= l BY <1>5, <1>6, FirstIs
<1> HIDE DEF c
<1>9. c \in 1 .. n /\ c <= p /\ Computing!Agree(s, t, c) BY <1>1, <1>5, <1>8 DEF stops
<1>10. c + m - 1 <= n BY <1>1, <1>3, <1>9
<1>11. \A k \in 1 .. m : c + k - 1 <= n BY <1>1, <1>9, <1>10
<1>12. Computing!Occurs(s, t, c)
  <2>1. \A k \in DOMAIN t : s[c + k - 1] = t[k] BY <1>1, <1>9, <1>11 DEF Computing!Agree, n
  <2>q. QED BY <1>10, <2>1 DEF Computing!Occurs, n, m
<1>13. c \in 1 .. p BY <1>1, <1>3, <1>9
<1>q. QED BY <1>7, <1>12, <1>13

\* The words of a header and what they sum up to.
LEMMA AddedIs ==
  ASSUME Width \in Nat, NEW n \in Nat, NEW a \in [1 .. n -> 0 .. Computing!Word - 1]
  PROVE  /\ Computing!FoldLeft(Computing!Added, 0, a) \in 0 .. n * (Computing!Word - 1)
         /\ \E h : AddedRun(h, 0, a, n, Nat)
<1>1. Computing!Word \in Nat \ {0} BY TwoIs DEF Computing!Word
<1>2. \A x \in Nat, y \in 0 .. Computing!Word - 1 : Computing!Added(x, y) \in Nat
  BY <1>1 DEF Computing!Added
<1>3. PICK h : AddedRun(h, 0, a, n, Nat) BY <1>2, AddedRuns
<1>4. /\ h[0] = 0 /\ \A k \in 0 .. n : h[k] \in Nat
      /\ \A k \in 1 .. n : h[k] = h[k - 1] + a[k]
      /\ Computing!FoldLeft(Computing!Added, 0, a) = h[n]
  BY <1>3 DEF AddedRun, Computing!Added
<1> DEFINE G == {k \in 0 .. n : h[k] <= k * (Computing!Word - 1)}
<1>5. 0 \in G BY <1>1, <1>4
<1>6. ASSUME NEW k \in 1 .. n, k - 1 \in G PROVE k \in G
  <2>1. k - 1 \in 0 .. n /\ k \in 0 .. n BY <1>4
  <2>2. h[k - 1] \in Nat /\ h[k] = h[k - 1] + a[k] BY <1>4, <2>1
  <2>3. a[k] \in 0 .. Computing!Word - 1 OBVIOUS
  <2>4. h[k - 1] <= (k - 1) * (Computing!Word - 1) BY <1>6
  <2> DEFINE u == (k - 1) * (Computing!Word - 1)
  <2>5. u \in Int /\ k * (Computing!Word - 1) = u + (Computing!Word - 1) BY <1>1, <2>1
  <2> HIDE DEF u
  <2>6. h[k - 1] <= u BY <2>4 DEF u
  <2>7. h[k] <= k * (Computing!Word - 1) BY <1>1, <2>2, <2>3, <2>5, <2>6
  <2>q. QED BY <2>1, <2>7
<1> HIDE DEF G
<1>7. \A k \in 0 .. n : k \in G BY <1>5, <1>6, UpTo
<1>8. n \in 0 .. n OBVIOUS
<1>9. h[n] \in Nat /\ h[n] <= n * (Computing!Word - 1) BY <1>4, <1>7, <1>8 DEF G
<1>q. QED BY <1>1, <1>3, <1>4, <1>9

LEMMA AddedAppend ==
  ASSUME Width \in Nat, NEW n \in Nat, NEW a \in [1 .. n -> 0 .. Computing!Word - 1],
         NEW c \in 0 .. Computing!Word - 1
  PROVE  /\ Append(a, c) \in [1 .. n + 1 -> 0 .. Computing!Word - 1]
         /\ Computing!FoldLeft(Computing!Added, 0, Append(a, c))
              = Computing!FoldLeft(Computing!Added, 0, a) + c
<1> DEFINE b == Append(a, c)
<1>1. a \in Seq(0 .. Computing!Word - 1) /\ Len(a) = n BY FunctionIsSeq
<1>2. b \in [1 .. n + 1 -> 0 .. Computing!Word - 1] /\ b[n + 1] = c /\ \A k \in 1 .. n : b[k] = a[k]
  <2>1. /\ b \in Seq(0 .. Computing!Word - 1) /\ Len(b) = Len(a) + 1 /\ b[Len(a) + 1] = c
        /\ \A k \in 1 .. Len(a) : b[k] = a[k]
    BY <1>1
  <2>2. b \in [1 .. Len(b) -> 0 .. Computing!Word - 1] BY <2>1, LenProperties
  <2>q. QED BY <1>1, <2>1, <2>2
<1> HIDE DEF b
<1>3. PICK f : AddedRun(f, 0, a, n, Nat) BY AddedIs
<1>4. PICK g : AddedRun(g, 0, b, n + 1, Nat) BY <1>2, AddedIs
<1>5. /\ f[0] = 0 /\ \A k \in 1 .. n : f[k] = f[k - 1] + a[k]
      /\ Computing!FoldLeft(Computing!Added, 0, a) = f[n]
  BY <1>3 DEF AddedRun, Computing!Added
<1>6. /\ g[0] = 0 /\ \A k \in 1 .. n + 1 : g[k] = g[k - 1] + b[k]
      /\ Computing!FoldLeft(Computing!Added, 0, b) = g[n + 1]
  BY <1>4 DEF AddedRun, Computing!Added
<1> DEFINE G == {k \in 0 .. n : g[k] = f[k]}
<1>7. 0 \in G BY <1>5, <1>6
<1>8. ASSUME NEW k \in 1 .. n, k - 1 \in G PROVE k \in G
  BY <1>2, <1>5, <1>6, <1>8
<1> HIDE DEF G
<1>9. \A k \in 0 .. n : k \in G BY <1>7, <1>8, UpTo
<1>10. n \in 0 .. n /\ n + 1 \in 1 .. n + 1 /\ (n + 1) - 1 = n OBVIOUS
<1>11. g[n + 1] = f[n] + c BY <1>2, <1>6, <1>9, <1>10 DEF G
<1>q. QED BY <1>2, <1>5, <1>6, <1>11 DEF b

\* Adding the carries in leaves the sum the same modulo the largest word.
LEMMA CarryIs ==
  ASSUME Computing!AlgorithmsAssumption, NEW s \in Nat, s <= Computing!Word * (Computing!Word - 1)
  PROVE  LET c == Computing!CarryAdded(s, 0)
         IN  /\ c \in Nat /\ c <= 2 * (Computing!Word - 1)
             /\ c <= Computing!Word * (Computing!Word - 1)
             /\ s <= 2 * (Computing!Word - 1) => c <= Computing!Word - 1
             /\ s > 0 => c > 0
             /\ \E m \in Nat : s = m * (Computing!Word - 1) + c
<1> DEFINE P == Computing!Word - 1
           q == s \div Computing!Word
           r == s % Computing!Word
           c == r + q
<1>w. Width \in Nat /\ Width > 2 BY DEF Computing!AlgorithmsAssumption
<1>1. Computing!Word \in Nat \ {0} /\ Computing!Word > 3
  <2>1. Width \in 1 .. Width /\ Width - 1 \in 1 .. Width /\ Width - 2 \in 0 .. Width
    BY <1>w
  <2>2. /\ Computing!Two[Width] = 2 * Computing!Two[Width - 1]
        /\ Computing!Two[Width - 1] = 2 * Computing!Two[(Width - 1) - 1]
        /\ (Width - 1) - 1 = Width - 2
    BY <1>w, <2>1, TwoIs
  <2>3. Computing!Two[Width - 2] \in Nat \ {0} BY <1>w, <2>1, TwoIs
  <2>q. QED BY <2>2, <2>3 DEF Computing!Word
<1>0. s \in Int OBVIOUS
<1>d. DivMod(s, Computing!Word, q, r) BY <1>0, <1>1, DivModExist
<1>c. Computing!CarryAdded(s, 0) = c BY DEF Computing!CarryAdded
<1> HIDE DEF q, r
<1>2. q \in Int /\ r \in 0 .. P /\ s = q * Computing!Word + r BY <1>d DEF DivMod
<1>p. P \in Nat /\ P > 2 /\ Computing!Word = P + 1 BY <1>1
<1> HIDE DEF P
<1>3. q \in Nat
  <2>1. SUFFICES ASSUME q <= -1 PROVE FALSE BY <1>2
  <2>2. q * Computing!Word <= -1 * Computing!Word BY <1>1, <1>2, <2>1
  <2> DEFINE u == q * Computing!Word
  <2>3. u \in Int /\ u <= -Computing!Word BY <1>1, <1>2, <2>2
  <2>4. s = u + r BY <1>2
  <2> HIDE DEF u
  <2>q. QED BY <1>2, <1>p, <2>3, <2>4
<1>4. s = q * P + c
  <2> DEFINE u == q * P
  <2>1. u \in Int /\ q * (P + 1) = u + q BY <1>2, <1>p
  <2>2. s = (u + q) + r BY <1>2, <1>p, <2>1
  <2> HIDE DEF u
  <2>3. s = u + c BY <1>2, <2>1, <2>2
  <2>q. QED BY <2>3 DEF u
<1>5. q <= P
  <2>1. SUFFICES ASSUME q >= P + 1 PROVE FALSE BY <1>2, <1>p
  <2>2. q * Computing!Word >= (P + 1) * Computing!Word BY <1>1, <1>2, <1>p, <2>1
  <2> DEFINE u == q * Computing!Word
             v == P * Computing!Word
  <2>3. u \in Int /\ v \in Int /\ (P + 1) * Computing!Word = v + Computing!Word /\ Computing!Word * P = v
    BY <1>1, <1>2, <1>p
  <2>4. s = u + r /\ u >= v + Computing!Word /\ s <= v
    <3>1. s <= Computing!Word * P BY DEF P
    <3>q. QED BY <1>2, <2>2, <2>3, <3>1
  <2> HIDE DEF u, v
  <2>q. QED BY <1>1, <1>2, <1>p, <2>3, <2>4
<1>6. c \in Nat /\ c <= 2 * P BY <1>2, <1>3, <1>5, <1>p
<1>7. c <= Computing!Word * P
  <2>1. 2 * P <= Computing!Word * P BY <1>1, <1>p
  <2> DEFINE v == Computing!Word * P
  <2>2. v \in Int /\ 2 * P <= v BY <1>1, <1>p, <2>1
  <2> HIDE DEF v
  <2>3. c <= v BY <1>6, <1>p, <2>2
  <2>q. QED BY <2>3 DEF v
<1>8. ASSUME s <= 2 * P PROVE c <= P
  <2>1. q <= 1
    <3>1. SUFFICES ASSUME q >= 2 PROVE FALSE BY <1>2
    <3>2. q * Computing!Word >= 2 * Computing!Word BY <1>1, <1>2, <3>1
    <3> DEFINE u == q * Computing!Word
    <3>3. u \in Int /\ u >= 2 * Computing!Word /\ s = u + r BY <1>1, <1>2, <3>2
    <3> HIDE DEF u
    <3>q. QED BY <1>1, <1>2, <1>p, <1>8, <3>3
  <2>2. CASE q = 0 BY <1>2, <1>p, <2>2
  <2>3. CASE q = 1
    <3>1. s = Computing!Word + r BY <1>1, <1>2, <2>3
    <3>q. QED BY <1>2, <1>p, <1>8, <2>3, <3>1
  <2>q. QED BY <1>3, <2>1, <2>2, <2>3
<1>9. ASSUME s > 0 PROVE c > 0
  <2>1. SUFFICES ASSUME q = 0, r = 0 PROVE FALSE BY <1>2, <1>3, <1>p
  <2>2. s = 0 BY <1>1, <1>2, <2>1
  <2>q. QED BY <1>9, <2>2
<1>10. \E m \in Nat : s = m * P + c BY <1>3, <1>4
<1> HIDE DEF c
<1>q. QED BY <1>c, <1>6, <1>7, <1>8, <1>9, <1>10 DEF P

\* A sum that fits a word and is the same modulo the largest.
FoldedTo(s, c, k) ==
  /\ c \in Nat /\ c <= Computing!Word * (Computing!Word - 1)
  /\ k > 0 => c <= 2 * (Computing!Word - 1)
  /\ k > 1 => c <= Computing!Word - 1
  /\ s > 0 => c > 0
  /\ \E m \in Nat : s = m * (Computing!Word - 1) + c

LEMMA FoldedIs ==
  ASSUME Computing!AlgorithmsAssumption, NEW s \in Nat, s <= Computing!Word * (Computing!Word - 1)
  PROVE  FoldedTo(s, Computing!Folded(s), 2)
<1> DEFINE U == {c \in Nat : c <= Computing!Word * (Computing!Word - 1)}
           seq == [k \in 1 .. Width |-> k]
<1>w. Width \in Nat /\ Width > 2 BY DEF Computing!AlgorithmsAssumption
<1>1. Computing!Word \in Nat \ {0} BY <1>w, TwoIs DEF Computing!Word
<1>2. \A c \in U, k \in 1 .. Width : Computing!CarryAdded(c, k) = Computing!CarryAdded(c, 0)
  BY DEF Computing!CarryAdded
<1>3. \A c \in U, k \in 1 .. Width : Computing!CarryAdded(c, k) \in U BY <1>2, CarryIs
<1>4. s \in U /\ seq \in [1 .. Width -> 1 .. Width] OBVIOUS
<1>5. PICK h : CarryAddedRun(h, s, seq, Width, U)
  <2> HIDE DEF U, seq
  <2>q. QED BY <1>w, <1>3, <1>4, CarryAddedRuns
<1>6. /\ h[0] = s /\ \A k \in 0 .. Width : h[k] \in U
      /\ \A k \in 1 .. Width : h[k] = Computing!CarryAdded(h[k - 1], k)
      /\ Computing!Folded(s) = h[Width]
  BY <1>5 DEF CarryAddedRun, Computing!Folded
<1> DEFINE G == {k \in 0 .. Width : FoldedTo(s, h[k], k)}
<1>7. 0 \in G
  <2>1. s = 0 * (Computing!Word - 1) + s BY <1>1
  <2>q. QED BY <1>w, <1>6, <2>1 DEF FoldedTo
<1>8. ASSUME NEW k \in 1 .. Width, k - 1 \in G PROVE k \in G
  <2> DEFINE b == h[k - 1]
             c == h[k]
             P == Computing!Word - 1
  <2>1. FoldedTo(s, b, k - 1) /\ k \in 0 .. Width BY <1>8
  <2>2. b \in Nat /\ b <= Computing!Word * (Computing!Word - 1) BY <2>1 DEF FoldedTo
  <2>3. c = Computing!CarryAdded(b, 0)
    <3>1. c = Computing!CarryAdded(b, k) BY <1>6
    <3>q. QED BY <3>1 DEF Computing!CarryAdded
  <2> HIDE DEF b, c
  <2>4. /\ c \in Nat /\ c <= 2 * (Computing!Word - 1)
        /\ c <= Computing!Word * (Computing!Word - 1)
        /\ b <= 2 * (Computing!Word - 1) => c <= Computing!Word - 1
        /\ b > 0 => c > 0
        /\ \E m \in Nat : b = m * (Computing!Word - 1) + c
    BY <2>2, <2>3, CarryIs
  <2>5. \E m \in Nat : s = m * P + c
    <3>1. PICK m \in Nat : s = m * P + b BY <2>1 DEF FoldedTo
    <3>2. PICK l \in Nat : b = l * P + c BY <2>4
    <3> DEFINE u == m * P
               v == l * P
    <3>3. P \in Nat /\ u \in Int /\ v \in Int /\ (m + l) * P = u + v BY <1>1
    <3>4. s = (u + v) + c
      <4>1. s = u + b /\ b = v + c BY <3>1, <3>2
      <4>2. u \in Int /\ v \in Int /\ c \in Nat BY <2>4, <3>3
      <4> HIDE DEF u, v
      <4>q. QED BY <4>1, <4>2
    <3>5. s = (m + l) * P + c BY <3>3, <3>4
    <3>q. QED BY <3>5
  <2>6. k > 1 => c <= Computing!Word - 1
    <3>1. k > 1 => k - 1 > 0 OBVIOUS
    <3>q. QED BY <2>1, <2>4, <3>1 DEF FoldedTo
  <2>7. s > 0 => c > 0 BY <2>1, <2>4 DEF FoldedTo
  <2>8. FoldedTo(s, c, k) BY <2>4, <2>5, <2>6, <2>7 DEF FoldedTo
  <2>q. QED BY <2>1, <2>8 DEF c
<1> HIDE DEF G
<1>9. \A k \in 0 .. Width : k \in G BY <1>w, <1>7, <1>8, UpTo
<1>10. FoldedTo(s, Computing!Folded(s), Width)
  <2>1. Width \in G BY <1>w, <1>9
  <2>q. QED BY <1>6, <2>1 DEF G
<1>q. QED BY <1>w, <1>10 DEF FoldedTo

LEMMA ChecksumRight ==
  ASSUME Computing!AlgorithmsAssumption, NEW h \in Headers
  PROVE  Computing!calculate_checksum(Append(h, Computing!calculate_checksum(h))) = 0
<1> DEFINE P == Computing!Word - 1
           n == Len(h)
           s == Computing!FoldLeft(Computing!Added, 0, h)
           f == Computing!Folded(s)
           c == Computing!calculate_checksum(h)
           t == Computing!FoldLeft(Computing!Added, 0, Append(h, c))
           g == Computing!Folded(t)
<1>w. Width \in Nat /\ Width > 2 BY DEF Computing!AlgorithmsAssumption
<1>1. Computing!Word \in Nat \ {0} BY <1>w, TwoIs DEF Computing!Word
<1>2. n \in Nat /\ n < Computing!Word /\ h \in [1 .. n -> 0 .. P]
  <2>1. h \in Seq(0 .. P) /\ Len(h) < Computing!Word BY DEF Computing!AlgorithmsAssumption
  <2>q. QED BY <2>1, LenProperties
<1> HIDE DEF n
<1>p. P \in Nat /\ P > 0 /\ Computing!Word = P + 1
  <2>1. Width \in 1 .. Width /\ Width - 1 \in 0 .. Width BY <1>w
  <2>2. /\ Computing!Two[Width] = 2 * Computing!Two[Width - 1]
        /\ Computing!Two[Width - 1] \in Nat \ {0}
    BY <1>w, <2>1, TwoIs
  <2>q. QED BY <2>2 DEF Computing!Word
<1>m. \A k \in Nat, l \in Nat : k <= l => k * P <= l * P
  <2>1. ASSUME NEW k \in Nat, NEW l \in Nat, k <= l PROVE k * P <= l * P
    <3>1. (l - k) * P \in Nat BY <1>p, <2>1
    <3>2. (l - k) * P = l * P - k * P BY <1>p
    <3> DEFINE u == l * P
               v == k * P
    <3>3. u \in Int /\ v \in Int /\ u - v \in Nat BY <1>p, <3>1, <3>2
    <3> HIDE DEF u, v
    <3>4. v <= u BY <3>3
    <3>q. QED BY <3>4 DEF u, v
  <2>q. QED BY <2>1
<1>3. s \in Nat /\ s <= Computing!Word * P
  <2>1. s \in 0 .. n * P BY <1>w, <1>2, AddedIs
  <2>2. n * P <= Computing!Word * P BY <1>1, <1>2, <1>m
  <2>3. n * P \in Int /\ Computing!Word * P \in Int BY <1>1, <1>2, <1>p
  <2> HIDE DEF P, s
  <2>q. QED BY <2>1, <2>2, <2>3
<1> HIDE DEF s
<1>4. FoldedTo(s, f, 2) BY <1>3, FoldedIs
<1> HIDE DEF f
<1>5. f \in 0 .. P /\ \E m \in Nat : s = m * P + f BY <1>1, <1>4 DEF FoldedTo
<1>6. c = P - f
  <2>1. f % Computing!Word = f BY <1>1, <1>5
  <2>q. QED BY <2>1 DEF Computing!calculate_checksum, f, s
<1>7. c \in 0 .. P BY <1>1, <1>5, <1>6
<1> HIDE DEF c
<1>8. /\ Append(h, c) \in [1 .. n + 1 -> 0 .. P] /\ t = s + c
  BY <1>w, <1>2, <1>7, AddedAppend DEF s
<1>9. t \in Nat /\ t <= Computing!Word * P
  <2>1. n + 1 \in Nat BY <1>2
  <2>2. t \in 0 .. (n + 1) * P BY <1>w, <1>8, <2>1, AddedIs
  <2>3. (n + 1) * P <= Computing!Word * P BY <1>1, <1>2, <1>m
  <2>4. (n + 1) * P \in Int /\ Computing!Word * P \in Int BY <1>1, <1>2, <1>p
  <2> HIDE DEF P, t
  <2>q. QED BY <2>2, <2>3, <2>4
<1>10. FoldedTo(t, g, 2)
  <2> HIDE DEF t
  <2>q. QED BY <1>9, FoldedIs
<1>11. Computing!calculate_checksum(Append(h, c)) = P - (g % Computing!Word)
  BY DEF Computing!calculate_checksum
<1> HIDE DEF t, g
<1>12. /\ g \in 0 .. P
       /\ t > 0 => g > 0
       /\ \E m \in Nat : t = m * P + g
  BY <1>1, <1>10 DEF FoldedTo
<1>13. PICK m \in Nat : s = m * P + f BY <1>5
<1>14. PICK l \in Nat : t = l * P + g BY <1>12
<1> HIDE DEF P
<1> DEFINE u == m * P
           v == l * P
<1>15. u \in Nat /\ v \in Nat /\ (l - m) * P = v - u BY <1>p
<1>16. s = u + f /\ t = v + g BY <1>13, <1>14
<1> HIDE DEF u, v
<1>17. t = u + P BY <1>5, <1>6, <1>8, <1>15, <1>16, <1>p
<1>18. t > 0 BY <1>15, <1>17, <1>p
<1>19. P - g \in 0 .. P - 1 /\ P - g = v - u BY <1>12, <1>15, <1>16, <1>17, <1>18, <1>p
<1>20. P - g = (l - m) * P + 0 BY <1>15, <1>19
<1>21. (P - g) % P = 0
  <2>1. l - m \in Int /\ 0 \in 0 .. P - 1 /\ P - g \in Int /\ P \in Nat \ {0}
    BY <1>p, <1>19
  <2>q. QED BY <1>20, <2>1, DivModIs
<1>22. (P - g) % P = P - g
  <2>1. P \in Nat \ {0} /\ P - g \in Int /\ P - g = 0 * P + (P - g) BY <1>p, <1>19
  <2>q. QED BY <1>19, <2>1, DivModIs
<1>23. g = P
  <2>1. P - g = 0 BY <1>21, <1>22, Zenon
  <2>q. QED BY <1>12, <1>p, <2>1
<1>24. g % Computing!Word = P BY <1>p, <1>23
<1>q. QED BY <1>11, <1>24, <1>p DEF c

\* Cell <<i, j>> stands on ring r of a snail through n * n cells.
OnRing(n, i, j, r) ==
  /\ r \in Nat /\ i \in r .. n - 1 - r /\ j \in r .. n - 1 - r
  /\ i = r \/ j = r \/ i = n - 1 - r \/ j = n - 1 - r

\* What a ring of m has before it, along it, and where one goes on it.
Before(n, r) == n * n - (n - 2 * r) * (n - 2 * r)
Along(m, row, col) ==
  CASE row = 0 -> col
    [] row # 0 /\ col = m - 1 -> m - 1 + row
    [] row = m - 1 /\ col # m - 1 -> 2 * (m - 1) + (m - 1 - col)
    [] OTHER -> 3 * (m - 1) + (m - 1 - row)
Heading(m, row, col) ==
  IF row = 0 THEN 1 ELSE IF col = m - 1 THEN 2 ELSE IF row = m - 1 THEN 3 ELSE 4

\* The snail comes to cell <<i, j>> of ring r as number num and going to d.
Comes(n, i, j, r, num, d) ==
  /\ OnRing(n, i, j, r)
  /\ num = Before(n, r) + Along(n - 2 * r, i - r, j - r) + 1
  /\ d = Heading(n - 2 * r, i - r, j - r)

\* The squares, and how they grow.
LEMMA SquareIs ==
  ASSUME NEW a \in Nat, NEW b \in Nat, a <= b
  PROVE  a * a \in Nat /\ b * b \in Nat /\ a * a <= b * b
<1>1. a * a \in Nat /\ b * b \in Nat OBVIOUS
<1>2. a * a <= a * b /\ a * b <= b * b
  <2>1. a * (b - a) \in Nat /\ (b - a) * b \in Nat OBVIOUS
  <2>2. a * (b - a) = a * b - a * a /\ (b - a) * b = b * b - a * b OBVIOUS
  <2> DEFINE u == a * a
             v == a * b
             w == b * b
  <2>3. u \in Int /\ v \in Int /\ w \in Int /\ v - u \in Nat /\ w - v \in Nat
    BY <2>1, <2>2
  <2> HIDE DEF u, v, w
  <2>4. u <= v /\ v <= w BY <2>3
  <2>q. QED BY <2>4 DEF u, v, w
<1> DEFINE u == a * a
           v == a * b
           w == b * b
<1>3. u \in Int /\ v \in Int /\ w \in Int /\ u <= v /\ v <= w BY <1>2
<1> HIDE DEF u, v, w
<1>4. u <= w BY <1>3
<1>q. QED BY <1>1, <1>4 DEF u, w

LEMMA BeforeIs ==
  ASSUME NEW n \in Nat, NEW r \in Nat, 2 * r <= n
  PROVE  /\ n * n \in Nat /\ Before(n, r) \in Nat
         /\ Before(n, r + 1) = Before(n, r) + 4 * (n - 2 * r) - 4
         /\ Before(n, 0) = 0
         /\ n - 2 * r = 1 => n * n = Before(n, r) + 1
         /\ n - 2 * r > 1 => Before(n, r) + 4 * (n - 2 * r) - 4 <= n * n
         /\ n - 2 * r = 2 => n * n = Before(n, r) + 4
         /\ \A q \in Nat : r < q /\ 2 * q <= n =>
              Before(n, r) + 4 * (n - 2 * r) - 4 <= Before(n, q)
<1> DEFINE m == n - 2 * r
           N == n * n
           M == m * m
           B == Before(n, r)
           C == (m - 2) * (m - 2)
<1>1. m \in Nat /\ m <= n OBVIOUS
<1>2. n - 2 * (r + 1) = m - 2 OBVIOUS
<1>3. N \in Nat /\ M \in Nat /\ M <= N BY <1>1, SquareIs
<1>4. B = N - M BY DEF Before
<1>5. Before(n, r + 1) = N - C BY <1>2 DEF Before
<1> HIDE DEF m
<1>6. C = M - 4 * m + 4 /\ C \in Int
  <2>1. (m - 2) * (m - 2) = m * m - 4 * m + 4 BY <1>1
  <2>q. QED BY <1>1, <2>1
<1>7. m = 1 => M = 1 OBVIOUS
<1>8. m = 2 => M = 4 OBVIOUS
<1>9. m > 1 => C \in Nat
  <2>1. m > 1 => m - 2 \in Nat BY <1>1
  <2>q. QED BY <2>1
<1>10. Before(n, 0) = 0
  <2>1. n - 2 * 0 = n OBVIOUS
  <2>2. Before(n, 0) = N - N BY <2>1 DEF Before
  <2> HIDE DEF N
  <2>q. QED BY <1>3, <2>2
<1>11. ASSUME NEW q \in Nat, r < q, 2 * q <= n PROVE B + 4 * m - 4 <= Before(n, q)
  <2> DEFINE p == n - 2 * q
             Q == p * p
  <2>1. p \in Nat /\ m - 2 \in Nat /\ p <= m - 2 BY <1>11 DEF m
  <2>2. Before(n, q) = N - Q BY DEF Before
  <2> HIDE DEF p
  <2>3. Q \in Nat /\ Q <= C BY <2>1, SquareIs
  <2> HIDE DEF N, M, B, C, Q
  <2>q. QED BY <1>1, <1>3, <1>4, <1>6, <2>2, <2>3
<1> HIDE DEF N, M, B, C
<1>12. B \in Nat BY <1>3, <1>4
<1>13. Before(n, r + 1) = B + 4 * m - 4 BY <1>1, <1>3, <1>4, <1>5, <1>6
<1>14. m = 1 => N = B + 1 BY <1>3, <1>4, <1>7
<1>15. m = 2 => N = B + 4 BY <1>3, <1>4, <1>8
<1>16. m > 1 => B + 4 * m - 4 <= N BY <1>1, <1>3, <1>4, <1>6, <1>9
<1>q. QED BY <1>3, <1>10, <1>11, <1>12, <1>13, <1>14, <1>15, <1>16 DEF B, N, m

LEMMA RingExists ==
  ASSUME NEW n \in Nat, NEW i \in 0 .. n - 1, NEW j \in 0 .. n - 1
  PROVE  \E r : OnRing(n, i, j, r)
<1>1. \E r \in {i, j, n - 1 - i, n - 1 - j} :
        \A q \in {i, j, n - 1 - i, n - 1 - j} : r <= q
  OBVIOUS
<1>2. PICK r \in {i, j, n - 1 - i, n - 1 - j} :
        \A q \in {i, j, n - 1 - i, n - 1 - j} : r <= q
  BY <1>1
<1>3. /\ r \in Nat /\ r <= i /\ r <= j /\ r <= n - 1 - i /\ r <= n - 1 - j
      /\ r = i \/ r = j \/ r = n - 1 - i \/ r = n - 1 - j
  BY <1>2
<1>4. OnRing(n, i, j, r) BY <1>3 DEF OnRing
<1>q. QED BY <1>4

LEMMA SpiralIs ==
  ASSUME NEW n \in Nat, NEW i \in 0 .. n - 1, NEW j \in 0 .. n - 1,
         NEW r, OnRing(n, i, j, r)
  PROVE  Computing!Spiral(n, i, j) = Before(n, r) + Along(n - 2 * r, i - r, j - r) + 1
<1> DEFINE S == {i, j, n - 1 - i, n - 1 - j}
           ring == CHOOSE q \in S : \A p \in S : q <= p
<1>1. r \in S /\ \A p \in S : r <= p BY DEF OnRing
<1>2. S \subseteq Int OBVIOUS
<1>3. ring \in S /\ \A p \in S : ring <= p
  <2> HIDE DEF S
  <2>q. QED BY <1>1
<1>4. ring = r
  <2> HIDE DEF S, ring
  <2>1. ring <= r /\ r <= ring /\ ring \in Int /\ r \in Int BY <1>1, <1>2, <1>3
  <2>q. QED BY <2>1
<1>5. Computing!Spiral(n, i, j) = n * n - (n - 2 * ring) * (n - 2 * ring)
                        + Along(n - 2 * ring, i - ring, j - ring) + 1
  BY DEF Computing!Spiral, Along
<1> HIDE DEF ring
<1>q. QED BY <1>4, <1>5 DEF Before

\* What a ring holds: at most 4 * m - 4 cells, and one alone in the middle.
LEMMA ComesIs ==
  ASSUME NEW n \in Nat, NEW i, NEW j, NEW r, NEW num, NEW d, Comes(n, i, j, r, num, d)
  PROVE  /\ i \in 0 .. n - 1 /\ j \in 0 .. n - 1 /\ d \in 1 .. 4 /\ n * n \in Nat
         /\ r \in Nat /\ 2 * r < n /\ num \in Nat /\ Before(n, r) \in Nat
         /\ Before(n, r) < num
         /\ n - 2 * r > 1 => num <= Before(n, r) + 4 * (n - 2 * r) - 4
         /\ num <= n * n /\ Computing!Spiral(n, i, j) = num
         /\ \A q \in Nat : r < q /\ 2 * q <= n => num <= Before(n, q)
<1> DEFINE m == n - 2 * r
           B == Before(n, r)
           N == n * n
<1>1. /\ r \in Nat /\ r <= i /\ i <= n - 1 - r /\ r <= j /\ j <= n - 1 - r
      /\ i \in 0 .. n - 1 /\ j \in 0 .. n - 1 /\ OnRing(n, i, j, r)
  <2>1. OnRing(n, i, j, r) BY DEF Comes
  <2>q. QED BY <2>1 DEF OnRing
<1>2. num = B + Along(m, i - r, j - r) + 1 /\ d = Heading(m, i - r, j - r) BY DEF Comes
<1>3. 2 * r <= n /\ 2 * r < n BY <1>1
<1>4. /\ N \in Nat /\ B \in Nat
      /\ m = 1 => N = B + 1
      /\ m > 1 => B + 4 * m - 4 <= N
      /\ \A q \in Nat : r < q /\ 2 * q <= n => B + 4 * m - 4 <= Before(n, q)
  BY <1>1, <1>3, BeforeIs
<1>5. Computing!Spiral(n, i, j) = num BY <1>1, <1>2, SpiralIs
<1> DEFINE row == i - r
           col == j - r
           a == Along(m, row, col)
<1>6. m \in Nat /\ m > 0 /\ row \in 0 .. m - 1 /\ col \in 0 .. m - 1 BY <1>1
<1>7. row = 0 \/ col = 0 \/ row = m - 1 \/ col = m - 1 BY <1>1 DEF OnRing
<1>8. num = B + a + 1 BY <1>2
<1>9. d \in 1 .. 4 BY <1>2 DEF Heading
<1>10. \A q \in Nat : r < q /\ 2 * q <= n => m > 1 BY <1>1
<1>11. \A q \in Nat : 2 * q <= n => Before(n, q) \in Nat BY BeforeIs
<1> HIDE DEF m, row, col, B, N
<1>12. a \in Nat /\ (m > 1 => a < 4 * m - 4) /\ (m = 1 => a = 0)
  BY <1>6, <1>7 DEF Along
<1> HIDE DEF a
<1>13. num \in Nat /\ B < num /\ (m > 1 => num <= B + 4 * m - 4) BY <1>4, <1>6, <1>8, <1>12
<1>14. num <= N BY <1>4, <1>6, <1>8, <1>12
<1>15. ASSUME NEW q \in Nat, r < q, 2 * q <= n PROVE num <= Before(n, q)
  BY <1>4, <1>6, <1>10, <1>11, <1>13, <1>15
<1>q. QED BY <1>1, <1>3, <1>4, <1>5, <1>9, <1>13, <1>14, <1>15 DEF m, B, N

LEMMA ComesExists ==
  ASSUME NEW n \in Nat, NEW i \in 0 .. n - 1, NEW j \in 0 .. n - 1
  PROVE  \E r, d : Comes(n, i, j, r, Computing!Spiral(n, i, j), d)
<1>1. PICK r : OnRing(n, i, j, r) BY RingExists
<1>2. Comes(n, i, j, r, Computing!Spiral(n, i, j), Heading(n - 2 * r, i - r, j - r))
  BY <1>1, SpiralIs DEF Comes
<1>q. QED BY <1>2

\* No two cells have the same number.
LEMMA OneCell ==
  ASSUME NEW n \in Nat, NEW i, NEW j, NEW r, NEW k, NEW l, NEW q, NEW num, NEW d, NEW e,
         Comes(n, i, j, r, num, d), Comes(n, k, l, q, num, e)
  PROVE  i = k /\ j = l /\ d = e
<1>1. /\ r \in Nat /\ 2 * r < n /\ Before(n, r) < num /\ num \in Nat /\ Before(n, r) \in Nat
      /\ \A p \in Nat : r < p /\ 2 * p <= n => num <= Before(n, p)
  BY ComesIs
<1>2. /\ q \in Nat /\ 2 * q < n /\ Before(n, q) < num /\ Before(n, q) \in Nat
      /\ \A p \in Nat : q < p /\ 2 * p <= n => num <= Before(n, p)
  BY ComesIs
<1>3. r = q
  <2>1. ~(r < q) BY <1>1, <1>2
  <2>2. ~(q < r) BY <1>1, <1>2
  <2>q. QED BY <1>1, <1>2, <2>1, <2>2
<1> DEFINE m == n - 2 * r
           B == Before(n, r)
<1>4. /\ r <= i /\ i <= n - 1 - r /\ r <= j /\ j <= n - 1 - r
      /\ i \in Int /\ j \in Int
      /\ i = r \/ j = r \/ i = n - 1 - r \/ j = n - 1 - r
  BY ComesIs DEF Comes, OnRing
<1>5. /\ r <= k /\ k <= n - 1 - r /\ r <= l /\ l <= n - 1 - r
      /\ k \in Int /\ l \in Int
      /\ k = r \/ l = r \/ k = n - 1 - r \/ l = n - 1 - r
  BY <1>3, ComesIs DEF Comes, OnRing
<1> DEFINE row == i - r
           col == j - r
           row2 == k - r
           col2 == l - r
<1>6. /\ m \in Nat /\ m > 0 /\ row \in 0 .. m - 1 /\ col \in 0 .. m - 1
      /\ row2 \in 0 .. m - 1 /\ col2 \in 0 .. m - 1
      /\ row = 0 \/ col = 0 \/ row = m - 1 \/ col = m - 1
      /\ row2 = 0 \/ col2 = 0 \/ row2 = m - 1 \/ col2 = m - 1
  BY <1>1, <1>4, <1>5
<1>7. num = B + Along(m, row, col) + 1 /\ d = Heading(m, row, col) BY DEF Comes
<1>8. num = B + Along(m, row2, col2) + 1 /\ e = Heading(m, row2, col2) BY <1>3 DEF Comes
<1>9. row = row2 /\ col = col2
  <2> HIDE DEF m, row, col, row2, col2, B
  <2>1. B \in Nat BY <1>1 DEF B
  <2>2. Along(m, row, col) \in Int /\ Along(m, row2, col2) \in Int BY <1>6 DEF Along
  <2>3. Along(m, row, col) = Along(m, row2, col2)
    <3>1. B + Along(m, row, col) + 1 = B + Along(m, row2, col2) + 1 BY <1>7, <1>8
    <3> DEFINE a == Along(m, row, col)
               b == Along(m, row2, col2)
    <3>2. a \in Int /\ b \in Int /\ B + a + 1 = B + b + 1 BY <2>2, <3>1
    <3> HIDE DEF a, b
    <3>3. a = b BY <2>1, <3>2
    <3>q. QED BY <3>3 DEF a, b
  <2>4. CASE row = 0 BY <1>6, <2>3, <2>4 DEF Along
  <2>5. CASE row # 0 /\ col = m - 1 BY <1>6, <2>3, <2>5 DEF Along
  <2>6. CASE row # 0 /\ col # m - 1 /\ row = m - 1 BY <1>6, <2>3, <2>6 DEF Along
  <2>7. CASE row # 0 /\ col # m - 1 /\ row # m - 1 BY <1>6, <2>3, <2>7 DEF Along
  <2>q. QED BY <2>4, <2>5, <2>6, <2>7
<1>10. d = e
  <2> HIDE DEF m, row, col, row2, col2
  <2>q. QED BY <1>7, <1>8, <1>9
<1>q. QED BY <1>4, <1>5, <1>9, <1>10, <1>1

\* One cell further to d.
Down(d) == IF d = 2 THEN 1 ELSE IF d = 4 THEN -1 ELSE 0
Right(d) == IF d = 1 THEN 1 ELSE IF d = 3 THEN -1 ELSE 0

Free(n, i, j, num, d) == \E r : Comes(n, i + Down(d), j + Right(d), r, num + 1, d)
Wall(n, i, j, num, d) ==
  \/ i + Down(d) \notin 0 .. n - 1 \/ j + Right(d) \notin 0 .. n - 1
  \/ \E r, k, e : Comes(n, i + Down(d), j + Right(d), r, k, e) /\ k < num

\* The next number stands straight ahead, or one turns to it before a wall.
LEMMA SpiralNext ==
  ASSUME NEW n \in Nat, NEW i, NEW j, NEW r, NEW num, NEW d, Comes(n, i, j, r, num, d),
         num < n * n
  PROVE  Free(n, i, j, num, d) \/ (Wall(n, i, j, num, d) /\ Free(n, i, j, num, (d % 4) + 1))
<1> DEFINE m == n - 2 * r
           B == Before(n, r)
           N == n * n
           row == i - r
           col == j - r
<1>1. /\ i \in 0 .. n - 1 /\ j \in 0 .. n - 1 /\ d \in 1 .. 4 /\ N \in Nat
      /\ r \in Nat /\ 2 * r < n /\ num \in Nat /\ B \in Nat
  BY ComesIs
<1>2. /\ r <= i /\ i <= n - 1 - r /\ r <= j /\ j <= n - 1 - r
      /\ i = r \/ j = r \/ i = n - 1 - r \/ j = n - 1 - r
  BY DEF Comes, OnRing
<1>3. /\ m \in Nat /\ m > 0 /\ row \in 0 .. m - 1 /\ col \in 0 .. m - 1
      /\ i = row + r /\ j = col + r /\ n = m + 2 * r
  BY <1>1, <1>2
<1>b. row = 0 \/ col = 0 \/ row = m - 1 \/ col = m - 1
  BY <1>1, <1>2
<1>4. num = B + Along(m, row, col) + 1 /\ d = Heading(m, row, col) BY DEF Comes
<1>5. /\ m = 1 => N = B + 1
      /\ m = 2 => N = B + 4
      /\ Before(n, r + 1) = B + 4 * m - 4
  BY <1>1, BeforeIs
<1>6. r > 0 => Before(n, r - 1) = B - 4 * m - 4
  <2>1. ASSUME r > 0 PROVE Before(n, r - 1) = B - 4 * m - 4
    <3>1. r - 1 \in Nat /\ 2 * (r - 1) <= n /\ (r - 1) + 1 = r /\ n - 2 * (r - 1) = m + 2
      BY <1>1, <2>1
    <3>2. Before(n, r) = Before(n, r - 1) + 4 * (m + 2) - 4 /\ Before(n, r - 1) \in Nat
      BY <3>1, BeforeIs
    <3>q. QED BY <1>1, <1>3, <3>2
  <2>q. QED BY <2>1
<1>7. num < N OBVIOUS
<1> HIDE DEF m, B, N, row, col
\* A cell of the same ring, of the ring outside it, of the ring inside it.
<1>8. ASSUME NEW x \in 0 .. m - 1, NEW y \in 0 .. m - 1,
             x = 0 \/ y = 0 \/ x = m - 1 \/ y = m - 1
      PROVE  Comes(n, x + r, y + r, r, B + Along(m, x, y) + 1, Heading(m, x, y))
  <2>1. (x + r) - r = x /\ (y + r) - r = y BY <1>1, <1>3
  <2>2. OnRing(n, x + r, y + r, r) BY <1>1, <1>3, <1>8 DEF OnRing
  <2>q. QED BY <2>1, <2>2 DEF Comes, m, B
<1>9. ASSUME NEW x \in 0 .. m + 1, NEW y \in 0 .. m + 1, r > 0,
             x = 0 \/ y = 0 \/ x = m + 1 \/ y = m + 1
      PROVE  Comes(n, x + r - 1, y + r - 1, r - 1,
                (B - 4 * m - 4) + Along(m + 2, x, y) + 1, Heading(m + 2, x, y))
  <2>1. (x + r - 1) - (r - 1) = x /\ (y + r - 1) - (r - 1) = y BY <1>1, <1>3
  <2>2. OnRing(n, x + r - 1, y + r - 1, r - 1) BY <1>1, <1>3, <1>9 DEF OnRing
  <2>3. n - 2 * (r - 1) = m + 2 BY <1>1, <1>3
  <2>q. QED BY <1>6, <1>9, <2>1, <2>2, <2>3 DEF Comes
<1>10. ASSUME m > 2 PROVE Comes(n, 1 + r, 1 + r, r + 1, B + 4 * m - 3, 1)
  <2>1. (1 + r) - (r + 1) = 0 BY <1>1
  <2>2. OnRing(n, 1 + r, 1 + r, r + 1) BY <1>1, <1>3, <1>10 DEF OnRing
  <2>3. Along(n - 2 * (r + 1), 0, 0) = 0 /\ Heading(n - 2 * (r + 1), 0, 0) = 1
    BY DEF Along, Heading
  <2>4. B + 4 * m - 3 = (B + 4 * m - 4) + 0 + 1 BY <1>1, <1>3
  <2>q. QED BY <1>5, <2>1, <2>2, <2>3, <2>4 DEF Comes
<1>11. CASE row = 0
  <2>1. d = 1 /\ num = B + col + 1 BY <1>3, <1>4, <1>11 DEF Along, Heading
  <2>2. Down(1) = 0 /\ Right(1) = 1 /\ Down(2) = 1 /\ Right(2) = 0 BY DEF Down, Right
  <2>3. CASE col < m - 1
    <3>1. col + 1 \in 0 .. m - 1 /\ 0 \in 0 .. m - 1 BY <1>3, <2>3
    <3>2. Comes(n, 0 + r, (col + 1) + r, r,
                B + Along(m, 0, col + 1) + 1, Heading(m, 0, col + 1))
      BY <1>8, <3>1
    <3>3. Along(m, 0, col + 1) = col + 1 /\ Heading(m, 0, col + 1) = 1
      BY <1>3, <2>3 DEF Along, Heading
    <3>4. 0 + r = i + 0 /\ (col + 1) + r = j + 1 /\ B + (col + 1) + 1 = num + 1
      BY <1>1, <1>3, <1>11, <2>1
    <3>q. QED BY <2>1, <2>2, <3>2, <3>3, <3>4 DEF Free
  <2>4. CASE col = m - 1
    <3>1. m > 1 BY <1>1, <1>3, <1>5, <1>7, <2>1, <2>4
    <3>2. 1 \in 0 .. m - 1 /\ m - 1 \in 0 .. m - 1 BY <1>3, <3>1
    <3>3. Comes(n, 1 + r, (m - 1) + r, r, B + Along(m, 1, m - 1) + 1, Heading(m, 1, m - 1))
      BY <1>8, <3>2
    <3>4. Along(m, 1, m - 1) = m /\ Heading(m, 1, m - 1) = 2 BY <1>3 DEF Along, Heading
    <3>5. 1 + r = i + 1 /\ (m - 1) + r = j + 0 /\ B + m + 1 = num + 1
      BY <1>1, <1>3, <1>11, <2>1, <2>4
    <3>6. Free(n, i, j, num, 2) BY <2>2, <3>3, <3>4, <3>5 DEF Free
    <3>7. Wall(n, i, j, num, 1)
      <4>1. CASE r = 0
        <5>1. j + 1 \notin 0 .. n - 1 BY <1>1, <1>3, <2>4, <4>1
        <5>q. QED BY <2>2, <5>1 DEF Wall
      <4>2. CASE r > 0
        <5> DEFINE k == (B - 4 * m - 4) + (m + 2) + 1
        <5>1. 1 \in 0 .. m + 1 /\ m + 1 \in 0 .. m + 1 BY <1>3
        <5>2. Comes(n, 1 + r - 1, (m + 1) + r - 1, r - 1,
                 (B - 4 * m - 4) + Along(m + 2, 1, m + 1) + 1, Heading(m + 2, 1, m + 1))
          BY <1>9, <4>2, <5>1
        <5>3. Along(m + 2, 1, m + 1) = m + 2 BY <1>3 DEF Along
        <5>4. 1 + r - 1 = i + 0 /\ (m + 1) + r - 1 = j + 1
          BY <1>1, <1>3, <1>11, <2>4
        <5>5. k < num BY <1>1, <1>3, <2>1, <2>4
        <5>6. Comes(n, i + 0, j + 1, r - 1, k, Heading(m + 2, 1, m + 1)) BY <5>2, <5>3, <5>4
        <5> HIDE DEF k
        <5>q. QED BY <2>2, <5>5, <5>6 DEF Wall
      <4>q. QED BY <1>1, <4>1, <4>2
    <3>8. (1 % 4) + 1 = 2 OBVIOUS
    <3>q. QED BY <2>1, <3>6, <3>7, <3>8
  <2>q. QED BY <1>3, <2>3, <2>4
<1>12. CASE row # 0 /\ col = m - 1
  <2>1. d = 2 /\ num = B + (m - 1 + row) + 1 BY <1>4, <1>12 DEF Along, Heading
  <2>2. Down(2) = 1 /\ Right(2) = 0 /\ Down(3) = 0 /\ Right(3) = -1 BY DEF Down, Right
  <2>m. m > 1 BY <1>3, <1>12
  <2>3. CASE row < m - 1
    <3>1. row + 1 \in 0 .. m - 1 /\ m - 1 \in 0 .. m - 1 BY <1>3, <2>3
    <3>2. Comes(n, (row + 1) + r, (m - 1) + r, r,
             B + Along(m, row + 1, m - 1) + 1, Heading(m, row + 1, m - 1))
      BY <1>8, <3>1
    <3>3. Along(m, row + 1, m - 1) = (m - 1) + (row + 1) /\ Heading(m, row + 1, m - 1) = 2
      BY <1>3 DEF Along, Heading
    <3>4. /\ (row + 1) + r = i + 1 /\ (m - 1) + r = j + 0
          /\ B + ((m - 1) + (row + 1)) + 1 = num + 1
      BY <1>1, <1>3, <1>12, <2>1
    <3>q. QED BY <2>1, <2>2, <3>2, <3>3, <3>4 DEF Free
  <2>4. CASE row = m - 1
    <3>2. m - 1 \in 0 .. m - 1 /\ m - 2 \in 0 .. m - 1 BY <1>3, <2>m
    <3>3. Comes(n, (m - 1) + r, (m - 2) + r, r,
                B + Along(m, m - 1, m - 2) + 1, Heading(m, m - 1, m - 2))
      BY <1>8, <3>2
    <3>4. Along(m, m - 1, m - 2) = 2 * (m - 1) + 1 /\ Heading(m, m - 1, m - 2) = 3
      BY <1>3, <2>m DEF Along, Heading
    <3>5. /\ (m - 1) + r = i + 0 /\ (m - 2) + r = j + (-1)
          /\ B + (2 * (m - 1) + 1) + 1 = num + 1
      BY <1>1, <1>3, <1>12, <2>1, <2>4
    <3>6. Free(n, i, j, num, 3) BY <2>2, <3>3, <3>4, <3>5 DEF Free
    <3>7. Wall(n, i, j, num, 2)
      <4>1. CASE r = 0
        <5>1. i + 1 \notin 0 .. n - 1 BY <1>1, <1>3, <2>4, <4>1
        <5>q. QED BY <2>2, <5>1 DEF Wall
      <4>2. CASE r > 0
        <5> DEFINE k == (B - 4 * m - 4) + (2 * m + 3) + 1
        <5>1. m \in 0 .. m + 1 /\ m + 1 \in 0 .. m + 1 BY <1>3
        <5>2. Comes(n, (m + 1) + r - 1, m + r - 1, r - 1,
                 (B - 4 * m - 4) + Along(m + 2, m + 1, m) + 1, Heading(m + 2, m + 1, m))
          BY <1>9, <4>2, <5>1
        <5>3. Along(m + 2, m + 1, m) = 2 * m + 3 BY <1>3 DEF Along
        <5>4. (m + 1) + r - 1 = i + 1 /\ m + r - 1 = j + 0
          BY <1>1, <1>3, <1>12, <2>4
        <5>5. k < num BY <1>1, <1>3, <2>1, <2>4
        <5>6. Comes(n, i + 1, j + 0, r - 1, k, Heading(m + 2, m + 1, m)) BY <5>2, <5>3, <5>4
        <5> HIDE DEF k
        <5>q. QED BY <2>2, <5>5, <5>6 DEF Wall
      <4>q. QED BY <1>1, <4>1, <4>2
    <3>8. (2 % 4) + 1 = 3 OBVIOUS
    <3>q. QED BY <2>1, <3>6, <3>7, <3>8
  <2>q. QED BY <1>3, <2>3, <2>4
<1>13. CASE row # 0 /\ col # m - 1 /\ row = m - 1
  <2>1. d = 3 /\ num = B + (2 * (m - 1) + (m - 1 - col)) + 1
    BY <1>4, <1>13 DEF Along, Heading
  <2>2. Down(3) = 0 /\ Right(3) = -1 /\ Down(4) = -1 /\ Right(4) = 0 BY DEF Down, Right
  <2>m. m > 1 BY <1>3, <1>13
  <2>3. CASE col > 0
    <3>1. col - 1 \in 0 .. m - 1 /\ m - 1 \in 0 .. m - 1 /\ col - 1 # m - 1 BY <1>3, <2>3
    <3>2. Comes(n, (m - 1) + r, (col - 1) + r, r,
             B + Along(m, m - 1, col - 1) + 1, Heading(m, m - 1, col - 1))
      BY <1>8, <3>1
    <3>3. /\ Along(m, m - 1, col - 1) = 2 * (m - 1) + (m - 1 - (col - 1))
          /\ Heading(m, m - 1, col - 1) = 3
      BY <1>3, <2>m, <3>1 DEF Along, Heading
    <3>4. /\ (m - 1) + r = i + 0 /\ (col - 1) + r = j + (-1)
          /\ B + (2 * (m - 1) + (m - 1 - (col - 1))) + 1 = num + 1
      BY <1>1, <1>3, <1>13, <2>1
    <3>q. QED BY <2>1, <2>2, <3>2, <3>3, <3>4 DEF Free
  <2>4. CASE col = 0
    <3>1. m > 2
      <4>1. m = 2 => num = N BY <1>1, <1>3, <1>5, <2>1, <2>4
      <4>q. QED BY <1>1, <1>3, <1>7, <2>m, <4>1
    <3>2. m - 2 \in 0 .. m - 1 /\ 0 \in 0 .. m - 1 BY <1>3, <2>m
    <3>3. Comes(n, (m - 2) + r, 0 + r, r, B + Along(m, m - 2, 0) + 1, Heading(m, m - 2, 0))
      BY <1>8, <3>2
    <3>4. Along(m, m - 2, 0) = 3 * (m - 1) + 1 /\ Heading(m, m - 2, 0) = 4
      BY <1>3, <3>1 DEF Along, Heading
    <3>5. /\ (m - 2) + r = i + (-1) /\ 0 + r = j + 0
          /\ B + (3 * (m - 1) + 1) + 1 = num + 1
      BY <1>1, <1>3, <1>13, <2>1, <2>4
    <3>6. Free(n, i, j, num, 4) BY <2>2, <3>3, <3>4, <3>5 DEF Free
    <3>7. Wall(n, i, j, num, 3)
      <4>1. CASE r = 0
        <5>1. j + (-1) \notin 0 .. n - 1 BY <1>1, <1>3, <2>4, <4>1
        <5>q. QED BY <2>2, <5>1 DEF Wall
      <4>2. CASE r > 0
        <5> DEFINE k == (B - 4 * m - 4) + (3 * m + 4) + 1
        <5>1. m \in 0 .. m + 1 /\ 0 \in 0 .. m + 1 BY <1>3
        <5>2. Comes(n, m + r - 1, 0 + r - 1, r - 1,
                 (B - 4 * m - 4) + Along(m + 2, m, 0) + 1, Heading(m + 2, m, 0))
          BY <1>9, <4>2, <5>1
        <5>3. Along(m + 2, m, 0) = 3 * m + 4 BY <1>3 DEF Along
        <5>4. m + r - 1 = i + 0 /\ 0 + r - 1 = j + (-1)
          BY <1>1, <1>3, <1>13, <2>4
        <5>5. k < num BY <1>1, <1>3, <2>1, <2>4
        <5>6. Comes(n, i + 0, j + (-1), r - 1, k, Heading(m + 2, m, 0)) BY <5>2, <5>3, <5>4
        <5> HIDE DEF k
        <5>q. QED BY <2>2, <5>5, <5>6 DEF Wall
      <4>q. QED BY <1>1, <4>1, <4>2
    <3>8. (3 % 4) + 1 = 4 OBVIOUS
    <3>q. QED BY <2>1, <3>6, <3>7, <3>8
  <2>q. QED BY <1>3, <2>3, <2>4
<1>14. CASE row # 0 /\ col # m - 1 /\ row # m - 1
  <2>1. d = 4 /\ num = B + (3 * (m - 1) + (m - 1 - row)) + 1 /\ col = 0
    BY <1>4, <1>14, <1>b DEF Along, Heading
  <2>2. Down(4) = -1 /\ Right(4) = 0 /\ Down(1) = 0 /\ Right(1) = 1 BY DEF Down, Right
  <2>m. m > 2 BY <1>3, <1>14
  <2>3. CASE row > 1
    <3>1. row - 1 \in 0 .. m - 1 /\ 0 \in 0 .. m - 1 /\ row - 1 # m - 1 /\ row - 1 # 0
      BY <1>3, <2>3
    <3>2. Comes(n, (row - 1) + r, 0 + r, r,
             B + Along(m, row - 1, 0) + 1, Heading(m, row - 1, 0))
      BY <1>8, <3>1
    <3>3. /\ Along(m, row - 1, 0) = 3 * (m - 1) + (m - 1 - (row - 1))
          /\ Heading(m, row - 1, 0) = 4
      BY <1>3, <2>m, <3>1 DEF Along, Heading
    <3>4. /\ (row - 1) + r = i + (-1) /\ 0 + r = j + 0
          /\ B + (3 * (m - 1) + (m - 1 - (row - 1))) + 1 = num + 1
      BY <1>1, <1>3, <1>14, <2>1
    <3>q. QED BY <2>1, <2>2, <3>2, <3>3, <3>4 DEF Free
  <2>4. CASE row = 1
    <3>1. 1 + r = i + 0 /\ 1 + r = j + 1 /\ B + 4 * m - 3 = num + 1
      BY <1>1, <1>3, <2>1, <2>4
    <3>2. Comes(n, i + 0, j + 1, r + 1, num + 1, 1) BY <1>10, <2>m, <3>1
    <3>3. Free(n, i, j, num, 1) BY <2>2, <3>2 DEF Free
    <3>4. Wall(n, i, j, num, 4)
      <4>1. Comes(n, 0 + r, 0 + r, r, B + Along(m, 0, 0) + 1, Heading(m, 0, 0))
        BY <1>3, <1>8
      <4>2. Along(m, 0, 0) = 0 BY DEF Along
      <4>3. 0 + r = i + (-1) /\ 0 + r = j + 0 /\ B + 0 + 1 < num
        BY <1>1, <1>3, <2>1, <2>4
      <4>q. QED BY <2>2, <4>1, <4>2, <4>3 DEF Wall
    <3>5. (4 % 4) + 1 = 1 OBVIOUS
    <3>q. QED BY <2>1, <3>3, <3>4, <3>5
  <2>q. QED BY <1>3, <1>14, <2>3, <2>4
<1>q. QED BY <1>11, <1>12, <1>13, <1>14

\* The snail on its way: what it has filled, and where it stands.
SnailType(n) ==
  [n : {n}, i : Int, j : Int, dir : 1 .. 4, flag_i : BOOLEAN,
   res : [Computing!Matrix(n) -> Int]]

LEMMA BlockedIs ==
  ASSUME NEW n \in Nat, NEW s \in SnailType(n), s.i \in 0 .. n - 1, s.j \in 0 .. n - 1,
         NEW x, NEW y, x = s.i + Down(s.dir), y = s.j + Right(s.dir)
  PROVE  Computing!Blocked(s)
           <=> x \notin 0 .. n - 1 \/ y \notin 0 .. n - 1 \/ s.res[<<x, y>>] # -1
<1>1. s.n = n /\ s.i \in Int /\ s.j \in Int /\ s.dir \in 1 .. 4 BY DEF SnailType
<1>2. CASE s.dir = 1
  <2>1. x = s.i /\ y = s.j + 1 BY <1>1, <1>2 DEF Down, Right
  <2>2. Computing!Blocked(s) <=> s.j + 1 = n \/ s.res[<<s.i, s.j + 1>>] # -1
    BY <1>1, <1>2 DEF Computing!Blocked
  <2>q. QED BY <1>1, <2>1, <2>2
<1>3. CASE s.dir = 2
  <2>1. x = s.i + 1 /\ y = s.j BY <1>1, <1>3 DEF Down, Right
  <2>2. Computing!Blocked(s) <=> s.i + 1 = n \/ s.res[<<s.i + 1, s.j>>] # -1
    BY <1>1, <1>3 DEF Computing!Blocked
  <2>q. QED BY <1>1, <2>1, <2>2
<1>4. CASE s.dir = 3
  <2>1. x = s.i /\ y = s.j - 1 BY <1>1, <1>4 DEF Down, Right
  <2>2. Computing!Blocked(s) <=> s.j = 0 \/ s.res[<<s.i, s.j - 1>>] # -1
    BY <1>1, <1>4 DEF Computing!Blocked
  <2>q. QED BY <1>1, <2>1, <2>2
<1>5. CASE s.dir = 4
  <2>1. x = s.i - 1 /\ y = s.j BY <1>1, <1>5 DEF Down, Right
  <2>2. Computing!Blocked(s) <=> s.i = 0 \/ s.res[<<s.i - 1, s.j>>] # -1
    BY <1>1, <1>5 DEF Computing!Blocked
  <2>q. QED BY <1>1, <2>1, <2>2
<1>q. QED BY <1>1, <1>2, <1>3, <1>4, <1>5

\* One turn of the loop: to e, which is where it went or one further round.
Turned(t, s, n, num, e) ==
  /\ t \in SnailType(n) /\ t.dir = e /\ (t.flag_i <=> e \in {2, 4})
  /\ t.i = s.i + Down(e) /\ t.j = s.j + Right(e)
  /\ t.res = [s.res EXCEPT ![<<s.i, s.j>>] = num]

LEMMA SnailStepType ==
  ASSUME NEW n \in Nat, NEW s \in SnailType(n), NEW num \in Nat
  PROVE  Computing!SnailStep(s, num) \in SnailType(n)
<1>1. /\ s.n = n /\ s.i \in Int /\ s.j \in Int /\ s.dir \in 1 .. 4 /\ s.flag_i \in BOOLEAN
      /\ s.res \in [Computing!Matrix(n) -> Int]
  BY DEF SnailType
<1> DEFINE turn == IF Computing!Blocked(s) THEN (s.dir % 4) + 1 ELSE s.dir
           flag_i == IF Computing!Blocked(s) THEN ~s.flag_i ELSE s.flag_i
           i == IF ~flag_i THEN s.i ELSE IF turn = 2 THEN s.i + 1 ELSE s.i - 1
           j == IF flag_i THEN s.j ELSE IF turn = 1 THEN s.j + 1 ELSE s.j - 1
           res == [s.res EXCEPT ![<<s.i, s.j>>] = num]
<1>2. turn \in 1 .. 4 BY <1>1
<1>3. flag_i \in BOOLEAN BY <1>1
<1>4. i \in Int /\ j \in Int
  <2> HIDE DEF turn, flag_i
  <2>q. QED BY <1>1
<1>5. res \in [Computing!Matrix(n) -> Int]
  <2>1. s.res \in [Computing!Matrix(n) -> Int] /\ num \in Int BY <1>1
  <2>q. QED BY <2>1
<1>6. Computing!SnailStep(s, num) = [n |-> s.n, dir |-> turn, flag_i |-> flag_i, res |-> res,
                           i |-> i, j |-> j]
  BY DEF Computing!SnailStep
<1> HIDE DEF turn, flag_i, i, j, res
<1>q. QED BY <1>1, <1>2, <1>3, <1>4, <1>5, <1>6 DEF SnailType

LEMMA SnailStepIs ==
  ASSUME NEW n \in Nat, NEW s \in SnailType(n), NEW num \in Nat,
         (s.flag_i <=> s.dir \in {2, 4}),
         NEW e, e = IF Computing!Blocked(s) THEN (s.dir % 4) + 1 ELSE s.dir
  PROVE  Turned(Computing!SnailStep(s, num), s, n, num, e)
<1>1. /\ s.n = n /\ s.i \in Int /\ s.j \in Int /\ s.dir \in 1 .. 4 /\ s.flag_i \in BOOLEAN
  BY DEF SnailType
<1> DEFINE flag_i == IF Computing!Blocked(s) THEN ~s.flag_i ELSE s.flag_i
           t == Computing!SnailStep(s, num)
<1>2. (flag_i <=> e \in {2, 4}) /\ e \in 1 .. 4
  <2>1. s.dir = 1 \/ s.dir = 2 \/ s.dir = 3 \/ s.dir = 4 BY <1>1
  <2>2. (1 % 4) + 1 = 2 /\ (2 % 4) + 1 = 3 /\ (3 % 4) + 1 = 4 /\ (4 % 4) + 1 = 1 OBVIOUS
  <2>3. CASE Computing!Blocked(s)
    <3>1. e = (s.dir % 4) + 1 /\ (flag_i <=> ~s.flag_i) BY <2>3
    <3> HIDE DEF flag_i
    <3>q. QED BY <2>1, <2>2, <3>1
  <2>4. CASE ~Computing!Blocked(s)
    <3>1. e = s.dir /\ (flag_i <=> s.flag_i) BY <2>4
    <3> HIDE DEF flag_i
    <3>q. QED BY <1>1, <3>1
  <2>q. QED BY <2>3, <2>4
<1>3. /\ t.dir = e /\ (t.flag_i <=> flag_i)
      /\ t.i = IF ~flag_i THEN s.i ELSE IF e = 2 THEN s.i + 1 ELSE s.i - 1
      /\ t.j = IF flag_i THEN s.j ELSE IF e = 1 THEN s.j + 1 ELSE s.j - 1
      /\ t.res = [s.res EXCEPT ![<<s.i, s.j>>] = num]
  <2> HIDE DEF flag_i
  <2>1. t = [n |-> s.n, dir |-> e, flag_i |-> flag_i,
             res |-> [s.res EXCEPT ![<<s.i, s.j>>] = num],
             i |-> IF ~flag_i THEN s.i ELSE IF e = 2 THEN s.i + 1 ELSE s.i - 1,
             j |-> IF flag_i THEN s.j ELSE IF e = 1 THEN s.j + 1 ELSE s.j - 1]
    BY DEF Computing!SnailStep, flag_i
  <2> HIDE DEF t
  <2>q. QED BY <2>1
<1>4. t \in SnailType(n) BY SnailStepType
<1> HIDE DEF flag_i, t
<1>5. t.i = s.i + Down(e)
  BY <1>1, <1>2, <1>3 DEF Down
<1>6. t.j = s.j + Right(e)
  BY <1>1, <1>2, <1>3 DEF Right
<1>q. QED BY <1>2, <1>3, <1>4, <1>5, <1>6 DEF Turned, t

Walk(n, s, k) ==
  /\ s \in SnailType(n)
  /\ \A cell \in Computing!Matrix(n) :
       s.res[cell] = IF Computing!Spiral(n, cell[1], cell[2]) <= k
                     THEN Computing!Spiral(n, cell[1], cell[2]) ELSE -1
  /\ k < n * n => \E r : Comes(n, s.i, s.j, r, k + 1, s.dir) /\ (s.flag_i <=> s.dir \in {2, 4})

LEMMA WalkStep ==
  ASSUME NEW n \in Nat, NEW s, NEW k \in Nat, k < n * n, Walk(n, s, k)
  PROVE  Walk(n, Computing!SnailStep(s, k + 1), k + 1)
<1> DEFINE t == Computing!SnailStep(s, k + 1)
           d == s.dir
           x == s.i + Down(d)
           y == s.j + Right(d)
           e == IF Computing!Blocked(s) THEN (d % 4) + 1 ELSE d
           Filled(cell) == Computing!Spiral(n, cell[1], cell[2])
<1>1. /\ s \in SnailType(n) /\ (s.flag_i <=> d \in {2, 4})
      /\ \A cell \in Computing!Matrix(n) :
           s.res[cell] = IF Filled(cell) <= k THEN Filled(cell) ELSE -1
  BY DEF Walk
<1>2. PICK r : Comes(n, s.i, s.j, r, k + 1, d) BY DEF Walk
<1>3. /\ s.i \in 0 .. n - 1 /\ s.j \in 0 .. n - 1 /\ Computing!Spiral(n, s.i, s.j) = k + 1
      /\ n * n \in Nat
  BY <1>2, ComesIs
<1>4. Turned(t, s, n, k + 1, e) BY <1>1, SnailStepIs
<1>5. \A cell \in Computing!Matrix(n) :
        /\ Filled(cell) \in Nat \ {0} /\ Filled(cell) <= n * n
        /\ Filled(cell) = k + 1 => cell = <<s.i, s.j>>
  <2>1. ASSUME NEW cell \in Computing!Matrix(n)
        PROVE  /\ Filled(cell) \in Nat \ {0}
               /\ Filled(cell) <= n * n
               /\ Filled(cell) = k + 1 => cell = <<s.i, s.j>>
    <3>1. /\ cell[1] \in 0 .. n - 1 /\ cell[2] \in 0 .. n - 1 /\ cell = <<cell[1], cell[2]>>
      BY DEF Computing!Matrix
    <3>2. PICK q, b : Comes(n, cell[1], cell[2], q, Filled(cell), b) BY <3>1, ComesExists
    <3>3. /\ Filled(cell) \in Nat /\ Before(n, q) \in Nat /\ Before(n, q) < Filled(cell)
          /\ Filled(cell) <= n * n
      BY <3>2, ComesIs
    <3>4. ASSUME Filled(cell) = k + 1 PROVE cell = <<s.i, s.j>>
      <4>1. Comes(n, cell[1], cell[2], q, k + 1, b) BY <3>2, <3>4
      <4>2. cell[1] = s.i /\ cell[2] = s.j BY <1>2, <4>1, OneCell
      <4>q. QED BY <3>1, <4>2
    <3> HIDE DEF Filled
    <3>q. QED BY <3>3, <3>4
  <2>q. QED BY <2>1
<1>6. ASSUME NEW cell \in Computing!Matrix(n)
      PROVE  t.res[cell] = IF Filled(cell) <= k + 1 THEN Filled(cell) ELSE -1
  <2>1. s.res \in [Computing!Matrix(n) -> Int] BY <1>1 DEF SnailType
  <2>2. t.res[cell] = IF cell = <<s.i, s.j>> THEN k + 1 ELSE s.res[cell]
    BY <1>4, <2>1 DEF Turned
  <2>3. Filled(<<s.i, s.j>>) = k + 1 BY <1>3
  <2>4. Filled(cell) \in Nat /\ (Filled(cell) = k + 1 => cell = <<s.i, s.j>>) BY <1>5
  <2>5. s.res[cell] = IF Filled(cell) <= k THEN Filled(cell) ELSE -1 BY <1>1
  <2> HIDE DEF Filled, t
  <2>6. CASE cell = <<s.i, s.j>> BY <2>2, <2>3, <2>6
  <2>7. CASE cell # <<s.i, s.j>>
    <3>1. Filled(cell) <= k <=> Filled(cell) <= k + 1 BY <2>4, <2>7
    <3>q. QED BY <2>2, <2>5, <2>7, <3>1
  <2>q. QED BY <2>6, <2>7
<1>7. ASSUME k + 1 < n * n
      PROVE  \E q : Comes(n, t.i, t.j, q, (k + 1) + 1, t.dir) /\ (t.flag_i <=> t.dir \in {2, 4})
  <2>1. \/ Free(n, s.i, s.j, k + 1, d)
        \/ Wall(n, s.i, s.j, k + 1, d) /\ Free(n, s.i, s.j, k + 1, (d % 4) + 1)
    BY <1>2, <1>7, SpiralNext
  <2>2. Computing!Blocked(s)
          <=> x \notin 0 .. n - 1 \/ y \notin 0 .. n - 1 \/ s.res[<<x, y>>] # -1
    BY <1>1, <1>3, BlockedIs
  <2>3. ASSUME Free(n, s.i, s.j, k + 1, d) PROVE ~Computing!Blocked(s)
    <3>1. PICK q : Comes(n, x, y, q, (k + 1) + 1, d) BY <2>3 DEF Free
    <3>2. x \in 0 .. n - 1 /\ y \in 0 .. n - 1 /\ Computing!Spiral(n, x, y) = (k + 1) + 1
      BY <3>1, ComesIs
    <3> HIDE DEF x, y
    <3>3. <<x, y>> \in Computing!Matrix(n) /\ Filled(<<x, y>>) = (k + 1) + 1
      BY <3>2 DEF Computing!Matrix
    <3>4. ~(Filled(<<x, y>>) <= k) BY <3>3
    <3>5. s.res[<<x, y>>] = -1 BY <1>1, <3>3, <3>4
    <3>q. QED BY <2>2, <3>2, <3>5
  <2>4. ASSUME Wall(n, s.i, s.j, k + 1, d) PROVE Computing!Blocked(s)
    <3>1. CASE x \notin 0 .. n - 1 \/ y \notin 0 .. n - 1 BY <2>2, <3>1
    <3>2. ASSUME NEW q, NEW l, NEW b, Comes(n, x, y, q, l, b), l < k + 1
          PROVE  Computing!Blocked(s)
      <4>1. /\ x \in 0 .. n - 1 /\ y \in 0 .. n - 1 /\ Computing!Spiral(n, x, y) = l /\ l \in Nat
        BY <3>2, ComesIs
      <4> HIDE DEF x, y
      <4>2. <<x, y>> \in Computing!Matrix(n) /\ Filled(<<x, y>>) = l
        BY <4>1 DEF Computing!Matrix
      <4>3. s.res[<<x, y>>] = l BY <1>1, <3>2, <4>1, <4>2
      <4>q. QED BY <2>2, <4>1, <4>3
    <3>q. QED BY <2>4, <3>1, <3>2 DEF Wall
  <2>5. Free(n, s.i, s.j, k + 1, e) BY <2>1, <2>3, <2>4
  <2>6. t.i = s.i + Down(e) /\ t.j = s.j + Right(e) /\ t.dir = e /\ (t.flag_i <=> e \in {2, 4})
    BY <1>4 DEF Turned
  <2> HIDE DEF t, e
  <2>q. QED BY <2>5, <2>6 DEF Free
<1>8. t \in SnailType(n) BY <1>4 DEF Turned
<1>q. QED BY <1>6, <1>7, <1>8 DEF Walk

\* The snail goes inwards through every cell once.
LEMMA SnailRight ==
  ASSUME NEW n \in Nat, n > 0
  PROVE  Computing!snail_array(n)
           = [cell \in Computing!Matrix(n) |-> Computing!Spiral(n, cell[1], cell[2])]
<1> DEFINE N == n * n
           U == SnailType(n)
           base == [n |-> n, i |-> 0, j |-> 0, dir |-> 1, flag_i |-> FALSE,
                    res |-> [cell \in Computing!Matrix(n) |-> -1]]
           seq == [num \in 1 .. N |-> num]
<1>1. N \in Nat /\ N > 0
  <2>1. n * n \in Nat /\ 1 * 1 <= n * n BY SquareIs
  <2>q. QED BY <2>1
<1>2. base \in U BY DEF SnailType
<1> HIDE DEF N
<1>3. seq \in [1 .. N -> 1 .. N] OBVIOUS
<1>4. \A s \in U, num \in 1 .. N : Computing!SnailStep(s, num) \in U BY SnailStepType
<1>5. PICK h : SnailStepRun(h, base, seq, N, U)
  <2> HIDE DEF U, base, seq
  <2>q. QED BY <1>1, <1>2, <1>3, <1>4, SnailStepRuns
<1>6. /\ h[0] = base /\ \A k \in 1 .. N : h[k] = Computing!SnailStep(h[k - 1], k)
      /\ Computing!snail_array(n) = h[N].res
  BY <1>5 DEF SnailStepRun, Computing!snail_array, N
<1> DEFINE G == {k \in 0 .. N : Walk(n, h[k], k)}
<1>7. 0 \in G
  <2>1. ASSUME NEW cell \in Computing!Matrix(n)
        PROVE  ~(Computing!Spiral(n, cell[1], cell[2]) <= 0)
    <3>1. cell[1] \in 0 .. n - 1 /\ cell[2] \in 0 .. n - 1 BY DEF Computing!Matrix
    <3>2. PICK q, b : Comes(n, cell[1], cell[2], q, Computing!Spiral(n, cell[1], cell[2]), b)
      BY <3>1, ComesExists
    <3>3. /\ Computing!Spiral(n, cell[1], cell[2]) \in Nat /\ Before(n, q) \in Nat
          /\ Before(n, q) < Computing!Spiral(n, cell[1], cell[2])
      BY <3>2, ComesIs
    <3>q. QED BY <3>3
  <2>2. Comes(n, 0, 0, 0, 0 + 1, 1)
    <3>1. OnRing(n, 0, 0, 0) BY DEF OnRing
    <3>2. Before(n, 0) = 0 BY BeforeIs
    <3>3. 0 - 0 = 0 OBVIOUS
    <3>4. Along(n - 2 * 0, 0, 0) = 0 /\ Heading(n - 2 * 0, 0, 0) = 1 BY DEF Along, Heading
    <3>q. QED BY <3>1, <3>2, <3>3, <3>4 DEF Comes
  <2>3. /\ h[0].i = 0 /\ h[0].j = 0 /\ h[0].dir = 1 /\ h[0].flag_i = FALSE
        /\ \A cell \in Computing!Matrix(n) : h[0].res[cell] = -1
        /\ h[0] \in SnailType(n)
    BY <1>2, <1>6
  <2>4. Walk(n, h[0], 0) BY <2>1, <2>2, <2>3 DEF Walk
  <2>q. QED BY <1>1, <2>4
<1>8. ASSUME NEW k \in 1 .. N, k - 1 \in G PROVE k \in G
  <2>1. Walk(n, h[k - 1], k - 1) /\ k - 1 \in Nat /\ k - 1 < n * n /\ (k - 1) + 1 = k
    BY <1>1, <1>8 DEF N
  <2>2. Walk(n, Computing!SnailStep(h[k - 1], (k - 1) + 1), (k - 1) + 1) BY <2>1, WalkStep
  <2>3. Walk(n, h[k], k) BY <1>6, <2>1, <2>2
  <2>q. QED BY <2>3
<1> HIDE DEF G
<1>9. \A k \in 0 .. N : k \in G BY <1>1, <1>7, <1>8, UpTo
<1>10. Walk(n, h[N], N)
  <2>1. N \in G BY <1>1, <1>9
  <2>q. QED BY <2>1 DEF G
<1>11. ASSUME NEW cell \in Computing!Matrix(n)
       PROVE  h[N].res[cell] = Computing!Spiral(n, cell[1], cell[2])
  <2>1. cell[1] \in 0 .. n - 1 /\ cell[2] \in 0 .. n - 1 BY DEF Computing!Matrix
  <2>2. PICK q, b : Comes(n, cell[1], cell[2], q, Computing!Spiral(n, cell[1], cell[2]), b)
    BY <2>1, ComesExists
  <2>3. Computing!Spiral(n, cell[1], cell[2]) <= n * n BY <2>2, ComesIs
  <2>q. QED BY <1>10, <2>3 DEF Walk, N
<1>12. h[N].res \in [Computing!Matrix(n) -> Int] BY <1>10 DEF Walk, SnailType
<1>13. h[N].res = [cell \in Computing!Matrix(n) |-> Computing!Spiral(n, cell[1], cell[2])]
  BY <1>11, <1>12
<1>q. QED BY <1>6, <1>13

LEMMA ComputingCardinality ==
  ASSUME NEW S PROVE Computing!Cardinality(S) = Cardinality(S)
BY DEF Computing!Cardinality, Cardinality

\* Every call returns what it is for.
LEMMA CallRight ==
  ASSUME Computing!AlgorithmsAssumption, Computing!ComputedRight, [Computing!Next]_call
  PROVE  Computing!ComputedRight'
<1>w. Width \in Nat /\ Width > 2 BY DEF Computing!AlgorithmsAssumption
<1>1. CASE UNCHANGED call BY <1>1 DEF Computing!ComputedRight
<1>2. ASSUME NEW x \in 0 .. Computing!Word - 1, Computing!Did("ones", <<x>>, Computing!CountOnes(x))
      PROVE  Computing!ComputedRight'
  <2>1. call'.what = "ones" /\ call'.in = <<x>> /\ call'.out = Computing!CountOnes(x)
    BY <1>2 DEF Computing!Did
  <2>2. Computing!CountOnes(x)
          = Computing!Cardinality({k \in 0 .. Width - 1 : Computing!Bit(x, k) = 1})
    BY OnesRight, ComputingCardinality
  <2>3. <<x>>[1] = x OBVIOUS
  <2>q. QED BY <2>1, <2>2, <2>3 DEF Computing!ComputedRight
<1>3. ASSUME NEW x \in 0 .. Computing!Word - 1, NEW r \in {0, 1},
             Computing!Did("bit", <<x, r>>, Computing!ReplaceBit(x, r))
      PROVE  Computing!ComputedRight'
  <2>1. call'.what = "bit" /\ call'.in = <<x, r>> /\ call'.out = Computing!ReplaceBit(x, r)
    BY <1>3 DEF Computing!Did
  <2>2. \A k \in 0 .. Width - 1 :
          Computing!Bit(Computing!ReplaceBit(x, r), k) = IF k = 2 THEN r ELSE Computing!Bit(x, k)
    BY BitRight
  <2>3. <<x, r>>[1] = x /\ <<x, r>>[2] = r OBVIOUS
  <2>q. QED BY <2>1, <2>2, <2>3 DEF Computing!ComputedRight
<1>4. ASSUME NEW a \in Arrays, Computing!Did("swap", a, Computing!swap_array(a))
      PROVE  Computing!ComputedRight'
  <2>1. call'.what = "swap" /\ call'.in = a /\ call'.out = Computing!swap_array(a)
    BY <1>4 DEF Computing!Did
  <2>2. Computing!swap_array(a) = Computing!Reverse(a)
    BY <1>w, SwapRight DEF Computing!AlgorithmsAssumption
  <2>q. QED BY <2>1, <2>2 DEF Computing!ComputedRight
<1>5. ASSUME NEW n \in Sizes, Computing!Did("snail", <<n>>, Computing!snail_array(n))
      PROVE  Computing!ComputedRight'
  <2>1. call'.what = "snail" /\ call'.in = <<n>> /\ call'.out = Computing!snail_array(n)
    BY <1>5 DEF Computing!Did
  <2>2. n \in Nat /\ n > 0 BY DEF Computing!AlgorithmsAssumption
  <2>3. Computing!snail_array(n)
          = [cell \in Computing!Matrix(n) |-> Computing!Spiral(n, cell[1], cell[2])]
    BY <2>2, SnailRight
  <2>4. <<n>>[1] = n OBVIOUS
  <2>q. QED BY <2>1, <2>3, <2>4 DEF Computing!ComputedRight
<1>6. ASSUME NEW s \in Strings, Computing!Did("length", s, Computing!mystrlen(s))
      PROVE  Computing!ComputedRight'
  <2>1. call'.what = "length" /\ call'.in = s /\ call'.out = Computing!mystrlen(s)
    BY <1>6 DEF Computing!Did
  <2>2. s \in Seq(STRING) BY DEF Computing!AlgorithmsAssumption
  <2>3. /\ Computing!mystrlen(s) \in 0 .. Len(s)
        /\ \A k \in 1 .. Computing!mystrlen(s) : s[k] # Computing!NL
        /\ Computing!mystrlen(s) < Len(s) => s[Computing!mystrlen(s) + 1] = Computing!NL
    BY <2>2, LengthRight
  <2>q. QED BY <2>1, <2>3 DEF Computing!ComputedRight
<1>7. ASSUME NEW s \in Strings, NEW t \in Strings,
             Computing!Did("find", <<s, t>>, Computing!find_substring(s, t))
      PROVE  Computing!ComputedRight'
  <2>1. call'.what = "find" /\ call'.in = <<s, t>> /\ call'.out = Computing!find_substring(s, t)
    BY <1>7 DEF Computing!Did
  <2>2. <<s, t>>[1] = s /\ <<s, t>>[2] = t OBVIOUS
  <2>3. s \in Computing!Lines /\ t \in Computing!Lines =>
          \A p \in DOMAIN s : Computing!Occurs(s, t, p) =>
            /\ Computing!find_substring(s, t) \in 1 .. p
            /\ Computing!Occurs(s, t, Computing!find_substring(s, t))
    BY FindRight
  <2>q. QED BY <2>1, <2>2, <2>3 DEF Computing!ComputedRight
<1>8. ASSUME NEW h \in Headers, Computing!Did("checksum", h, Computing!calculate_checksum(h))
      PROVE  Computing!ComputedRight'
  <2>1. call'.what = "checksum" /\ call'.in = h /\ call'.out = Computing!calculate_checksum(h)
    BY <1>8 DEF Computing!Did
  <2>2. Computing!calculate_checksum(Append(h, Computing!calculate_checksum(h))) = 0
    BY ChecksumRight
  <2>q. QED BY <2>1, <2>2 DEF Computing!ComputedRight
<1>q. QED BY <1>1, <1>2, <1>3, <1>4, <1>5, <1>6, <1>7, <1>8 DEF Computing!Next

LEMMA CallInitial == ASSUME Computing!Init PROVE Computing!ComputedRight
BY DEF Computing!Init, Computing!NoCall, Computing!ComputedRight

--------------------------------------------------------------------------------
\* The programs side by side: a step of one is a stutter of the others.
LEMMA StepOfOne ==
  ASSUME [TablesNext]_tableVars
  PROVE  /\ [Echo!Next]_echoVars /\ [Pull!Next]_pullVars
         /\ [Commands!Next]_commandVars /\ [Shopping!Next]_shopVars
         /\ [Files!Next]_fileVars /\ [Computing!Next]_call
<1> USE DEF tableVars
<1>1. CASE UseEcho BY <1>1 DEF UseEcho
<1>2. CASE UsePull BY <1>2 DEF UsePull
<1>3. CASE UseFiles BY <1>3 DEF UseFiles
<1>4. CASE UseCommands BY <1>4 DEF UseCommands
<1>5. CASE UseShops BY <1>5 DEF UseShops
<1>6. CASE Compute BY <1>6 DEF Compute
<1>7. CASE UNCHANGED tableVars BY <1>7
<1>q. QED BY <1>1, <1>2, <1>3, <1>4, <1>5, <1>6, <1>7 DEF TablesNext

TablesInv ==
  EchoInv /\ PoolInv /\ FilesInv /\ PluginsInv /\ ShopInv /\ Computing!ComputedRight

LEMMA TablesInitial == TablesInit => TablesInv
BY EchoesAssumption, PoolAssumption, FilesAssumption, CommandsAssumption,
  ShoppingAssumption, EchoInitial, PoolStart, FilesStart, PluginsInitial, ShopInitial,
  CallInitial
  DEF TablesInit, TablesInv

LEMMA TablesStep == TablesInv /\ [TablesNext]_tableVars => TablesInv'
<1> SUFFICES ASSUME TablesInv, [TablesNext]_tableVars PROVE TablesInv' OBVIOUS
<1>1. EchoInv /\ PoolInv /\ FilesInv /\ PluginsInv /\ ShopInv /\ Computing!ComputedRight
  BY DEF TablesInv
<1>2. EchoInv' BY <1>1, EchoesAssumption, StepOfOne, EchoInvStep
<1>3. PoolInv' BY <1>1, PoolAssumption, StepOfOne, PoolStep
<1>4. FilesInv' BY <1>1, FilesAssumption, StepOfOne, FilesStep
<1>5. PluginsInv' BY <1>1, CommandsAssumption, StepOfOne, PluginsStep
<1>6. ShopInv' BY <1>1, ShoppingAssumption, StepOfOne, ShopStep
<1>7. Computing!ComputedRight' BY <1>1, ComputingAssumption, StepOfOne, CallRight
<1>q. QED BY <1>2, <1>3, <1>4, <1>5, <1>6, <1>7 DEF TablesInv

\* A client of the echo server that has its port for itself reads, from one life of the
\* server, answers to ever later lines with ever greater numbers, whatever is lost
\* (Final_Task1/echo_server.c:121-145, echo_client.c:46-66).
THEOREM AnswersInOrderCorrect == TablesSpec => []AnswersInOrder
<1>1. TablesInv => AnswersInOrder BY EchoInvSays DEF TablesInv, AnswersInOrder
<1>q. QED BY <1>1, TablesInitial, TablesStep, PTL DEF TablesSpec

\* The server's table of addresses, in which one removed moves the others, implements a
\* counter per address (Final_Task1/echo_server.c:96-121).
THEOREM ImplementsCountersCorrect == TablesSpec => ImplementsCounters
<1>1. TablesInit => Echo!Counters!Init BY CountersInitial DEF TablesInit
<1>2. TablesInv /\ [TablesNext]_tableVars => [Echo!Counters!Next]_(Echo!Counters!vars)
  BY EchoesAssumption, StepOfOne, CountersStep DEF TablesInv
<1>q. QED
  BY <1>1, <1>2, TablesInitial, TablesStep, PTL
  DEF TablesSpec, ImplementsCounters, Echo!ImplementsCounters, Echo!Counters!Spec

\* No race between main and the workers of the pool makes count exceed the number of
\* workers that are marked busy (Pull_Threads/server.c:55-58, 100-117).
THEOREM CountedAreMarkedCorrect == TablesSpec => []CountedAreMarked
<1>1. TablesInv => CountedAreMarked
  BY PoolAssumption, PoolTypesAndBound DEF TablesInv, PoolInv, CountedAreMarked
<1>q. QED BY <1>1, TablesInitial, TablesStep, PTL DEF TablesSpec

\* Clients of the pool that come one at a time are all answered, and at rest nothing is
\* announced, marked or open (Pull_Threads/server.c:40-57, 100-119).
THEOREM RestIsCleanCorrect == TablesSpec => []RestIsClean
<1>1. TablesInv => RestIsClean
  BY PoolAssumption, OneAtATimeSays DEF TablesInv, PoolInv, RestIsClean
<1>q. QED BY <1>1, TablesInitial, TablesStep, PTL DEF TablesSpec

\* Whatever order the directories are read in, the panels show them with neighbours in
\* order, the cursor on a row and the paths in their buffers; and where stat() fails on
\* nothing and no directory comes before ".", "." is the entry left out and ".." the
\* row labelled as the way up (Midnight_Commander/header.c:24-57, 80, 155-166,
\* main_window.c:24-25, 90-99).
THEOREM PanelsSoundCorrect == TablesSpec => []PanelsSound
<1>1. TablesInv => PanelsSound
  BY FilesAssumption, FilesSound DEF TablesInv, PanelsSound
<1>q. QED BY <1>1, TablesInitial, TablesStep, PTL DEF TablesSpec

\* The counted slots hold the plugins that loaded, in order, and the list has room for
\* the next one (Calculator_v3/main.c:17-29, header.c:8-40).
THEOREM SlotsAreGoodCorrect == TablesSpec => []SlotsAreGood
<1>1. TablesInv => SlotsAreGood BY PluginsGood DEF TablesInv, SlotsAreGood
<1>q. QED BY <1>1, TablesInitial, TablesStep, PTL DEF TablesSpec

\* Whatever it is called with, a computation returns what it is for: all the bits are
\* counted, the third replaced and no other, the array reversed though the sums wrap, the
\* snail filled inwards, the line measured, a substring that occurs found where it occurs
\* first, a header summed so that its own checksum makes it zero (Home_Work_1/src/main3.c:12-18,
\* main4.c:14-27; Home_Work_2/src/main2.c:24-30, main4.c:34-72; Home_Work_3/lib/lib.c:3-47;
\* Sockets/Task_4/client_2.c:10-30).
THEOREM ComputedRightCorrect == TablesSpec => []ComputedRight
<1>1. TablesInv => ComputedRight BY DEF TablesInv, ComputedRight
<1>q. QED BY <1>1, TablesInitial, TablesStep, PTL DEF TablesSpec

\* What stands in the shops and what the customers have been charged come to what there
\* was and what was delivered (Threads/main.c:33-47, 72-78).
THEOREM ConservedCorrect == TablesSpec => []Conserved
<1>1. TablesInv => Conserved BY ShoppingAssumption, ShopSays DEF TablesInv, Conserved
<1>q. QED BY <1>1, TablesInitial, TablesStep, PTL DEF TablesSpec
================================================================================
