------------------------------- MODULE DataLemmas -------------------------------
(***************************************************************************)
(* Lemmas about filtered sequences, for all sequences, and about sums      *)
(* over finite sets, for all of them.  Induction is by the least           *)
(* counterexample: the library's induction theorems take an operator as    *)
(* a parameter, the well-foundedness of < does not.                        *)
(***************************************************************************)
EXTENDS Filters, SequenceTheorems, FiniteSetTheorems, WellFoundedInduction, TLAPS

\* Every set of naturals with a member has a least one.
LEMMA Least ==
  ASSUME NEW I \in SUBSET Nat, I # {}
  PROVE  \E n \in I : \A m \in I : n <= m
<1> DEFINE R == {p \in Nat \X Nat : p[1] < p[2]}
<1>1. IsWellFoundedOn(OpToRel(<, Nat), Nat)
  BY NatLessThanWellFounded
<1>2. OpToRel(<, Nat) = R
  BY DEF OpToRel
<1>2a. IsWellFoundedOn(R, Nat)
  BY <1>1, <1>2
<1>3. PICK n \in I : \A m \in I : ~(<<m, n>> \in R)
  <2> HIDE DEF R
  <2> QED BY <1>2a, WFMin
<1>4. \A m \in I : m \in Nat /\ n \in Nat /\ ~(m < n)
  BY <1>3
<1> QED BY <1>4

\* A set that has 0 and, with each number below k, the next, has all up to k.
LEMMA UpTo ==
  ASSUME NEW k \in Nat, NEW G,
         0 \in G, \A n \in 1 .. k : n - 1 \in G => n \in G
  PROVE  \A n \in 0 .. k : n \in G
<1> SUFFICES ASSUME NEW m \in 0 .. k, m \notin G PROVE FALSE
  OBVIOUS
<1> DEFINE I == {n \in 0 .. k : n \notin G}
<1>1. I \in SUBSET Nat /\ I # {}
  OBVIOUS
<1>2. PICK n \in I : \A j \in I : n <= j
  BY <1>1, Least
<1>3. n \in 1 .. k /\ n - 1 \in 0 .. k /\ ~(n <= n - 1)
  BY <1>2
<1>4. n - 1 \in G
  BY <1>2, <1>3
<1> QED BY <1>2, <1>3, <1>4

Step(s, S, f, n) == f[n] = IF s[n] \in S THEN Append(f[n - 1], s[n]) ELSE f[n - 1]

\* f records what is kept of the first members of s, up to k.
Records(s, S, f, k) ==
  /\ f = [n \in 0 .. k |-> f[n]]
  /\ f[0] = <<>>
  /\ \A n \in 1 .. k : Step(s, S, f, n)

\* There is such a record for every sequence.
LEMMA RecordExists ==
  ASSUME NEW s, NEW S, NEW k \in Nat
  PROVE  \E f : Records(s, S, f, k)
<1> DEFINE G == {n \in 0 .. k : \E f : Records(s, S, f, n)}
<1>1. 0 \in G
  <2>1. Records(s, S, [n \in 0 .. 0 |-> <<>>], 0)
    BY DEF Records
  <2> QED BY <2>1
<1>2. ASSUME NEW n \in 1 .. k, n - 1 \in G
      PROVE  n \in G
  <2>1. PICK f : Records(s, S, f, n - 1)
    BY <1>2
  <2> DEFINE v == IF s[n] \in S THEN Append(f[n - 1], s[n]) ELSE f[n - 1]
             g == [j \in 0 .. n |-> IF j = n THEN v ELSE f[j]]
  <2>2. g[n] = v /\ \A j \in 0 .. n - 1 : g[j] = f[j]
    OBVIOUS
  <2>2a. g = [j \in 0 .. n |-> g[j]]
    OBVIOUS
  <2>3. \A j \in 1 .. n - 1 : Step(s, S, g, j)
    <3> HIDE DEF g
    <3> TAKE j \in 1 .. n - 1
    <3>1. g[j] = f[j] /\ g[j - 1] = f[j - 1]
      BY <2>2
    <3>2. Step(s, S, f, j)
      BY <2>1 DEF Records
    <3> QED BY <3>1, <3>2 DEF Step
  <2>4. Step(s, S, g, n)
    <3> HIDE DEF g
    <3> QED BY <2>2 DEF Step
  <2>5. g[0] = <<>>
    BY <2>1, <2>2 DEF Records
  <2> HIDE DEF g
  <2>6. Records(s, S, g, n)
    BY <2>2a, <2>3, <2>4, <2>5 DEF Records
  <2> QED BY <2>6
<1> HIDE DEF G
<1>3. k \in G
  BY <1>1, <1>2, UpTo
<1> QED BY <1>3 DEF G

\* KeptOf is one.
LEMMA KeptRecords ==
  ASSUME NEW s, NEW S, Len(s) \in Nat
  PROVE  Records(s, S, KeptOf(s, S), Len(s))
<1>1. PICK f : Records(s, S, f, Len(s))
  BY RecordExists
<1> DEFINE H(g) == [n \in 0 .. Len(s) |->
        IF n = 0 THEN <<>>
        ELSE IF s[n] \in S THEN Append(g[n - 1], s[n]) ELSE g[n - 1]]
<1>2. f = H(f)
  BY <1>1 DEF Records, Step
<1>3. KeptOf(s, S) = CHOOSE g : g = H(g)
  BY DEF KeptOf
<1>4. KeptOf(s, S) = H(KeptOf(s, S))
  BY <1>2, <1>3
<1> DEFINE K == KeptOf(s, S)
<1>5. K = H(K)
  BY <1>4
<1> HIDE DEF K
<1>6. \A n \in 0 .. Len(s) :
        K[n] = IF n = 0 THEN <<>>
               ELSE IF s[n] \in S THEN Append(K[n - 1], s[n]) ELSE K[n - 1]
  BY <1>5
<1>7. K = [n \in 0 .. Len(s) |-> K[n]]
  BY <1>5
<1>8. K[0] = <<>> /\ \A n \in 1 .. Len(s) : Step(s, S, K, n)
  BY <1>6 DEF Step
<1>9. Records(s, S, K, Len(s))
  BY <1>7, <1>8 DEF Records
<1> QED BY <1>9 DEF K

--------------------------------------------------------------------------------
\* What is kept of nothing, and of one member more.
LEMMA KeptStep ==
  ASSUME NEW s, NEW S, Len(s) \in Nat
  PROVE  /\ KeptOf(s, S)[0] = <<>>
         /\ \A n \in 1 .. Len(s) :
              /\ s[n] \in S => KeptOf(s, S)[n] = Append(KeptOf(s, S)[n - 1], s[n])
              /\ s[n] \notin S => KeptOf(s, S)[n] = KeptOf(s, S)[n - 1]
<1> DEFINE K == KeptOf(s, S)
<1>1. Records(s, S, K, Len(s))
  BY KeptRecords
<1> HIDE DEF K
<1>2. K[0] = <<>> /\ \A n \in 1 .. Len(s) : Step(s, S, K, n)
  BY <1>1 DEF Records
<1>3. /\ K[0] = <<>>
      /\ \A n \in 1 .. Len(s) :
           /\ s[n] \in S => K[n] = Append(K[n - 1], s[n])
           /\ s[n] \notin S => K[n] = K[n - 1]
  BY <1>2 DEF Step
<1> QED BY <1>3 DEF K

\* What is kept of a sequence is a sequence.
LEMMA KeptType ==
  ASSUME NEW T, NEW s \in Seq(T), NEW S
  PROVE  /\ \A n \in 0 .. Len(s) : KeptOf(s, S)[n] \in Seq(S \cap T)
         /\ Keep(s, S) \in Seq(S \cap T)
<1> DEFINE K == KeptOf(s, S)
           G == {n \in 0 .. Len(s) : K[n] \in Seq(S \cap T)}
<1>1. Len(s) \in Nat
  BY LenProperties
<1>2. /\ K[0] = <<>>
      /\ \A n \in 1 .. Len(s) : /\ s[n] \in S => K[n] = Append(K[n - 1], s[n])
                                /\ s[n] \notin S => K[n] = K[n - 1]
  BY <1>1, KeptStep
<1> HIDE DEF K
<1>3. 0 \in G
  <2>1. <<>> \in Seq(S \cap T)
    BY EmptySeq
  <2>2. 0 \in 0 .. Len(s)
    BY <1>1
  <2> QED BY <1>2, <2>1, <2>2
<1>4. ASSUME NEW n \in 1 .. Len(s), n - 1 \in G
      PROVE  n \in G
  <2>1. s[n] \in T
    BY ElementOfSeq
  <2>2. CASE s[n] \in S
    <3>1. K[n - 1] \in Seq(S \cap T) /\ s[n] \in S \cap T
      BY <1>4, <2>1, <2>2
    <3>2. Append(K[n - 1], s[n]) \in Seq(S \cap T)
      BY <3>1, AppendProperties
    <3>3. K[n] \in Seq(S \cap T)
      BY <1>2, <2>2, <3>2
    <3> QED BY <3>3
  <2>3. CASE s[n] \notin S
    BY <1>2, <1>4, <2>3
  <2> QED BY <2>2, <2>3
<1> HIDE DEF G
<1>5. \A n \in 0 .. Len(s) : n \in G
  BY <1>1, <1>3, <1>4, UpTo
<1> QED BY <1>1, <1>5 DEF G, K, Keep

\* The k members of s after the m-th and those of t after the p-th are the same,
\* as far as they are kept.
Alike(s, S, m, t, T, p, k) ==
  /\ Len(s) \in Nat /\ Len(t) \in Nat
  /\ m \in Nat /\ p \in Nat /\ k \in Nat
  /\ m + k <= Len(s) /\ p + k <= Len(t)
  /\ \A i \in 1 .. k : /\ s[m + i] \in S => t[p + i] \in T /\ s[m + i] = t[p + i]
                       /\ s[m + i] \notin S => t[p + i] \notin T

\* What is kept of two sequences stays the same over members that are alike.
LEMMA KeptAlike ==
  ASSUME NEW s, NEW t, NEW S, NEW T, NEW m, NEW p, NEW k,
         Alike(s, S, m, t, T, p, k),
         KeptOf(s, S)[m] = KeptOf(t, T)[p],
         NEW n, NEW q, n = m + k, q = p + k
  PROVE  KeptOf(s, S)[n] = KeptOf(t, T)[q]
<1> DEFINE K == KeptOf(s, S)
           L == KeptOf(t, T)
           G == {j \in 0 .. k : K[m + j] = L[p + j]}
<1>0. /\ Len(s) \in Nat /\ Len(t) \in Nat
      /\ m \in Nat /\ p \in Nat /\ k \in Nat
      /\ m + k <= Len(s) /\ p + k <= Len(t)
  BY DEF Alike
<1>1. /\ K[m] = L[p]
      /\ \A j \in 1 .. Len(s) : /\ s[j] \in S => K[j] = Append(K[j - 1], s[j])
                                /\ s[j] \notin S => K[j] = K[j - 1]
      /\ \A j \in 1 .. Len(t) : /\ t[j] \in T => L[j] = Append(L[j - 1], t[j])
                                /\ t[j] \notin T => L[j] = L[j - 1]
  BY <1>0, KeptStep
<1>1a. \A i \in 1 .. k : /\ s[m + i] \in S => t[p + i] \in T /\ s[m + i] = t[p + i]
                         /\ s[m + i] \notin S => t[p + i] \notin T
  BY DEF Alike
<1> HIDE DEF K, L
<1>2. 0 \in G
  BY <1>0, <1>1
<1>3. ASSUME NEW j \in 1 .. k, j - 1 \in G
      PROVE  j \in G
  <2>1. m + j \in 1 .. Len(s) /\ p + j \in 1 .. Len(t)
    BY <1>0
  <2>2. m + j - 1 = m + (j - 1) /\ p + j - 1 = p + (j - 1)
    BY <1>0
  <2>3. K[m + j - 1] = L[p + j - 1]
    BY <1>3, <2>2
  <2>4. PICK a \in 1 .. Len(s) : a = m + j
    BY <2>1
  <2>5. PICK b \in 1 .. Len(t) : b = p + j
    BY <2>1
  <2>6. K[a - 1] = L[b - 1]
    <3>1. a - 1 = m + j - 1 /\ b - 1 = p + j - 1
      BY <1>0, <2>4, <2>5
    <3> QED BY <2>3, <3>1
  <2>7. CASE s[a] \in S
    <3>1. t[b] \in T /\ s[a] = t[b]
      BY <1>1a, <2>4, <2>5, <2>7
    <3>2. K[a] = Append(K[a - 1], s[a])
      BY <1>1, <2>7
    <3>3. L[b] = Append(L[b - 1], t[b])
      BY <1>1, <3>1
    <3>4. K[a] = L[b]
      BY <2>6, <3>1, <3>2, <3>3
    <3> QED BY <2>4, <2>5, <3>4
  <2>8. CASE s[a] \notin S
    <3>1. t[b] \notin T
      BY <1>1a, <2>4, <2>5, <2>8
    <3>2. K[a] = K[a - 1]
      BY <1>1, <2>8
    <3>3. L[b] = L[b - 1]
      BY <1>1, <3>1
    <3>4. K[a] = L[b]
      BY <2>6, <3>2, <3>3
    <3> QED BY <2>4, <2>5, <3>4
  <2> QED BY <2>7, <2>8
<1> HIDE DEF G
<1>4. \A j \in 1 .. k : j - 1 \in G => j \in G
  BY <1>3
<1>5. \A j \in 0 .. k : j \in G
  BY <1>0, <1>2, <1>4, UpTo
<1>6. k \in G
  BY <1>0, <1>5
<1>7. K[n] = L[q]
  BY <1>6 DEF G
<1> QED BY <1>7 DEF K, L

\* A stretch of which nothing is kept changes nothing.
LEMMA KeptSkip ==
  ASSUME NEW s, NEW S, Len(s) \in Nat,
         NEW m \in 0 .. Len(s), NEW n \in m .. Len(s),
         \A i \in m + 1 .. n : s[i] \notin S
  PROVE  KeptOf(s, S)[n] = KeptOf(s, S)[m]
<1> DEFINE K == KeptOf(s, S)
           G == {j \in 0 .. n - m : K[m + j] = K[m]}
<1>1. \A i \in 1 .. Len(s) : s[i] \notin S => K[i] = K[i - 1]
  BY KeptStep
<1> HIDE DEF K
<1>2. 0 \in G
  OBVIOUS
<1>3. ASSUME NEW j \in 1 .. n - m, j - 1 \in G
      PROVE  j \in G
  <2>1. m + j \in 1 .. Len(s) /\ m + j \in m + 1 .. n /\ m + j - 1 = m + (j - 1)
    OBVIOUS
  <2> QED BY <1>1, <1>3, <2>1
<1> HIDE DEF G
<1>4. n - m \in Nat /\ n - m \in 0 .. n - m /\ m + (n - m) = n
  OBVIOUS
<1>5. n - m \in G
  BY <1>2, <1>3, <1>4, UpTo
<1> QED BY <1>4, <1>5 DEF G, K

\* Sequences that agree everywhere in what is kept of them.
LEMMA KeepSame ==
  ASSUME NEW s, NEW t, NEW S, NEW T, Len(s) \in Nat, Len(t) = Len(s),
         \A i \in 1 .. Len(s) : /\ s[i] \in S => t[i] \in T /\ s[i] = t[i]
                                /\ s[i] \notin S => t[i] \notin T
  PROVE  Keep(s, S) = Keep(t, T)
<1>1. KeptOf(s, S)[0] = KeptOf(t, T)[0]
  BY KeptStep
<1>2. \A i \in 1 .. Len(s) : 0 + i = i
  OBVIOUS
<1>4. KeptOf(s, S)[Len(s)] = KeptOf(t, T)[Len(s)]
  <2>1. \A i \in 1 .. Len(s) : s[0 + i] = s[i] /\ t[0 + i] = t[i]
    BY <1>2
  <2>1a. Alike(s, S, 0, t, T, 0, Len(s))
    BY <2>1 DEF Alike
  <2>2. Len(s) = 0 + Len(s)
    OBVIOUS
  <2> QED BY <1>1, <2>1a, <2>2, KeptAlike
<1> QED BY <1>4 DEF Keep

\* Nothing is kept of a sequence without members of the set.
LEMMA KeepNone ==
  ASSUME NEW s, NEW S, Len(s) \in Nat, \A i \in 1 .. Len(s) : s[i] \notin S
  PROVE  Keep(s, S) = <<>>
<1>1. KeptOf(s, S)[0] = <<>>
  BY KeptStep
<1>2. KeptOf(s, S)[Len(s)] = KeptOf(s, S)[0]
  <2>1. 0 \in 0 .. Len(s) /\ Len(s) \in 0 .. Len(s)
    OBVIOUS
  <2>2. \A i \in 0 + 1 .. Len(s) : s[i] \notin S
    OBVIOUS
  <2> QED BY <2>1, <2>2, KeptSkip
<1> QED BY <1>1, <1>2 DEF Keep

\* What is kept of a sequence with a new last member.
LEMMA KeepAppend ==
  ASSUME NEW T, NEW s \in Seq(T), NEW x \in T, NEW S
  PROVE  Keep(Append(s, x), S) = IF x \in S THEN Append(Keep(s, S), x) ELSE Keep(s, S)
<1> DEFINE t == Append(s, x)
           n == Len(s)
<1>1. n \in Nat /\ Len(t) = n + 1 /\ t[n + 1] = x /\ \A i \in 1 .. n : t[i] = s[i]
  BY LenProperties, AppendProperties
<1> HIDE DEF t, n
<1>2. KeptOf(t, S)[0] = KeptOf(s, S)[0]
  BY <1>1, KeptStep DEF n
<1>3. KeptOf(t, S)[n] = KeptOf(s, S)[n]
  <2>1. \A i \in 1 .. n : 0 + i = i
    BY <1>1
  <2>2. Alike(t, S, 0, s, S, 0, n)
    BY <1>1, <2>1 DEF Alike, n
  <2>3. n = 0 + n
    BY <1>1
  <2> QED BY <1>2, <2>2, <2>3, KeptAlike
<1>4. KeptOf(t, S)[n] = Keep(s, S)
  BY <1>3 DEF Keep, n
<1>5. /\ x \in S => KeptOf(t, S)[n + 1] = Append(KeptOf(t, S)[n], x)
      /\ x \notin S => KeptOf(t, S)[n + 1] = KeptOf(t, S)[n]
  <2>1. n + 1 \in 1 .. Len(t) /\ n + 1 - 1 = n /\ Len(t) \in Nat
    BY <1>1
  <2>2. PICK m \in 1 .. Len(t) : m = n + 1
    BY <2>1
  <2>3. /\ t[m] \in S => KeptOf(t, S)[m] = Append(KeptOf(t, S)[m - 1], t[m])
        /\ t[m] \notin S => KeptOf(t, S)[m] = KeptOf(t, S)[m - 1]
    BY <2>1, KeptStep
  <2>4. m - 1 = n /\ t[m] = x
    BY <1>1, <2>2
  <2>5. /\ x \in S => KeptOf(t, S)[m] = Append(KeptOf(t, S)[n], x)
        /\ x \notin S => KeptOf(t, S)[m] = KeptOf(t, S)[n]
    BY <2>3, <2>4
  <2> QED BY <2>2, <2>5
<1>6. Keep(t, S) = KeptOf(t, S)[n + 1]
  BY <1>1 DEF Keep
<1> QED BY <1>4, <1>5, <1>6 DEF t

\* Filtering what was filtered keeps what is in both sets.
LEMMA KeepTwice ==
  ASSUME NEW X, NEW s \in Seq(X), NEW S, NEW T
  PROVE  Keep(Keep(s, S), T) = Keep(s, S \cap T)
<1> DEFINE K == KeptOf(s, S)
           B == KeptOf(s, S \cap T)
           G == {n \in 0 .. Len(s) : Keep(K[n], T) = B[n]}
<1>1. Len(s) \in Nat
  BY LenProperties
<1>2. /\ K[0] = <<>> /\ B[0] = <<>>
      /\ \A n \in 1 .. Len(s) :
           /\ s[n] \in S => K[n] = Append(K[n - 1], s[n])
           /\ s[n] \notin S => K[n] = K[n - 1]
           /\ s[n] \in S \cap T => B[n] = Append(B[n - 1], s[n])
           /\ s[n] \notin S \cap T => B[n] = B[n - 1]
  BY <1>1, KeptStep
<1>3. \A n \in 0 .. Len(s) : K[n] \in Seq(S \cap X)
  BY KeptType
<1> HIDE DEF K, B
<1>4. 0 \in G
  <2>1. Keep(<<>>, T) = <<>>
    BY KeepNone, EmptySeq
  <2> QED BY <1>1, <1>2, <2>1
<1>5. ASSUME NEW n \in 1 .. Len(s), n - 1 \in G
      PROVE  n \in G
  <2>1. s[n] \in X /\ K[n - 1] \in Seq(S \cap X)
    BY <1>1, <1>3, ElementOfSeq
  <2>2. Keep(K[n - 1], T) = B[n - 1]
    BY <1>5
  <2>3. CASE s[n] \in S /\ s[n] \in T
    <3>1. K[n - 1] \in Seq(S \cap X) /\ s[n] \in S \cap X
      BY <2>1, <2>3
    <3>2. Keep(Append(K[n - 1], s[n]), T) = Append(Keep(K[n - 1], T), s[n])
      <4> DEFINE k == K[n - 1]
                 x == s[n]
                 Y == S \cap X
      <4>1. k \in Seq(Y) /\ x \in Y
        BY <3>1
      <4> HIDE DEF k, x, Y
      <4>2. Keep(Append(k, x), T) = IF x \in T THEN Append(Keep(k, T), x) ELSE Keep(k, T)
        BY <4>1, KeepAppend
      <4> QED BY <2>3, <4>2 DEF k, x
    <3>3. K[n] = Append(K[n - 1], s[n])
      BY <1>2, <2>3
    <3>4. B[n] = Append(B[n - 1], s[n])
      BY <1>2, <2>3
    <3>5. Keep(K[n], T) = B[n]
      BY <2>2, <3>2, <3>3, <3>4
    <3> QED BY <3>5
  <2>4. CASE s[n] \in S /\ s[n] \notin T
    <3>1. K[n - 1] \in Seq(S \cap X) /\ s[n] \in S \cap X
      BY <2>1, <2>4
    <3>2. Keep(Append(K[n - 1], s[n]), T) = Keep(K[n - 1], T)
      <4> DEFINE k == K[n - 1]
                 x == s[n]
                 Y == S \cap X
      <4>1. k \in Seq(Y) /\ x \in Y
        BY <3>1
      <4> HIDE DEF k, x, Y
      <4>2. Keep(Append(k, x), T) = IF x \in T THEN Append(Keep(k, T), x) ELSE Keep(k, T)
        BY <4>1, KeepAppend
      <4> QED BY <2>4, <4>2 DEF k, x
    <3>3. K[n] = Append(K[n - 1], s[n])
      BY <1>2, <2>4
    <3>4. B[n] = B[n - 1]
      BY <1>2, <2>4
    <3>5. Keep(K[n], T) = B[n]
      BY <2>2, <3>2, <3>3, <3>4
    <3> QED BY <3>5
  <2>5. CASE s[n] \notin S
    BY <1>2, <2>2, <2>5
  <2> QED BY <2>3, <2>4, <2>5
<1> HIDE DEF G
<1>6. \A n \in 1 .. Len(s) : n - 1 \in G => n \in G
  BY <1>5
<1>7. \A n \in 0 .. Len(s) : n \in G
  BY <1>1, <1>4, <1>6, UpTo
<1>8. Len(s) \in G
  BY <1>1, <1>7
<1> QED BY <1>8 DEF G, K, B, Keep

\* s without its i-th member, the later ones one place earlier.
LEMMA KeepWithout ==
  ASSUME NEW s, NEW t, NEW S, Len(s) \in Nat, NEW i \in 1 .. Len(s),
         s[i] \notin S,
         Len(t) = Len(s) - 1,
         \A j \in 1 .. Len(s) - 1 : t[j] = IF j < i THEN s[j] ELSE s[j + 1]
  PROVE  Keep(t, S) = Keep(s, S)
<1> DEFINE K == KeptOf(s, S)
           L == KeptOf(t, S)
           n == Len(s)
<1>1. K[0] = L[0]
  BY KeptStep
<1>2. K[i] = K[i - 1]
  BY KeptStep
<1>3. K[i - 1] = L[i - 1]
  <2>1. \A j \in 1 .. i - 1 : s[0 + j] = t[0 + j]
    OBVIOUS
  <2>2. Alike(s, S, 0, t, S, 0, i - 1)
    BY <2>1 DEF Alike
  <2>3. i - 1 = 0 + (i - 1)
    OBVIOUS
  <2> HIDE DEF K, L
  <2> QED BY <1>1, <2>2, <2>3, KeptAlike DEF K, L
<1>4. K[n] = L[n - 1]
  <2>1. \A j \in 1 .. n - i : s[i + j] = t[(i - 1) + j]
    <3> TAKE j \in 1 .. n - i
    <3>1. (i - 1) + j \in 1 .. Len(s) - 1 /\ ~((i - 1) + j < i) /\ (i - 1) + j + 1 = i + j
      OBVIOUS
    <3> QED BY <3>1
  <2>2. Alike(s, S, i, t, S, i - 1, n - i)
    BY <2>1 DEF Alike
  <2>3. n = i + (n - i) /\ n - 1 = (i - 1) + (n - i)
    OBVIOUS
  <2>4. K[i] = L[i - 1]
    BY <1>2, <1>3
  <2> HIDE DEF K, L, n
  <2> QED BY <2>2, <2>3, <2>4, KeptAlike DEF K, L
<1> QED BY <1>4 DEF Keep

--------------------------------------------------------------------------------
\* A function on 1 .. n is a sequence of that length.
LEMMA FunctionIsSeq ==
  ASSUME NEW n \in Nat, NEW S, NEW f \in [1 .. n -> S]
  PROVE  f \in Seq(S) /\ Len(f) = n
<1>1. f \in Seq(S)
  BY SeqDef
<1>2. DOMAIN f = 1 .. n /\ DOMAIN f = 1 .. Len(f) /\ Len(f) \in Nat
  BY <1>1, LenProperties
<1>3. Len(f) = n
  BY <1>2
<1> QED BY <1>1, <1>3

\* A last member may be put before or after the sequences are joined.
Movable(a, b, x) == Append(a \o b, x) = a \o Append(b, x)

\* A last member put behind the second is put behind both.
LEMMA AppendConcat ==
  ASSUME NEW Y, NEW a \in Seq(Y), NEW b \in Seq(Y), NEW x \in Y
  PROVE  Movable(a, b, x)
<1> DEFINE c == a \o b
           d == Append(b, x)
<1>1. /\ c \in Seq(Y) /\ Len(c) = Len(a) + Len(b) /\ Len(a) \in Nat /\ Len(b) \in Nat
      /\ \A i \in 1 .. Len(a) + Len(b) : c[i] = IF i <= Len(a) THEN a[i] ELSE b[i - Len(a)]
  BY ConcatProperties, LenProperties
<1>2. /\ d \in Seq(Y) /\ Len(d) = Len(b) + 1
      /\ \A i \in 1 .. Len(b) + 1 : d[i] = IF i = Len(b) + 1 THEN x ELSE b[i]
  BY <1>1, AppendProperties
<1> HIDE DEF c, d
<1>3. /\ Append(c, x) \in Seq(Y) /\ Len(Append(c, x)) = Len(c) + 1
      /\ \A i \in 1 .. Len(c) + 1 : Append(c, x)[i] = IF i = Len(c) + 1 THEN x ELSE c[i]
  BY <1>1, AppendProperties
<1>4. /\ a \o d \in Seq(Y) /\ Len(a \o d) = Len(a) + Len(d)
      /\ \A i \in 1 .. Len(a) + Len(d) : (a \o d)[i] = IF i <= Len(a) THEN a[i] ELSE d[i - Len(a)]
  BY <1>2, ConcatProperties
<1>5. \A i \in 1 .. Len(Append(c, x)) : Append(c, x)[i] = (a \o d)[i]
  <2> TAKE i \in 1 .. Len(Append(c, x))
  <2>1. i \in 1 .. Len(a) + Len(b) + 1
    BY <1>1, <1>3
  <2>2. CASE i <= Len(a)
    <3>1. i # Len(c) + 1 /\ i \in 1 .. Len(c) + 1 /\ i \in 1 .. Len(a) + Len(b)
      BY <1>1, <2>1, <2>2
    <3>2. i \in 1 .. Len(a) + Len(d)
      BY <1>1, <1>2, <2>1
    <3> QED BY <1>1, <1>3, <1>4, <2>2, <3>1, <3>2
  <2>3. CASE i > Len(a)
    <3>1. i - Len(a) \in 1 .. Len(b) + 1 /\ i \in 1 .. Len(a) + Len(d) /\ ~(i <= Len(a))
      BY <1>1, <1>2, <2>1, <2>3
    <3>2. (a \o d)[i] = IF i - Len(a) = Len(b) + 1 THEN x ELSE b[i - Len(a)]
      BY <1>2, <1>4, <3>1
    <3>3. i - Len(a) = Len(b) + 1 <=> i = Len(c) + 1
      BY <1>1, <2>1
    <3>4. CASE i = Len(c) + 1
      <4>1. Append(c, x)[i] = x
        BY <1>3, <2>1, <1>1, <3>4
      <4>2. (a \o d)[i] = x
        BY <3>2, <3>3, <3>4
      <4> QED BY <4>1, <4>2
    <3>5. CASE i # Len(c) + 1
      <4>1. i \in 1 .. Len(c) /\ i \in 1 .. Len(c) + 1 /\ i \in 1 .. Len(a) + Len(b)
        BY <1>1, <2>1, <3>5
      <4>2. Append(c, x)[i] = c[i]
        BY <1>3, <3>5, <4>1
      <4>3. c[i] = b[i - Len(a)]
        BY <1>1, <3>1, <4>1
      <4>4. (a \o d)[i] = b[i - Len(a)]
        BY <3>2, <3>3, <3>5
      <4> QED BY <4>2, <4>3, <4>4
    <3> QED BY <3>4, <3>5
  <2>4. i <= Len(a) \/ i > Len(a)
    BY <1>1, <2>1
  <2> QED BY <2>2, <2>3, <2>4
<1>6. Len(Append(c, x)) = Len(a \o d)
  BY <1>1, <1>2, <1>3, <1>4
<1>7. Append(c, x) = a \o d
  BY <1>3, <1>4, <1>5, <1>6, SeqEqual
<1> QED BY <1>7 DEF c, d, Movable

\* What is kept of a sequence and of one behind it.
LEMMA KeepConcat ==
  ASSUME NEW X, NEW s \in Seq(X), NEW t \in Seq(X), NEW S
  PROVE  Keep(s \o t, S) = Keep(s, S) \o Keep(t, S)
<1> DEFINE u == s \o t
           m == Len(s)
           k == Len(t)
           K == KeptOf(u, S)
           L == KeptOf(t, S)
           a == Keep(s, S)
           Y == S \cap X
           G == {n \in 0 .. k : K[m + n] = a \o L[n]}
<1>1. /\ m \in Nat /\ k \in Nat /\ u \in Seq(X) /\ Len(u) = m + k
      /\ \A i \in 1 .. m : u[i] = s[i]
      /\ \A i \in 1 .. k : u[m + i] = t[i] /\ t[i] \in X
  <2>1. m \in Nat /\ k \in Nat /\ \A i \in 1 .. k : t[i] \in X
    BY LenProperties, ElementOfSeq
  <2>2. /\ u \in Seq(X) /\ Len(u) = m + k
        /\ \A i \in 1 .. m + k : u[i] = IF i <= m THEN s[i] ELSE t[i - m]
    BY ConcatProperties
  <2> HIDE DEF u, m, k
  <2>3. \A i \in 1 .. m : u[i] = s[i]
    BY <2>1, <2>2
  <2>4. \A i \in 1 .. k : u[m + i] = t[i]
    <3> TAKE i \in 1 .. k
    <3>1. m + i \in 1 .. m + k /\ ~(m + i <= m) /\ m + i - m = i
      BY <2>1
    <3>2. PICK g \in 1 .. m + k : g = m + i /\ ~(g <= m) /\ g - m = i
      BY <2>1, <3>1
    <3>3. u[g] = t[g - m]
      BY <2>2, <3>2
    <3> QED BY <3>2, <3>3
  <2> QED BY <2>1, <2>2, <2>3, <2>4
<1>2. a \in Seq(Y) /\ \A n \in 0 .. k : L[n] \in Seq(Y)
  BY KeptType
<1>3. /\ L[0] = <<>>
      /\ \A n \in 1 .. k : /\ t[n] \in S => L[n] = Append(L[n - 1], t[n])
                           /\ t[n] \notin S => L[n] = L[n - 1]
  BY <1>1, KeptStep
<1>4. \A n \in 1 .. m + k : /\ u[n] \in S => K[n] = Append(K[n - 1], u[n])
                            /\ u[n] \notin S => K[n] = K[n - 1]
  <2>1. Len(u) \in Nat /\ Len(u) = m + k
    BY <1>1
  <2> HIDE DEF u
  <2>2. \A n \in 1 .. Len(u) : /\ u[n] \in S => K[n] = Append(K[n - 1], u[n])
                               /\ u[n] \notin S => K[n] = K[n - 1]
    BY <2>1, KeptStep
  <2> QED BY <2>1, <2>2
<1>5. K[m] = a
  <2>1. Alike(u, S, 0, s, S, 0, m)
    <3>1. \A i \in 1 .. m : u[0 + i] = s[0 + i]
      BY <1>1
    <3> QED BY <1>1, <3>1 DEF Alike
  <2>2. KeptOf(u, S)[0] = KeptOf(s, S)[0]
    <3>1. Len(u) \in Nat
      BY <1>1
    <3> QED BY <1>1, <3>1, KeptStep
  <2>3. m = 0 + m
    BY <1>1
  <2>4. KeptOf(u, S)[m] = KeptOf(s, S)[m]
    BY <2>1, <2>2, <2>3, KeptAlike
  <2> QED BY <2>4 DEF Keep
<1>6. Keep(u, S) = K[m + k] /\ Keep(t, S) = L[k]
  BY <1>1 DEF Keep
<1> HIDE DEF u, m, k, K, L, a, Y
<1>7. 0 \in G
  <2>1. K[m + 0] = a \o <<>>
    BY <1>1, <1>2, <1>5, ConcatEmptySeq
  <2>2. K[m + 0] = a \o L[0]
    BY <1>3, <2>1
  <2> QED BY <1>1, <2>2
<1>8. ASSUME NEW n \in 1 .. k, n - 1 \in G PROVE n \in G
  <2>1. m + n \in 1 .. m + k /\ (m + n) - 1 = m + (n - 1) /\ n - 1 \in 0 .. k
    BY <1>1
  <2>2. K[m + (n - 1)] = a \o L[n - 1] /\ L[n - 1] \in Seq(Y)
    BY <1>2, <1>8, <2>1
  <2>3. u[m + n] = t[n] /\ t[n] \in X
    BY <1>1
  <2>4. CASE t[n] \in S
    <3>1. K[m + n] = Append(a \o L[n - 1], t[n])
      BY <1>4, <2>1, <2>2, <2>3, <2>4
    <3>2. L[n] = Append(L[n - 1], t[n])
      BY <1>3, <2>4
    <3>3. PICK b \in Seq(Y) : b = L[n - 1]
      BY <2>2
    <3>4. PICK x \in Y : x = t[n]
      BY <2>3, <2>4 DEF Y
    <3>5. Append(a \o b, x) = a \o Append(b, x)
      <4>1. a \in Seq(Y) /\ b \in Seq(Y) /\ x \in Y
        BY <1>2
      <4>2. Movable(a, b, x)
        BY <4>1, AppendConcat
      <4> QED BY <4>2 DEF Movable
    <3>6. K[m + n] = a \o L[n]
      BY <3>1, <3>2, <3>3, <3>4, <3>5
    <3> QED BY <2>1, <3>6
  <2>5. CASE t[n] \notin S
    <3>1. K[m + n] = a \o L[n]
      BY <1>3, <1>4, <2>1, <2>2, <2>3, <2>5
    <3> QED BY <2>1, <3>1
  <2> QED BY <2>4, <2>5
<1> HIDE DEF G
<1>9. \A n \in 1 .. k : n - 1 \in G => n \in G
  BY <1>8
<1>10. \A n \in 0 .. k : n \in G
  BY <1>1, <1>7, <1>9, UpTo
<1>11. k \in G
  BY <1>1, <1>10
<1> QED BY <1>6, <1>11 DEF G, u, a

\* Everything is kept of a sequence of members of the set.
LEMMA KeepAll ==
  ASSUME NEW S, NEW s \in Seq(S)
  PROVE  Keep(s, S) = s
<1> DEFINE K == KeptOf(s, S)
           G == {n \in 0 .. Len(s) : Len(K[n]) = n /\ \A j \in 1 .. n : K[n][j] = s[j]}
<1>1. Len(s) \in Nat /\ \A i \in 1 .. Len(s) : s[i] \in S
  BY LenProperties, ElementOfSeq
<1>2. K[0] = <<>> /\ \A n \in 1 .. Len(s) : K[n] = Append(K[n - 1], s[n])
  BY <1>1, KeptStep
<1>3. \A n \in 0 .. Len(s) : K[n] \in Seq(S)
  BY KeptType
<1> HIDE DEF K
<1>4. 0 \in G
  BY <1>1, <1>2
<1>5. ASSUME NEW n \in 1 .. Len(s), n - 1 \in G PROVE n \in G
  <2>1. PICK b \in Seq(S) : b = K[n - 1]
    BY <1>1, <1>3
  <2>2. Len(b) = n - 1 /\ \A j \in 1 .. n - 1 : b[j] = s[j]
    BY <1>5, <2>1
  <2>3. PICK x \in S : x = s[n]
    BY <1>1
  <2>4. K[n] = Append(b, x)
    BY <1>2, <2>1, <2>3
  <2>5. Len(K[n]) = n /\ \A j \in 1 .. n : K[n][j] = IF j = n THEN x ELSE b[j]
    BY <2>2, <2>4, AppendProperties
  <2> QED BY <1>1, <2>2, <2>3, <2>5
<1> HIDE DEF G
<1>6. \A n \in 1 .. Len(s) : n - 1 \in G => n \in G
  BY <1>5
<1>7. \A n \in 0 .. Len(s) : n \in G
  BY <1>1, <1>4, <1>6, UpTo
<1>8. Len(s) \in G
  BY <1>1, <1>7
<1>9. Len(K[Len(s)]) = Len(s) /\ \A j \in 1 .. Len(s) : K[Len(s)][j] = s[j]
  BY <1>8 DEF G
<1>10. K[Len(s)] = s
  <2>1. PICK b \in Seq(S) : b = K[Len(s)]
    BY <1>1, <1>3
  <2> QED BY <1>9, <2>1, SeqEqual
<1> QED BY <1>10 DEF K, Keep

\* A sequence is its first member and the rest.
LEMMA HeadTailIs ==
  ASSUME NEW X, NEW s \in Seq(X), s # <<>>
  PROVE  s = <<Head(s)>> \o Tail(s)
<1>0. Head(s) \in X /\ Tail(s) \in Seq(X)
  BY HeadTailProperties
<1>1. /\ Len(Tail(s)) = Len(s) - 1 /\ \A i \in 1 .. Len(Tail(s)) : Tail(s)[i] = s[i + 1]
      /\ Len(s) \in Nat \ {0} /\ Head(s) = s[1]
  BY HeadTailProperties, EmptySeq
<1>2. PICK t \in Seq(X) : t = Tail(s)
  BY <1>0
<1>3. PICK h \in Seq(X) : h = <<Head(s)>>
  <2>1. PICK x \in X : x = Head(s)
    BY <1>0
  <2>2. <<x>> \in Seq(X)
    OBVIOUS
  <2> QED BY <2>1, <2>2
<1>4. Len(h) = 1 /\ h[1] = s[1]
  BY <1>1, <1>3
<1>5. /\ h \o t \in Seq(X) /\ Len(h \o t) = Len(h) + Len(t)
      /\ \A i \in 1 .. Len(h) + Len(t) : (h \o t)[i] = IF i <= Len(h) THEN h[i] ELSE t[i - Len(h)]
  BY ConcatProperties
<1>6. Len(h \o t) = Len(s)
  BY <1>1, <1>2, <1>4, <1>5
<1>7. \A i \in 1 .. Len(s) : (h \o t)[i] = s[i]
  <2> TAKE i \in 1 .. Len(s)
  <2>1. CASE i = 1
    BY <1>1, <1>2, <1>4, <1>5, <2>1
  <2>2. CASE i # 1
    <3>1. i - 1 \in 1 .. Len(t) /\ ~(i <= 1) /\ i - 1 + 1 = i /\ i \in 1 .. Len(h) + Len(t)
      BY <1>1, <1>2, <1>4, <2>2
    <3> QED BY <1>1, <1>2, <1>4, <1>5, <3>1
  <2> QED BY <2>1, <2>2
<1>8. h \o t = s
  BY <1>5, <1>6, <1>7, SeqEqual
<1> QED BY <1>2, <1>3, <1>8

\* The first member is kept or not; the rest is kept as it is without it.
LEMMA KeepTail ==
  ASSUME NEW X, NEW s \in Seq(X), s # <<>>, NEW S
  PROVE  Keep(s, S) = (IF Head(s) \in S THEN <<Head(s)>> ELSE <<>>) \o Keep(Tail(s), S)
<1>1. Head(s) \in X /\ Tail(s) \in Seq(X)
  BY HeadTailProperties
<1>2. s = <<Head(s)>> \o Tail(s)
  BY HeadTailIs
<1>3. <<Head(s)>> \in Seq(X) /\ Keep(<<Head(s)>>, S) = IF Head(s) \in S THEN <<Head(s)>> ELSE <<>>
  <2>1. PICK x \in X : x = Head(s)
    BY <1>1
  <2>2. <<>> \in Seq(X) /\ Len(<<>>) = 0 /\ <<x>> = Append(<<>>, x)
    OBVIOUS
  <2>3. Keep(<<>>, S) = <<>>
    BY <2>2, KeepNone
  <2>4. Keep(<<x>>, S) = IF x \in S THEN Append(<<>>, x) ELSE <<>>
    BY <2>2, <2>3, KeepAppend
  <2> QED BY <2>1, <2>2, <2>4
<1>4. Keep(<<Head(s)>> \o Tail(s), S) = Keep(<<Head(s)>>, S) \o Keep(Tail(s), S)
  <2>1. PICK h \in Seq(X) : h = <<Head(s)>>
    BY <1>3
  <2>2. PICK t \in Seq(X) : t = Tail(s)
    BY <1>1
  <2>3. Keep(h \o t, S) = Keep(h, S) \o Keep(t, S)
    BY KeepConcat
  <2> QED BY <2>1, <2>2, <2>3
<1> QED BY <1>2, <1>3, <1>4

\* One member is kept.
LEMMA KeepOnly ==
  ASSUME NEW s, NEW S, Len(s) \in Nat, NEW i \in 1 .. Len(s), s[i] \in S,
         \A j \in 1 .. Len(s) : j # i => s[j] \notin S
  PROVE  Keep(s, S) = <<s[i]>>
<1> DEFINE K == KeptOf(s, S)
<1>1. K[0] = <<>> /\ K[i] = Append(K[i - 1], s[i])
  BY KeptStep
<1>2. K[i - 1] = K[0]
  <2>1. 0 \in 0 .. Len(s) /\ i - 1 \in 0 .. Len(s) /\ \A j \in 0 + 1 .. i - 1 : s[j] \notin S
    OBVIOUS
  <2> QED BY <2>1, KeptSkip
<1>3. K[Len(s)] = K[i]
  <2>1. i \in 0 .. Len(s) /\ Len(s) \in i .. Len(s) /\ \A j \in i + 1 .. Len(s) : s[j] \notin S
    OBVIOUS
  <2> QED BY <2>1, KeptSkip
<1> HIDE DEF K
<1>4. K[Len(s)] = Append(<<>>, s[i])
  BY <1>1, <1>2, <1>3
<1> QED BY <1>4 DEF K, Keep

\* What is kept of a sequence that has no member twice has none twice either,
\* and its members are those that are in the set.
LEMMA KeepMembers ==
  ASSUME NEW X, NEW s \in Seq(X), NEW S,
         \A i, j \in 1 .. Len(s) : s[i] = s[j] => i = j
  PROVE  LET k == Keep(s, S) IN
         /\ Len(k) <= Len(s)
         /\ \A i, j \in 1 .. Len(k) : k[i] = k[j] => i = j
         /\ \A i \in 1 .. Len(k) : k[i] \in S /\ \E j \in 1 .. Len(s) : k[i] = s[j]
         /\ \A j \in 1 .. Len(s) : s[j] \in S => \E i \in 1 .. Len(k) : k[i] = s[j]
<1> DEFINE K == KeptOf(s, S)
           Y == S \cap X
           Good(n, k) ==
             /\ Len(k) <= n
             /\ \A i, j \in 1 .. Len(k) : k[i] = k[j] => i = j
             /\ \A i \in 1 .. Len(k) : \E j \in 1 .. n : k[i] = s[j]
             /\ \A j \in 1 .. n : s[j] \in S => \E i \in 1 .. Len(k) : k[i] = s[j]
           G == {n \in 0 .. Len(s) : Good(n, K[n])}
<1>1. Len(s) \in Nat /\ \A i \in 1 .. Len(s) : s[i] \in X
  BY LenProperties, ElementOfSeq
<1>2. /\ K[0] = <<>>
      /\ \A n \in 1 .. Len(s) : /\ s[n] \in S => K[n] = Append(K[n - 1], s[n])
                                /\ s[n] \notin S => K[n] = K[n - 1]
  BY <1>1, KeptStep
<1>3. \A n \in 0 .. Len(s) : K[n] \in Seq(Y)
  BY KeptType
<1> HIDE DEF K
<1>4. 0 \in G
  <2>1. Good(0, <<>>)
    OBVIOUS
  <2> QED BY <1>1, <1>2, <2>1
<1>5. ASSUME NEW n \in 1 .. Len(s), n - 1 \in G PROVE n \in G
  <2>0. n - 1 \in 0 .. Len(s) /\ n \in 0 .. Len(s)
    BY <1>1
  <2>1. PICK b \in Seq(Y) : b = K[n - 1]
    BY <1>3, <2>0
  <2>2. /\ Len(b) \in Nat /\ Len(b) <= n - 1
        /\ \A i, j \in 1 .. Len(b) : b[i] = b[j] => i = j
        /\ \A i \in 1 .. Len(b) : \E j \in 1 .. n - 1 : b[i] = s[j]
        /\ \A j \in 1 .. n - 1 : s[j] \in S => \E i \in 1 .. Len(b) : b[i] = s[j]
    BY <1>5, <2>1, LenProperties
  <2>3. CASE s[n] \notin S
    <3>1. K[n] = b
      BY <1>2, <2>1, <2>3
    <3>2. \A i \in 1 .. Len(b) : \E j \in 1 .. n : b[i] = s[j]
      <4> TAKE i \in 1 .. Len(b)
      <4>1. PICK j \in 1 .. n - 1 : b[i] = s[j]
        BY <2>2
      <4> QED BY <4>1
    <3>3. \A j \in 1 .. n : s[j] \in S => j \in 1 .. n - 1
      BY <2>3
    <3>4. Len(b) <= n
      BY <2>2
    <3>5. Good(n, b)
      BY <2>2, <3>2, <3>3, <3>4
    <3> HIDE DEF Good
    <3> QED BY <2>0, <3>1, <3>5
  <2>4. CASE s[n] \in S
    <3>1. PICK x \in Y : x = s[n]
      BY <1>1, <2>4
    <3>2. PICK k : k = Append(b, x)
      OBVIOUS
    <3>3. K[n] = k
      BY <1>2, <2>1, <2>4, <3>1, <3>2
    <3>4. Len(k) = Len(b) + 1 /\ \A i \in 1 .. Len(b) + 1 : k[i] = IF i = Len(b) + 1 THEN x ELSE b[i]
      BY <3>2, AppendProperties
    <3>5. \A i \in 1 .. Len(b) : b[i] # x
      <4> TAKE i \in 1 .. Len(b)
      <4>1. PICK j \in 1 .. n - 1 : b[i] = s[j]
        BY <2>2
      <4> QED BY <3>1, <4>1
    <3>6. \A i, j \in 1 .. Len(k) : k[i] = k[j] => i = j
      <4> SUFFICES ASSUME NEW i \in 1 .. Len(k), NEW j \in 1 .. Len(k), k[i] = k[j] PROVE i = j
        OBVIOUS
      <4>1. i \in 1 .. Len(b) + 1 /\ j \in 1 .. Len(b) + 1 /\ Len(b) \in Nat
        BY <2>2, <3>4
      <4>2. /\ k[i] = IF i = Len(b) + 1 THEN x ELSE b[i]
            /\ k[j] = IF j = Len(b) + 1 THEN x ELSE b[j]
        BY <3>4, <4>1
      <4>3. CASE i = Len(b) + 1 \/ j = Len(b) + 1
        <5>1. i # Len(b) + 1 => i \in 1 .. Len(b) /\ k[i] # x
          BY <3>5, <4>1, <4>2
        <5>2. j # Len(b) + 1 => j \in 1 .. Len(b) /\ k[j] # x
          <6>1. j # Len(b) + 1 => j \in 1 .. Len(b)
            BY <4>1
          <6>2. j # Len(b) + 1 => k[j] = b[j]
            BY <4>2
          <6> QED BY <3>5, <6>1, <6>2
        <5> QED BY <4>2, <4>3, <5>1, <5>2
      <4>4. CASE i # Len(b) + 1 /\ j # Len(b) + 1
        <5>1. i \in 1 .. Len(b) /\ j \in 1 .. Len(b)
          BY <4>1, <4>4
        <5> QED BY <2>2, <4>2, <4>4, <5>1
      <4> QED BY <4>3, <4>4
    <3>7. \A i \in 1 .. Len(k) : \E j \in 1 .. n : k[i] = s[j]
      <4> TAKE i \in 1 .. Len(k)
      <4>1. CASE i = Len(b) + 1
        BY <3>1, <3>4, <4>1
      <4>2. CASE i # Len(b) + 1
        <5>1. i \in 1 .. Len(b) /\ k[i] = b[i]
          BY <2>2, <3>4, <4>2
        <5>2. PICK j \in 1 .. n - 1 : b[i] = s[j]
          BY <2>2, <5>1
        <5> QED BY <5>1, <5>2
      <4> QED BY <4>1, <4>2
    <3>8. \A j \in 1 .. n : s[j] \in S => \E i \in 1 .. Len(k) : k[i] = s[j]
      <4> TAKE j \in 1 .. n
      <4>1. CASE j = n
        <5>1. Len(b) + 1 \in 1 .. Len(k) /\ k[Len(b) + 1] = x
          BY <2>2, <3>4
        <5> QED BY <3>1, <4>1, <5>1
      <4>2. CASE j # n /\ s[j] \in S
        <5>1. PICK i \in 1 .. Len(b) : b[i] = s[j]
          BY <2>2, <4>2
        <5>2. i \in 1 .. Len(k) /\ k[i] = b[i]
          BY <2>2, <3>4
        <5> QED BY <5>1, <5>2
      <4> QED BY <4>1, <4>2
    <3>9. Len(k) <= n
      BY <2>2, <3>4
    <3>10. Good(n, k)
      BY <3>6, <3>7, <3>8, <3>9
    <3> HIDE DEF Good
    <3> QED BY <2>0, <3>3, <3>10
  <2> QED BY <2>3, <2>4
<1> HIDE DEF G
<1>6. \A n \in 1 .. Len(s) : n - 1 \in G => n \in G
  BY <1>5
<1>7. \A n \in 0 .. Len(s) : n \in G
  BY <1>1, <1>4, <1>6, UpTo
<1>8. Len(s) \in G
  BY <1>1, <1>7
<1>9. Good(Len(s), K[Len(s)])
  BY <1>8 DEF G
<1>10. \A i \in 1 .. Len(K[Len(s)]) : K[Len(s)][i] \in S
  <2>1. K[Len(s)] \in Seq(Y)
    BY <1>1, <1>3
  <2> QED BY <2>1, ElementOfSeq
<1>11. K[Len(s)] = Keep(s, S)
  BY DEF K, Keep
<1> QED BY <1>9, <1>10, <1>11

--------------------------------------------------------------------------------
\* What the fold of the community modules records for every part of a set.
SumStep(f, g, s) ==
  IF s = {} THEN 0 ELSE f[CHOOSE x \in s : TRUE] + g[s \ {CHOOSE x \in s : TRUE}]
Sums(f, S) == CHOOSE g : g = [s \in SUBSET S |-> SumStep(f, g, s)]
Sum(f, S) == Sums(f, S)[S]

UpToSize(S, n) == {s \in SUBSET S : Cardinality(s) <= n}

LEMMA PartOf ==
  ASSUME NEW S, IsFiniteSet(S), NEW s \in SUBSET S
  PROVE  /\ IsFiniteSet(s) /\ Cardinality(s) \in 0 .. Cardinality(S)
         /\ Cardinality(S) \in Nat
         /\ Cardinality(s) = 0 <=> s = {}
         /\ \A x \in s : s \ {x} \in SUBSET S /\ Cardinality(s \ {x}) = Cardinality(s) - 1
<1>1. IsFiniteSet(s) /\ Cardinality(s) <= Cardinality(S) BY FS_Subset
<1>2. Cardinality(s) \in Nat /\ Cardinality(S) \in Nat BY <1>1, FS_CardinalityType
<1>3. Cardinality(s) = 0 <=> s = {} BY <1>1, FS_EmptySet
<1>4. ASSUME NEW x \in s PROVE Cardinality(s \ {x}) = Cardinality(s) - 1
  BY <1>1, FS_RemoveElement
<1>q. QED BY <1>1, <1>2, <1>3, <1>4

LEMMA SumsExist ==
  ASSUME NEW S, IsFiniteSet(S), NEW f
  PROVE  Sums(f, S) = [s \in SUBSET S |-> SumStep(f, Sums(f, S), s)]
<1> DEFINE Known(n) == \E g : g = [s \in UpToSize(S, n) |-> SumStep(f, g, s)]
           N == Cardinality(S)
           G == {n \in 0 .. N : Known(n)}
<1>1. N \in Nat BY FS_CardinalityType
<1>2. 0 \in G
  <2> DEFINE g == [s \in UpToSize(S, 0) |-> 0]
  <2>1. \A s \in UpToSize(S, 0) : s = {} BY PartOf DEF UpToSize
  <2>2. g = [s \in UpToSize(S, 0) |-> SumStep(f, g, s)] BY <2>1 DEF SumStep
  <2>q. QED BY <1>1, <2>2
<1>3. ASSUME NEW n \in 1 .. N, n - 1 \in G PROVE n \in G
  <2>1. PICK g : g = [s \in UpToSize(S, n - 1) |-> SumStep(f, g, s)] BY <1>3
  <2> DEFINE h == [s \in UpToSize(S, n) |-> SumStep(f, g, s)]
  <2>2. ASSUME NEW s \in UpToSize(S, n) PROVE h[s] = SumStep(f, h, s)
    <3>1. CASE s = {} BY <3>1 DEF SumStep
    <3>2. CASE s # {}
      <4> DEFINE x == CHOOSE x \in s : TRUE
      <4>1. x \in s BY <3>2
      <4>2. Cardinality(s) \in Nat /\ Cardinality(s) <= n /\ s \ {x} \in SUBSET S
            /\ Cardinality(s \ {x}) = Cardinality(s) - 1
        BY <4>1, PartOf DEF UpToSize
      <4>3. s \ {x} \in UpToSize(S, n - 1) /\ s \ {x} \in UpToSize(S, n)
        BY <1>1, <4>2 DEF UpToSize
      <4>4. g[s \ {x}] = SumStep(f, g, s \ {x}) BY <2>1, <4>3
      <4>5. h[s \ {x}] = g[s \ {x}] BY <4>3, <4>4
      <4> HIDE DEF h
      <4>6. SumStep(f, h, s) = SumStep(f, g, s) BY <3>2, <4>5 DEF SumStep
      <4>q. QED BY <4>6 DEF h
    <3>q. QED BY <3>1, <3>2
  <2>3. h = [s \in UpToSize(S, n) |-> SumStep(f, h, s)]
    <3>1. h = [s \in UpToSize(S, n) |-> h[s]] OBVIOUS
    <3> HIDE DEF h
    <3>q. QED BY <2>2, <3>1
  <2> HIDE DEF h
  <2>q. QED BY <2>3
<1> HIDE DEF G
<1>4. N \in G BY <1>1, <1>2, <1>3, UpTo
<1>5. UpToSize(S, N) = SUBSET S BY PartOf DEF UpToSize
<1>6. \E g : g = [s \in SUBSET S |-> SumStep(f, g, s)] BY <1>4, <1>5 DEF G
<1>q. QED BY <1>6 DEF Sums

\* The order in which the members are added does not matter.
LEMMA SumsAdd ==
  ASSUME NEW S, IsFiniteSet(S), NEW f \in [S -> Int]
  PROVE  /\ Sums(f, S)[{}] = 0
         /\ \A s \in SUBSET S : /\ Sums(f, S)[s] \in Int
                                /\ \A x \in s : Sums(f, S)[s] = f[x] + Sums(f, S)[s \ {x}]
<1> DEFINE g == Sums(f, S)
           N == Cardinality(S)
           Good(s) == g[s] \in Int /\ \A x \in s : g[s] = f[x] + g[s \ {x}]
           G == {n \in 0 .. N : \A s \in UpToSize(S, n) : Good(s)}
<1>0. N \in Nat /\ g = [s \in SUBSET S |-> SumStep(f, g, s)] BY FS_CardinalityType, SumsExist
<1> HIDE DEF g
<1>1. \A s \in SUBSET S : g[s] = SumStep(f, g, s) BY <1>0
<1>2. g[{}] = 0 BY <1>1 DEF SumStep
<1>3. 0 \in G
  <2>1. \A s \in UpToSize(S, 0) : s = {} BY PartOf DEF UpToSize
  <2>2. ASSUME NEW s \in UpToSize(S, 0) PROVE Good(s)
    <3>1. s = {} BY <2>1
    <3>2. g[s] = 0 BY <1>2, <3>1
    <3>q. QED BY <3>1, <3>2
  <2> HIDE DEF Good
  <2>q. QED BY <1>0, <2>2
<1>4. ASSUME NEW n \in 1 .. N, n - 1 \in G PROVE n \in G
  <2>0. \A s \in UpToSize(S, n - 1) : Good(s) BY <1>4
  <2>1. ASSUME NEW s \in UpToSize(S, n) PROVE Good(s)
    <3>1. CASE s = {} BY <1>2, <3>1
    <3>2. CASE s # {}
      <4> DEFINE y == CHOOSE y \in s : TRUE
      <4>1. y \in s /\ \A x \in s : x \in S /\ f[x] \in Int BY <3>2 DEF UpToSize
      <4>2. \A x \in s : s \ {x} \in UpToSize(S, n - 1)
        <5> TAKE x \in s
        <5>1. Cardinality(s) \in Nat /\ Cardinality(s) <= n /\ s \ {x} \in SUBSET S
              /\ Cardinality(s \ {x}) = Cardinality(s) - 1
          BY PartOf DEF UpToSize
        <5>q. QED BY <1>0, <5>1 DEF UpToSize
      <4>3. g[s] = f[y] + g[s \ {y}] BY <1>1, <3>2 DEF SumStep, UpToSize
      <4> HIDE DEF y
      <4>4. \A x \in s : g[s \ {x}] \in Int BY <2>0, <4>2
      <4>5. ASSUME NEW x \in s, x # y PROVE g[s] = f[x] + g[s \ {x}]
        <5>1. g[s \ {y}] = f[x] + g[(s \ {y}) \ {x}] /\ g[s \ {x}] = f[y] + g[(s \ {x}) \ {y}]
          BY <2>0, <4>1, <4>2, <4>5
        <5>2. (s \ {y}) \ {x} = (s \ {x}) \ {y} OBVIOUS
        <5>3. g[(s \ {y}) \ {x}] \in Int
          <6> DEFINE t == s \ {y}
          <6>0. t \in SUBSET S /\ Cardinality(t) <= n - 1 /\ x \in t
            BY <4>1, <4>2, <4>5 DEF UpToSize
          <6> HIDE DEF t
          <6>1. Cardinality(t) \in Nat /\ t \ {x} \in SUBSET S
                /\ Cardinality(t \ {x}) = Cardinality(t) - 1 /\ Cardinality(t) <= n - 1
            BY <6>0, PartOf
          <6>2. (s \ {y}) \ {x} \in UpToSize(S, n - 1) BY <1>0, <6>1 DEF UpToSize, t
          <6>q. QED BY <2>0, <6>2
        <5>4. f[x] \in Int /\ f[y] \in Int BY <4>1
        <5> DEFINE a == f[x]
                   b == f[y]
                   r == g[(s \ {y}) \ {x}]
        <5>5. a \in Int /\ b \in Int /\ r \in Int /\ g[s] = b + (a + r) /\ g[s \ {x}] = b + r
          BY <4>3, <5>1, <5>2, <5>3, <5>4
        <5> HIDE DEF a, b, r
        <5>6. g[s] = a + g[s \ {x}] BY <5>5
        <5>q. QED BY <5>6 DEF a
      <4>6. g[s] \in Int BY <4>1, <4>3, <4>4
      <4>q. QED BY <4>3, <4>5, <4>6
    <3>q. QED BY <3>1, <3>2
  <2>q. QED BY <2>1
<1> HIDE DEF G
<1>5. N \in G BY <1>0, <1>3, <1>4, UpTo
<1>6. UpToSize(S, N) = SUBSET S BY PartOf DEF UpToSize
<1>q. QED BY <1>2, <1>5, <1>6 DEF G, g

\* Functions that agree on a part of the set have the same sum there.
LEMMA SumsAgree ==
  ASSUME NEW S, IsFiniteSet(S), NEW f \in [S -> Int], NEW h \in [S -> Int],
         NEW R \in SUBSET S, \A x \in R : f[x] = h[x]
  PROVE  Sums(f, S)[R] = Sums(h, S)[R]
<1> DEFINE N == Cardinality(S)
           F == Sums(f, S)
           H == Sums(h, S)
           G == {n \in 0 .. N : \A s \in UpToSize(S, n) : s \subseteq R => F[s] = H[s]}
<1>0. N \in Nat BY FS_CardinalityType
<1>1. /\ F[{}] = 0 /\ H[{}] = 0
      /\ \A s \in SUBSET S : \A x \in s : F[s] = f[x] + F[s \ {x}] /\ H[s] = h[x] + H[s \ {x}]
  BY SumsAdd
<1> HIDE DEF F, H
<1>2. 0 \in G
  <2>1. \A s \in UpToSize(S, 0) : s = {} BY PartOf DEF UpToSize
  <2>2. \A s \in UpToSize(S, 0) : F[s] = H[s] BY <1>1, <2>1
  <2>q. QED BY <1>0, <2>2
<1>3. ASSUME NEW n \in 1 .. N, n - 1 \in G PROVE n \in G
  <2>1. ASSUME NEW s \in UpToSize(S, n), s \subseteq R PROVE F[s] = H[s]
    <3>1. CASE s = {} BY <1>1, <3>1
    <3>2. CASE s # {}
      <4>1. PICK x \in s : TRUE BY <3>2
      <4>2. Cardinality(s) \in Nat /\ Cardinality(s) <= n /\ s \ {x} \in SUBSET S
            /\ Cardinality(s \ {x}) = Cardinality(s) - 1
        BY PartOf DEF UpToSize
      <4>3. s \ {x} \in UpToSize(S, n - 1) /\ s \ {x} \subseteq R BY <1>0, <2>1, <4>2 DEF UpToSize
      <4>4. F[s \ {x}] = H[s \ {x}] BY <1>3, <4>3
      <4>5. s \in SUBSET S /\ f[x] = h[x] BY <2>1 DEF UpToSize
      <4>q. QED BY <1>1, <4>4, <4>5
    <3>q. QED BY <3>1, <3>2
  <2>q. QED BY <2>1
<1> HIDE DEF G
<1>4. N \in G BY <1>0, <1>2, <1>3, UpTo
<1>5. UpToSize(S, N) = SUBSET S BY PartOf DEF UpToSize
<1>q. QED BY <1>4, <1>5 DEF G, F, H

\* A changed value changes the sum by as much.
LEMMA SumChanges ==
  ASSUME NEW S, IsFiniteSet(S), NEW f \in [S -> Int], NEW h \in [S -> Int],
         NEW k \in S, \A x \in S \ {k} : h[x] = f[x]
  PROVE  /\ Sum(f, S) \in Int /\ Sum(h, S) \in Int
         /\ Sum(h, S) = Sum(f, S) - f[k] + h[k]
<1> DEFINE R == S \ {k}
<1>1. Sums(f, S)[R] = Sums(h, S)[R] BY SumsAgree
<1>2. ASSUME NEW e \in [S -> Int]
      PROVE  Sum(e, S) = e[k] + Sums(e, S)[R] /\ Sum(e, S) \in Int /\ Sums(e, S)[R] \in Int
  <2>1. S \in SUBSET S /\ R \in SUBSET S OBVIOUS
  <2>2. \A s \in SUBSET S : /\ Sums(e, S)[s] \in Int
                            /\ \A x \in s : Sums(e, S)[s] = e[x] + Sums(e, S)[s \ {x}]
    BY SumsAdd
  <2>q. QED BY <2>1, <2>2 DEF Sum
<1>3. f[k] \in Int /\ h[k] \in Int OBVIOUS
<1>4. /\ Sum(f, S) = f[k] + Sums(f, S)[R] /\ Sum(h, S) = h[k] + Sums(h, S)[R]
      /\ Sum(f, S) \in Int /\ Sum(h, S) \in Int /\ Sums(f, S)[R] \in Int
  BY <1>2
<1> HIDE DEF R
<1>q. QED BY <1>1, <1>3, <1>4

\* A function that is 0 everywhere comes to 0.
LEMMA SumZero ==
  ASSUME NEW S, IsFiniteSet(S), NEW f \in [S -> Int], \A x \in S : f[x] = 0
  PROVE  Sum(f, S) = 0
<1> DEFINE N == Cardinality(S)
           F == Sums(f, S)
           G == {n \in 0 .. N : \A s \in UpToSize(S, n) : F[s] = 0}
<1>0. N \in Nat BY FS_CardinalityType
<1>1. F[{}] = 0 /\ \A s \in SUBSET S : \A x \in s : F[s] = f[x] + F[s \ {x}] BY SumsAdd
<1> HIDE DEF F
<1>2. 0 \in G
  <2>1. \A s \in UpToSize(S, 0) : s = {} BY PartOf DEF UpToSize
  <2>2. \A s \in UpToSize(S, 0) : F[s] = 0 BY <1>1, <2>1
  <2>q. QED BY <1>0, <2>2
<1>3. ASSUME NEW n \in 1 .. N, n - 1 \in G PROVE n \in G
  <2>1. ASSUME NEW s \in UpToSize(S, n) PROVE F[s] = 0
    <3>1. CASE s = {} BY <1>1, <3>1
    <3>2. CASE s # {}
      <4>1. PICK x \in s : TRUE BY <3>2
      <4>2. Cardinality(s) \in Nat /\ Cardinality(s) <= n /\ s \ {x} \in SUBSET S
            /\ Cardinality(s \ {x}) = Cardinality(s) - 1
        BY PartOf DEF UpToSize
      <4>3. s \ {x} \in UpToSize(S, n - 1) BY <1>0, <4>2 DEF UpToSize
      <4>4. F[s \ {x}] = 0 /\ f[x] = 0 BY <1>3, <4>3 DEF UpToSize
      <4>5. F[s] = f[x] + F[s \ {x}] BY <1>1 DEF UpToSize
      <4>q. QED BY <4>4, <4>5
    <3>q. QED BY <3>1, <3>2
  <2>q. QED BY <2>1
<1> HIDE DEF G
<1>4. N \in G BY <1>0, <1>2, <1>3, UpTo
<1>5. S \in UpToSize(S, N) BY <1>0 DEF UpToSize
<1>q. QED BY <1>4, <1>5 DEF G, F, Sum

LEMMA SumIsInt ==
  ASSUME NEW S, IsFiniteSet(S), NEW f \in [S -> Int]
  PROVE  Sum(f, S) \in Int
<1>1. S \in SUBSET S OBVIOUS
<1>q. QED BY <1>1, SumsAdd DEF Sum

--------------------------------------------------------------------------------
\* Folds.  The community modules fold a sequence over the subsets of its domain and
\* take the latest member first: a fold by a function f that stays in U exists, and
\* what is folded up to a member is f of what comes before it and the member.
Latest(s) == CHOOSE x \in s : \A y \in s : x >= y

LEMMA LatestIs ==
  ASSUME NEW n \in Nat, NEW s \in SUBSET (1 .. n), s # {}
  PROVE  Latest(s) \in s /\ \A x \in s : x <= Latest(s)
<1> DEFINE I == {n - x : x \in s}
<1>1. I \in SUBSET Nat /\ I # {}
  <2>1. \A x \in s : n - x \in Nat OBVIOUS
  <2>2. PICK x \in s : TRUE OBVIOUS
  <2>q. QED BY <2>1, <2>2
<1>2. PICK i \in I : \A j \in I : i <= j BY <1>1, Least
<1>3. PICK y \in s : i = n - y BY <1>2
<1>4. \A x \in s : y >= x BY <1>2, <1>3
<1>5. \A x \in s : \A z \in s : z >= x => z \in Int OBVIOUS
<1>q. QED BY <1>4 DEF Latest

LEMMA LatestOfFirst ==
  ASSUME NEW k \in Nat \ {0}
  PROVE  Latest(1 .. k) = k /\ (1 .. k) \ {k} = 1 .. k - 1 /\ 1 .. k # {}
<1>1. k \in 1 .. k OBVIOUS
<1>2. Latest(1 .. k) \in 1 .. k /\ k <= Latest(1 .. k) BY <1>1, LatestIs
<1>q. QED BY <1>2

FoldStep(f, base, seq, g, s) ==
  IF s = {} THEN base ELSE f[<<g[s \ {Latest(s)}], seq[Latest(s)]>>]

\* What the fold over a sequence keeps, for each set of places it has been over.
Folding(g, n, U, f, base, seq) ==
  /\ g \in [SUBSET (1 .. n) -> U]
  /\ \A s \in SUBSET (1 .. n) : g[s] = FoldStep(f, base, seq, g, s)

LEMMA FoldExists ==
  ASSUME NEW n \in Nat, NEW U, NEW base \in U, NEW D, NEW seq \in [1 .. n -> D],
         NEW f \in [U \X D -> U]
  PROVE  \E g : Folding(g, n, U, f, base, seq)
<1> DEFINE S == 1 .. n
           Folds(b, g) == /\ g = [s \in UpToSize(S, b) |-> FoldStep(f, base, seq, g, s)]
                          /\ \A s \in UpToSize(S, b) : g[s] \in U
           N == Cardinality(S)
           G == {b \in 0 .. N : \E g : Folds(b, g)}
<1>f. IsFiniteSet(S) BY FS_Interval
<1>0. \A s \in SUBSET S : s # {} => Latest(s) \in s /\ seq[Latest(s)] \in D
  BY LatestIs
<1> HIDE DEF S
<1>1. N \in Nat BY <1>f, FS_CardinalityType
<1>2. 0 \in G
  <2> DEFINE g == [s \in UpToSize(S, 0) |-> base]
  <2>1. \A s \in UpToSize(S, 0) : s = {} BY <1>f, PartOf DEF UpToSize
  <2>2. Folds(0, g) BY <2>1 DEF FoldStep
  <2> HIDE DEF Folds
  <2>q. QED BY <1>1, <2>2
<1>3. ASSUME NEW b \in 1 .. N, b - 1 \in G PROVE b \in G
  <2>1. PICK g : Folds(b - 1, g) BY <1>3
  <2> DEFINE h == [s \in UpToSize(S, b) |-> FoldStep(f, base, seq, g, s)]
  <2>2. ASSUME NEW s \in UpToSize(S, b)
        PROVE  h[s] = FoldStep(f, base, seq, h, s) /\ h[s] \in U
    <3>1. CASE s = {} BY <3>1 DEF FoldStep
    <3>2. CASE s # {}
      <4> DEFINE x == Latest(s)
      <4>1. x \in s /\ seq[x] \in D BY <1>0, <3>2 DEF UpToSize
      <4> HIDE DEF x
      <4>2. Cardinality(s) \in Nat /\ Cardinality(s) <= b /\ s \ {x} \in SUBSET S
            /\ Cardinality(s \ {x}) = Cardinality(s) - 1
        BY <1>f, <4>1, PartOf DEF UpToSize
      <4>3. s \ {x} \in UpToSize(S, b - 1) /\ s \ {x} \in UpToSize(S, b)
        BY <1>1, <4>2 DEF UpToSize
      <4>4. g[s \ {x}] = FoldStep(f, base, seq, g, s \ {x}) /\ g[s \ {x}] \in U
        BY <2>1, <4>3
      <4>5. h[s \ {x}] = g[s \ {x}] BY <4>3, <4>4
      <4>6. h[s] = FoldStep(f, base, seq, g, s) OBVIOUS
      <4> HIDE DEF h
      <4>7. FoldStep(f, base, seq, h, s) = FoldStep(f, base, seq, g, s)
        BY <3>2, <4>5 DEF FoldStep, x
      <4>8. FoldStep(f, base, seq, g, s) \in U BY <3>2, <4>1, <4>4 DEF FoldStep, x
      <4>q. QED BY <4>6, <4>7, <4>8
    <3>q. QED BY <3>1, <3>2
  <2>3. h = [s \in UpToSize(S, b) |-> FoldStep(f, base, seq, h, s)]
    <3>1. h = [s \in UpToSize(S, b) |-> h[s]] OBVIOUS
    <3> HIDE DEF h
    <3>q. QED BY <2>2, <3>1
  <2> HIDE DEF h
  <2>4. Folds(b, h) BY <2>2, <2>3
  <2> HIDE DEF Folds
  <2>q. QED BY <2>4
<1> HIDE DEF G
<1>4. N \in G
  <2> HIDE DEF N
  <2>1. \A b \in 0 .. N : b \in G BY <1>1, <1>2, <1>3, UpTo
  <2>q. QED BY <1>1, <2>1
<1>5. UpToSize(S, N) = SUBSET S BY <1>f, PartOf DEF UpToSize
<1>6. PICK g : Folds(N, g) BY <1>4 DEF G
<1>7. \A s \in SUBSET S : g[s] = FoldStep(f, base, seq, g, s) /\ g[s] \in U BY <1>5, <1>6
<1>8. g \in [SUBSET S -> U] BY <1>5, <1>6, <1>7
<1>q. QED BY <1>7, <1>8 DEF S, Folding
================================================================================
