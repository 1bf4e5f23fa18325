--------------------------- MODULE DirectoriesProofs ----------------------------
(***************************************************************************)
(* Proofs about the two versions of the subscriber directory, for any      *)
(* names, any size of the array, any nodes and limit of the list.          *)
(***************************************************************************)
EXTENDS Directories, DataLemmas, FiniteSetTheorems, FunctionTheorems

USE DEF Idle, Nobody, Entry, Taken, Closing

\* FreeIndex as a function of the array.
FreeIn(a) ==
  CHOOSE i \in 0 .. MAX_LEN :
    /\ \A j \in 0 .. i - 1 : Taken(a[j])
    /\ i < MAX_LEN => ~Taken(a[i])

\* There is such an index in every array, and it is what its definition says.
LEMMA FreeInIs ==
  ASSUME NEW a
  PROVE  /\ FreeIn(a) \in 0 .. MAX_LEN
         /\ \A j \in 0 .. FreeIn(a) - 1 : Taken(a[j])
         /\ FreeIn(a) < MAX_LEN => ~Taken(a[FreeIn(a)])
<1> USE NamesAssumption
<1> DEFINE I == {i \in 0 .. MAX_LEN : i < MAX_LEN => ~Taken(a[i])}
<1>1. MAX_LEN \in I /\ I \in SUBSET Nat
  OBVIOUS
<1>2. PICK n \in I : \A m \in I : n <= m
  BY <1>1, Least
<1>3. \A j \in 0 .. n - 1 : Taken(a[j])
  <2> TAKE j \in 0 .. n - 1
  <2>1. j \in 0 .. MAX_LEN /\ j < MAX_LEN /\ ~(n <= j)
    BY <1>2
  <2>2. j \notin I
    BY <1>2, <2>1
  <2> QED BY <2>1, <2>2
<1>4. n \in 0 .. MAX_LEN /\ (n < MAX_LEN => ~Taken(a[n]))
  BY <1>2
<1> HIDE DEF Taken
<1> QED BY <1>3, <1>4 DEF FreeIn

\* Every entry before the free one is taken, and it is not.
LEMMA FreeIndexIs ==
  /\ FreeIndex \in 0 .. MAX_LEN
  /\ \A j \in 0 .. FreeIndex - 1 : Taken(array[j])
  /\ FreeIndex < MAX_LEN => ~Taken(array[FreeIndex])
<1>1. FreeIndex = FreeIn(array)
  BY DEF FreeIndex, FreeIn
<1> HIDE DEF Taken
<1> QED BY <1>1, FreeInIs

Entries == [name : Names \cup {Blank}, others : 0 .. 2]

\* Nothing behind the first free entry is taken, nor behind the end that a
\* running deletion had found.
End == IF Idle THEN FreeIndex ELSE index
NoneBehind == \A j \in End .. MAX_LEN - 1 : ~Taken(array[j])

ArrayInv == LeftIsHole /\ NoneBehind

\* The inductive invariant holds at the start and every step keeps it: one
\* lemma for each action that does more than read.
LEMMA ArrayInit == Init => ArrayInv
<1> SUFFICES ASSUME Init PROVE ArrayInv
  OBVIOUS
<1> USE NamesAssumption
<1>1. TypeOK
  <2>1. Nobody \in Entries
    BY DEF Entries
  <2>2. array \in [0 .. MAX_LEN - 1 -> Entries]
    BY <2>1 DEF Init
  <2>3. left = 0 /\ right = 0 /\ index = -1 /\ beyond = FALSE
    BY DEF Init
  <2>4. array \in [0 .. MAX_LEN - 1 -> [name : Names \cup {Blank}, others : 0 .. 2]]
    BY <2>2 DEF Entries
  <2>5. left \in 0 .. MAX_LEN /\ right \in 0 .. MAX_LEN
    BY <2>3
  <2>6. index \in -1 .. MAX_LEN
    BY <2>3
  <2>7. beyond \in BOOLEAN
    BY <2>3
  <2> QED BY <2>4, <2>5, <2>6, <2>7 DEF TypeOK
<1>2. NoneBehind
  BY FreeIndexIs DEF Init, NoneBehind, End
<1> QED BY <1>1, <1>2 DEF Init, ArrayInv, LeftIsHole

\* An insertion fills the first free entry, so none is left open before it.
LEMMA InsertArrayInv ==
  ASSUME ArrayInv, NEW n \in Names \cup {Blank}, NEW k \in 0 .. 2, Insert(n, k)
  PROVE  ArrayInv'
<1> USE NamesAssumption
<1>1. FreeIndex \in 0 .. MAX_LEN - 1
  BY FreeIndexIs DEF Insert
<1>2. array \in [0 .. MAX_LEN - 1 -> Entries]
  BY DEF ArrayInv, LeftIsHole, TypeOK, Entries
<1>3. array' \in [0 .. MAX_LEN - 1 -> Entries]
  BY <1>1, <1>2 DEF Insert, Entries
<1>4. TypeOK'
  BY <1>3 DEF ArrayInv, LeftIsHole, TypeOK, Insert, Entries
<1>5. NoneBehind'
  <2> SUFFICES ASSUME NEW j \in FreeIndex' .. MAX_LEN - 1 PROVE ~Taken(array'[j])
    BY DEF NoneBehind, End, Insert
  <2>1. FreeIndex' = FreeIn(array')
    BY DEF FreeIndex, FreeIn
  <2>2. /\ FreeIndex' \in 0 .. MAX_LEN
        /\ FreeIndex' < MAX_LEN => ~Taken(array'[FreeIndex'])
    BY <2>1, FreeInIs
  <2>3. \A i \in 0 .. MAX_LEN - 1 : i # FreeIndex => array'[i] = array[i]
    BY <1>1, <1>2 DEF Insert
  <2>4. FreeIndex' >= FreeIndex
    <3> SUFFICES ASSUME FreeIndex' < FreeIndex PROVE FALSE
      BY <1>1, <2>2
    <3>1. Taken(array[FreeIndex']) /\ FreeIndex' \in 0 .. MAX_LEN - 1
      BY <1>1, <2>2, FreeIndexIs
    <3> QED BY <1>1, <2>2, <2>3, <3>1
  <2>5. \A i \in FreeIndex .. MAX_LEN - 1 : ~Taken(array[i])
    BY DEF ArrayInv, NoneBehind, End, Insert
  <2>6. CASE j = FreeIndex
    <3>1. j = FreeIndex'
      BY <1>1, <2>2, <2>4, <2>6
    <3> QED BY <1>1, <2>2, <2>6, <3>1
  <2>7. CASE j # FreeIndex
    <3>1. j \in FreeIndex .. MAX_LEN - 1 /\ array'[j] = array[j]
      BY <1>1, <2>2, <2>3, <2>4, <2>7
    <3> QED BY <2>5, <3>1
  <2> QED BY <2>6, <2>7
<1> QED BY <1>4, <1>5 DEF ArrayInv, LeftIsHole, Insert

\* A deletion blanks the entries of a name and starts at the first of them.
LEMMA StartDeleteArrayInv ==
  ASSUME ArrayInv, NEW n \in Names, StartDelete(n)
  PROVE  /\ ArrayInv'
         /\ left' \in Matching(n)
<1> USE NamesAssumption
<1> DEFINE M == Matching(n)
<1>1. M # {} /\ M \subseteq 0 .. FreeIndex - 1 /\ FreeIndex \in 0 .. MAX_LEN /\ M \in SUBSET Nat
  BY FreeIndexIs DEF StartDelete, Matching
<1>2. array \in [0 .. MAX_LEN - 1 -> Entries]
  BY DEF ArrayInv, LeftIsHole, TypeOK, Entries
<1>3. array' = [i \in 0 .. MAX_LEN - 1 |-> IF i \in M THEN Nobody ELSE array[i]]
  BY <1>2 DEF StartDelete
<1> HIDE DEF M
<1>4. left' \in M /\ \A j \in M : left' <= j
  <2>1. PICK m \in M : \A j \in M : m <= j
    BY <1>1, Least
  <2>2. left' = CHOOSE i \in M : \A j \in M : i <= j
    BY DEF StartDelete, M
  <2> QED BY <2>1, <2>2
<1>5. left' \in 0 .. FreeIndex - 1 /\ right' = left' + 1 /\ index' = FreeIndex
  BY <1>1, <1>4 DEF StartDelete
<1>5a. \A i \in left' .. right' - 1 : i = left'
  <2>1. PICK l \in Int : left' = l
    BY <1>1, <1>5
  <2>2. PICK r \in Int : r = l + 1
    BY <2>1
  <2>3. right' = r
    BY <1>5, <2>1, <2>2
  <2>4. \A i \in l .. r - 1 : i = l
    BY <2>1, <2>2
  <2> QED BY <2>1, <2>3, <2>4
<1>6. Nobody \in Entries
  BY DEF Entries
<1>7. array' \in [0 .. MAX_LEN - 1 -> Entries]
  BY <1>2, <1>3, <1>6
<1>8. TypeOK'
  BY <1>1, <1>5, <1>7 DEF ArrayInv, LeftIsHole, TypeOK, StartDelete, Entries
<1>9. \A i \in 0 .. FreeIndex - 1 :
        /\ i < left' => Taken(array'[i])
        /\ i \in left' .. right' - 1 => array'[i] = Nobody
        /\ Taken(array'[i]) \/ array'[i] = Nobody
  <2> TAKE i \in 0 .. FreeIndex - 1
  <2>1. Taken(array[i]) /\ i \in 0 .. MAX_LEN - 1
    BY <1>1, FreeIndexIs
  <2>2. i \in M => array'[i] = Nobody
    BY <1>3, <2>1
  <2>3. i \notin M => array'[i] = array[i]
    BY <1>3, <2>1
  <2>4. i < left' => i \notin M
    BY <1>1, <1>4, <1>5
  <2>5. i \in left' .. right' - 1 => i \in M
    BY <1>4, <1>5a
  <2> HIDE DEF Taken, Nobody
  <2> QED BY <2>1, <2>2, <2>3, <2>4, <2>5
<1>10. \A j \in FreeIndex .. MAX_LEN - 1 : ~Taken(array'[j])
  <2> TAKE j \in FreeIndex .. MAX_LEN - 1
  <2>1. ~Taken(array[j])
    BY DEF ArrayInv, NoneBehind, End, StartDelete
  <2>2. j \notin M /\ j \in 0 .. MAX_LEN - 1
    BY <1>1
  <2> QED BY <1>3, <2>1, <2>2
<1>11. LeftIsHole'
  BY <1>5, <1>8, <1>9 DEF LeftIsHole
<1>12. NoneBehind'
  BY <1>5, <1>10, <1>1 DEF NoneBehind, End
<1> QED BY <1>4, <1>11, <1>12 DEF ArrayInv, M

--------------------------------------------------------------------------------
\* Moving the next person into the hole opens the hole behind it.
LEMMA CloseArrayInv ==
  ASSUME ArrayInv, Close
  PROVE  ArrayInv'
<1> USE NamesAssumption
<1>1. /\ left \in 0 .. MAX_LEN - 1 /\ right \in 0 .. MAX_LEN - 1 /\ left < right
      /\ index \in 0 .. MAX_LEN /\ right < index
  BY DEF ArrayInv, LeftIsHole, TypeOK, Close
<1>2. array \in [0 .. MAX_LEN - 1 -> Entries]
  BY DEF ArrayInv, LeftIsHole, TypeOK, Entries
<1>3. array' \in [0 .. MAX_LEN - 1 -> Entries]
  BY <1>1, <1>2 DEF Close, Entries
<1>4. TypeOK'
  BY <1>1, <1>3 DEF ArrayInv, LeftIsHole, TypeOK, Close, Entries
<1>5. \A i \in 0 .. MAX_LEN - 1 :
        array'[i] = IF i = right THEN Nobody ELSE IF i = left THEN array[right] ELSE array[i]
  BY <1>1, <1>2 DEF Close
<1>6. \A i \in 0 .. index' - 1 :
        /\ i < left' => Taken(array'[i])
        /\ i \in left' .. right' - 1 => array'[i] = Nobody
        /\ Taken(array'[i]) \/ array'[i] = Nobody
  <2> TAKE i \in 0 .. index' - 1
  <2>1. i \in 0 .. index - 1 /\ i \in 0 .. MAX_LEN - 1
    BY <1>1 DEF Close
  <2>2. /\ i < left => Taken(array[i])
        /\ i \in left .. right - 1 => array[i] = Nobody
        /\ Taken(array[i]) \/ array[i] = Nobody
    BY <1>1, <2>1 DEF ArrayInv, LeftIsHole
  <2>3. left' = left + 1 /\ right' = right + 1 /\ Taken(array[right])
    BY DEF Close
  <2>4. CASE i = left
    <3>1. array'[i] = array[right]
      BY <1>1, <1>5, <2>1, <2>4
    <3> HIDE DEF Taken, Nobody
    <3> QED BY <1>1, <2>3, <2>4, <3>1
  <2>5. CASE i = right
    <3>1. array'[i] = Nobody
      BY <1>5, <2>1, <2>5
    <3> HIDE DEF Taken, Nobody
    <3> QED BY <1>1, <2>3, <2>5, <3>1
  <2>6. CASE i # left /\ i # right
    <3>1. array'[i] = array[i]
      BY <1>5, <2>1, <2>6
    <3>2. (i < left' => i < left) /\ (i \in left' .. right' - 1 => i \in left .. right - 1)
      BY <1>1, <2>1, <2>3, <2>6
    <3> HIDE DEF Taken, Nobody
    <3> QED BY <2>2, <3>1, <3>2
  <2> QED BY <2>4, <2>5, <2>6
<1>7. LeftIsHole'
  <2>1. left' < right'
    BY <1>1 DEF Close
  <2> QED BY <1>4, <1>6, <2>1 DEF LeftIsHole
<1>8. NoneBehind'
  <2>1. index' = index /\ index # -1
    BY DEF Close
  <2>2. \A j \in index .. MAX_LEN - 1 : ~Taken(array[j])
    BY <2>1 DEF ArrayInv, NoneBehind, End
  <2>3. \A j \in index .. MAX_LEN - 1 : array'[j] = array[j]
    BY <1>1, <1>5
  <2> HIDE DEF Taken
  <2> QED BY <2>1, <2>2, <2>3 DEF NoneBehind, End
<1> QED BY <1>7, <1>8 DEF ArrayInv

\* Passing a blank entry leaves every entry where it is.
LEMMA PassHoleArrayInv ==
  ASSUME ArrayInv, PassHole
  PROVE  ArrayInv'
<1> USE NamesAssumption
<1>1. /\ left \in 0 .. MAX_LEN - 1 /\ right \in 0 .. MAX_LEN - 1 /\ left < right
      /\ index \in 0 .. MAX_LEN /\ right < index
      /\ left' = left /\ right' = right + 1 /\ index' = index /\ array' = array /\ beyond' = beyond
  BY DEF ArrayInv, LeftIsHole, TypeOK, PassHole
<1>2. TypeOK'
  BY <1>1 DEF ArrayInv, LeftIsHole, TypeOK
<1>3. array[right] = Nobody
  <2>1. right \in 0 .. index - 1 /\ index # -1 /\ ~Taken(array[right])
    BY <1>1 DEF PassHole
  <2> HIDE DEF Taken, Nobody
  <2> QED BY <2>1 DEF ArrayInv, LeftIsHole
<1>4. \A i \in 0 .. index' - 1 :
        /\ i < left' => Taken(array'[i])
        /\ i \in left' .. right' - 1 => array'[i] = Nobody
        /\ Taken(array'[i]) \/ array'[i] = Nobody
  <2> TAKE i \in 0 .. index' - 1
  <2>1. i \in left' .. right' - 1 => i \in left .. right - 1 \/ i = right
    BY <1>1
  <2>2. /\ i < left => Taken(array[i])
        /\ i \in left .. right - 1 => array[i] = Nobody
        /\ Taken(array[i]) \/ array[i] = Nobody
    BY <1>1 DEF ArrayInv, LeftIsHole
  <2> HIDE DEF Taken, Nobody
  <2> QED BY <1>1, <1>3, <2>1, <2>2
<1>5. LeftIsHole'
  BY <1>1, <1>2, <1>4 DEF LeftIsHole
<1>6. NoneBehind'
  <2>1. \A j \in index .. MAX_LEN - 1 : ~Taken(array[j])
    BY <1>1 DEF ArrayInv, NoneBehind, End
  <2> HIDE DEF Taken
  <2> QED BY <1>1, <2>1 DEF NoneBehind, End
<1> QED BY <1>5, <1>6 DEF ArrayInv

\* When the walk has ended nobody is behind the first free entry again.
LEMMA EndDeleteArrayInv ==
  ASSUME ArrayInv, EndDelete
  PROVE  ArrayInv'
<1> USE NamesAssumption
<1>1. TypeOK' /\ index' = -1 /\ array' = array
  BY DEF ArrayInv, LeftIsHole, TypeOK, EndDelete
<1>2. LeftIsHole'
  BY <1>1 DEF LeftIsHole
<1>3. FreeIndex' = FreeIndex
  BY <1>1 DEF FreeIndex
<1>4. \A j \in FreeIndex .. MAX_LEN - 1 : ~Taken(array[j])
  <2> SUFFICES ASSUME NEW j \in FreeIndex .. MAX_LEN - 1, Taken(array[j]) PROVE FALSE
    OBVIOUS
  <2>0. /\ FreeIndex \in 0 .. MAX_LEN
        /\ FreeIndex < MAX_LEN => ~Taken(array[FreeIndex])
        /\ index \in 0 .. MAX_LEN /\ left \in 0 .. MAX_LEN /\ right \in 0 .. MAX_LEN
        /\ left < right /\ right >= index
    BY FreeIndexIs DEF ArrayInv, LeftIsHole, TypeOK, EndDelete
  <2>1. j < index
    <3>1. \A i \in index .. MAX_LEN - 1 : ~Taken(array[i])
      BY <2>0 DEF ArrayInv, NoneBehind, End
    <3> HIDE DEF Taken
    <3> QED BY <2>0, <3>1
  <2>2. \A i \in 0 .. index - 1 : /\ i < left => Taken(array[i])
                                  /\ i \in left .. right - 1 => array[i] = Nobody
    BY <2>0 DEF ArrayInv, LeftIsHole
  <2>3. j < left
    <3>1. ~Taken(Nobody)
      OBVIOUS
    <3> HIDE DEF Taken, Nobody
    <3> QED BY <2>0, <2>1, <2>2, <3>1
  <2>4. FreeIndex < left /\ FreeIndex \in 0 .. index - 1 /\ FreeIndex < MAX_LEN
    <3>1. FreeIndex \in Nat /\ FreeIndex <= j /\ j \in 0 .. MAX_LEN - 1
      BY <2>0
    <3>2. left \in Nat /\ index \in Nat
      BY <2>0
    <3> HIDE DEF Taken
    <3> QED BY <2>1, <2>3, <3>1, <3>2
  <2> HIDE DEF Taken
  <2> QED BY <2>0, <2>2, <2>4
<1> QED BY <1>1, <1>2, <1>3, <1>4 DEF ArrayInv, NoneBehind, End

\* Every step of the array version keeps the invariant.
LEMMA ArrayStep ==
  ASSUME ArrayInv, [Next]_vars
  PROVE  ArrayInv'
<1>1. ASSUME NEW n \in Names, StartDelete(n) PROVE ArrayInv'
  BY <1>1, StartDeleteArrayInv
<1>2. ASSUME NEW n \in Names \cup {Blank}, NEW k \in 0 .. 2, Insert(n, k) PROVE ArrayInv'
  BY <1>2, InsertArrayInv
<1>3. ASSUME NEW n \in Names \cup {Blank}, NEW k \in 0 .. 2, InsertBeyond(n, k) PROVE ArrayInv'
  BY <1>3 DEF InsertBeyond, ArrayInv, LeftIsHole, TypeOK, NoneBehind, End, FreeIndex
<1>4. CASE UNCHANGED vars
  BY <1>4 DEF vars, ArrayInv, LeftIsHole, TypeOK, NoneBehind, End, FreeIndex
<1> QED BY <1>1, <1>2, <1>3, <1>4, CloseArrayInv, PassHoleArrayInv, EndDeleteArrayInv DEF Next

\* The array's inductive invariant holds in every state of the two versions.
LEMMA ArrayInvCorrect == BothSpec => []ArrayInv
<1>1. BothInit => ArrayInv
  BY ArrayInit DEF BothInit
<1>2. ArrayInv /\ [UseArray \/ UseList]_allVars => ArrayInv'
  <2>1. [UseArray \/ UseList]_allVars => [Next]_vars
    BY DEF UseArray, UseList, allVars
  <2> QED BY <2>1, ArrayStep
<1> QED BY <1>1, <1>2, PTL DEF BothSpec

\* While delete_abonent() closes the holes of the array, the entry it will fill
\* next is blank, whatever was inserted and removed before, for any size of the
\* array (Subscriber_directory/lib/lib.c).
THEOREM LeftIsHoleCorrect == BothSpec => []LeftIsHole
<1>1. ArrayInv => LeftIsHole
  BY DEF ArrayInv
<1> QED BY <1>1, ArrayInvCorrect, PTL

--------------------------------------------------------------------------------
\* The names in an array, Blank where an entry is free.
Line(a) == [i \in 1 .. MAX_LEN |-> IF Taken(a[i - 1]) THEN a[i - 1].name ELSE Blank]

\* The line has the name of every taken entry and Blank for the others.
LEMMA LineIs ==
  ASSUME NEW a \in [0 .. MAX_LEN - 1 -> Entries]
  PROVE  /\ Line(a) \in Seq(Names \cup {Blank})
         /\ Len(Line(a)) = MAX_LEN /\ MAX_LEN \in Nat
         /\ \A i \in 1 .. MAX_LEN :
              /\ Taken(a[i - 1]) => Line(a)[i] = a[i - 1].name /\ Line(a)[i] \in Names
              /\ ~Taken(a[i - 1]) => Line(a)[i] = Blank /\ Line(a)[i] \notin Names
<1> USE NamesAssumption
<1>1. \A i \in 1 .. MAX_LEN : a[i - 1] \in Entries
  OBVIOUS
<1>2. \A e \in Entries : e.name \in Names \cup {Blank} /\ (Taken(e) => e.name \in Names)
  BY DEF Entries, Taken
<1> HIDE DEF Taken
<1>3. Line(a) \in [1 .. MAX_LEN -> Names \cup {Blank}]
  BY <1>1, <1>2 DEF Line
<1>4. \A i \in 1 .. MAX_LEN :
        /\ Taken(a[i - 1]) => Line(a)[i] = a[i - 1].name /\ Line(a)[i] \in Names
        /\ ~Taken(a[i - 1]) => Line(a)[i] = Blank /\ Line(a)[i] \notin Names
  BY <1>1, <1>2 DEF Line
<1> QED BY <1>3, <1>4, FunctionIsSeq

\* What the directory lists is what is kept of the whole array.
LEMMA ListedIs ==
  ASSUME ArrayInv
  PROVE  /\ Listed = Keep(Line(array), Names)
         /\ array \in [0 .. MAX_LEN - 1 -> Entries]
<1> USE NamesAssumption
<1> DEFINE s == Line(array)
           t == [i \in 1 .. End |-> IF Taken(array[i - 1]) THEN array[i - 1].name ELSE Blank]
<1>1. array \in [0 .. MAX_LEN - 1 -> Entries] /\ End \in 0 .. MAX_LEN /\ End \in Nat
  BY FreeIndexIs DEF ArrayInv, LeftIsHole, TypeOK, Entries, End, Idle
<1>2. /\ s \in Seq(Names \cup {Blank}) /\ Len(s) = MAX_LEN
      /\ \A i \in 1 .. MAX_LEN :
           /\ Taken(array[i - 1]) => s[i] = array[i - 1].name /\ s[i] \in Names
           /\ ~Taken(array[i - 1]) => s[i] = Blank /\ s[i] \notin Names
  BY <1>1, LineIs
<1>3. Listed = Keep(t, Names)
  BY DEF Listed, End
<1>4. \A i \in 1 .. End : s[i] = t[i]
  BY <1>1 DEF Line
<1>5. Len(t) = End
  <2>1. \A i \in 1 .. End : s[i] \in Names \cup {Blank}
    BY <1>1, <1>2, ElementOfSeq
  <2>2. t \in [1 .. End -> Names \cup {Blank}]
    <3> HIDE DEF s
    <3> QED BY <1>4, <2>1
  <2> HIDE DEF t
  <2> QED BY <1>1, <2>2, FunctionIsSeq
<1>6. \A i \in End + 1 .. MAX_LEN : s[i] \notin Names
  <2> TAKE i \in End + 1 .. MAX_LEN
  <2>1. i - 1 \in End .. MAX_LEN - 1 /\ i \in 1 .. MAX_LEN
    BY <1>1
  <2>2. ~Taken(array[i - 1])
    BY <2>1 DEF ArrayInv, NoneBehind
  <2> QED BY <1>2, <2>1, <2>2
<1> HIDE DEF s, t
<1> HIDE DEF Taken, End
<1>7. KeptOf(s, Names)[MAX_LEN] = KeptOf(s, Names)[End]
  <2>1. End \in 0 .. Len(s) /\ MAX_LEN \in End .. Len(s) /\ Len(s) \in Nat
    BY <1>1, <1>2
  <2> QED BY <1>6, <2>1, KeptSkip
<1>8. KeptOf(s, Names)[End] = KeptOf(t, Names)[End]
  <2>1. \A i \in 1 .. End : s[0 + i] = t[0 + i]
    BY <1>1, <1>4
  <2>2. Alike(s, Names, 0, t, Names, 0, End)
    BY <1>1, <1>2, <1>5, <2>1 DEF Alike
  <2>3. KeptOf(s, Names)[0] = KeptOf(t, Names)[0]
    BY <1>1, <1>2, <1>5, KeptStep
  <2>4. End = 0 + End
    BY <1>1
  <2> QED BY <2>2, <2>3, <2>4, KeptAlike
<1> QED BY <1>1, <1>2, <1>3, <1>5, <1>7, <1>8 DEF Keep, s

\* The same of the next state.
ListedAs == Listed = Keep(Line(array), Names) /\ array \in [0 .. MAX_LEN - 1 -> Entries]

\* ListedIs of the next state.
LEMMA ListedNext == ArrayInv' => ListedAs'
<1>1. ArrayInv => ListedAs
  BY ListedIs DEF ListedAs
<1> QED BY <1>1, PTL

\* A person written to the first free entry comes last in the list.
LEMMA InsertLine ==
  ASSUME NEW a \in [0 .. MAX_LEN - 1 -> Entries], NEW b \in [0 .. MAX_LEN - 1 -> Entries],
         NEW f \in 0 .. MAX_LEN - 1,
         \A i \in 0 .. MAX_LEN - 1 : i # f => b[i] = a[i],
         ~Taken(a[f]), \A i \in f .. MAX_LEN - 1 : ~Taken(a[i]),
         NEW x \in Names, Taken(b[f]), b[f].name = x
  PROVE  Keep(Line(b), Names) = Append(Keep(Line(a), Names), x)
<1> USE NamesAssumption
<1> DEFINE s == Line(a)
           t == Line(b)
<1>1. /\ Len(s) = MAX_LEN
      /\ \A i \in 1 .. MAX_LEN :
           /\ Taken(a[i - 1]) => s[i] = a[i - 1].name /\ s[i] \in Names
           /\ ~Taken(a[i - 1]) => s[i] = Blank /\ s[i] \notin Names
  BY LineIs
<1>2. /\ Len(t) = MAX_LEN
      /\ \A i \in 1 .. MAX_LEN :
           /\ Taken(b[i - 1]) => t[i] = b[i - 1].name /\ t[i] \in Names
           /\ ~Taken(b[i - 1]) => t[i] = Blank /\ t[i] \notin Names
  BY LineIs
<1>3. \A i \in 1 .. MAX_LEN : i # f + 1 => s[i] = t[i]
  BY DEF Line
<1> HIDE DEF s, t
<1>4. KeptOf(s, Names)[f] = KeptOf(t, Names)[f]
  <2>1. \A i \in 1 .. f : s[0 + i] = t[0 + i]
    BY <1>3
  <2>2. Alike(s, Names, 0, t, Names, 0, f)
    BY <1>1, <1>2, <2>1 DEF Alike
  <2>3. KeptOf(s, Names)[0] = KeptOf(t, Names)[0]
    BY <1>1, <1>2, KeptStep
  <2>4. f = 0 + f
    OBVIOUS
  <2> QED BY <2>2, <2>3, <2>4, KeptAlike
<1>5. \A i \in f + 1 .. MAX_LEN : s[i] \notin Names
  <2> TAKE i \in f + 1 .. MAX_LEN
  <2>1. i - 1 \in f .. MAX_LEN - 1 /\ i \in 1 .. MAX_LEN
    OBVIOUS
  <2> QED BY <1>1, <2>1
<1>6. KeptOf(s, Names)[MAX_LEN] = KeptOf(s, Names)[f]
  BY <1>1, <1>5, KeptSkip
<1>7. PICK g \in 1 .. MAX_LEN : g = f + 1
  OBVIOUS
<1>8. t[g] = x /\ g - 1 = f
  <2>1. g - 1 = f
    BY <1>7
  <2> QED BY <1>2, <2>1
<1>9. KeptOf(t, Names)[g] = Append(KeptOf(t, Names)[f], x)
  <2>1. t[g] \in Names /\ g \in 1 .. Len(t) /\ Len(t) \in Nat
    BY <1>2, <1>8
  <2>2. KeptOf(t, Names)[g] = Append(KeptOf(t, Names)[g - 1], t[g])
    BY <2>1, KeptStep
  <2> QED BY <1>8, <2>2
<1>10. \A i \in g + 1 .. MAX_LEN : t[i] \notin Names
  BY <1>3, <1>5, <1>7
<1>11. KeptOf(t, Names)[MAX_LEN] = KeptOf(t, Names)[g]
  <2>1. g \in 0 .. Len(t) /\ MAX_LEN \in g .. Len(t) /\ Len(t) \in Nat
    BY <1>2
  <2> QED BY <1>10, <2>1, KeptSkip
<1> QED BY <1>1, <1>2, <1>4, <1>6, <1>9, <1>11 DEF Keep, s, t

--------------------------------------------------------------------------------
\* A taken entry that moves down over free ones keeps its place among the others.
LEMMA CloseLine ==
  ASSUME NEW a \in [0 .. MAX_LEN - 1 -> Entries], NEW b \in [0 .. MAX_LEN - 1 -> Entries],
         NEW l \in 0 .. MAX_LEN - 1, NEW r \in l + 1 .. MAX_LEN - 1,
         \A i \in 0 .. MAX_LEN - 1 : i # l /\ i # r => b[i] = a[i],
         \A i \in l .. r - 1 : ~Taken(a[i]),
         Taken(a[r]), b[l] = a[r], ~Taken(b[r])
  PROVE  Keep(Line(b), Names) = Keep(Line(a), Names)
<1> USE NamesAssumption
<1> HIDE DEF Taken
<1> DEFINE s == Line(a)
           t == Line(b)
<1>1. /\ Len(s) = MAX_LEN
      /\ \A i \in 1 .. MAX_LEN :
           /\ Taken(a[i - 1]) => s[i] = a[i - 1].name /\ s[i] \in Names
           /\ ~Taken(a[i - 1]) => s[i] = Blank /\ s[i] \notin Names
  BY LineIs
<1>2. /\ Len(t) = MAX_LEN
      /\ \A i \in 1 .. MAX_LEN :
           /\ Taken(b[i - 1]) => t[i] = b[i - 1].name /\ t[i] \in Names
           /\ ~Taken(b[i - 1]) => t[i] = Blank /\ t[i] \notin Names
  BY LineIs
<1>3. \A i \in 1 .. MAX_LEN : i # l + 1 /\ i # r + 1 => s[i] = t[i]
  BY DEF Line
<1> HIDE DEF s, t
<1>4. KeptOf(s, Names)[l] = KeptOf(t, Names)[l]
  <2>1. \A i \in 1 .. l : s[0 + i] = t[0 + i]
    BY <1>3
  <2>2. Alike(s, Names, 0, t, Names, 0, l)
    BY <1>1, <1>2, <2>1 DEF Alike
  <2>3. KeptOf(s, Names)[0] = KeptOf(t, Names)[0]
    BY <1>1, <1>2, KeptStep
  <2>4. l = 0 + l
    OBVIOUS
  <2> QED BY <2>2, <2>3, <2>4, KeptAlike
<1>5. PICK g \in 1 .. MAX_LEN : g = l + 1
  OBVIOUS
<1>6. PICK h \in 1 .. MAX_LEN : h = r + 1
  OBVIOUS
<1>7. /\ t[g] = s[h] /\ s[h] \in Names /\ t[h] \notin Names /\ s[g] \notin Names
      /\ g - 1 = l /\ h - 1 = r
  <2>1. g - 1 = l /\ h - 1 = r
    BY <1>5, <1>6
  <2>2. ~Taken(a[l]) /\ Taken(b[l])
    OBVIOUS
  <2>3. s[h] = a[r].name /\ s[h] \in Names
    BY <1>1, <2>1
  <2>4. t[g] = b[l].name
    BY <1>2, <2>1, <2>2
  <2>5. t[h] \notin Names
    BY <1>2, <2>1
  <2>6. s[g] \notin Names
    BY <1>1, <2>1, <2>2
  <2> QED BY <2>1, <2>3, <2>4, <2>5, <2>6
<1>8. \A i \in l + 1 .. r : s[i] \notin Names
  <2> TAKE i \in l + 1 .. r
  <2>1. i - 1 \in l .. r - 1 /\ i \in 1 .. MAX_LEN
    OBVIOUS
  <2> QED BY <1>1, <2>1
<1>9. \A i \in g + 1 .. h : t[i] \notin Names
  <2> TAKE i \in g + 1 .. h
  <2>1. i \in 1 .. MAX_LEN /\ i # l + 1
    BY <1>5
  <2>2. CASE i = h
    BY <1>7, <2>2
  <2>3. CASE i # h
    <3>1. i # r + 1 /\ i \in l + 1 .. r
      BY <1>5, <1>6, <2>3
    <3> QED BY <1>3, <1>8, <2>1, <3>1
  <2> QED BY <2>2, <2>3
<1>10. KeptOf(s, Names)[r] = KeptOf(s, Names)[l]
  <2>1. l \in 0 .. Len(s) /\ r \in l .. Len(s) /\ Len(s) \in Nat
    BY <1>1
  <2> QED BY <1>8, <2>1, KeptSkip
<1>11. KeptOf(s, Names)[h] = Append(KeptOf(s, Names)[r], s[h])
  <2>1. KeptOf(s, Names)[h] = Append(KeptOf(s, Names)[h - 1], s[h])
    BY <1>1, <1>7, KeptStep
  <2> QED BY <1>7, <2>1
<1>12. KeptOf(t, Names)[g] = Append(KeptOf(t, Names)[l], t[g])
  <2>1. t[g] \in Names
    BY <1>7
  <2>2. KeptOf(t, Names)[g] = Append(KeptOf(t, Names)[g - 1], t[g])
    BY <1>2, <2>1, KeptStep, SMTT(30)
  <2> QED BY <1>7, <2>2
<1>13. KeptOf(t, Names)[h] = KeptOf(t, Names)[g]
  <2>1. g \in 0 .. Len(t) /\ h \in g .. Len(t) /\ Len(t) \in Nat
    BY <1>2, <1>5, <1>6
  <2> QED BY <1>9, <2>1, KeptSkip
<1>14. KeptOf(s, Names)[h] = KeptOf(t, Names)[h]
  BY <1>4, <1>7, <1>10, <1>11, <1>12, <1>13
<1>15. KeptOf(s, Names)[MAX_LEN] = KeptOf(t, Names)[MAX_LEN]
  <2>1. \A i \in 1 .. MAX_LEN - h : s[h + i] = t[h + i]
    BY <1>3, <1>6
  <2>2. Alike(s, Names, h, t, Names, h, MAX_LEN - h)
    <3>1. /\ Len(s) \in Nat /\ Len(t) \in Nat /\ h \in Nat /\ MAX_LEN - h \in Nat
          /\ h + (MAX_LEN - h) <= Len(s) /\ h + (MAX_LEN - h) <= Len(t)
      BY <1>1, <1>2
    <3> QED BY <2>1, <3>1 DEF Alike
  <2>3. MAX_LEN = h + (MAX_LEN - h)
    OBVIOUS
  <2> QED BY <1>14, <2>2, <2>3, KeptAlike
<1> QED BY <1>1, <1>2, <1>15 DEF Keep, s, t

\* The entries of a name made blank are no longer listed.
LEMMA BlankLine ==
  ASSUME NEW a \in [0 .. MAX_LEN - 1 -> Entries], NEW b \in [0 .. MAX_LEN - 1 -> Entries],
         NEW n \in Names,
         \A i \in 0 .. MAX_LEN - 1 :
           IF Taken(a[i]) /\ a[i].name = n THEN ~Taken(b[i]) ELSE b[i] = a[i]
  PROVE  Keep(Line(b), Names) = Keep(Keep(Line(a), Names), Names \ {n})
<1> USE NamesAssumption
<1> HIDE DEF Taken
<1> DEFINE s == Line(a)
           t == Line(b)
           T == Names \ {n}
<1>1. /\ s \in Seq(Names \cup {Blank}) /\ Len(s) = MAX_LEN
      /\ \A i \in 1 .. MAX_LEN :
           /\ Taken(a[i - 1]) => s[i] = a[i - 1].name /\ s[i] \in Names
           /\ ~Taken(a[i - 1]) => s[i] = Blank /\ s[i] \notin Names
  BY LineIs
<1>2. /\ Len(t) = MAX_LEN
      /\ \A i \in 1 .. MAX_LEN :
           /\ Taken(b[i - 1]) => t[i] = b[i - 1].name /\ t[i] \in Names
           /\ ~Taken(b[i - 1]) => t[i] = Blank /\ t[i] \notin Names
  BY LineIs
<1> HIDE DEF s, t
<1>3. \A i \in 1 .. MAX_LEN : /\ s[i] \in T => t[i] \in Names /\ s[i] = t[i]
                              /\ s[i] \notin T => t[i] \notin Names
  <2> TAKE i \in 1 .. MAX_LEN
  <2>1. i - 1 \in 0 .. MAX_LEN - 1
    OBVIOUS
  <2>2. CASE Taken(a[i - 1]) /\ a[i - 1].name = n
    <3>1. ~Taken(b[i - 1])
      BY <2>1, <2>2
    <3> QED BY <1>1, <1>2, <2>2, <3>1
  <2>3. CASE ~Taken(a[i - 1])
    <3>1. b[i - 1] = a[i - 1]
      BY <2>1, <2>3
    <3> QED BY <1>1, <1>2, <2>3, <3>1
  <2>4. CASE Taken(a[i - 1]) /\ a[i - 1].name # n
    <3>1. b[i - 1] = a[i - 1]
      BY <2>1, <2>4
    <3> QED BY <1>1, <1>2, <2>4, <3>1
  <2> QED BY <2>2, <2>3, <2>4
<1>4. Keep(s, T) = Keep(t, Names)
  BY <1>1, <1>2, <1>3, KeepSame
<1>5. Keep(Keep(s, Names), T) = Keep(s, Names \cap T)
  BY <1>1, KeepTwice
<1>6. Names \cap T = T
  OBVIOUS
<1> QED BY <1>4, <1>5, <1>6 DEF s, t

--------------------------------------------------------------------------------
\* The directory's own Keep is this one.
LEMMA PeopleKeep ==
  ASSUME NEW s, NEW S
  PROVE  People!Keep(s, S) = Keep(s, S)
BY DEF People!Keep, People!KeptOf, Keep, KeptOf

\* An insertion is the directory's Add, or shows nothing new.
LEMMA InsertListed ==
  ASSUME ArrayInv, ArrayInv', NEW n \in Names \cup {Blank}, NEW k \in 0 .. 2, Insert(n, k)
  PROVE  [People!Next]_Listed
<1> USE NamesAssumption
<1> DEFINE a == array
           b == array'
           f == FreeIndex
<1>1. f \in 0 .. MAX_LEN - 1 /\ ~Taken(a[f])
  BY FreeIndexIs DEF Insert
<1>2. /\ Listed = Keep(Line(a), Names) /\ Listed' = Keep(Line(b), Names)
      /\ a \in [0 .. MAX_LEN - 1 -> Entries] /\ b \in [0 .. MAX_LEN - 1 -> Entries]
  BY ListedIs, ListedNext DEF ListedAs
<1>3. b[f] = Entry(n, k) /\ \A i \in 0 .. MAX_LEN - 1 : i # f => b[i] = a[i]
  BY <1>1, <1>2 DEF Insert
<1>4. \A i \in f .. MAX_LEN - 1 : ~Taken(a[i])
  BY DEF ArrayInv, NoneBehind, End, Insert
<1>5. CASE n \in Names /\ k = 2
  <2>1. Taken(b[f]) /\ b[f].name = n
    BY <1>3, <1>5
  <2> HIDE DEF a, b, f, Taken
  <2>2. Keep(Line(b), Names) = Append(Keep(Line(a), Names), n)
    BY <1>1, <1>2, <1>3, <1>4, <1>5, <2>1, InsertLine
  <2>3. Listed' = Append(Listed, n)
    BY <1>2, <2>2
  <2> QED BY <1>5, <2>3 DEF People!Next, People!Add
<1>6. CASE ~(n \in Names /\ k = 2)
  <2>1. ~Taken(b[f])
    BY <1>3, <1>6
  <2>2. \A i \in 0 .. MAX_LEN - 1 : (Taken(b[i]) <=> Taken(a[i])) /\ (Taken(a[i]) => b[i] = a[i])
    <3> HIDE DEF Taken, a, b, f
    <3> QED BY <1>1, <1>3, <2>1
  <2>3. Line(b) = Line(a)
    <3> HIDE DEF Taken, a, b, f
    <3>1. \A i \in 1 .. MAX_LEN : i - 1 \in 0 .. MAX_LEN - 1
      OBVIOUS
    <3> QED BY <2>2, <3>1 DEF Line
  <2> QED BY <1>2, <2>3
<1> QED BY <1>5, <1>6

\* A deletion removes its name for whoever looks, when it starts.
LEMMA StartDeleteListed ==
  ASSUME ArrayInv, ArrayInv', NEW n \in Names, StartDelete(n)
  PROVE  People!Remove(n)
<1> USE NamesAssumption
<1> DEFINE a == array
           b == array'
           M == Matching(n)
<1>1. FreeIndex \in 0 .. MAX_LEN
  BY FreeIndexIs
<1>2. /\ Listed = Keep(Line(a), Names) /\ Listed' = Keep(Line(b), Names)
      /\ a \in [0 .. MAX_LEN - 1 -> Entries] /\ b \in [0 .. MAX_LEN - 1 -> Entries]
  BY ListedIs, ListedNext DEF ListedAs
<1>3. \A i \in 0 .. MAX_LEN - 1 : b[i] = IF i \in M THEN Nobody ELSE a[i]
  BY <1>2 DEF StartDelete
<1>4. n \notin TenLong
  BY DEF StartDelete, Matching, Matches
<1>5. \A i \in 0 .. MAX_LEN - 1 : i \in M <=> Taken(a[i]) /\ a[i].name = n
  <2> TAKE i \in 0 .. MAX_LEN - 1
  <2>1. i < FreeIndex => Taken(a[i])
    BY <1>1, FreeIndexIs
  <2>2. i >= FreeIndex => ~Taken(a[i])
    <3>1. \A j \in FreeIndex .. MAX_LEN - 1 : ~Taken(a[j])
      BY DEF ArrayInv, NoneBehind, End, StartDelete
    <3> HIDE DEF Taken, a
    <3> QED BY <1>1, <3>1
  <2>3. i \in M <=> i < FreeIndex /\ a[i].name = n
    BY <1>1, <1>4 DEF Matching, Matches
  <2> HIDE DEF Taken, a, M
  <2> QED BY <1>1, <2>1, <2>2, <2>3
<1>6. ~Taken(Nobody)
  OBVIOUS
<1> HIDE DEF a, b, M, Taken, Nobody
<1>7. \A i \in 0 .. MAX_LEN - 1 :
        IF Taken(a[i]) /\ a[i].name = n THEN ~Taken(b[i]) ELSE b[i] = a[i]
  BY <1>3, <1>5, <1>6
<1>8. Keep(Line(b), Names) = Keep(Keep(Line(a), Names), Names \ {n})
  BY <1>2, <1>7, BlankLine
<1> QED BY <1>2, <1>8, PeopleKeep DEF People!Remove

\* Closing a hole changes nobody's place.
LEMMA CloseListed ==
  ASSUME ArrayInv, ArrayInv', Close
  PROVE  UNCHANGED Listed
<1> USE NamesAssumption
<1> DEFINE a == array
           b == array'
           l == left
           r == right
<1>1. l \in 0 .. MAX_LEN - 1 /\ r \in l + 1 .. MAX_LEN - 1 /\ index \in 0 .. MAX_LEN /\ r < index
  BY DEF ArrayInv, LeftIsHole, TypeOK, Close
<1>2. /\ Listed = Keep(Line(a), Names) /\ Listed' = Keep(Line(b), Names)
      /\ a \in [0 .. MAX_LEN - 1 -> Entries] /\ b \in [0 .. MAX_LEN - 1 -> Entries]
  BY ListedIs, ListedNext DEF ListedAs
<1>3. /\ b[l] = a[r] /\ b[r] = Nobody /\ Taken(a[r])
      /\ \A i \in 0 .. MAX_LEN - 1 : i # l /\ i # r => b[i] = a[i]
  BY <1>1, <1>2 DEF Close
<1>4. \A i \in l .. r - 1 : a[i] = Nobody
  <2>1. \A i \in 0 .. index - 1 : i \in left .. right - 1 => array[i] = Nobody
    BY DEF ArrayInv, LeftIsHole, Close
  <2> HIDE DEF Nobody
  <2> QED BY <1>1, <2>1
<1>5. ~Taken(Nobody)
  OBVIOUS
<1> HIDE DEF a, b, l, r, Taken, Nobody
<1>6. Keep(Line(b), Names) = Keep(Line(a), Names)
  BY <1>1, <1>2, <1>3, <1>4, <1>5, CloseLine
<1> QED BY <1>2, <1>6

\* Every step of the array version adds one person at the end of the list shown,
\* takes away all of one name and nobody else, or changes nothing that shows.
THEOREM ImplementsDirectoryCorrect == BothSpec => ImplementsDirectory
<1>1. BothInit => People!Init
  <2> SUFFICES ASSUME Init PROVE Listed = <<>>
    BY DEF BothInit, People!Init
  <2>1. ArrayInv
    BY ArrayInit
  <2>2. /\ Listed = Keep(Line(array), Names)
        /\ array \in [0 .. MAX_LEN - 1 -> Entries]
    BY <2>1, ListedIs
  <2>3. \A i \in 1 .. MAX_LEN : ~Taken(array[i - 1])
    BY NamesAssumption DEF Init
  <2>4. \A i \in 1 .. Len(Line(array)) : Line(array)[i] \notin Names
    <3> HIDE DEF Taken
    <3> QED BY <2>2, <2>3, LineIs
  <2> QED BY <2>2, <2>4, LineIs, KeepNone
<1>2. ArrayInv /\ ArrayInv' /\ [UseArray \/ UseList]_allVars => [People!Next]_Listed
  <2> SUFFICES ASSUME ArrayInv, ArrayInv', [Next]_vars PROVE [People!Next]_Listed
    BY DEF UseArray, UseList, allVars
  <2>1. ASSUME array' = array PROVE UNCHANGED Listed
    <3>1. Listed' = Keep(Line(array'), Names)
      BY ListedNext DEF ListedAs
    <3>2. Line(array') = Line(array)
      BY <2>1
    <3> QED BY <3>1, <3>2, ListedIs
  <2>2. ASSUME NEW n \in Names, StartDelete(n) PROVE [People!Next]_Listed
    BY <2>2, StartDeleteListed DEF People!Next
  <2>3. ASSUME NEW n \in Names \cup {Blank}, NEW k \in 0 .. 2, Insert(n, k)
        PROVE  [People!Next]_Listed
    BY <2>3, InsertListed
  <2>4. ASSUME NEW n \in Names \cup {Blank}, NEW k \in 0 .. 2, InsertBeyond(n, k)
        PROVE  UNCHANGED Listed
    BY <2>1, <2>4 DEF InsertBeyond
  <2>5. CASE Close
    BY <2>5, CloseListed
  <2>6. CASE PassHole
    BY <2>1, <2>6 DEF PassHole
  <2>7. CASE EndDelete
    BY <2>1, <2>7 DEF EndDelete
  <2>8. CASE UNCHANGED vars
    BY <2>1, <2>8 DEF vars
  <2> QED BY <2>2, <2>3, <2>4, <2>5, <2>6, <2>7, <2>8 DEF Next
<1> QED BY <1>1, <1>2, ArrayInvCorrect, PTL DEF BothSpec, ImplementsDirectory, People!Spec

--------------------------------------------------------------------------------
\* Nobody is listed twice.
Single(s) == \A i, j \in 1 .. Len(s) : s[i] = s[j] => i = j

Members(s) == {s[i] : i \in 1 .. Len(s)}

\* The i-th node, NULL before the first and after the last.
At(s, i) == IF i \in 1 .. Len(s) THEN s[i] ELSE NULL

\* s without its i-th member.
Cut(s, i) == [j \in 1 .. Len(s) - 1 |-> IF j < i THEN s[j] ELSE s[j + 1]]

\* The nodes s with the names n, linked in that order, are the heap h that f leads to.
Chain(s, n, h, f) ==
  /\ s \in Seq(Nodes) /\ n \in Seq(Names) /\ Len(n) = Len(s)
  /\ Single(s)
  /\ DOMAIN h = Members(s)
  /\ \A i \in 1 .. Len(s) : h[s[i]] = [name |-> n[i], next |-> At(s, i + 1), pred |-> At(s, i - 1)]
  /\ f = At(s, 1)

\* List!From as a function of the heap.
Path(h) ==
  LET from[k \in Nodes \cup {NULL}] ==
        IF k \in DOMAIN h THEN <<k>> \o from[h[k].next] ELSE <<>>
  IN  from

\* The walk of DirectoryList, as a function of its heap.
LEMMA FromIsPath == List!From = Path(heap) /\ List!From' = Path(heap')
BY DEF List!From, List!Used, Path

\* What the list version assumes of its constants.
LEMMA NullIs == NULL \notin Nodes /\ NULL \notin Names /\ ListMax \in Nat
BY ListAssumption DEF List!NodesAssumption

\* A sequence from its i-th member on starts with that member.
LEMMA SubSeqFrom ==
  ASSUME NEW S, NEW s \in Seq(S), NEW i \in 1 .. Len(s)
  PROVE  <<s[i]>> \o SubSeq(s, i + 1, Len(s)) = SubSeq(s, i, Len(s))
<1> DEFINE n == Len(s)
           a == SubSeq(s, i + 1, n)
           b == SubSeq(s, i, n)
<1>1. n \in Nat /\ \A j \in 1 .. n : s[j] \in S
  BY LenProperties, ElementOfSeq
<1>2. /\ b \in Seq(S) /\ Len(b) = n - i + 1
      /\ \A j \in 1 .. n - i + 1 : b[j] = s[i + j - 1]
  BY <1>1, SubSeqProperties
<1>3. /\ a \in Seq(S) /\ Len(a) = n - i
      /\ \A j \in 1 .. n - i : a[j] = s[i + j]
  BY <1>1, SubSeqProperties
<1> DEFINE c == <<s[i]>>
<1>4. c \in Seq(S) /\ Len(c) = 1 /\ c[1] = s[i]
  BY <1>1
<1> HIDE DEF a, b, c, n
<1>5. /\ c \o a \in Seq(S) /\ Len(c \o a) = 1 + (n - i)
      /\ \A j \in 1 .. 1 + (n - i) : (c \o a)[j] = IF j <= 1 THEN c[j] ELSE a[j - 1]
  <2>1. /\ c \o a \in Seq(S) /\ Len(c \o a) = Len(c) + Len(a)
        /\ \A j \in 1 .. Len(c) + Len(a) :
             (c \o a)[j] = IF j <= Len(c) THEN c[j] ELSE a[j - Len(c)]
    BY <1>3, <1>4, ConcatProperties
  <2> QED BY <1>3, <1>4, <2>1
<1>6. \A j \in 1 .. Len(b) : (c \o a)[j] = b[j]
  <2> TAKE j \in 1 .. Len(b)
  <2>1. CASE j = 1
    <3>1. (c \o a)[1] = c[1] /\ b[1] = s[i + 1 - 1] /\ i + 1 - 1 = i
      BY <1>1, <1>2, <1>5 DEF n
    <3> QED BY <1>4, <2>1, <3>1
  <2>2. CASE j # 1
    <3>1. j - 1 \in 1 .. n - i /\ i + (j - 1) = i + j - 1 /\ ~(j <= 1)
      BY <1>1, <1>2, <2>2 DEF n
    <3>2. j \in 1 .. 1 + (n - i) /\ j \in 1 .. n - i + 1
      BY <1>1, <1>2 DEF n
    <3>3. (c \o a)[j] = a[j - 1]
      BY <1>5, <3>1, <3>2
    <3>4. a[j - 1] = s[i + (j - 1)]
      BY <1>3, <3>1
    <3>5. b[j] = s[i + j - 1]
      BY <1>2, <3>2
    <3> QED BY <3>1, <3>3, <3>4, <3>5
  <2> QED BY <2>1, <2>2
<1>7. Len(c \o a) = Len(b)
  BY <1>1, <1>2, <1>5 DEF n
<1>8. c \o a = b
  BY <1>2, <1>5, <1>6, <1>7, SeqEqual
<1> QED BY <1>8 DEF a, b, c, n

\* What a chain says of each of its nodes.
LEMMA ChainFacts ==
  ASSUME NEW s, NEW n, NEW h, NEW f, Chain(s, n, h, f)
  PROVE  /\ Len(s) \in Nat
         /\ \A i \in 1 .. Len(s) : s[i] \in Nodes /\ s[i] \in DOMAIN h /\ s[i] # NULL /\ n[i] \in Names
         /\ \A i \in 0 .. Len(s) + 1 : At(s, i) \in Nodes \cup {NULL}
         /\ At(s, 0) = NULL /\ At(s, Len(s) + 1) = NULL
         /\ \A i \in 1 .. Len(s) : At(s, i) = s[i]
         /\ \A i \in 1 .. Len(s) : /\ h[s[i]].name = n[i]
                                   /\ h[s[i]].next = At(s, i + 1)
                                   /\ h[s[i]].pred = At(s, i - 1)
<1>1. Len(s) \in Nat /\ \A i \in 1 .. Len(s) : s[i] \in Nodes /\ n[i] \in Names
  BY LenProperties, ElementOfSeq DEF Chain
<1>2. \A i \in 1 .. Len(s) : h[s[i]].name = n[i] /\ h[s[i]].next = At(s, i + 1) /\ h[s[i]].pred = At(s, i - 1)
  <2>1. \A i \in 1 .. Len(s) :
          h[s[i]] = [name |-> n[i], next |-> At(s, i + 1), pred |-> At(s, i - 1)]
    BY DEF Chain
  <2> TAKE i \in 1 .. Len(s)
  <2> DEFINE x == h[s[i]]
             a == At(s, i + 1)
             b == At(s, i - 1)
             c == n[i]
  <2>2. x = [name |-> c, next |-> a, pred |-> b]
    BY <2>1
  <2> HIDE DEF x, a, b, c
  <2>3. x.name = c /\ x.next = a /\ x.pred = b
    BY <2>2
  <2> QED BY <2>3 DEF x, a, b, c
<1>3. \A i \in 1 .. Len(s) : s[i] \in DOMAIN h
  BY DEF Chain, Members
<1> QED BY <1>1, <1>2, <1>3, NullIs DEF At

\* Following the links from the first node gives the chain.
LEMMA PathIs ==
  ASSUME NEW s, NEW n, NEW h, NEW f, Chain(s, n, h, f)
  PROVE  Path(h)[f] = s
<1> DEFINE N == Len(s)
           H(g) == [k \in Nodes \cup {NULL} |->
                      IF k \in DOMAIN h THEN <<k>> \o g[h[k].next] ELSE <<>>]
           pos(k) == CHOOSE i \in 1 .. N : s[i] = k
           g0 == [k \in Nodes \cup {NULL} |->
                    IF k \in DOMAIN h THEN SubSeq(s, pos(k), N) ELSE <<>>]
<1>1. N \in Nat /\ s \in Seq(Nodes) /\ \A i, j \in 1 .. N : s[i] = s[j] => i = j
  BY ChainFacts DEF Chain, Single
<1>2. \A i \in 1 .. N : pos(s[i]) = i
  BY <1>1
<1>3. \A k \in DOMAIN h : \E i \in 1 .. N : k = s[i]
  BY DEF Chain, Members
<1>4. NULL \notin DOMAIN h
  BY <1>3, ChainFacts
<1>5. SubSeq(s, N + 1, N) = <<>>
  BY <1>1, SubSeqProperties
<1>6. g0 = H(g0)
  <2> SUFFICES ASSUME NEW k \in Nodes \cup {NULL}, k \in DOMAIN h
               PROVE  SubSeq(s, pos(k), N) = <<k>> \o g0[h[k].next]
    <3> DEFINE A(k) == IF k \in DOMAIN h THEN SubSeq(s, pos(k), N) ELSE <<>>
               B(k) == IF k \in DOMAIN h THEN <<k>> \o g0[h[k].next] ELSE <<>>
    <3>1. \A k \in Nodes \cup {NULL} : A(k) = B(k)
      <4> HIDE DEF g0, pos
      <4> QED OBVIOUS
    <3> HIDE DEF A, B
    <3>2. [k \in Nodes \cup {NULL} |-> A(k)] = [k \in Nodes \cup {NULL} |-> B(k)]
      BY <3>1
    <3> QED BY <3>2 DEF A, B
  <2>1. PICK i \in 1 .. N : k = s[i]
    BY <1>3
  <2>2. pos(k) = i
    BY <1>2, <2>1
  <2>3. h[k].next = At(s, i + 1) /\ At(s, i + 1) \in Nodes \cup {NULL}
    BY <1>1, <2>1, ChainFacts
  <2>4. g0[At(s, i + 1)] = SubSeq(s, i + 1, N)
    <3>1. CASE i = N
      <4>1. At(s, i + 1) = NULL
        BY <1>1, <3>1, ChainFacts
      <4>2. g0[NULL] = <<>>
        BY <1>4
      <4> QED BY <1>5, <3>1, <4>1, <4>2
    <3>2. CASE i # N
      <4>1. i + 1 \in 1 .. N
        BY <1>1, <3>2
      <4>2. At(s, i + 1) = s[i + 1] /\ s[i + 1] \in Nodes /\ s[i + 1] \in DOMAIN h
        BY <4>1, ChainFacts
      <4>3. g0[s[i + 1]] = SubSeq(s, pos(s[i + 1]), N)
        BY <4>2
      <4>4. pos(s[i + 1]) = i + 1
        BY <1>2, <4>1
      <4> QED BY <4>2, <4>3, <4>4
    <3> QED BY <3>1, <3>2
  <2>5. <<s[i]>> \o SubSeq(s, i + 1, N) = SubSeq(s, i, N)
    BY <1>1, SubSeqFrom, SMTT(30)
  <2> HIDE DEF g0, pos
  <2> QED BY <2>1, <2>2, <2>3, <2>4, <2>5
<1>7. Path(h) = CHOOSE g : g = H(g)
  BY SMTT(30) DEF Path
<1> HIDE DEF g0, pos
<1>8. Path(h) = H(Path(h))
  BY <1>6, <1>7
<1> DEFINE P == Path(h)
<1>9. \A k \in Nodes \cup {NULL} : P[k] = IF k \in DOMAIN h THEN <<k>> \o P[h[k].next] ELSE <<>>
  BY <1>8
<1> HIDE DEF P
<1> DEFINE G == {m \in 0 .. N : P[At(s, N + 1 - m)] = SubSeq(s, N + 1 - m, N)}
<1>10. 0 \in G
  <2>1. N + 1 - 0 = N + 1 /\ At(s, N + 1) = NULL
    BY <1>1, ChainFacts
  <2>2. P[NULL] = <<>>
    BY <1>4, <1>9
  <2>3. P[At(s, N + 1 - 0)] = SubSeq(s, N + 1 - 0, N)
    BY <1>5, <2>1, <2>2
  <2> QED BY <1>1, <2>3
<1>11. ASSUME NEW m \in 1 .. N, m - 1 \in G PROVE m \in G
  <2>0. N + 1 - m \in 1 .. N
    BY <1>1
  <2>1. PICK i \in 1 .. N : N + 1 - m = i
    BY <2>0
  <2>2. N + 1 - (m - 1) = i + 1
    BY <1>1, <2>1
  <2>3. P[At(s, i + 1)] = SubSeq(s, i + 1, N)
    BY <1>11, <2>2
  <2>4. At(s, i) = s[i] /\ s[i] \in Nodes /\ s[i] \in DOMAIN h /\ h[s[i]].next = At(s, i + 1)
    BY ChainFacts
  <2>5. P[s[i]] = <<s[i]>> \o P[At(s, i + 1)]
    BY <1>9, <2>4
  <2>6. P[s[i]] = SubSeq(s, i, N)
    BY <1>1, <2>3, <2>5, SubSeqFrom
  <2> QED BY <2>1, <2>4, <2>6
<1> HIDE DEF G
<1>12. \A m \in 1 .. N : m - 1 \in G => m \in G
  BY <1>11
<1>13. \A m \in 0 .. N : m \in G
  BY <1>1, <1>10, <1>12, UpTo
<1>14. N \in G
  BY <1>1, <1>13
<1>15. P[At(s, 1)] = SubSeq(s, 1, N)
  <2>1. N + 1 - N = 1
    BY <1>1
  <2> QED BY <1>14, <2>1 DEF G
<1>16. SubSeq(s, 1, N) = s
  BY <1>1, SubSeqFull
<1> QED BY <1>15, <1>16 DEF P, Chain

--------------------------------------------------------------------------------
\* A new last node.
LEMMA ChainGrows ==
  ASSUME NEW s, NEW n, NEW h, NEW f, Chain(s, n, h, f),
         NEW k \in Nodes, k \notin DOMAIN h, NEW x \in Names, NEW g, NEW e,
         DOMAIN g = DOMAIN h \cup {k},
         g[k] = [name |-> x, next |-> NULL, pred |-> At(s, Len(s))],
         \A i \in 1 .. Len(s) :
           g[s[i]] = [name |-> n[i], next |-> IF i = Len(s) THEN k ELSE At(s, i + 1),
                      pred |-> At(s, i - 1)],
         e = IF Len(s) = 0 THEN k ELSE f
  PROVE  Chain(Append(s, k), Append(n, x), g, e)
<1> DEFINE t == Append(s, k)
           m == Append(n, x)
           N == Len(s)
<1>1. /\ s \in Seq(Nodes) /\ n \in Seq(Names) /\ Len(n) = N /\ N \in Nat
      /\ \A i, j \in 1 .. N : s[i] = s[j] => i = j
      /\ DOMAIN h = Members(s) /\ f = At(s, 1)
  BY ChainFacts DEF Chain, Single
<1>2. t \in Seq(Nodes) /\ Len(t) = N + 1 /\ t[N + 1] = k /\ \A i \in 1 .. N : t[i] = s[i]
  BY <1>1, AppendProperties
<1>3. m \in Seq(Names) /\ Len(m) = N + 1 /\ m[N + 1] = x /\ \A i \in 1 .. N : m[i] = n[i]
  BY <1>1, AppendProperties
<1> HIDE DEF t, m
<1>4. \A i \in 1 .. N : s[i] # k
  BY <1>1 DEF Members
<1>5. Single(t)
  <2> SUFFICES ASSUME NEW i \in 1 .. N + 1, NEW j \in 1 .. N + 1, t[i] = t[j] PROVE i = j
    BY <1>2 DEF Single
  <2>1. CASE i \in 1 .. N /\ j \in 1 .. N
    BY <1>1, <1>2, <2>1
  <2>2. CASE i = N + 1 /\ j = N + 1
    BY <2>2
  <2>3. CASE i \in 1 .. N /\ j = N + 1
    BY <1>2, <1>4, <2>3
  <2>4. CASE i = N + 1 /\ j \in 1 .. N
    BY <1>2, <1>4, <2>4
  <2>5. \A q \in 1 .. N + 1 : q \in 1 .. N \/ q = N + 1
    BY <1>1
  <2> QED BY <2>1, <2>2, <2>3, <2>4, <2>5
<1>6. DOMAIN g = Members(t)
  <2>1. Members(t) \subseteq Members(s) \cup {k}
    <3> SUFFICES ASSUME NEW i \in 1 .. N + 1 PROVE t[i] \in Members(s) \cup {k}
      BY <1>2 DEF Members
    <3>1. CASE i \in 1 .. N
      BY <1>2, <3>1 DEF Members
    <3>2. CASE i = N + 1
      BY <1>2, <3>2
    <3> QED BY <1>1, <3>1, <3>2
  <2>2. Members(s) \cup {k} \subseteq Members(t)
    <3>1. N + 1 \in 1 .. N + 1 /\ \A i \in 1 .. N : i \in 1 .. N + 1
      BY <1>1
    <3>2. k \in Members(t)
      BY <1>2, <3>1 DEF Members
    <3>3. \A i \in 1 .. N : s[i] \in Members(t)
      BY <1>2, <3>1 DEF Members
    <3> QED BY <3>2, <3>3 DEF Members
  <2> QED BY <1>1, <2>1, <2>2
<1>7. /\ \A i \in 0 .. N : At(t, i) = At(s, i)
      /\ At(t, N + 1) = k /\ At(t, N + 2) = NULL
  <2>1. \A i \in 0 .. N : i \in 1 .. Len(t) <=> i \in 1 .. N
    BY <1>1, <1>2
  <2>2. N + 1 \in 1 .. Len(t) /\ N + 2 \notin 1 .. Len(t)
    BY <1>1, <1>2
  <2> QED BY <1>2, <2>1, <2>2 DEF At
<1>8. \A i \in 1 .. N + 1 :
        g[t[i]] = [name |-> m[i], next |-> At(t, i + 1), pred |-> At(t, i - 1)]
  <2> TAKE i \in 1 .. N + 1
  <2>1. CASE i = N + 1
    <3>1. i - 1 = N /\ i + 1 = N + 2 /\ N \in 0 .. N
      BY <1>1, <2>1
    <3>2. t[i] = k /\ m[i] = x /\ At(t, i + 1) = NULL /\ At(t, i - 1) = At(s, N)
      BY <1>2, <1>3, <1>7, <2>1, <3>1
    <3> QED BY <3>2
  <2>2. CASE i \in 1 .. N
    <3>1. t[i] = s[i] /\ m[i] = n[i]
      BY <1>2, <1>3, <2>2
    <3>2. At(t, i - 1) = At(s, i - 1)
      <4>1. i - 1 \in 0 .. N
        BY <1>1, <2>2
      <4> QED BY <1>7, <4>1
    <3>3. At(t, i + 1) = IF i = N THEN k ELSE At(s, i + 1)
      <4>1. i # N => i + 1 \in 0 .. N
        BY <1>1, <2>2
      <4> QED BY <1>7, <4>1
    <3> QED BY <2>2, <3>1, <3>2, <3>3
  <2> QED BY <1>1, <2>1, <2>2
<1>9. e = At(t, 1)
  <2>1. CASE N = 0
    BY <1>7, <2>1
  <2>2. CASE N # 0
    <3>1. 1 \in 0 .. N
      BY <1>1, <2>2
    <3> QED BY <1>1, <1>7, <2>2, <3>1
  <2> QED BY <2>1, <2>2
<1> QED BY <1>2, <1>3, <1>5, <1>6, <1>8, <1>9 DEF Chain, t, m

\* What is left when the i-th member of a sequence goes.
LEMMA CutIs ==
  ASSUME NEW S, NEW s \in Seq(S), NEW i \in 1 .. Len(s)
  PROVE  /\ Cut(s, i) \in Seq(S)
         /\ Len(Cut(s, i)) = Len(s) - 1
         /\ \A j \in 1 .. Len(s) - 1 : Cut(s, i)[j] = IF j < i THEN s[j] ELSE s[j + 1]
<1>1. Len(s) \in Nat /\ Len(s) - 1 \in Nat /\ \A j \in 1 .. Len(s) : s[j] \in S
  <2>1. Len(s) \in Nat /\ \A j \in 1 .. Len(s) : s[j] \in S
    BY LenProperties, ElementOfSeq
  <2> QED BY <2>1
<1>2. \A j \in 1 .. Len(s) - 1 : j \in 1 .. Len(s) /\ j + 1 \in 1 .. Len(s)
  BY <1>1
<1>3. Cut(s, i) \in [1 .. Len(s) - 1 -> S]
  BY <1>1, <1>2 DEF Cut
<1>4. \A j \in 1 .. Len(s) - 1 : Cut(s, i)[j] = IF j < i THEN s[j] ELSE s[j + 1]
  BY DEF Cut
<1> QED BY <1>1, <1>3, <1>4, FunctionIsSeq

\* g and e are the heap h and its first node f without the i-th node of the chain.
Unlinked(s, n, h, f, i, g, e) ==
  /\ i \in 1 .. Len(s)
  /\ DOMAIN g = DOMAIN h \ {s[i]}
  /\ \A j \in 1 .. Len(s) : j # i =>
       g[s[j]] = [name |-> n[j],
                  next |-> IF j = i - 1 THEN At(s, i + 1) ELSE At(s, j + 1),
                  pred |-> IF j = i + 1 THEN At(s, i - 1) ELSE At(s, j - 1)]
  /\ e = IF i = 1 THEN At(s, 2) ELSE f

\* A node taken out, its neighbours linked to each other.
LEMMA ChainShrinks ==
  ASSUME NEW s, NEW n, NEW h, NEW f, NEW i, NEW g, NEW e,
         Chain(s, n, h, f), Unlinked(s, n, h, f, i, g, e)
  PROVE  /\ Chain(Cut(s, i), Cut(n, i), g, e)
         /\ At(Cut(s, i), i) = At(s, i + 1)
<1> DEFINE t == Cut(s, i)
           m == Cut(n, i)
           N == Len(s)
<1>0. /\ i \in 1 .. N
      /\ DOMAIN g = DOMAIN h \ {s[i]}
      /\ \A j \in 1 .. N : j # i =>
           g[s[j]] = [name |-> n[j],
                      next |-> IF j = i - 1 THEN At(s, i + 1) ELSE At(s, j + 1),
                      pred |-> IF j = i + 1 THEN At(s, i - 1) ELSE At(s, j - 1)]
      /\ e = IF i = 1 THEN At(s, 2) ELSE f
  BY DEF Unlinked
<1> USE <1>0
<1>1. /\ s \in Seq(Nodes) /\ n \in Seq(Names) /\ Len(n) = N /\ N \in Nat
      /\ \A j, k \in 1 .. N : s[j] = s[k] => j = k
      /\ DOMAIN h = Members(s) /\ f = At(s, 1)
  BY ChainFacts DEF Chain, Single
<1>2. /\ t \in Seq(Nodes) /\ Len(t) = N - 1
      /\ \A j \in 1 .. N - 1 : t[j] = IF j < i THEN s[j] ELSE s[j + 1]
  BY <1>1, CutIs
<1>3. /\ m \in Seq(Names) /\ Len(m) = N - 1
      /\ \A j \in 1 .. N - 1 : m[j] = IF j < i THEN n[j] ELSE n[j + 1]
  BY <1>1, CutIs
<1> HIDE DEF t, m
<1>4. \A j \in 1 .. N - 1 : \E k \in 1 .. N : k # i /\ k = (IF j < i THEN j ELSE j + 1)
  BY <1>1
<1>5. Single(t)
  <2> SUFFICES ASSUME NEW j \in 1 .. N - 1, NEW k \in 1 .. N - 1, t[j] = t[k] PROVE j = k
    BY <1>2 DEF Single
  <2>1. PICK a \in 1 .. N : a = IF j < i THEN j ELSE j + 1
    BY <1>4
  <2>2. PICK b \in 1 .. N : b = IF k < i THEN k ELSE k + 1
    BY <1>4
  <2>3. t[j] = s[a] /\ t[k] = s[b]
    BY <1>2, <2>1, <2>2
  <2>4. a = b
    BY <1>1, <2>3
  <2> QED BY <1>1, <2>1, <2>2, <2>4
<1>6. \A j \in 1 .. N - 1 : t[j] \in Members(s) \ {s[i]}
  <2> TAKE j \in 1 .. N - 1
  <2>1. PICK a \in 1 .. N : a # i /\ a = IF j < i THEN j ELSE j + 1
    BY <1>4
  <2>2. t[j] = s[a]
    BY <1>2, <2>1
  <2>3. s[a] # s[i] /\ s[a] \in Members(s)
    BY <1>1, <2>1 DEF Members
  <2> QED BY <2>2, <2>3
<1>7. \A a \in 1 .. N : a # i => \E j \in 1 .. N - 1 : t[j] = s[a]
  <2> SUFFICES ASSUME NEW a \in 1 .. N, a # i PROVE \E j \in 1 .. N - 1 : t[j] = s[a]
    OBVIOUS
  <2>1. CASE a < i
    <3>1. a \in 1 .. N - 1
      BY <1>1, <2>1
    <3> QED BY <1>2, <2>1, <3>1
  <2>2. CASE a > i
    <3>1. a - 1 \in 1 .. N - 1 /\ ~(a - 1 < i) /\ (a - 1) + 1 = a
      BY <1>1, <2>2
    <3> QED BY <1>2, <3>1
  <2> QED BY <1>1, <2>1, <2>2
<1>8. DOMAIN g = Members(t)
  <2>1. Members(t) \subseteq Members(s) \ {s[i]}
    BY <1>2, <1>6, SMTT(30) DEF Members
  <2>2. ASSUME NEW x \in Members(s), x # s[i] PROVE x \in Members(t)
    <3>1. PICK a \in 1 .. N : s[a] = x
      BY DEF Members
    <3>2. PICK j \in 1 .. N - 1 : t[j] = s[a]
      BY <1>7, <2>2, <3>1
    <3> QED BY <1>2, <3>1, <3>2 DEF Members
  <2> QED BY <1>1, <2>1, <2>2
<1>9. \A j \in 0 .. N : At(t, j) = IF j < i THEN At(s, j) ELSE At(s, j + 1)
  <2> TAKE j \in 0 .. N
  <2>1. CASE j \in 1 .. N - 1
    <3>1. j \in 1 .. N /\ j + 1 \in 1 .. N
      BY <1>1, <2>1
    <3> QED BY <1>2, <2>1, <3>1 DEF At
  <2>2. CASE j = 0
    <3>1. j < i /\ j \notin 1 .. Len(t) /\ j \notin 1 .. N
      BY <2>2
    <3> QED BY <3>1 DEF At
  <2>3. CASE j = N
    <3>1. ~(j < i) /\ j \notin 1 .. Len(t) /\ j + 1 \notin 1 .. N
      BY <1>1, <1>2, <2>3
    <3> QED BY <3>1 DEF At
  <2> QED BY <1>1, <2>1, <2>2, <2>3
<1>10. \A j \in 1 .. N - 1 :
         g[t[j]] = [name |-> m[j], next |-> At(t, j + 1), pred |-> At(t, j - 1)]
  <2> TAKE j \in 1 .. N - 1
  <2>0. j + 1 \in 0 .. N /\ j - 1 \in 0 .. N /\ j + 1 + 1 = j + 2 /\ j + 1 - 1 = j /\ j - 1 + 1 = j
    BY <1>1
  <2>1. CASE j < i
    <3>1. j \in 1 .. N /\ j # i /\ j # i + 1 /\ j - 1 < i
      BY <1>1, <2>1
    <3>2. t[j] = s[j] /\ m[j] = n[j]
      BY <1>2, <1>3, <2>1
    <3>3. At(t, j - 1) = At(s, j - 1)
      BY <1>9, <2>0, <3>1
    <3>4. At(t, j + 1) = IF j = i - 1 THEN At(s, i + 1) ELSE At(s, j + 1)
      <4>1. CASE j = i - 1
        <5>1. ~(j + 1 < i) /\ j + 1 + 1 = i + 1
          BY <4>1
        <5> QED BY <1>9, <2>0, <4>1, <5>1
      <4>2. CASE j # i - 1
        <5>1. j + 1 < i
          BY <2>1, <4>2
        <5> QED BY <1>9, <2>0, <4>2, <5>1
      <4> QED BY <4>1, <4>2
    <3> QED BY <3>1, <3>2, <3>3, <3>4
  <2>2. CASE ~(j < i)
    <3>1. PICK a \in 1 .. N : j + 1 = a
      BY <1>1
    <3>2. a # i /\ a # i - 1 /\ a - 1 = j /\ ~(j + 1 < i)
      BY <2>2, <3>1
    <3>3. t[j] = s[a] /\ m[j] = n[a]
      BY <1>2, <1>3, <2>2, <3>1
    <3>4. At(t, j + 1) = At(s, a + 1)
      BY <1>9, <2>0, <3>1, <3>2
    <3>5. At(t, j - 1) = IF a = i + 1 THEN At(s, i - 1) ELSE At(s, a - 1)
      <4>1. CASE a = i + 1
        <5>1. j - 1 < i /\ j - 1 = i - 1
          BY <3>1, <4>1
        <5> QED BY <1>9, <2>0, <4>1, <5>1
      <4>2. CASE a # i + 1
        <5>1. ~(j - 1 < i) /\ j - 1 + 1 = a - 1
          BY <2>2, <3>1, <4>2
        <5> QED BY <1>9, <2>0, <4>2, <5>1
      <4> QED BY <4>1, <4>2
    <3> QED BY <3>2, <3>3, <3>4, <3>5
  <2> QED BY <2>1, <2>2
<1>11. e = At(t, 1)
  <2>1. 1 \in 0 .. N /\ 1 + 1 = 2 /\ (i = 1 <=> ~(1 < i))
    BY <1>1
  <2> QED BY <1>1, <1>9, <2>1
<1>12. At(t, i) = At(s, i + 1)
  <2>1. i \in 0 .. N /\ ~(i < i)
    BY <1>1
  <2> QED BY <1>9, <2>1
<1> QED BY <1>2, <1>3, <1>5, <1>8, <1>10, <1>11, <1>12 DEF Chain, t, m

--------------------------------------------------------------------------------
\* The list version's whole state: the chain, and how far a walk for w has come.
ShapeOf(s, n, h, f, z, c, w) ==
  /\ Chain(s, n, h, f)
  /\ z = Len(s) /\ Len(s) <= ListMax + 1
  /\ w \in Names \cup {NULL}
  /\ w = NULL => c = NULL
  /\ w # NULL => \E i \in 1 .. Len(s) + 1 : At(s, i) = c /\ \A j \in 1 .. i - 1 : n[j] # w

Shape(s, n) == ShapeOf(s, n, heap, first, size, current, wanted)
ShapeNext(s, n) == ShapeOf(s, n, heap', first', size', current', wanted')

\* What is shown of the names while w is being removed.
Shown(n, w) == Keep(n, Names \ {w})

\* The list starts empty.
LEMMA ListInitShape ==
  ASSUME List!Init PROVE Shape(<<>>, <<>>) /\ Shown(<<>>, wanted) = <<>>
<1>1. Len(<<>>) = 0 /\ <<>> \in Seq(Nodes) /\ <<>> \in Seq(Names)
  BY EmptySeq
<1>2. Shown(<<>>, wanted) = <<>>
  BY <1>1, KeepNone DEF Shown
<1>3. DOMAIN heap = {} /\ Members(<<>>) = {} /\ Single(<<>>)
  BY <1>1 DEF List!Init, Members, Single
<1>4. At(<<>>, 1) = NULL
  BY <1>1 DEF At
<1> QED BY <1>1, <1>2, <1>3, <1>4, NullIs DEF Shape, ShapeOf, Chain, List!Init

\* Links are NULL at the two ends and only there.
LEMMA Ends ==
  ASSUME NEW s, NEW n, NEW h, NEW f, Chain(s, n, h, f)
  PROVE  /\ f = NULL <=> Len(s) = 0
         /\ \A i \in 1 .. Len(s) : /\ At(s, i + 1) = NULL <=> i = Len(s)
                                   /\ At(s, i - 1) = NULL <=> i = 1
                                   /\ At(s, i) = s[i]
<1>1. Len(s) \in Nat /\ f = At(s, 1) /\ \A i \in 1 .. Len(s) : s[i] # NULL
  BY ChainFacts DEF Chain
<1>2. f = NULL <=> Len(s) = 0
  BY <1>1 DEF At
<1>3. ASSUME NEW i \in 1 .. Len(s)
      PROVE  /\ At(s, i + 1) = NULL <=> i = Len(s)
             /\ At(s, i - 1) = NULL <=> i = 1
             /\ At(s, i) = s[i]
  <2>1. i # Len(s) => i + 1 \in 1 .. Len(s)
    BY <1>1
  <2>2. i = Len(s) => i + 1 \notin 1 .. Len(s)
    BY <1>1
  <2>3. i # 1 => i - 1 \in 1 .. Len(s)
    BY <1>1
  <2>4. i = 1 => i - 1 \notin 1 .. Len(s)
    BY <1>1
  <2> QED BY <1>1, <2>1, <2>2, <2>3, <2>4 DEF At
<1> QED BY <1>2, <1>3

\* Where the walk is.
LEMMA Here ==
  ASSUME NEW s, NEW n, Shape(s, n), current # NULL
  PROVE  \E i \in 1 .. Len(s) :
           /\ current = s[i] /\ wanted \in Names /\ \A j \in 1 .. i - 1 : n[j] # wanted
           /\ heap[current].name = n[i]
           /\ heap[current].next = At(s, i + 1) /\ heap[current].pred = At(s, i - 1)
<1>1. Chain(s, n, heap, first)
  BY DEF Shape, ShapeOf
<1>2. wanted # NULL /\ wanted \in Names
  BY DEF Shape, ShapeOf
<1>3. PICK i \in 1 .. Len(s) + 1 : At(s, i) = current /\ \A j \in 1 .. i - 1 : n[j] # wanted
  BY <1>2 DEF Shape, ShapeOf
<1>4. i # Len(s) + 1
  BY <1>1, <1>3, ChainFacts
<1>5. i \in 1 .. Len(s)
  BY <1>1, <1>4, ChainFacts
<1>6. current = s[i]
  BY <1>1, <1>3, <1>5, ChainFacts
<1>7. /\ heap[s[i]].name = n[i] /\ heap[s[i]].next = At(s, i + 1)
      /\ heap[s[i]].pred = At(s, i - 1)
  BY <1>1, <1>5, ChainFacts
<1> QED BY <1>2, <1>3, <1>5, <1>6, <1>7

\* A deletion that starts changes no link; it hides the name it is after.
LEMMA StartDeleteShape ==
  ASSUME NEW s, NEW n, Shape(s, n), NEW x \in Names, List!StartDelete(x)
  PROVE  ShapeNext(s, n) /\ Shown(n, wanted') = Keep(Shown(n, wanted), Names \ {x})
<1>1. Chain(s, n, heap, first) /\ wanted = NULL
  BY DEF Shape, ShapeOf, List!StartDelete
<1>2. Len(s) \in Nat /\ first = At(s, 1) /\ n \in Seq(Names) /\ x # NULL
  BY <1>1, ChainFacts, NullIs DEF Chain
<1>3. /\ wanted' = x /\ current' = At(s, 1) /\ heap' = heap /\ first' = first /\ size' = size
  BY <1>2 DEF List!StartDelete
<1>4. \E i \in 1 .. Len(s) + 1 : At(s, i) = current' /\ \A j \in 1 .. i - 1 : n[j] # wanted'
  <2>1. 1 \in 1 .. Len(s) + 1 /\ 1 .. 1 - 1 = {}
    BY <1>2
  <2> QED BY <1>3, <2>1
<1>5. ShapeNext(s, n)
  BY <1>2, <1>3, <1>4 DEF Shape, ShapeNext, ShapeOf
<1>6. Names \ {NULL} = Names /\ Names \cap (Names \ {x}) = Names \ {x}
  BY NullIs
<1>7. Keep(Keep(n, Names), Names \ {x}) = Keep(n, Names \cap (Names \ {x}))
  BY <1>2, KeepTwice
<1> QED BY <1>1, <1>3, <1>5, <1>6, <1>7 DEF Shown

\* The walk passes a node of another name.
LEMMA SkipShape ==
  ASSUME NEW s, NEW n, Shape(s, n), List!Skip
  PROVE  ShapeNext(s, n) /\ wanted' = wanted
<1>1. PICK i \in 1 .. Len(s) :
        /\ current = s[i] /\ wanted \in Names /\ \A j \in 1 .. i - 1 : n[j] # wanted
        /\ heap[current].name = n[i]
        /\ heap[current].next = At(s, i + 1)
  BY Here DEF List!Skip
<1>2. Len(s) \in Nat /\ wanted # NULL
  BY <1>1, ChainFacts, NullIs DEF Shape, ShapeOf
<1>3. /\ wanted' = wanted /\ current' = At(s, i + 1) /\ heap' = heap /\ first' = first
      /\ size' = size /\ n[i] # wanted
  BY <1>1 DEF List!Skip
<1>4. \E k \in 1 .. Len(s) + 1 : At(s, k) = current' /\ \A j \in 1 .. k - 1 : n[j] # wanted'
  <2>1. i + 1 \in 1 .. Len(s) + 1
    BY <1>2
  <2>2. \A j \in 1 .. i + 1 - 1 : n[j] # wanted
    <3>1. \A j \in 1 .. i + 1 - 1 : j \in 1 .. i - 1 \/ j = i
      BY <1>2
    <3> QED BY <1>1, <1>3, <3>1
  <2> QED BY <1>3, <2>1, <2>2
<1> QED BY <1>2, <1>3, <1>4 DEF Shape, ShapeNext, ShapeOf

\* At the end of the walk no node of the wanted name is left.
LEMMA EndDeleteShape ==
  ASSUME NEW s, NEW n, Shape(s, n), List!EndDelete
  PROVE  ShapeNext(s, n) /\ Shown(n, wanted') = Shown(n, wanted)
<1>1. /\ wanted # NULL /\ current = NULL /\ wanted' = NULL
      /\ heap' = heap /\ first' = first /\ size' = size /\ current' = current
  BY DEF List!EndDelete
<1>2. Chain(s, n, heap, first)
  BY DEF Shape, ShapeOf
<1>3. Len(s) \in Nat /\ Len(n) = Len(s) /\ \A i \in 1 .. Len(s) : n[i] \in Names
  BY <1>2, ChainFacts DEF Chain
<1>4. \A j \in 1 .. Len(s) : n[j] # wanted
  <2>1. PICK i \in 1 .. Len(s) + 1 : At(s, i) = NULL /\ \A j \in 1 .. i - 1 : n[j] # wanted
    BY <1>1 DEF Shape, ShapeOf
  <2>2. i \notin 1 .. Len(s)
    BY <1>2, <2>1, ChainFacts
  <2>3. i - 1 = Len(s)
    BY <1>3, <2>2
  <2> QED BY <2>1, <2>3
<1>5. Keep(n, Names \ {NULL}) = Keep(n, Names \ {wanted})
  BY <1>3, <1>4, NullIs, KeepSame
<1>6. ShapeNext(s, n)
  BY <1>1 DEF Shape, ShapeNext, ShapeOf
<1> QED BY <1>1, <1>5, <1>6 DEF Shown

--------------------------------------------------------------------------------
\* An insertion puts one node behind the last.
LEMMA InsertShape ==
  ASSUME NEW s, NEW n, Shape(s, n), NEW x \in Names, NEW k \in Nodes, List!Insert(x, k)
  PROVE  \E t, m : ShapeNext(t, m) /\ Shown(m, wanted') = Append(Shown(n, wanted), x)
<1> DEFINE N == Len(s)
           t == Append(s, k)
           m == Append(n, x)
<1>1. Chain(s, n, heap, first) /\ wanted = NULL /\ current = NULL /\ size = N
  BY DEF Shape, ShapeOf, List!Insert
<1>2. /\ N \in Nat /\ n \in Seq(Names) /\ s \in Seq(Nodes) /\ Len(n) = N
      /\ N <= ListMax /\ k \notin DOMAIN heap
      /\ \A i \in 1 .. N : s[i] # k /\ s[i] \in DOMAIN heap
      /\ first = NULL <=> N = 0
      /\ DOMAIN heap = Members(s)
  <2>1. N \in Nat /\ n \in Seq(Names) /\ s \in Seq(Nodes) /\ Len(n) = N /\ DOMAIN heap = Members(s)
    BY <1>1, ChainFacts DEF Chain
  <2>2. N <= ListMax /\ k \notin DOMAIN heap
    BY <1>1 DEF List!Insert, List!Used
  <2>3. \A i \in 1 .. N : s[i] # k /\ s[i] \in DOMAIN heap
    BY <1>1, <2>2, ChainFacts
  <2> QED BY <1>1, <2>1, <2>2, <2>3, Ends
<1>3. \A i \in 1 .. N : heap[s[i]] = [name |-> n[i], next |-> At(s, i + 1), pred |-> At(s, i - 1)]
  BY <1>1 DEF Chain
<1>4. /\ DOMAIN heap' = DOMAIN heap \cup {k}
      /\ heap'[k] = [name |-> x, next |-> NULL, pred |-> At(s, N)]
      /\ \A i \in 1 .. N :
           heap'[s[i]] = [name |-> n[i], next |-> IF i = N THEN k ELSE At(s, i + 1),
                          pred |-> At(s, i - 1)]
      /\ first' = IF N = 0 THEN k ELSE first
  <2>1. CASE N = 0
    <3>1. /\ heap' = [y \in DOMAIN heap \cup {k} |->
                        IF y = k THEN [name |-> x, next |-> NULL, pred |-> NULL] ELSE heap[y]]
          /\ first' = k
      BY <1>2, <2>1 DEF List!Insert, List!With, List!Node
    <3>2. At(s, N) = NULL
      BY <2>1 DEF At
    <3> QED BY <2>1, <3>1, <3>2
  <2>2. CASE N # 0
    <3>1. N \in 1 .. N
      BY <1>2, <2>2
    <3>2. List!LastNode = s[N] /\ At(s, N) = s[N]
      <4>1. List!From[first] = s
        BY <1>1, FromIsPath, PathIs
      <4> QED BY <3>1, <4>1 DEF List!LastNode, At
    <3> DEFINE g == [heap EXCEPT ![s[N]].next = k]
    <3>3. /\ heap' = [y \in DOMAIN g \cup {k} |->
                        IF y = k THEN [name |-> x, next |-> NULL, pred |-> s[N]] ELSE g[y]]
          /\ first' = first
      BY <1>2, <2>2, <3>2 DEF List!Insert, List!With, List!Node
    <3>4. DOMAIN g = DOMAIN heap
      OBVIOUS
    <3>5. \A i \in 1 .. N :
            g[s[i]] = [name |-> n[i], next |-> IF i = N THEN k ELSE At(s, i + 1),
                       pred |-> At(s, i - 1)]
      <4> TAKE i \in 1 .. N
      <4>1. CASE i = N
        <5>1. g[s[N]] = [heap[s[N]] EXCEPT !.next = k]
          BY <1>2, <3>1
        <5>2. heap[s[N]] = [name |-> n[N], next |-> At(s, N + 1), pred |-> At(s, N - 1)]
          BY <1>3, <3>1
        <5> HIDE DEF g
        <5>3. g[s[N]] = [name |-> n[N], next |-> k, pred |-> At(s, N - 1)]
          BY <5>1, <5>2
        <5> QED BY <4>1, <5>3
      <4>2. CASE i # N
        <5>1. s[i] # s[N]
          BY <1>1, <3>1, <4>2 DEF Chain, Single
        <5>2. g[s[i]] = heap[s[i]]
          BY <1>2, <5>1
        <5> HIDE DEF g
        <5> QED BY <1>3, <4>2, <5>2
      <4> QED BY <4>1, <4>2
    <3> HIDE DEF g
    <3>6. heap'[k] = [name |-> x, next |-> NULL, pred |-> s[N]]
      BY <3>3
    <3>7. \A i \in 1 .. N : heap'[s[i]] = g[s[i]]
      BY <1>2, <3>3, <3>4
    <3>8. DOMAIN heap' = DOMAIN heap \cup {k}
      BY <3>3, <3>4
    <3> QED BY <2>2, <3>2, <3>3, <3>5, <3>6, <3>7, <3>8
  <2> QED BY <2>1, <2>2
<1>5. Chain(t, m, heap', first')
  BY <1>1, <1>2, <1>4, ChainGrows
<1>6. Len(t) = N + 1
  BY <1>2, AppendProperties
<1>7. size' = N + 1 /\ wanted' = NULL /\ current' = NULL
  BY <1>1 DEF List!Insert
<1>8. Len(t) <= ListMax + 1
  BY <1>2, <1>6, NullIs
<1>9. ShapeNext(t, m)
  BY <1>5, <1>6, <1>7, <1>8 DEF ShapeNext, ShapeOf
<1>10. Shown(m, wanted') = Append(Shown(n, wanted), x)
  <2>1. x \in Names \ {NULL}
    BY NullIs
  <2>2. Keep(m, Names \ {NULL}) = Append(Keep(n, Names \ {NULL}), x)
    BY <1>2, <2>1, KeepAppend
  <2> QED BY <1>1, <1>7, <2>2 DEF Shown
<1> QED BY <1>9, <1>10

\* One node of the walk goes, whichever of the four cases unlinks it.
DeleteHere(s, n, i) ==
  /\ i \in 1 .. Len(s) /\ current = s[i] /\ n[i] = wanted /\ wanted \in Names
  /\ \A j \in 1 .. i - 1 : n[j] # wanted
  /\ DOMAIN heap' = DOMAIN heap \ {s[i]}
  /\ \A j \in 1 .. Len(s) : j # i =>
       heap'[s[j]] = [name |-> n[j],
                      next |-> IF j = i - 1 THEN At(s, i + 1) ELSE At(s, j + 1),
                      pred |-> IF j = i + 1 THEN At(s, i - 1) ELSE At(s, j - 1)]
  /\ first' = IF i = 1 THEN At(s, 2) ELSE first
  /\ current' = At(s, i + 1)
  /\ size' = size - 1 /\ wanted' = wanted

\* Whichever node goes, the rest is a chain, and the names shown are the same.
LEMMA DeleteShape ==
  ASSUME NEW s, NEW n, Shape(s, n), NEW i, DeleteHere(s, n, i)
  PROVE  \E t, m : ShapeNext(t, m) /\ Shown(m, wanted') = Shown(n, wanted)
<1> DEFINE N == Len(s)
           t == Cut(s, i)
           m == Cut(n, i)
<1>1. Chain(s, n, heap, first) /\ size = N /\ N <= ListMax + 1
  BY DEF Shape, ShapeOf
<1>2. N \in Nat /\ s \in Seq(Nodes) /\ n \in Seq(Names) /\ Len(n) = N /\ i \in 1 .. N
  BY <1>1, ChainFacts DEF Chain, DeleteHere
<1>3. Chain(t, m, heap', first') /\ At(t, i) = At(s, i + 1)
  <2>1. Unlinked(s, n, heap, first, i, heap', first')
    BY DEF DeleteHere, Unlinked
  <2> QED BY <1>1, <2>1, ChainShrinks
<1>4. Len(t) = N - 1
  BY <1>2, CutIs
<1>5. /\ Len(m) = N - 1
      /\ \A j \in 1 .. N - 1 : m[j] = IF j < i THEN n[j] ELSE n[j + 1]
  BY <1>2, CutIs
<1>6. size' = N - 1 /\ wanted' = wanted /\ wanted \in Names /\ wanted # NULL
  BY <1>1, NullIs DEF DeleteHere
<1> HIDE DEF t, m
<1>7. \E j \in 1 .. Len(t) + 1 : At(t, j) = current' /\ \A q \in 1 .. j - 1 : m[q] # wanted'
  <2>1. i \in 1 .. Len(t) + 1
    BY <1>2, <1>4
  <2>2. At(t, i) = current'
    BY <1>3 DEF DeleteHere
  <2>3. \A q \in 1 .. i - 1 : m[q] # wanted'
    <3> TAKE q \in 1 .. i - 1
    <3>1. q \in 1 .. N - 1 /\ q < i
      BY <1>2
    <3>2. m[q] = n[q]
      BY <1>5, <3>1
    <3> QED BY <1>6, <3>2 DEF DeleteHere
  <2> QED BY <2>1, <2>2, <2>3
<1>8. ShapeNext(t, m)
  <2>1. size' = Len(t) /\ Len(t) <= ListMax + 1
    BY <1>1, <1>2, <1>4, <1>6, NullIs
  <2> QED BY <1>3, <1>6, <1>7, <2>1 DEF ShapeNext, ShapeOf
<1>9. Keep(m, Names \ {wanted}) = Keep(n, Names \ {wanted})
  <2>1. n[i] \notin Names \ {wanted}
    BY DEF DeleteHere
  <2> QED BY <1>2, <1>5, <2>1, KeepWithout
<1> QED BY <1>6, <1>8, <1>9 DEF Shown

\* Each of the four cases of delete_node() unlinks the node the walk has reached.
LEMMA DeletesHere ==
  ASSUME NEW s, NEW n, Shape(s, n),
         List!DeleteOnly \/ List!DeleteLast \/ List!DeleteFirst \/ List!DeleteMiddle
  PROVE  \E i : DeleteHere(s, n, i)
<1> DEFINE N == Len(s)
<1>0. List!Found
  BY DEF List!DeleteOnly, List!DeleteLast, List!DeleteFirst, List!DeleteMiddle
<1>1. PICK i \in 1 .. N :
        /\ current = s[i] /\ wanted \in Names /\ \A j \in 1 .. i - 1 : n[j] # wanted
        /\ heap[current].name = n[i]
        /\ heap[current].next = At(s, i + 1) /\ heap[current].pred = At(s, i - 1)
  BY <1>0, Here DEF List!Found
<1>2. n[i] = wanted /\ size' = size - 1 /\ wanted' = wanted
  BY <1>0, <1>1 DEF List!Found, List!DeleteOnly, List!DeleteLast, List!DeleteFirst, List!DeleteMiddle
<1>3. Chain(s, n, heap, first)
  BY DEF Shape, ShapeOf
<1>4. /\ N \in Nat /\ first = At(s, 1) /\ DOMAIN heap = Members(s)
      /\ \A j, k \in 1 .. N : s[j] = s[k] => j = k
      /\ \A j \in 1 .. N : s[j] \in DOMAIN heap
  BY <1>3, ChainFacts DEF Chain, Single
<1>5. \A j \in 1 .. N : heap[s[j]] = [name |-> n[j], next |-> At(s, j + 1), pred |-> At(s, j - 1)]
  BY <1>3 DEF Chain
<1>6. /\ At(s, i + 1) = NULL <=> i = N
      /\ At(s, i - 1) = NULL <=> i = 1
  BY <1>3, Ends
<1>7. /\ i # N => i + 1 \in 1 .. N /\ At(s, i + 1) = s[i + 1]
      /\ i # 1 => i - 1 \in 1 .. N /\ At(s, i - 1) = s[i - 1]
  <2>1. (i # N => i + 1 \in 1 .. N) /\ (i # 1 => i - 1 \in 1 .. N)
    BY <1>4
  <2> QED BY <2>1 DEF At
<1> SUFFICES
      /\ DOMAIN heap' = DOMAIN heap \ {s[i]}
      /\ \A j \in 1 .. N : j # i =>
           heap'[s[j]] = [name |-> n[j],
                          next |-> IF j = i - 1 THEN At(s, i + 1) ELSE At(s, j + 1),
                          pred |-> IF j = i + 1 THEN At(s, i - 1) ELSE At(s, j - 1)]
      /\ first' = IF i = 1 THEN At(s, 2) ELSE first
      /\ current' = At(s, i + 1)
  BY <1>1, <1>2 DEF DeleteHere
<1>8. \A j \in 1 .. N : j # i => s[j] # s[i] /\ s[j] \in DOMAIN heap \ {s[i]}
  BY <1>4
<1>9. CASE List!DeleteOnly
  <2>1. i = N /\ i = 1
    BY <1>1, <1>6, <1>9 DEF List!DeleteOnly
  <2>2. heap' = [x \in DOMAIN heap \ {s[i]} |-> heap[x]] /\ current' = NULL /\ first' = NULL
    BY <1>1, <1>9 DEF List!DeleteOnly, List!Without
  <2>3. At(s, 2) = NULL /\ At(s, i + 1) = NULL
    BY <1>6, <2>1
  <2> QED BY <2>1, <2>2, <2>3
<1>10. CASE List!DeleteLast
  <2>1. i = N /\ i # 1 /\ i - 1 \in 1 .. N /\ heap[current].pred = s[i - 1]
    BY <1>1, <1>6, <1>7, <1>10 DEF List!DeleteLast
  <2> DEFINE g == [heap EXCEPT ![s[i - 1]].next = NULL]
  <2>2. heap' = [x \in DOMAIN g \ {s[i]} |-> g[x]] /\ current' = NULL /\ first' = first
    BY <1>1, <2>1, <1>10 DEF List!DeleteLast, List!Without
  <2>3. /\ DOMAIN g = DOMAIN heap
        /\ g[s[i - 1]] = [name |-> n[i - 1], next |-> NULL, pred |-> At(s, i - 1 - 1)]
        /\ \A j \in 1 .. N : j # i - 1 => g[s[j]] = heap[s[j]]
    <3>1. g[s[i - 1]] = [heap[s[i - 1]] EXCEPT !.next = NULL]
      BY <1>4, <2>1
    <3>2. heap[s[i - 1]] = [name |-> n[i - 1], next |-> At(s, i - 1 + 1), pred |-> At(s, i - 1 - 1)]
      BY <1>5, <2>1
    <3>3. g[s[i - 1]] = [name |-> n[i - 1], next |-> NULL, pred |-> At(s, i - 1 - 1)]
      <4> HIDE DEF g
      <4> QED BY <3>1, <3>2
    <3>4. \A j \in 1 .. N : j # i - 1 => s[j] # s[i - 1]
      BY <1>4, <2>1
    <3> QED BY <1>4, <3>3, <3>4
  <2> HIDE DEF g
  <2>4. At(s, i + 1) = NULL
    BY <1>6, <2>1
  <2>5. DOMAIN heap' = DOMAIN heap \ {s[i]}
    BY <2>2, <2>3
  <2>6. ASSUME NEW j \in 1 .. N, j # i
        PROVE  heap'[s[j]] = [name |-> n[j],
                              next |-> IF j = i - 1 THEN At(s, i + 1) ELSE At(s, j + 1),
                              pred |-> IF j = i + 1 THEN At(s, i - 1) ELSE At(s, j - 1)]
    <3>1. heap'[s[j]] = g[s[j]] /\ j # i + 1
      BY <1>4, <1>8, <2>1, <2>2, <2>3, <2>6
    <3>2. CASE j = i - 1
      BY <2>3, <2>4, <3>1, <3>2
    <3>3. CASE j # i - 1
      BY <1>5, <2>3, <3>1, <3>3
    <3> QED BY <3>2, <3>3
  <2> QED BY <2>1, <2>2, <2>4, <2>5, <2>6
<1>11. CASE List!DeleteFirst
  <2>1. i # N /\ i = 1 /\ i + 1 \in 1 .. N /\ heap[current].next = s[i + 1]
    BY <1>1, <1>6, <1>7, <1>11 DEF List!DeleteFirst
  <2> DEFINE g == [heap EXCEPT ![s[i + 1]].pred = NULL]
  <2>2. /\ heap' = [x \in DOMAIN g \ {s[i]} |-> g[x]]
        /\ current' = At(s, i + 1) /\ first' = At(s, i + 1)
    BY <1>1, <1>7, <2>1, <1>11 DEF List!DeleteFirst, List!Without
  <2>3. /\ DOMAIN g = DOMAIN heap
        /\ g[s[i + 1]] = [name |-> n[i + 1], next |-> At(s, i + 1 + 1), pred |-> NULL]
        /\ \A j \in 1 .. N : j # i + 1 => g[s[j]] = heap[s[j]]
    <3>1. g[s[i + 1]] = [heap[s[i + 1]] EXCEPT !.pred = NULL]
      BY <1>4, <2>1
    <3>2. heap[s[i + 1]] = [name |-> n[i + 1], next |-> At(s, i + 1 + 1), pred |-> At(s, i + 1 - 1)]
      BY <1>5, <2>1
    <3>3. g[s[i + 1]] = [name |-> n[i + 1], next |-> At(s, i + 1 + 1), pred |-> NULL]
      <4> HIDE DEF g
      <4> QED BY <3>1, <3>2
    <3>4. \A j \in 1 .. N : j # i + 1 => s[j] # s[i + 1]
      BY <1>4, <2>1
    <3> QED BY <1>4, <3>3, <3>4
  <2> HIDE DEF g
  <2>4. At(s, i - 1) = NULL /\ At(s, i + 1) = At(s, 2)
    BY <1>6, <2>1
  <2>5. DOMAIN heap' = DOMAIN heap \ {s[i]}
    BY <2>2, <2>3
  <2>6. ASSUME NEW j \in 1 .. N, j # i
        PROVE  heap'[s[j]] = [name |-> n[j],
                              next |-> IF j = i - 1 THEN At(s, i + 1) ELSE At(s, j + 1),
                              pred |-> IF j = i + 1 THEN At(s, i - 1) ELSE At(s, j - 1)]
    <3>1. heap'[s[j]] = g[s[j]] /\ j # i - 1
      BY <1>4, <1>8, <2>1, <2>2, <2>3, <2>6
    <3>2. CASE j = i + 1
      BY <2>3, <2>4, <3>1, <3>2
    <3>3. CASE j # i + 1
      BY <1>5, <2>3, <3>1, <3>3
    <3> QED BY <3>2, <3>3
  <2> QED BY <2>1, <2>2, <2>4, <2>5, <2>6
<1>12. CASE List!DeleteMiddle
  <2>1. /\ i # N /\ i # 1 /\ i + 1 \in 1 .. N /\ i - 1 \in 1 .. N
        /\ heap[current].next = s[i + 1] /\ heap[current].pred = s[i - 1]
    BY <1>1, <1>6, <1>7, <1>12 DEF List!DeleteMiddle
  <2> DEFINE g1 == [heap EXCEPT ![s[i - 1]].next = s[i + 1]]
             g == [g1 EXCEPT ![s[i + 1]].pred = s[i - 1]]
  <2>2. /\ heap' = [x \in DOMAIN g \ {s[i]} |-> g[x]]
        /\ current' = At(s, i + 1) /\ first' = first
    BY <1>1, <1>7, <2>1, <1>12 DEF List!DeleteMiddle, List!Without
  <2>3. /\ DOMAIN g = DOMAIN heap
        /\ g[s[i + 1]] = [name |-> n[i + 1], next |-> At(s, i + 1 + 1), pred |-> s[i - 1]]
        /\ g[s[i - 1]] = [name |-> n[i - 1], next |-> s[i + 1], pred |-> At(s, i - 1 - 1)]
        /\ \A j \in 1 .. N : j # i + 1 /\ j # i - 1 => g[s[j]] = heap[s[j]]
    <3>0. /\ \A j \in 1 .. N : j # i - 1 => s[j] # s[i - 1]
          /\ \A j \in 1 .. N : j # i + 1 => s[j] # s[i + 1]
          /\ i - 1 # i + 1
      BY <1>4, <2>1
    <3>1. /\ DOMAIN g1 = DOMAIN heap
          /\ g1[s[i - 1]] = [heap[s[i - 1]] EXCEPT !.next = s[i + 1]]
          /\ \A j \in 1 .. N : j # i - 1 => g1[s[j]] = heap[s[j]]
      BY <1>4, <2>1, <3>0
    <3> HIDE DEF g1
    <3>2. /\ DOMAIN g = DOMAIN heap
          /\ g[s[i + 1]] = [g1[s[i + 1]] EXCEPT !.pred = s[i - 1]]
          /\ \A j \in 1 .. N : j # i + 1 => g[s[j]] = g1[s[j]]
      BY <1>4, <2>1, <3>0, <3>1
    <3> HIDE DEF g
    <3>3. g1[s[i + 1]] = heap[s[i + 1]] /\ g[s[i - 1]] = g1[s[i - 1]]
      BY <2>1, <3>0, <3>1, <3>2
    <3>4. heap[s[i - 1]] = [name |-> n[i - 1], next |-> At(s, i - 1 + 1), pred |-> At(s, i - 1 - 1)]
      BY <1>5, <2>1
    <3>5. heap[s[i + 1]] = [name |-> n[i + 1], next |-> At(s, i + 1 + 1), pred |-> At(s, i + 1 - 1)]
      BY <1>5, <2>1
    <3>6. g[s[i + 1]] = [name |-> n[i + 1], next |-> At(s, i + 1 + 1), pred |-> s[i - 1]]
      BY <3>2, <3>3, <3>5
    <3>7. g[s[i - 1]] = [name |-> n[i - 1], next |-> s[i + 1], pred |-> At(s, i - 1 - 1)]
      BY <3>1, <3>3, <3>4
    <3> QED BY <3>1, <3>2, <3>6, <3>7
  <2> HIDE DEF g, g1
  <2>4. At(s, i - 1) = s[i - 1] /\ At(s, i + 1) = s[i + 1]
    BY <1>7, <2>1
  <2>5. DOMAIN heap' = DOMAIN heap \ {s[i]}
    BY <2>2, <2>3
  <2>6. ASSUME NEW j \in 1 .. N, j # i
        PROVE  heap'[s[j]] = [name |-> n[j],
                              next |-> IF j = i - 1 THEN At(s, i + 1) ELSE At(s, j + 1),
                              pred |-> IF j = i + 1 THEN At(s, i - 1) ELSE At(s, j - 1)]
    <3>1. heap'[s[j]] = g[s[j]] /\ i - 1 # i + 1
      BY <1>8, <2>2, <2>3, <2>6
    <3>2. CASE j = i + 1
      BY <2>3, <2>4, <3>1, <3>2
    <3>3. CASE j = i - 1
      BY <2>3, <2>4, <3>1, <3>3
    <3>4. CASE j # i + 1 /\ j # i - 1
      BY <1>5, <2>3, <3>1, <3>4
    <3> QED BY <3>2, <3>3, <3>4
  <2> QED BY <2>1, <2>2, <2>4, <2>5, <2>6
<1> QED BY <1>9, <1>10, <1>11, <1>12

--------------------------------------------------------------------------------
\* The list's strengthening: some nodes with some names are its chain.
ListInv == \E s \in Seq(Nodes), n \in Seq(Names) : Shape(s, n)

\* A shape is made of nodes and names.
LEMMA ShapeTypes ==
  ASSUME NEW s, NEW n, NEW h, NEW f, NEW z, NEW c, NEW w, ShapeOf(s, n, h, f, z, c, w)
  PROVE  s \in Seq(Nodes) /\ n \in Seq(Names)
BY DEF ShapeOf, Chain

\* The list's own Cardinality is the one the counting lemmas speak of.
LEMMA ListCardinality == ASSUME NEW S PROVE List!Cardinality(S) = Cardinality(S)
BY DEF List!Cardinality, Cardinality

\* What a step of the list version does to the names it shows.
LEMMA ListStepShape ==
  ASSUME NEW s, NEW n, Shape(s, n), [List!Next]_listVars
  PROVE  \E t, m :
           /\ ShapeNext(t, m)
           /\ \/ Shown(m, wanted') = Shown(n, wanted)
              \/ \E x \in Names : \/ Shown(m, wanted') = Append(Shown(n, wanted), x)
                                  \/ Shown(m, wanted') = Keep(Shown(n, wanted), Names \ {x})
<1>1. ASSUME NEW x \in Names, List!StartDelete(x)
      PROVE  ShapeNext(s, n) /\ Shown(n, wanted') = Keep(Shown(n, wanted), Names \ {x})
  BY <1>1, StartDeleteShape
<1>2. ASSUME NEW x \in Names, NEW k \in Nodes, List!Insert(x, k)
      PROVE  \E t, m : ShapeNext(t, m) /\ Shown(m, wanted') = Append(Shown(n, wanted), x)
  BY <1>2, InsertShape
<1>3. CASE List!Skip
  BY <1>3, SkipShape
<1>4. CASE List!EndDelete
  BY <1>4, EndDeleteShape
<1>5. CASE List!DeleteOnly \/ List!DeleteLast \/ List!DeleteFirst \/ List!DeleteMiddle
  <2>1. PICK i : DeleteHere(s, n, i)
    BY <1>5, DeletesHere
  <2>2. \E t, m : ShapeNext(t, m) /\ Shown(m, wanted') = Shown(n, wanted)
    BY <2>1, DeleteShape
  <2> QED BY <2>2
<1>6. CASE UNCHANGED listVars
  <2>1. ShapeNext(s, n) /\ wanted' = wanted
    BY <1>6 DEF listVars, Shape, ShapeNext
  <2> QED BY <2>1
<1> QED BY <1>1, <1>2, <1>3, <1>4, <1>5, <1>6 DEF List!Next

\* The list's inductive invariant holds in every state of the two versions.
LEMMA ListInvCorrect == BothSpec => []ListInv
<1>1. BothInit => ListInv
  <2> SUFFICES ASSUME List!Init PROVE ListInv
    BY DEF BothInit
  <2>1. Shape(<<>>, <<>>)
    BY ListInitShape
  <2> QED BY <2>1, EmptySeq DEF ListInv
<1>2. ListInv /\ [UseArray \/ UseList]_allVars => ListInv'
  <2> SUFFICES ASSUME ListInv, [List!Next]_listVars PROVE ListInv'
    BY DEF UseArray, UseList, allVars
  <2>1. PICK s \in Seq(Nodes), n \in Seq(Names) : Shape(s, n)
    BY DEF ListInv
  <2>2. PICK t, m : ShapeNext(t, m)
    BY <2>1, ListStepShape
  <2>3. t \in Seq(Nodes) /\ m \in Seq(Names)
    BY <2>2, ShapeTypes DEF ShapeNext
  <2> QED BY <2>2, <2>3 DEF ListInv, Shape, ShapeNext
<1> QED BY <1>1, <1>2, PTL DEF BothSpec

\* The allocated nodes are counted by the length of the chain.
LEMMA ChainCounted ==
  ASSUME NEW s, NEW n, NEW h, NEW f, Chain(s, n, h, f)
  PROVE  Cardinality(DOMAIN h) = Len(s)
<1> DEFINE F == [i \in 1 .. Len(s) |-> s[i]]
<1>1. Len(s) \in Nat /\ DOMAIN h = Members(s) /\ \A i, j \in 1 .. Len(s) : s[i] = s[j] => i = j
  BY ChainFacts DEF Chain, Single
<1>2. F \in Bijection(1 .. Len(s), DOMAIN h)
  <2>1. \A i \in 1 .. Len(s) : F[i] = s[i] /\ s[i] \in DOMAIN h
    BY ChainFacts
  <2>2. F \in [1 .. Len(s) -> DOMAIN h]
    BY <2>1
  <2>3. \A x \in DOMAIN h : \E i \in 1 .. Len(s) : F[i] = x
    BY <1>1 DEF Members
  <2>4. \A i, j \in 1 .. Len(s) : F[i] = F[j] => i = j
    BY <1>1, <2>1
  <2> HIDE DEF F
  <2> QED BY <2>2, <2>3, <2>4, Fun_IsBij
<1>3. ExistsBijection(1 .. Len(s), DOMAIN h)
  BY <1>2 DEF ExistsBijection
<1> QED BY <1>1, <1>3, FS_CountingElements

\* At every step of a walk of delete_abonent() no link of the linked list leads
\* to a freed node, the links back mirror the links forward, every node is in
\* the list once and size counts them, for any number of nodes.
THEOREM ListWellLinkedCorrect == BothSpec => []ListWellLinked
<1>1. ListInv => ListWellLinked
  <2> SUFFICES ASSUME ListInv PROVE List!WellLinked
    BY DEF ListWellLinked
  <2>1. PICK s, n : Shape(s, n)
    BY DEF ListInv
  <2> DEFINE N == Len(s)
  <2>2. /\ Chain(s, n, heap, first) /\ size = N /\ N <= ListMax + 1
        /\ wanted \in Names \cup {NULL}
        /\ wanted = NULL => current = NULL
    BY <2>1 DEF Shape, ShapeOf
  <2>3. /\ N \in Nat /\ first = At(s, 1) /\ DOMAIN heap = Members(s)
        /\ \A i, j \in 1 .. N : s[i] = s[j] => i = j
    BY <2>2, ChainFacts DEF Chain, Single
  <2>4. /\ \A i \in 0 .. N + 1 : At(s, i) \in DOMAIN heap \cup {NULL}
        /\ \A i \in 1 .. N : s[i] \in Nodes /\ s[i] \in DOMAIN heap
    BY <2>2, ChainFacts DEF At
  <2>5. \A k \in DOMAIN heap : \E i \in 1 .. N : s[i] = k
    BY <2>3 DEF Members
  <2>6. DOMAIN heap \subseteq Nodes
    BY <2>4, <2>5
  <2>7. current \in DOMAIN heap \cup {NULL}
    <3>1. CASE current = NULL
      BY <3>1
    <3>2. CASE current # NULL
      <4>1. PICK i \in 1 .. N : current = s[i]
        BY <2>1, <3>2, Here
      <4> QED BY <2>4, <4>1
    <3> QED BY <3>1, <3>2
  <2>8. first \in DOMAIN heap \cup {NULL}
    <3>1. 1 \in 0 .. N + 1
      BY <2>3
    <3> QED BY <2>3, <2>4, <3>1
  <2>9. ASSUME NEW k \in DOMAIN heap
        PROVE  /\ heap[k] \in [name : Names, next : Nodes \cup {NULL}, pred : Nodes \cup {NULL}]
               /\ heap[k].next \in DOMAIN heap \cup {NULL}
               /\ heap[k].pred \in DOMAIN heap \cup {NULL}
               /\ heap[k].next # NULL => heap[heap[k].next].pred = k
               /\ heap[k].pred # NULL => heap[heap[k].pred].next = k
               /\ (heap[k].pred = NULL) <=> (k = first)
    <3>1. PICK i \in 1 .. N : s[i] = k
      BY <2>5
    <3>2. heap[s[i]] = [name |-> n[i], next |-> At(s, i + 1), pred |-> At(s, i - 1)]
      BY <2>2 DEF Chain
    <3>3. /\ heap[s[i]].next = At(s, i + 1) /\ heap[s[i]].pred = At(s, i - 1) /\ n[i] \in Names
      BY <2>2, ChainFacts
    <3>4. i + 1 \in 0 .. N + 1 /\ i - 1 \in 0 .. N + 1
      BY <2>3
    <3>5. At(s, i + 1) \in DOMAIN heap \cup {NULL} /\ At(s, i - 1) \in DOMAIN heap \cup {NULL}
      BY <2>4, <3>4
    <3>6. heap[k] \in [name : Names, next : Nodes \cup {NULL}, pred : Nodes \cup {NULL}]
      <4>1. At(s, i + 1) \in Nodes \cup {NULL} /\ At(s, i - 1) \in Nodes \cup {NULL}
        BY <2>6, <3>5
      <4> QED BY <3>1, <3>2, <3>3, <4>1
    <3>7. At(s, i + 1) # NULL => heap[At(s, i + 1)].pred = s[i]
      <4> SUFFICES ASSUME At(s, i + 1) # NULL PROVE heap[At(s, i + 1)].pred = s[i]
        OBVIOUS
      <4>1. i + 1 \in 1 .. N
        BY DEF At
      <4>2. At(s, i + 1) = s[i + 1] /\ heap[s[i + 1]].pred = At(s, i + 1 - 1)
        BY <2>2, <4>1, ChainFacts
      <4>3. i + 1 - 1 = i /\ At(s, i) = s[i]
        BY <2>2, <2>3, ChainFacts
      <4> QED BY <4>2, <4>3
    <3>8. At(s, i - 1) # NULL => heap[At(s, i - 1)].next = s[i]
      <4> SUFFICES ASSUME At(s, i - 1) # NULL PROVE heap[At(s, i - 1)].next = s[i]
        OBVIOUS
      <4>1. i - 1 \in 1 .. N
        BY DEF At
      <4>2. At(s, i - 1) = s[i - 1] /\ heap[s[i - 1]].next = At(s, i - 1 + 1)
        BY <2>2, <4>1, ChainFacts
      <4>3. i - 1 + 1 = i /\ At(s, i) = s[i]
        BY <2>2, <2>3, ChainFacts
      <4> QED BY <4>2, <4>3
    <3>9. (At(s, i - 1) = NULL) <=> (s[i] = first)
      <4>1. At(s, i - 1) = NULL <=> i = 1
        BY <2>2, Ends
      <4>2. 1 \in 1 .. N /\ At(s, 1) = s[1]
        <5>1. 1 \in 1 .. N
          BY <2>3
        <5> QED BY <2>2, <5>1, Ends
      <4> QED BY <2>3, <4>1, <4>2
    <3> QED BY <3>1, <3>3, <3>5, <3>6, <3>7, <3>8, <3>9
  <2>10. Cardinality(DOMAIN heap) = N
    BY <2>2, ChainCounted
  <2>11. Len(List!From[first]) = N
    BY <2>2, FromIsPath, PathIs
  <2>12. size \in 0 .. ListMax + 1
    BY <2>2, <2>3, NullIs
  <2>13. List!TypeOK
    BY <2>2, <2>6, <2>7, <2>8, <2>9, <2>12 DEF List!TypeOK, List!Used, List!Links
  <2>14. \A k \in DOMAIN heap : {heap[k].next, heap[k].pred} \subseteq DOMAIN heap \cup {NULL}
    BY <2>9
  <2>15. {first, current} \subseteq DOMAIN heap \cup {NULL}
    BY <2>7, <2>8
  <2>16. \A k \in DOMAIN heap : /\ heap[k].next # NULL => heap[heap[k].next].pred = k
                                /\ heap[k].pred # NULL => heap[heap[k].pred].next = k
                                /\ (heap[k].pred = NULL) <=> (k = first)
    BY <2>9
  <2>17. Cardinality(DOMAIN heap) = size /\ Len(List!From[first]) = size
    BY <2>2, <2>10, <2>11
  <2> QED BY <2>13, <2>14, <2>15, <2>16, <2>17, ListCardinality DEF List!WellLinked, List!Used
<1> QED BY <1>1, ListInvCorrect, PTL

--------------------------------------------------------------------------------
\* The list's own Keep, and that of the directory it implements, are this one.
LEMMA ListKeep ==
  ASSUME NEW s, NEW S
  PROVE  List!Keep(s, S) = Keep(s, S) /\ List!People!Keep(s, S) = Keep(s, S)
BY DEF List!Keep, List!KeptOf, List!People!Keep, List!People!KeptOf, Keep, KeptOf

\* What the list shows, of a shape.
LEMMA ShownIs ==
  ASSUME NEW s, NEW n, NEW h, NEW f, Chain(s, n, h, f)
  PROVE  LET l == Path(h)[f] IN [i \in DOMAIN l |-> h[l[i]].name] = n
<1>1. Path(h)[f] = s
  BY PathIs
<1>2. s \in Seq(Nodes) /\ n \in Seq(Names) /\ Len(n) = Len(s)
  BY DEF Chain
<1>3. DOMAIN s = 1 .. Len(s) /\ n \in [1 .. Len(n) -> Names]
  BY <1>2, LenProperties
<1>4. \A i \in 1 .. Len(s) : h[s[i]].name = n[i]
  BY ChainFacts
<1>5. [i \in DOMAIN s |-> h[s[i]].name] = n
  BY <1>2, <1>3, <1>4
<1> QED BY <1>1, <1>5

\* What the list version lists.
LEMMA ListedShown ==
  ASSUME NEW s, NEW n
  PROVE  /\ Shape(s, n) => List!Listed = Shown(n, wanted)
         /\ ShapeNext(s, n) => List!Listed' = Shown(n, wanted')
<1>1. ASSUME Shape(s, n) PROVE List!Listed = Shown(n, wanted)
  <2>1. LET l == Path(heap)[first] IN [i \in DOMAIN l |-> heap[l[i]].name] = n
    BY <1>1, ShownIs DEF Shape, ShapeOf
  <2> QED BY <2>1, FromIsPath, ListKeep DEF List!Listed, Shown
<1>2. ASSUME ShapeNext(s, n) PROVE List!Listed' = Shown(n, wanted')
  <2>1. LET l == Path(heap')[first'] IN [i \in DOMAIN l |-> heap'[l[i]].name] = n
    BY <1>2, ShownIs DEF ShapeNext, ShapeOf
  <2> QED BY <2>1, FromIsPath, ListKeep DEF List!Listed, Shown
<1> QED BY <1>1, <1>2

\* Every step of the linked list, the node-by-node walk of a deletion included,
\* is a step of the same directory as the array's, or changes nothing shown.
THEOREM ListImplementsDirectoryCorrect == BothSpec => ListImplementsDirectory
<1>1. BothInit => List!People!Init
  <2> SUFFICES ASSUME List!Init PROVE List!Listed = <<>>
    BY DEF BothInit, List!People!Init
  <2> QED BY ListInitShape, ListedShown
<1>2. ListInv /\ [UseArray \/ UseList]_allVars => [List!People!Next]_(List!Listed)
  <2> SUFFICES ASSUME ListInv, [List!Next]_listVars PROVE [List!People!Next]_(List!Listed)
    BY DEF UseArray, UseList, allVars
  <2>1. PICK s, n : Shape(s, n)
    BY DEF ListInv
  <2>2. PICK t, m :
          /\ ShapeNext(t, m)
          /\ \/ Shown(m, wanted') = Shown(n, wanted)
             \/ \E x \in Names : \/ Shown(m, wanted') = Append(Shown(n, wanted), x)
                                 \/ Shown(m, wanted') = Keep(Shown(n, wanted), Names \ {x})
    BY <2>1, ListStepShape
  <2>3. List!Listed = Shown(n, wanted) /\ List!Listed' = Shown(m, wanted')
    BY <2>1, <2>2, ListedShown
  <2>4. \/ List!Listed' = List!Listed
        \/ \E x \in Names : \/ List!Listed' = Append(List!Listed, x)
                            \/ List!Listed' = Keep(List!Listed, Names \ {x})
    BY <2>2, <2>3
  <2> QED BY <2>4, ListKeep DEF List!People!Next, List!People!Add, List!People!Remove
<1> QED BY <1>1, <1>2, ListInvCorrect, PTL
       DEF BothSpec, ListImplementsDirectory, List!ImplementsDirectory, List!People!Spec
================================================================================
