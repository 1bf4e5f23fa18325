----------------------------- MODULE DirectoryArray -----------------------------
(***************************************************************************)
(* Subscriber_directory: the directory as an array of MAX_LEN entries.  An *)
(* entry is taken when its three fields are filled, free otherwise; a      *)
(* deletion blanks the entries of a name and closes the holes with two     *)
(* indices, modelled one turn of the loop at a time.                       *)
(*                                                                         *)
(* Indices are from 0, as in the code.  What the user types keeps to the   *)
(* prompts: at most ten characters, any field may be left blank.           *)
(***************************************************************************)
EXTENDS Integers, Sequences, FiniteSets, Filters

CONSTANTS
  Names,    \* the names, of up to ten characters
  TenLong,  \* those of exactly ten: stored without an end mark
  Blank,    \* no name
  MAX_LEN

ASSUME NamesAssumption ==
  TenLong \subseteq Names /\ Blank \notin Names /\ MAX_LEN \in Nat

VARIABLES
  array,   \* 0 .. MAX_LEN - 1 -> entry
  left,    \* delete_()'s l
  right,   \* its r
  index,   \* its index, -1 when no deletion runs
  beyond   \* whether an entry was ever written past the end of the array

vars == <<array, left, right, index, beyond>>

\* others: how many of the second name and the number are filled.
Entry(n, k) == [name |-> n, others |-> k]
Nobody == Entry(Blank, 0)

Init ==
  /\ array = [i \in 0 .. MAX_LEN - 1 |-> Nobody]
  /\ left = 0 /\ right = 0 /\ index = -1
  /\ beyond = FALSE

Idle == index = -1

Taken(e) == e.name # Blank /\ e.others = 2

\* find_free_index(): the taken entries before the first that is not.
FreeIndex ==
  CHOOSE i \in 0 .. MAX_LEN :
    /\ \A j \in 0 .. i - 1 : Taken(array[j])
    /\ i < MAX_LEN => ~Taken(array[i])

\* strcmp() of a stored name with n: one of ten characters runs on into the
\* second name and is equal to nothing.
Matches(e, n) == e.name = n /\ n \notin TenLong

Insert(n, k) ==
  /\ Idle
  /\ FreeIndex < MAX_LEN
  /\ array' = [array EXCEPT ![FreeIndex] = Entry(n, k)]
  /\ UNCHANGED <<left, right, index, beyond>>

\* index > 100 is never true: in a full directory the entry goes past the end.
\* What it overwrites there is not modelled.
InsertBeyond(n, k) ==
  /\ Idle
  /\ FreeIndex = MAX_LEN
  /\ beyond' = TRUE
  /\ UNCHANGED <<array, left, right, index>>

Matching(n) == {i \in 0 .. FreeIndex - 1 : Matches(array[i], n)}

StartDelete(n) ==
  /\ Idle
  /\ Matching(n) # {}
  /\ array' = [i \in DOMAIN array |-> IF i \in Matching(n) THEN Nobody ELSE array[i]]
  /\ left' = CHOOSE i \in Matching(n) : \A j \in Matching(n) : i <= j
  /\ right' = left' + 1
  /\ index' = FreeIndex
  /\ UNCHANGED beyond

Closing == ~Idle /\ right < index

Close ==
  /\ Closing
  /\ array[left] = Nobody /\ Taken(array[right])
  /\ array' = [array EXCEPT ![left] = array[right], ![right] = Nobody]
  /\ left' = left + 1 /\ right' = right + 1
  /\ UNCHANGED <<index, beyond>>

\* Mistake: both indices pass a hole.
PassHoleBoth ==
  /\ Closing
  /\ array[left] = Nobody /\ ~Taken(array[right])
  /\ left' = left + 1 /\ right' = right + 1
  /\ UNCHANGED <<array, index, beyond>>

PassHole ==
  /\ Closing
  /\ array[left] = Nobody /\ ~Taken(array[right])
  /\ right' = right + 1
  /\ UNCHANGED <<array, left, index, beyond>>

EndDelete ==
  /\ ~Idle /\ right >= index
  /\ index' = -1 /\ left' = 0 /\ right' = 0
  /\ UNCHANGED <<array, beyond>>

Next ==
  \/ \E n \in Names : StartDelete(n)
  \/ \E n \in Names \cup {Blank}, k \in 0 .. 2 : Insert(n, k) \/ InsertBeyond(n, k)
  \/ Close \/ PassHole \/ EndDelete

Spec == Init /\ [][Next]_vars

--------------------------------------------------------------------------------
\* Every variable keeps its type.
TypeOK ==
  /\ array \in [0 .. MAX_LEN - 1 -> [name : Names \cup {Blank}, others : 0 .. 2]]
  /\ left \in 0 .. MAX_LEN /\ right \in 0 .. MAX_LEN
  /\ index \in -1 .. MAX_LEN
  /\ beyond \in BOOLEAN

\* While the holes are closed, the entries before the left index are taken,
\* those from it to the right one are holes and those up to the old end are
\* taken or holes: the last branch of delete_(), for a left entry that is not
\* a hole, is never reached (lib.c:171-196); with the types.
LeftIsHole ==
  /\ TypeOK
  /\ ~Idle =>
       /\ left < right
       /\ \A i \in 0 .. index - 1 :
            /\ i < left => Taken(array[i])
            /\ i \in left .. right - 1 => array[i] = Nobody
            /\ Taken(array[i]) \/ array[i] = Nobody

\* While the holes are closed, all up to the old end count.
Listed ==
  LET end == IF Idle THEN FreeIndex ELSE index
  IN  Keep([i \in 1 .. end |-> IF Taken(array[i - 1]) THEN array[i - 1].name ELSE Blank], Names)

People == INSTANCE Directory WITH people <- Listed

\* The array implements the directory: closing the holes loses nobody, brings
\* nobody back and keeps the order, and an entry with a blank field never
\* hides one that is complete (lib.c:34, 53-60, 147-197).
ImplementsDirectory == People!Spec

\* "Справочник переполнен, (Макс 100 абонентов)" (lib.c:15): a full directory
\* refuses the next person.
FullIsRefused == ~beyond

\* search(): -1 when nobody matches.
Search(n) ==
  IF Matching(n) = {} THEN -1 ELSE CHOOSE i \in Matching(n) : \A j \in Matching(n) : i <= j

\* "Введите имя не больше 10 символов" (lib.c:19): whoever was entered under a
\* name of up to ten characters is found under it.
EnteredIsFound ==
  Idle => \A i \in 0 .. FreeIndex - 1 : Search(array[i].name) # -1
================================================================================
