--------------------------------- MODULE Plugins --------------------------------
(***************************************************************************)
(* Calculator_v3: every ".so" of the directory "plagins" is loaded into    *)
(* the next slot of a list that grows; one that cannot be loaded, or has   *)
(* no function of its own name, leaves its slot to the next.  The menu     *)
(* then calls the functions by number.                                     *)
(***************************************************************************)
EXTENDS Filters

CONSTANTS
  First,     \* the capacity at first (4)
  MaxEntries \* bound: entries of the directory

PluginsAssumption == First \in Nat /\ First > 1 /\ MaxEntries \in Nat

Kinds == {"good", "noload", "nosym", "other"}

VARIABLES
  phase,    \* "load", "menu", "end"
  entries,  \* the kinds of the entries read so far
  slots,    \* slots[k]: what slot k - 1 holds, as far as one has been written
  listSize, listCapacity,
  called    \* what the menu has called last

vars == <<phase, entries, slots, listSize, listCapacity, called>>

Init ==
  /\ phase = "load" /\ entries = <<>> /\ slots = <<>>
  /\ listSize = 0 /\ listCapacity = First /\ called = "nothing"

\* library_processing(): the slot is cleared first; without the symbol the library
\* stays loaded and the function NULL.
Loaded(kind) ==
  CASE kind = "good" -> [lib |-> TRUE, func |-> Len(entries) + 1]
    [] kind = "nosym" -> [lib |-> TRUE, func |-> 0]
    [] OTHER -> [lib |-> FALSE, func |-> 0]

\* Mistake: what failed to load is counted too.
CountsAll(kind) == TRUE

Counts(kind) == kind = "good"

Put(s, k, x) == IF k < Len(s) THEN [s EXCEPT ![k + 1] = x] ELSE Append(s, x)

LoadNext(kind) ==
  /\ phase = "load" /\ Len(entries) < MaxEntries
  /\ entries' = Append(entries, kind)
  /\ slots' = IF kind = "other" THEN slots ELSE Put(slots, listSize, Loaded(kind))
  /\ listSize' = IF kind # "other" /\ Counts(kind) THEN listSize + 1 ELSE listSize
  /\ listCapacity' = IF kind # "other" /\ listSize' = listCapacity - 1 THEN 2 * listCapacity
                     ELSE listCapacity
  /\ UNCHANGED <<phase, called>>

Menu ==
  /\ phase = "load" /\ phase' = "menu"
  /\ UNCHANGED <<entries, slots, listSize, listCapacity, called>>

\* A wrong number, and numbers that are no numbers, are asked for again.
Call(num) ==
  /\ phase = "menu" /\ num \in 1 .. listSize
  /\ called' = IF slots[num].func # 0 THEN "function" ELSE "NULL"
  /\ UNCHANGED <<phase, entries, slots, listSize, listCapacity>>

\* The last number of the menu: what is in the slots is closed.
Leave ==
  /\ phase = "menu" /\ phase' = "end"
  /\ UNCHANGED <<entries, slots, listSize, listCapacity, called>>

Next ==
  \/ \E kind \in Kinds : LoadNext(kind)
  \/ Menu \/ Leave
  \/ \E num \in 1 .. MaxEntries : Call(num)

--------------------------------------------------------------------------------
\* The numbers of the entries that are plugins.
Good == Keep([k \in DOMAIN entries |-> k], {k \in DOMAIN entries : entries[k] = "good"})

\* Whatever fails in between, the slots that are counted hold exactly the plugins
\* that loaded, once each and in order; no slot is written beyond the capacity, and
\* there is always one to write the next into; the menu calls no NULL
\* (main.c:17-27, header.c:13-33, 61-78).
SlotsAreGood ==
  /\ listSize = Len(Good) /\ \A k \in 1 .. listSize : slots[k] = [lib |-> TRUE, func |-> Good[k]]
  /\ Len(slots) <= listCapacity /\ listSize < listCapacity
  /\ called # "NULL"
================================================================================
