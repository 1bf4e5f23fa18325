-------------------------------- MODULE Commander -------------------------------
(***************************************************************************)
(* Midnight_Commander: two panels, each with a path, the entries of its    *)
(* directory sorted, and a cursor.  All but the first entry are shown (it  *)
(* is taken for "."), the first row is labelled as the way up.  A path is  *)
(* followed by its length in its buffer and by the directory it leads to.  *)
(***************************************************************************)
EXTENDS Integers, Sequences, FiniteSets, SequencesExt

CONSTANTS
  Worlds,    \* Worlds[w][d]: the entries of directory d, other than "." and ".."
  Capacity,  \* of a path's buffer at first (256)
  MaxEnters  \* bound: directories entered

Panels == {"left", "right"}
Home == "home"  \* the root: its ".." leads to itself
Sub == "sub"
Back == "back"  \* the root again, by a path through "sub"

Entry(name, ord, len, kind) == [name |-> name, ord |-> ord, len |-> len, kind |-> kind]
Dot == Entry(".", 2, 1, "dir")
DotDot == Entry("..", 3, 2, "dir")

\* A name with its slash and the final zero fits into a row, whose name[] is as long
\* as a path's buffer at first.
CommanderAssumption ==
  /\ Capacity \in Nat /\ Capacity >= 4 /\ MaxEnters \in Nat
  /\ \A w \in DOMAIN Worlds : \A d \in {Home, Sub} :
       /\ IsFiniteSet(Worlds[w][d])
       /\ \A e \in Worlds[w][d] :
            /\ e.ord \in Int \ {2, 3} /\ e.len \in Nat /\ e.len + 2 <= Capacity
            /\ e.name \in {"d", ".."} => e.kind = "dir"

VARIABLES
  world,    \* which files there are
  removed,  \* the directory "sub" has been removed
  next,     \* "start", "left", "right" (the panel to read), "keys", "end", "exit"
  dir,      \* dir[i]: where panel i's path leads
  size,     \* size[i], capacity[i]: of panel i's path_t
  capacity,
  list,     \* list[i]: panel i's directory, sorted
  current_index, current_catalog,
  enters

vars == <<world, removed, next, dir, size, capacity, list, current_index,
          current_catalog, enters>>

Init ==
  /\ world = 0 /\ removed = FALSE /\ next = "start"
  /\ dir = [i \in Panels |-> Home]
  /\ size = [i \in Panels |-> 2] /\ capacity = [i \in Panels |-> Capacity]
  /\ list = [i \in Panels |-> <<>>]
  /\ current_index = [i \in Panels |-> 0] /\ current_catalog = "left"
  /\ enters = 0

Choose(w) ==
  /\ next = "start" /\ world' = w /\ next' = "left"
  /\ UNCHANGED <<removed, dir, size, capacity, list, current_index, current_catalog, enters>>

--------------------------------------------------------------------------------
\* What stat() says: it fails on a link that leads nowhere.
Statable(e) == e.kind # "broken"
IsDir(e) == e.kind = "dir"

\* Mistake: a directory is not put before a file of a smaller name.
OutOfOrderByName(d, e) ==
  Statable(d) /\ Statable(e) /\ (IsDir(d) <=> IsDir(e)) /\ d.ord > e.ord

\* Directories first, then by name; a pair one of which stat() fails on stays.
OutOfOrder(d, e) ==
  /\ Statable(d) /\ Statable(e)
  /\ (IsDir(e) /\ ~IsDir(d)) \/ (d.ord > e.ord /\ (IsDir(d) <=> IsDir(e)))

Compared(l, j) ==
  IF OutOfOrder(l[j], l[j + 1]) THEN [l EXCEPT ![j] = l[j + 1], ![j + 1] = l[j]] ELSE l

\* Turn i compares the pairs up to the n - i'th.
Turn(l, i) == FoldLeft(Compared, l, [j \in 1 .. Len(l) - i |-> j])
sortList(l) == FoldLeft(Turn, l, [i \in 1 .. Len(l) |-> i])

Content(d) ==
  {Dot, DotDot} \cup
  {e \in Worlds[world][IF d = Sub THEN Sub ELSE Home] :
     ~(removed /\ d # Sub /\ e.name = "d")}

\* The two panels are read in turn, in whatever order the directory has them.  One
\* that whose path no longer leads anywhere ends the program.
Scan(i) ==
  /\ next = i
  /\ IF dir[i] # Home /\ removed
       THEN next' = "exit" /\ UNCHANGED list
       ELSE /\ \E order \in SetToSeqs(Content(dir[i])) : list' = [list EXCEPT ![i] = sortList(order)]
            /\ next' = IF i = "left" THEN "right" ELSE "keys"
  /\ UNCHANGED <<world, removed, dir, size, capacity, current_index, current_catalog, enters>>

RemoveSub ==
  /\ next # "start" /\ ~removed /\ \E e \in Worlds[world][Home] : e.name = "d"
  /\ removed' = TRUE
  /\ UNCHANGED <<world, next, dir, size, capacity, list, current_index, current_catalog, enters>>

--------------------------------------------------------------------------------
Rows(i) == Tail(list[i])

\* What update_infoCatalog() leaves in the zeroed row: 0 for a directory and for
\* what is neither directory nor regular file, which keeps an empty name too.
Status(e) == CASE e.kind = "exec" -> 1 [] e.kind = "file" -> 2 [] OTHER -> 0
NameLength(e) ==
  CASE e.kind \in {"dir", "exec"} -> e.len + 1 [] e.kind = "file" -> e.len [] OTHER -> 0

Tab ==
  /\ next = "keys" /\ current_catalog' = IF current_catalog = "left" THEN "right" ELSE "left"
  /\ UNCHANGED <<world, removed, next, dir, size, capacity, list, current_index, enters>>

Key(step) ==
  /\ next = "keys"
  /\ current_index' =
       [current_index EXCEPT ![current_catalog] =
          (@ + Len(Rows(current_catalog)) + step) % Len(Rows(current_catalog))]
  /\ UNCHANGED <<world, removed, next, dir, size, capacity, list, current_catalog, enters>>

Selected == Rows(current_catalog)[current_index[current_catalog] + 1]

Grows(s, n, c) == s + n >= c

\* Where a name leads; an empty one leads back.
Leads(d, e) ==
  CASE e.name = "d" -> Sub [] e.name = ".." /\ d = Sub -> Back [] OTHER -> d

\* changePathCatalog() with the row's name, which begins with a slash, and another
\* slash; both lists are freed and the panels read again from the top.
Enter ==
  /\ next = "keys" /\ Status(Selected) = 0 /\ enters < MaxEnters
  /\ enters' = enters + 1
  /\ LET i == current_catalog
         n == NameLength(Selected)
     IN  /\ capacity' = [capacity EXCEPT ![i] = IF Grows(size[i], n, @) THEN 2 * @ ELSE @]
         /\ size' = [size EXCEPT ![i] = @ + n + 1]
         /\ dir' = [dir EXCEPT ![i] = Leads(@, Selected)]
  /\ next' = "left"
  /\ list' = [i \in Panels |-> <<>>] /\ current_index' = [i \in Panels |-> 0]
  /\ UNCHANGED <<world, removed, current_catalog>>

F1 ==
  /\ next = "keys" /\ next' = "end"
  /\ UNCHANGED <<world, removed, dir, size, capacity, list, current_index, current_catalog, enters>>

Next ==
  \/ \E w \in DOMAIN Worlds : Choose(w)
  \/ \E i \in Panels : Scan(i)
  \/ RemoveSub \/ Tab \/ Key(1) \/ Key(-1) \/ Enter \/ F1

--------------------------------------------------------------------------------
Plain(l) == \A j \in DOMAIN l : Statable(l[j]) /\ (IsDir(l[j]) => l[j].ord >= Dot.ord)

\* After any order of reading, a panel is a permutation of its directory in which
\* neighbours are in order, though entries that stat() fails on stay where they
\* were read and keep the others from passing.  Without those, and without a
\* directory whose name comes before ".", the entry that is not shown is "." and the
\* row labelled as the way up is "..".  The cursor stays on a row, and a path in its
\* buffer: only the final zero may lie one past it (header.c:24-57, 80, 155-166,
\* main_window.c:24-25, 90-99).
PanelsSound ==
  /\ \A i \in Panels :
       /\ \A j \in 1 .. Len(list[i]) - 1 : ~OutOfOrder(list[i][j], list[i][j + 1])
       /\ \A j, k \in DOMAIN list[i] :
            j < k /\ Plain(list[i]) => ~(IsDir(list[i][k]) /\ ~IsDir(list[i][j]))
       /\ list[i] # <<>> /\ Plain(list[i]) => list[i][1] = Dot /\ list[i][2] = DotDot
       /\ next = "keys" => current_index[i] \in 0 .. Len(Rows(i)) - 1
       /\ next = "keys" => \A j \in DOMAIN Rows(i) :
            Status(Rows(i)[j]) = 0 /\ ~IsDir(Rows(i)[j]) => Leads(dir[i], Rows(i)[j]) = dir[i]
       /\ size[i] <= capacity[i]
  /\ next \in {"start", "left", "right", "keys", "end", "exit"} /\ current_catalog \in Panels
================================================================================
