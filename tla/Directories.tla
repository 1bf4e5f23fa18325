------------------------------ MODULE Directories -------------------------------
(***************************************************************************)
(* The two versions of the subscriber directory side by side: the user     *)
(* starts one of the two programs and goes on with it.  Both promise the   *)
(* same Directory.                                                         *)
(***************************************************************************)
EXTENDS DirectoryArray

CONSTANTS
  Nodes,   \* what malloc() can return to the list version
  NULL,
  ListMax  \* the list version's MAX_LEN

VARIABLES
  program,                              \* "none", "array" or "list"
  heap, first, size, current, wanted    \* the list version, see DirectoryList

List == INSTANCE DirectoryList WITH MAX_LEN <- ListMax

ASSUME ListAssumption == List!NodesAssumption

listVars == <<heap, first, size, current, wanted>>
allVars == <<program, vars, listVars>>

BothInit == program = "none" /\ Init /\ List!Init

UseArray == program # "list" /\ program' = "array" /\ Next /\ UNCHANGED listVars
UseList == program # "array" /\ program' = "list" /\ List!Next /\ UNCHANGED vars

BothSpec == BothInit /\ [][UseArray \/ UseList]_allVars

--------------------------------------------------------------------------------
\* No link leads to a freed node, the links mirror each other and size counts
\* the nodes, at every step of a walk that removes several
\* (v.2.0 lib.c:37-48, 182-208).
ListWellLinked == List!WellLinked

\* The linked list implements the same directory as the array does.
ListImplementsDirectory == List!ImplementsDirectory
================================================================================
