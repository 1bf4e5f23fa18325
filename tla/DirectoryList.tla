----------------------------- MODULE DirectoryList ------------------------------
(***************************************************************************)
(* Subscriber_directory_v.2.0: the directory as a doubly linked list of    *)
(* malloc'ed nodes.  A deletion walks the list and unlinks every node of a *)
(* name; the walk is modelled one node at a time.                          *)
(***************************************************************************)
EXTENDS Integers, Sequences, FiniteSets, Filters

CONSTANTS Names, Nodes, NULL, MAX_LEN

\* Assumed where the two versions meet, in Directories.
NodesAssumption == NULL \notin Nodes \cup Names /\ MAX_LEN \in Nat

VARIABLES
  heap,     \* the allocated nodes: node -> [name, next, pred]
  first,    \* array->node
  size,     \* array->size
  current,  \* the node the walk has reached, NULL when none
  wanted    \* the name a deletion is after, NULL when none runs

vars == <<heap, first, size, current, wanted>>

Node(n, nx, pr) == [name |-> n, next |-> nx, pred |-> pr]

Init ==
  /\ heap = <<>>
  /\ first = NULL /\ size = 0
  /\ current = NULL /\ wanted = NULL

Used == DOMAIN heap

With(h, k, node) == [x \in DOMAIN h \cup {k} |-> IF x = k THEN node ELSE h[x]]
Without(h, k) == [x \in DOMAIN h \ {k} |-> h[x]]

\* The nodes from k on, in the order of the list.
From[k \in Nodes \cup {NULL}] ==
  IF k \in Used THEN <<k>> \o From[heap[k].next] ELSE <<>>

\* The end of the list as insert_abonent() finds it.
LastNode == From[first][Len(From[first])]

Insert(n, k) ==
  /\ wanted = NULL
  /\ size <= MAX_LEN
  /\ k \in Nodes \ Used
  /\ IF first = NULL
       THEN heap' = With(heap, k, Node(n, NULL, NULL)) /\ first' = k
       ELSE /\ heap' = With([heap EXCEPT ![LastNode].next = k], k, Node(n, NULL, LastNode))
            /\ first' = first
  /\ size' = size + 1
  /\ UNCHANGED <<current, wanted>>

\* search() counts the nodes before the first of that name, and delete_abonent()
\* compares the number with size.
Position(n) ==
  LET l == From[first]
      at == {i \in DOMAIN l : heap[l[i]].name = n}
  IN  IF at = {} THEN Len(l) + 1 ELSE CHOOSE i \in at : \A j \in at : i <= j

StartDelete(n) ==
  /\ wanted = NULL /\ size # 0
  /\ Position(n) <= size
  /\ wanted' = n /\ current' = first
  /\ UNCHANGED <<heap, first, size>>

Skip ==
  /\ current # NULL /\ heap[current].name # wanted
  /\ current' = heap[current].next
  /\ UNCHANGED <<heap, first, size, wanted>>

Found == current # NULL /\ heap[current].name = wanted /\ size' = size - 1

\* The four cases of delete_node(): alone, last, first, between two.
DeleteOnly ==
  /\ Found
  /\ heap[current].next = NULL /\ heap[current].pred = NULL
  /\ heap' = Without(heap, current)
  /\ current' = NULL /\ first' = NULL
  /\ UNCHANGED wanted

DeleteLast ==
  /\ Found
  /\ heap[current].next = NULL /\ heap[current].pred # NULL
  /\ heap' = Without([heap EXCEPT ![heap[current].pred].next = NULL], current)
  /\ current' = NULL
  /\ UNCHANGED <<first, wanted>>

\* Mistake: the new first node keeps its link to the freed one.
DeleteFirstKept ==
  /\ Found
  /\ heap[current].next # NULL /\ heap[current].pred = NULL
  /\ heap' = Without(heap, current)
  /\ current' = heap[current].next /\ first' = current'
  /\ UNCHANGED wanted

DeleteFirst ==
  /\ Found
  /\ heap[current].next # NULL /\ heap[current].pred = NULL
  /\ heap' = Without([heap EXCEPT ![heap[current].next].pred = NULL], current)
  /\ current' = heap[current].next /\ first' = current'
  /\ UNCHANGED wanted

\* Mistake: only the link forward is closed.
DeleteMiddleForward ==
  /\ Found
  /\ heap[current].next # NULL /\ heap[current].pred # NULL
  /\ heap' = Without([heap EXCEPT ![heap[current].pred].next = heap[current].next], current)
  /\ current' = heap[current].next
  /\ UNCHANGED <<first, wanted>>

DeleteMiddle ==
  /\ Found
  /\ heap[current].next # NULL /\ heap[current].pred # NULL
  /\ heap' = Without([heap EXCEPT ![heap[current].pred].next = heap[current].next,
                                  ![heap[current].next].pred = heap[current].pred], current)
  /\ current' = heap[current].next
  /\ UNCHANGED <<first, wanted>>

\* The walk has reached the end.
EndDelete ==
  /\ wanted # NULL /\ current = NULL
  /\ wanted' = NULL
  /\ UNCHANGED <<heap, first, size, current>>

Next ==
  \/ \E n \in Names : StartDelete(n) \/ \E k \in Nodes : Insert(n, k)
  \/ Skip \/ DeleteOnly \/ DeleteLast \/ DeleteFirst \/ DeleteMiddle \/ EndDelete

Spec == Init /\ [][Next]_vars

--------------------------------------------------------------------------------
Links == Nodes \cup {NULL}

\* Every variable keeps its type.
TypeOK ==
  /\ Used \subseteq Nodes
  /\ \A k \in Used : heap[k] \in [name : Names, next : Links, pred : Links]
  /\ first \in Links /\ current \in Links
  /\ size \in 0 .. MAX_LEN + 1
  /\ wanted \in Names \cup {NULL}

\* Whatever was inserted and removed, at every step of a walk the list is well
\* formed: no link leads to a freed node, the links back mirror the links
\* forward, every allocated node is in the list exactly once, and size counts
\* them (lib.c:37-48, 182-208); with the types, in which size may reach
\* MAX_LEN + 1 as the code lets it (lib.c:20).
WellLinked ==
  /\ TypeOK
  /\ \A k \in Used : {heap[k].next, heap[k].pred} \subseteq Used \cup {NULL}
  /\ {first, current} \subseteq Used \cup {NULL}
  /\ \A k \in Used :
       /\ heap[k].next # NULL => heap[heap[k].next].pred = k
       /\ heap[k].pred # NULL => heap[heap[k].pred].next = k
       /\ (heap[k].pred = NULL) <=> (k = first)
  /\ Cardinality(Used) = size /\ Len(From[first]) = size

\* The list without what a deletion that runs has still to remove.
Listed ==
  LET l == From[first] IN
  Keep([i \in DOMAIN l |-> heap[l[i]].name], Names \ {wanted})

People == INSTANCE Directory WITH people <- Listed

\* The linked list implements the directory: an insertion appends, a deletion
\* takes away all of that name and nothing else, at once for whoever looks
\* when it has ended (lib.c:163-179).
ImplementsDirectory == People!Spec
================================================================================
