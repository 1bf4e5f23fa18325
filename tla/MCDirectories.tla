------------------------------ MODULE MCDirectories -----------------------------
(* An array of five entries, or a list of up to five nodes, for people of two
   short names and one of ten characters. *)
EXTENDS Directories, TLC

CONSTANTS anna, ivan, konstantin, n1, n2, n3, n4, n5
MCNames == {anna, ivan, konstantin}
MCTenLong == {konstantin}
MCNodes == {n1, n2, n3, n4, n5}
Symmetry == Permutations({anna, ivan}) \cup Permutations(MCNodes)
================================================================================
