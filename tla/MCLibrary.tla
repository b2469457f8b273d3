----------------------------- MODULE MCLibrary ------------------------------
(* Two paths that may be exchanged, and two files. *)
EXTENDS Library, TLC

Symmetry == Permutations(Paths) \cup Permutations(Files)
=============================================================================
