---------------------------- MODULE MCFileWriters ----------------------------
(* FileWriters on small sets; queue ids are interchangeable, and so are     *)
(* files.                                                                   *)
EXTENDS FileWriters, TLC

Symmetry == Permutations(QueueIds) \cup Permutations(Files)
=============================================================================
