------------------------------ MODULE MCFileTree ------------------------------
(***************************************************************************)
(* FileTree for TLC: names are interchangeable.                            *)
(***************************************************************************)
EXTENDS FileTree

Symmetry == Permutations(Name)
=============================================================================
