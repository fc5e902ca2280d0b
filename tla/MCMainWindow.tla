---------------------------- MODULE MCMainWindow ----------------------------
(* MainWindow for TLC: positions other than Zero are interchangeable.      *)
EXTENDS MainWindow, TLC

Symmetry == Permutations(Offsets \ {Zero})
=============================================================================
