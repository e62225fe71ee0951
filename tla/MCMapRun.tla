------------------------------ MODULE MCMapRun ------------------------------
(***************************************************************************)
(* Small instances of MapRun for TLC.                                      *)
(***************************************************************************)
EXTENDS MapRun, TLC

Symmetry == Permutations(Workers) \cup Permutations(Inputs) \cup Permutations(Keys)
=============================================================================
