----------------------------- MODULE MCReplace -----------------------------
(* Instances of Replace for TLC: see the .cfg files for the sizes.         *)
EXTENDS Replace, TLC

(* Calls are interchangeable; sound for the safety runs.                   *)
Symmetry == Permutations(Calls)

=============================================================================
