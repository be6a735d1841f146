-------------------------- MODULE MCShellOwnership --------------------------
(* Instances of ShellOwnership for TLC: see the .cfg files for the sizes.  *)
EXTENDS ShellOwnership, TLC

(* Calls, and cleanups, are interchangeable; sound for the safety runs.    *)
Symmetry == Permutations(Calls) \cup Permutations(Cleaners)

=============================================================================
