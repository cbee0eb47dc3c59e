------------------------------ MODULE MCMirror ------------------------------
(* Finite instances of Mirror for TLC.                                     *)
EXTENDS Mirror, TLC

\* Workers are alike.
Alike == Permutations(Worker)
=============================================================================
