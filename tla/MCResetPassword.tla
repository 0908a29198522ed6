-------------------------- MODULE MCResetPassword --------------------------
(* Instances of ResetPassword for TLC.                                     *)
EXTENDS ResetPassword, TLC

\* Requests of one kind are interchangeable (safety runs only).
Symmetry == Permutations(ResetReqs) \cup Permutations(UpdateReqs)
============================================================================
