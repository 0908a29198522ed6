----------------------------- MODULE MCSessions -----------------------------
(* Instances of Sessions for TLC.                                          *)
EXTENDS Sessions, TLC

\* Requests are interchangeable (safety runs only).
Symmetry == Permutations(Reqs)
============================================================================
