--------------------------- MODULE MCRegistration ---------------------------
(* Instances of Registration for TLC.                                      *)
EXTENDS Registration, TLC

\* Requests of one kind are interchangeable, and so are addresses.
Symmetry == Permutations(SignUps) \cup Permutations(Links) \cup Permutations(Changes)
              \cup Permutations(Emails)
============================================================================
