------------------------------ MODULE MCLogins ------------------------------
(* A row of each collection and two logins that may meet on one of them.   *)
EXTENDS Logins, TLC

CONSTANTS r1, r2, u, a

MCRows == [user |-> {u}, userAdmin |-> {a}]
Symmetry == Permutations({r1, r2})
=============================================================================
