------------------------------ MODULE MCProfiles ------------------------------
(* TLC instances of ConnectionProfiles. *)
EXTENDS ConnectionProfiles, TLC

CONSTANTS p1, p2, n1, n2, pw1, k1, k2
MCClients == {p1, p2}
MCNames == {n1}
MCPasswords == {pw1}
MCMasterKeys == {k1, k2}
Symmetry == Permutations(MCClients) \cup Permutations(MCMasterKeys)
=============================================================================
