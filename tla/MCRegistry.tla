------------------------------ MODULE MCRegistry ------------------------------
(* TLC instance of RegistryHistory. *)
EXTENDS RegistryHistory, TLC

CONSTANTS i1, a1, a2, a3

MCIds == {i1}
MCAttempts == {a1, a2, a3}
Symmetry == Permutations(MCAttempts)
=============================================================================
