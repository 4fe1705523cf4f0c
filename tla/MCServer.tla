------------------------------ MODULE MCServer ------------------------------
(* TLC instance of Server: exchanges and addresses are exchangeable. *)
EXTENDS Server, TLC

Symmetric == Permutations(Exchanges) \cup Permutations(Ips)
=============================================================================
