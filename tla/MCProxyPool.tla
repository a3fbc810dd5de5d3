----------------------------- MODULE MCProxyPool -----------------------------
(* Instances of ProxyPool for TLC. The clients are interchangeable. *)
EXTENDS ProxyPool, TLC

ClientSymmetry == Permutations(Clients)
=============================================================================
