---------------------------- MODULE MCProxyManager ----------------------------
(* Small instances of ProxyManager for TLC.                                   *)
EXTENDS ProxyManager, TLC

Symmetry == Permutations(Call) \cup Permutations(Target)
=============================================================================
