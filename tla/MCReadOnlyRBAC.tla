---------------------------- MODULE MCReadOnlyRBAC ----------------------------
(* Small instances of ReadOnlyRBAC for TLC.                                   *)
EXTENDS ReadOnlyRBAC, TLC

Symmetry == Permutations(Caller)
=============================================================================
