---------------------------- MODULE MCSystemdProxy ----------------------------
(* A small instance of SystemdProxy for TLC.                                   *)
EXTENDS SystemdProxy
=============================================================================
