---------------------------- MODULE MCCommandOutput ----------------------------
(* A small instance of CommandOutput for TLC.                                 *)
EXTENDS CommandOutput

MCStream == {"stdout", "stderr"}
=============================================================================
