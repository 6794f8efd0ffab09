------------------------------- MODULE MCFanOut -------------------------------
(* Small instances of FanOut for TLC.                                         *)
EXTENDS FanOut
=============================================================================
