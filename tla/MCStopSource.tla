---------------------------- MODULE MCStopSource ----------------------------
(* StopSource for TLC.                                                     *)
EXTENDS StopSource
=============================================================================
