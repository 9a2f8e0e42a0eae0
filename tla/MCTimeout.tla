------------------------------ MODULE MCTimeout ------------------------------
(* Timeout for TLC.                                                         *)
EXTENDS Timeout
=============================================================================
