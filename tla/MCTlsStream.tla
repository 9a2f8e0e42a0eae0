---------------------------- MODULE MCTlsStream ----------------------------
(* TlsStream for TLC.                                                      *)
EXTENDS TlsStream
=============================================================================
