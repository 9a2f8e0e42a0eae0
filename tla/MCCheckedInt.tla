---------------------------- MODULE MCCheckedInt ----------------------------
(* Four-bit wide and two-bit narrow integers: every pair of operands.      *)
EXTENDS CheckedInt
=============================================================================
