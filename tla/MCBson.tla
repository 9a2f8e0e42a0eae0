------------------------------- MODULE MCBson -------------------------------
(* The small instance of Bson: keys shorter and longer than a label,       *)
(* values without data, of fixed size and with a length prefix, documents  *)
(* empty and not.                                                          *)
EXTENDS Bson

Nothing == [tag |-> null, val |-> << >>]
MCKeys == {<< >>, <<98, 98, 98>>}
MCValues == {Nothing,
             [tag |-> utf8, val |-> <<120>>],
             [tag |-> document, val |-> <<5, 0, 0, 0, 0>>]}
MCOther == <<11, 0, 0, 0, bool, 99, 99, 99, 0, 1, 0>>
=============================================================================
