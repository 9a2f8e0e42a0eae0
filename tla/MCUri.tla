------------------------------- MODULE MCUri --------------------------------
(* The small instance of Uri: every early return once, then every list of  *)
(* parameters up to the bound.                                             *)
EXTENDS Uri, TLC

Url(error, scheme, host, port) ==
    [error |-> error, scheme |-> scheme, host |-> host, port |-> port]
MCUrls == {Url("boost.url.grammar", "mongodb", "name", << >>),
           Url("none", "http", "name", << >>),
           Url("none", "mongodb", "empty", << >>),
           Url("none", "mongodb", "slash", << >>),
           Url("none", "mongodb", "name", <<0>>),
           Url("none", "mongodb", "ipvfuture", << >>),
           Url("none", "mongodb", "name", <<27017>>)}
MCNumbers == {-2, 0, 1}
\* The listeners may be exchanged for one another.
Symmetric == Permutations(Listeners)
\* One number with text behind it.
MCLead == [m \in Mixed |-> 1]
=============================================================================
