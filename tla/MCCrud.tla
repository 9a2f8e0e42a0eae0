------------------------------- MODULE MCCrud -------------------------------
(* One slot reads, the other calls everything else.                        *)
EXTENDS Crud

CONSTANTS reader, writer

Read(kind, batch) == [kind |-> kind, filter |-> Ids, batch |-> batch]
Write(kind, filter, u, pipeline, multi, upsert) ==
    [kind |-> kind, filter |-> filter, u |-> u, pipeline |-> pipeline, multi |-> multi, upsert |-> upsert]
Delete(filter, multi) == [kind |-> "delete", filter |-> filter, multi |-> multi]
Count(skip, limit) == [kind |-> "count_documents", filter |-> Ids, skip |-> skip, limit |-> limit]
FindAnd(remove) ==
    [kind |-> "findAndModify", filter |-> {1}, remove |-> remove, u |-> "spec", pipeline |-> FALSE]

Reads == {Read("find", 1), Read("aggregate", 1)}
Inserts == {[kind |-> "insert", docs |-> <<1, 2>>, ordered |-> o] : o \in BOOLEAN}
UpdateCalls ==
    {Write("update", {1}, "spec", FALSE, TRUE, TRUE)}
        \cup {Write("update", Ids, u, FALSE, FALSE, FALSE) : u \in Updates}
        \cup {Write("update", {1}, "plain", TRUE, FALSE, FALSE)}
ReplaceCalls == {Write("replace", {1}, u, FALSE, FALSE, u = "plain") : u \in {"spec", "plain"}}
Others ==
    {Delete(Ids, TRUE), Delete(Ids, FALSE), FindAnd(TRUE), FindAnd(FALSE), Count(0, 0), Count(1, 1)}
        \cup {[kind |-> k, filter |-> {2}] : k \in {"distinct"}}
        \cup {[kind |-> "count"], [kind |-> "drop"]}

MCMenu == (reader :> Reads) @@ (writer :> (Inserts \cup UpdateCalls \cup ReplaceCalls \cup Others))
=============================================================================
