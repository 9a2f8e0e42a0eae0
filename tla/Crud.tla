-------------------------------- MODULE Crud --------------------------------
(***************************************************************************)
(* The operations on a collection: each builds a command, sends it once    *)
(* through checking_client and pool_client, and parses the reply into its  *)
(* result.  Reads hand out a cursor, to be asked for more until its id is  *)
(* zero.                                                                   *)
(*                                                                         *)
(* The server is external: it executes a command at one instant, may       *)
(* refuse it, and the connection may be lost before or after that instant. *)
(* A document of the collection is its _id and what its content came from. *)
(***************************************************************************)
EXTENDS Parse, Wire, Status, Integers, FiniteSets, SequencesExt, TLC

CONSTANTS
    Slots,         \* the operations that can be outstanding at the same time
    Menu,          \* Menu[s]: the requests that slot s makes
    Ids,           \* the _id of documents
    CursorIds,     \* the ids of server cursors
    DefaultBatch   \* the documents in a batch when batchSize is not given

ASSUME CursorIdsAssumption == 0 \notin CursorIds

VARIABLES
    stored,     \* server: the documents, in natural order
    cursors,    \* server: the documents still to come from each open cursor
    slot,       \* slot[s]: the operation, its command and what the server did
    handle,     \* handle[s]: the amongoc_cursor that s holds, or none
    reading,    \* history: reading[s]: all that s's cursor promised and gave
    got         \* the completion that a handler is receiving, or none

vars == <<stored, cursors, slot, handle, reading, got>>

None == [none |-> TRUE]
Idle == [phase |-> "idle"]
Lacking == Value("eod", 0, << >>)
Int32(n) == Value("int32", n, << >>)
Int64(n) == Value("int64", n, << >>)
Utf8 == Value("utf8", 0, << >>)
Double(n) == Value("double", n, << >>)

-----------------------------------------------------------------------------
(***************************************************************************)
(* Commands.  Only the fields that the model's server looks at are here;   *)
(* a filter is the set of the ids that it matches.                         *)
(***************************************************************************)

\* The value of an element, wherever it is.
Get(els, key) ==
    LET s == SelectSeq(els, LAMBDA e : e.key = key) IN IF s = << >> THEN Lacking ELSE s[1].val

Flag(b) == Value("bool", IF b THEN 1 ELSE 0, << >>)
SubDoc(els) == Value("document", 0, els)
Filter(ids) == Value("document", ids, << >>)
Arr(vals) == Value("array", 0, [k \in DOMAIN vals |-> El(ToString(k - 1), vals[k])])
DocsOf(ids) == Arr([k \in DOMAIN ids |-> Value("document", ids[k], << >>)])

\* optional_pair(), optional_value(): what is zero, false or null is left out.
Truthy(val) == ~(val.t \in {"eod", "int32", "bool"} /\ val.n = 0)
optional_pair(key, val) == IF Truthy(val) THEN <<El(key, val)>> ELSE << >>
optional_value(val, wrapped) == IF Truthy(val) THEN <<wrapped>> ELSE << >>

\* make_command(): the name of the command, then its fields.
make_command(name, fields) == <<El(name, Utf8)>> \o fields

\* An update document: a specification starts with a $ operator, a plain
\* document may be empty.
Updates == {"spec", "plain", "empty"}
_is_update_spec_doc(u) == u = "spec"

\* One document, or a pipeline.
UpdateField(key, req) ==
    optional_pair(key, IF req.pipeline THEN Lacking ELSE SubDoc(<<El(req.u, Utf8)>>))
        \o optional_pair(key, IF req.pipeline THEN Arr(<<SubDoc(<<El("spec", Utf8)>>)>>) ELSE Lacking)

amongoc_collection_drop(req) == make_command("drop", << >>)
amongoc_collection_aggregate(req) ==
    make_command("aggregate",
        <<El("pipeline", Arr(<<SubDoc(<<El("$match", Filter(req.filter))>>)>>)),
          El("cursor", SubDoc(optional_pair("batchSize", Int32(req.batch))))>>)
amongoc_count_documents(req) ==
    make_command("aggregate",
        <<El("pipeline", Arr(<<SubDoc(<<El("$match", Filter(req.filter))>>)>>
                                \o optional_value(Int32(req.skip), SubDoc(<<El("$skip", Int32(req.skip))>>))
                                \o optional_value(Int32(req.limit), SubDoc(<<El("$limit", Int32(req.limit))>>)))),
          El("cursor", SubDoc(<< >>))>>)
amongoc_delete_ex(req) ==
    make_command("delete",
        <<El("deletes", Arr(<<SubDoc(<<El("q", Filter(req.filter)),
                                       El("limit", Int32(IF req.multi THEN 0 ELSE 1))>>)>>))>>)
amongoc_distinct(req) == make_command("distinct", optional_pair("query", Filter(req.filter)))
amongoc_estimated_document_count(req) == make_command("count", << >>)
amongoc_find(req) ==
    make_command("find", <<El("filter", Filter(req.filter))>> \o optional_pair("batchSize", Int32(req.batch)))
amongoc_insert_ex(req) ==
    make_command("insert", <<El("documents", DocsOf(req.docs)), El("ordered", Flag(req.ordered))>>)
amongoc_update_ex(req) ==
    make_command("update",
        <<El("updates", Arr(<<SubDoc(<<El("q", Filter(req.filter))>> \o UpdateField("u", req)
                                        \o <<El("upsert", Flag(req.upsert)), El("multi", Flag(req.multi))>>)>>))>>)
amongoc_find_and_modify(req) ==
    make_command("findAndModify",
        <<El("query", Filter(req.filter))>> \o optional_pair("remove", Flag(req.remove))
            \o (IF req.remove THEN << >> ELSE UpdateField("update", req)))

create_handshake_command == make_command("hello", << >>)

Command(req) ==
    CASE req.kind = "hello" -> create_handshake_command
      [] req.kind = "drop" -> amongoc_collection_drop(req)
      [] req.kind = "aggregate" -> amongoc_collection_aggregate(req)
      [] req.kind = "count_documents" -> amongoc_count_documents(req)
      [] req.kind = "delete" -> amongoc_delete_ex(req)
      [] req.kind = "distinct" -> amongoc_distinct(req)
      [] req.kind = "count" -> amongoc_estimated_document_count(req)
      [] req.kind = "find" -> amongoc_find(req)
      [] req.kind = "insert" -> amongoc_insert_ex(req)
      [] req.kind \in {"update", "replace"} -> amongoc_update_ex(req)
      [] req.kind = "findAndModify" -> amongoc_find_and_modify(req)

\* update_one(), update_many() and replace_one() look at the document first;
\* the pipeline forms do not.
Valid(req) ==
    /\ req.kind = "update" /\ ~req.pipeline => _is_update_spec_doc(req.u)
    /\ req.kind = "replace" => ~_is_update_spec_doc(req.u)

-----------------------------------------------------------------------------
(***************************************************************************)
(* The rules that the replies are parsed with, and the results.            *)
(***************************************************************************)

View == {"document", "array"}

_parse_cursor ==
    Doc(<<Require("cursor", Must(Doc(<<
            Must(AnyRule(<<Field("firstBatch", Must(Store(View, "batch"))),
                       Field("nextBatch", Must(Store(View, "batch")))>>)),
            Require("id", Store({"int64"}, "id")),
            Field("ns", JustAccept)>>)))>>)

\* The count n goes to inserted_count or to matched_count.
n_field(kind) == IF kind = "insert" THEN "inserted_count" ELSE "matched_count"
_parse_write_result(kind) ==
    LET parse_write_error ==
            AllRule(<<Doc(<<Require("index", Integer(Assign("we_index"))),
                        Require("code", Integer(Assign("we_code"))),
                        Require("errmsg", Store({"utf8"}, "we_str_msg"))>>),
                  Action("push")>>)
    IN Doc(<<Require("n", Must(Integer(Assign(n_field(kind))))),
             Field("nModified", Must(Integer(Assign("modified_count")))),
             Field("nMatched", Must(Integer(Assign("matched_count")))),
             Field("nUpserted", Must(Integer(Assign("upserted_count")))),
             Field("upserted",
                   Must(Doc(<<Require("0", Doc(<<Require("_id", Assign("upserted_id"))>>))>>))),
             Field("writeErrors", Must(Each(parse_write_error)))>>)

count_documents_rule ==
    Doc(<<Require("cursor", Doc(<<Require("firstBatch", Must(AnyRule(<<
            Doc(<<RejectOthers>>),
            Doc(<<Require("0", Doc(<<Require("n", Must(Store({"int32"}, "n")))>>)),
                  RejectOthers>>)>>)))>>))>>)

n_rule == Doc(<<Require("n", Integer(Assign("n")))>>)
distinct_rule == Doc(<<Require("values", Must(Store({"array"}, "values")))>>)
find_and_modify_rule == Doc(<<Require("value", AnyRule(<<Type({"null"}, JustAccept), Store(View, "view")>>))>>)
drop_rule == JustAccept

\* handshake_response::parse(): fields with the same rule are listed together.
\* The sizes are converted with as_int64(), which takes anything.
ForEach(keys, F(_)) == [k \in DOMAIN keys |-> F(keys[k])]
Strings(key) == Field(key, Must(Each(Store({"utf8"}, key))))
handshake_rule ==
    LET present(key) == Require(key, JustAccept)
        size(key) == Require(key, Must(Assign(key)))
        boolean(key) == Require(key, Store({"bool"}, key))
        number(key) == Require(key, Must(Integer(Assign(key))))
        string(key) == Field(key, Must(Store({"utf8"}, key)))
        flag(key) == Field(key, Must(Integer(Assign(key))))
    IN Doc(ForEach(<<"isWritablePrimary", "readOnly">>, boolean)
            \o ForEach(<<"topologyVersion", "localTime", "logicalSessionTimeoutMinutes">>, present)
            \o ForEach(<<"maxBsonObjectSize", "maxMessageSizeBytes", "maxWriteBatchSize">>, size)
            \o ForEach(<<"connectionId", "minWireVersion", "maxWireVersion">>, number)
            \o ForEach(<<"compression", "saslSupportedMechs", "hosts", "passives", "arbiters">>, Strings)
            \o ForEach(<<"setName", "setVersion", "primary", "me", "electionId", "msg">>, string)
            \o ForEach(<<"secondary", "arbiterOnly", "passive", "hidden">>, flag)
            \o <<JustAccept>>)

Rule(kind) ==
    CASE kind \in {"find", "aggregate", "getMore"} -> _parse_cursor
      [] kind \in {"insert", "update", "replace"} -> _parse_write_result(kind)
      [] kind = "count_documents" -> count_documents_rule
      [] kind \in {"delete", "count"} -> n_rule
      [] kind = "distinct" -> distinct_rule
      [] kind = "findAndModify" -> find_and_modify_rule
      [] kind = "drop" -> drop_rule
      [] kind = "hello" -> handshake_rule

\* Each accepted write error is pushed with the code stored last.  Its index is
\* the zero of amongoc_write_error_vec_push(): nothing assigns we_index to it.
WriteErrors(r) ==
    FoldLeft(LAMBDA acc, a :
                IF a.dest = "we_code" THEN [acc EXCEPT !.code = a.val.n]
                ELSE IF a.dest = "push"
                THEN [acc EXCEPT !.errs = Append(@, [index |-> 0, code |-> acc.code])]
                ELSE acc,
             [code |-> 0, errs |-> << >>], r.stores).errs

Batch(v) == [k \in DOMAIN v.els |-> v.els[k].val.n]

\* A count is in n, and its box holds an integer of the width `box'.
NoResult == [n |-> 0, box |-> "none", modified |-> 0, upserted |-> 0, errors |-> << >>,
             docs |-> << >>, id |-> 0]

\* Mutant: the upserted document is counted as matched.
MatchedWithUpserts(n, upserted) == n

\* An upserted document counts in n; the results keep the two apart.
MatchedCount(n, upserted) == n - upserted

WriteResult(kind, r) ==
    LET up == Stored(r, "upserted_count", Int32(0)).n
                + (IF Stored(r, "upserted_id", Lacking).t = "eod" THEN 0 ELSE 1)
    IN [NoResult EXCEPT !.n = MatchedCount(Stored(r, n_field(kind), Int32(0)).n, up),
                        !.modified = Stored(r, "modified_count", Int32(0)).n,
                        !.upserted = up, !.errors = WriteErrors(r)]
CursorResult(r) ==
    [NoResult EXCEPT !.docs = Batch(Stored(r, "batch", Lacking)), !.id = Stored(r, "id", Int64(0)).n]
\* amongoc_count_documents() boxes its std::int32_t, the others an int64_t.
CountResult(kind, r) ==
    [NoResult EXCEPT !.n = Stored(r, "n", Int32(0)).n,
                     !.box = IF kind = "count_documents" THEN "int32" ELSE "int64"]
DistinctResult(r) == [NoResult EXCEPT !.docs = Batch(Stored(r, "values", Lacking))]
ModifiedResult(r) ==
    LET v == Stored(r, "view", Lacking)
    IN [NoResult EXCEPT !.docs = IF v.t = "eod" THEN << >> ELSE <<v.n>>]

ResultOf(kind, r) ==
    CASE kind \in {"insert", "update", "replace"} -> WriteResult(kind, r)
      [] kind \in {"find", "aggregate", "getMore"} -> CursorResult(r)
      [] kind \in {"delete", "count", "count_documents"} -> CountResult(kind, r)
      [] kind = "distinct" -> DistinctResult(r)
      [] kind = "findAndModify" -> ModifiedResult(r)
      [] kind \in {"drop", "hello"} -> NoResult

ResultStatus(kind, result) ==
    IF kind \in {"insert", "update", "replace"}
    THEN Status("crud", IF result.errors = << >> THEN 0 ELSE write_errors) ELSE okay

\* throw_if_section_error() throws.
SectionError(els) == Get(els, "ok").t # "eod" /\ Get(els, "ok").n = 0

\* What an operation makes of a message with a document: what recv_message()
\* threw, a section's error (not in the handshake), the one section, then
\* the parse; what is thrown becomes the status of the completion.
Completion(kind, message, els) ==
    LET r == must_parse(els, Rule(kind))
        result == ResultOf(kind, r)
        thrown(e) == [status |-> unhandled_exception(e), result |-> NoResult]
    IN IF message.state # "received" THEN thrown(system_error(Status("generic", EPROTO)))
       ELSE IF kind # "hello" /\ SectionError(els)
       THEN thrown(server_error(Get(els, "code").n))
       ELSE IF r.state # "accept" THEN thrown(system_error(Status("generic", EPROTO)))
       ELSE [status |-> ResultStatus(kind, result), result |-> result]

\* Or the process ends: reading the message failed an assertion, or
\* expect_one_body_section_op_msg() threw, which none of its sections (all with the
\* document els) did before as the error of a command.
Terminates(kind, message, els) ==
    \/ message.state = "terminate"
    \/ /\ expect_one_body_section_op_msg(message).state = "terminate"
       /\ kind = "hello" \/ message.sections = << >> \/ ~SectionError(els)

-----------------------------------------------------------------------------
(***************************************************************************)
(* The server.  Its replies list their fields in several orders, with      *)
(* fields that the driver does not know, and may be malformed.             *)
(***************************************************************************)

Ok == El("ok", Double(1))
WithId(id) == <<El("index", Int32(0)), El("_id", Value("document", id, << >>))>>
WriteError(e) ==
    Value("document", 0, <<El("index", Int32(e.index)), El("code", Int32(e.code)), El("errmsg", Utf8)>>)

WriteReply(e, isUpdate) ==
    <<Ok, El("n", Int32(e.n + e.upserted))>>
        \o (IF isUpdate THEN <<El("nModified", Int32(e.modified))>> ELSE << >>)
        \o (IF e.upserted = 0 THEN << >>
            ELSE <<El("upserted", Arr(<<Value("document", 0, WithId(1))>>))>>)
        \o (IF e.errors = << >> THEN << >>
            ELSE <<El("writeErrors", Arr([k \in DOMAIN e.errors |-> WriteError(e.errors[k])]))>>)
CursorReply(e, name) ==
    <<Ok, El("cursor", Value("document", 0,
        <<El(name, DocsOf(e.docs)),
          El("id", Int64(e.id)), El("ns", Utf8)>>))>>
CountReply(n) ==
    <<Ok, El("cursor", Value("document", 0,
        <<El("firstBatch", Arr(IF n = 0 THEN << >>
                               ELSE <<Value("document", 0, <<El("_id", Int32(1)), El("n", Int32(n))>>)>>)),
          El("id", Int64(0)), El("ns", Utf8)>>))>>

\* The answer of a server that is no member of a replica set.
HelloReply ==
    <<Ok>> \o ForEach(<<"isWritablePrimary", "readOnly">>, LAMBDA key : El(key, Flag(TRUE)))
        \o ForEach(<<"topologyVersion", "localTime", "msg">>, LAMBDA key : El(key, Utf8))
        \o ForEach(<<"maxBsonObjectSize", "maxMessageSizeBytes", "maxWriteBatchSize",
                   "logicalSessionTimeoutMinutes", "connectionId", "minWireVersion", "maxWireVersion">>,
                 LAMBDA key : El(key, Int32(1)))
        \o <<El("compression", Arr(<<Utf8>>))>>

FirstOf(docs, n) == SubSeq(docs, 1, IF n < Len(docs) THEN n ELSE Len(docs))
RestOf(docs, n) == SubSeq(docs, n + 1, Len(docs))

Matching(filter) == SelectSeq(stored, LAMBDA d : d.id \in filter)
IdsOf(docs) == [k \in DOMAIN docs |-> docs[k].id]
Targets(filter, multi) == LET m == Matching(filter) IN IF multi THEN m ELSE FirstOf(m, 1)
Outcome(docs, e) == [docs |-> docs, e |-> e]

\* The documents of an insert, one after the other, up to the first error if
\* the insert is ordered.  An error has the place of its document, from zero.
Inserted(ids, ordered) ==
    FoldLeft(LAMBDA acc, id :
                IF ordered /\ acc.e.errors # << >> THEN acc
                ELSE IF id \in ToSet(IdsOf(acc.docs)) THEN
                     [acc EXCEPT !.e.errors = Append(@, [index |-> acc.e.n + Len(@), code |-> DuplicateKey])]
                ELSE Outcome(Append(acc.docs, [id |-> id, from |-> "insert"]), [acc.e EXCEPT !.n = @ + 1]),
             Outcome(stored, NoResult), ids)
Updated(filter, what, multi, upsert) ==
    LET hit == ToSet(IdsOf(Targets(filter, multi)))
    IN IF hit = {} /\ upsert
       THEN Outcome(Append(stored, [id |-> CHOOSE i \in filter : TRUE, from |-> what]),
                    [NoResult EXCEPT !.upserted = 1])
       ELSE Outcome([k \in DOMAIN stored |->
                        IF stored[k].id \in hit THEN [stored[k] EXCEPT !.from = what] ELSE stored[k]],
                    [NoResult EXCEPT !.n = Cardinality(hit),
                        !.modified = Len(SelectSeq(stored, LAMBDA d : d.id \in hit /\ d.from # what))])
Deleted(filter, multi) ==
    LET ids == ToSet(IdsOf(Targets(filter, multi)))
    IN Outcome(SelectSeq(stored, LAMBDA d : d.id \notin ids), [NoResult EXCEPT !.n = Cardinality(ids)])
FoundAndModified(filter, remove, what) ==
    Outcome(IF remove THEN Deleted(filter, FALSE).docs ELSE Updated(filter, what, FALSE, FALSE).docs,
            [NoResult EXCEPT !.docs = IdsOf(Targets(filter, FALSE))])
Counted(filter, skip, limit) ==
    LET m == RestOf(Matching(filter), skip)
    IN [NoResult EXCEPT !.n = Len(IF limit = 0 THEN m ELSE FirstOf(m, limit))]

\* How the server reads an update: a pipeline, or operators, or a document.
UpdateMeaning(u) ==
    IF u.t = "array" \/ u.els[1].key = "spec" THEN "update" ELSE "replace"
Nth(cmd, key) == Get(cmd, key).els[1].val.els
IsTrue(v) == Truthy(v)

\* What a command does, and what the function that was called stands for.
OfCommand(cmd) ==
    CASE cmd[1].key = "insert" -> Inserted(Batch(Get(cmd, "documents")), IsTrue(Get(cmd, "ordered")))
      [] cmd[1].key = "update" ->
            LET u == Nth(cmd, "updates")
            IN Updated(Get(u, "q").n, UpdateMeaning(Get(u, "u")), IsTrue(Get(u, "multi")), IsTrue(Get(u, "upsert")))
      [] cmd[1].key = "delete" ->
            LET d == Nth(cmd, "deletes") IN Deleted(Get(d, "q").n, Get(d, "limit").n = 0)
      [] cmd[1].key = "findAndModify" ->
            FoundAndModified(Get(cmd, "query").n, IsTrue(Get(cmd, "remove")),
                IF IsTrue(Get(cmd, "remove")) THEN "delete" ELSE UpdateMeaning(Get(cmd, "update")))
      [] cmd[1].key = "drop" -> Outcome(<< >>, NoResult)
OfCall(req) ==
    CASE req.kind = "insert" -> Inserted(req.docs, req.ordered)
      [] req.kind \in {"update", "replace"} -> Updated(req.filter, req.kind, req.multi, req.upsert)
      [] req.kind = "delete" -> Deleted(req.filter, req.multi)
      [] req.kind = "findAndModify" ->
            FoundAndModified(req.filter, req.remove, IF req.u = "spec" THEN "update" ELSE "replace")
      [] req.kind = "drop" -> Outcome(<< >>, NoResult)

BatchSize(cmd) ==
    LET in == LET c == SelectSeq(cmd, LAMBDA el : el.key = "cursor")
              IN IF c = << >> THEN cmd ELSE c[1].val.els
        s == SelectSeq(in, LAMBDA el : el.key = "batchSize")
    IN IF s = << >> THEN DefaultBatch ELSE s[1].val.n

-----------------------------------------------------------------------------
(***************************************************************************)
(* Operations.                                                             *)
(***************************************************************************)

Complete(s, completion, more) ==
    got' = [slot |-> s, status |-> completion.status, result |-> completion.result] @@ more

Failed(status) == [status |-> status, result |-> NoResult]
Untouched == [effect |-> NoResult, sound |-> TRUE, shaped |-> TRUE, executed |-> "no"]

\* The application calls an operation and connects its emitter.
Call(s, req) ==
    /\ got = None /\ slot[s] = Idle /\ handle[s] = None
    /\ req \in Menu[s]
    /\ IF Valid(req)
       THEN /\ slot' = [slot EXCEPT ![s] = [phase |-> "built", req |-> req, cmd |-> Command(req)]]
            /\ UNCHANGED got
       ELSE /\ Complete(s, Failed(Status("client", invalid_update_document)), [req |-> req] @@ Untouched)
            /\ UNCHANGED slot
    /\ UNCHANGED <<stored, cursors, handle, reading>>

\* A new connection: the handshake touches nothing that the operations use, so
\* it is enough to have it before the first of them.
Handshake(s) ==
    /\ got = None /\ stored = << >> /\ cursors = << >>
    /\ slot = [t \in Slots |-> Idle] /\ handle = [t \in Slots |-> None]
    /\ slot' = [slot EXCEPT ![s] =
                    [phase |-> "built", req |-> [kind |-> "hello"], cmd |-> create_handshake_command]]
    /\ UNCHANGED <<stored, cursors, handle, reading, got>>

\* Mutant: the cursor that is asked for more stays with the caller.
CursorNextKeeps(s) ==
    LET req == [kind |-> "getMore", batch |-> handle[s].batch]
        cmd == <<El("getMore", Int64(handle[s].id))>> \o optional_pair("batchSize", Int32(handle[s].batch))
    IN /\ got = None /\ slot[s] = Idle /\ handle[s] # None
       /\ handle[s].id # 0
       /\ slot' = [slot EXCEPT ![s] = [phase |-> "built", req |-> req, cmd |-> cmd]]
       /\ UNCHANGED <<stored, cursors, handle, reading, got>>

\* amongoc_cursor_next(): the cursor is consumed when the emitter is made.
\* The application stops at id 0, as the documentation's loop does.
CursorNext(s) ==
    LET req == [kind |-> "getMore", batch |-> handle[s].batch]
        cmd == <<El("getMore", Int64(handle[s].id))>> \o optional_pair("batchSize", Int32(handle[s].batch))
    IN /\ got = None /\ slot[s] = Idle /\ handle[s] # None
       /\ handle[s].id # 0
       /\ slot' = [slot EXCEPT ![s] = [phase |-> "built", req |-> req, cmd |-> cmd]]
       /\ handle' = [handle EXCEPT ![s] = None]
       /\ UNCHANGED <<stored, cursors, reading, got>>

\* amongoc_cursor_delete(), also before the end: the server is not told.
CursorDelete(s) ==
    /\ got = None /\ slot[s] = Idle /\ handle[s] # None
    /\ handle' = [handle EXCEPT ![s] = None]
    /\ reading' = [reading EXCEPT ![s] = None]
    /\ UNCHANGED <<stored, cursors, slot, got>>

\* The emitter or the operation is deleted before it is started.
Abandon(s) ==
    /\ got = None /\ slot[s].phase = "built"
    /\ slot' = [slot EXCEPT ![s] = Idle]
    /\ reading' = [reading EXCEPT ![s] = None]
    /\ UNCHANGED <<stored, cursors, handle, got>>

\* The server has executed s's command: docs is the collection after it, e
\* the effect that was asked for, promise the documents that a new cursor
\* stands for.
Served(s, docs, e, reply, promise) ==
    /\ stored' = docs
    /\ slot' = [slot EXCEPT ![s] =
                    [phase |-> "served", req |-> slot[s].req, cmd |-> slot[s].cmd, effect |-> e,
                     reply |-> reply, promise |-> promise]]

\* The effect on other documents than the ones asked for: no result is right.
NotAsked == [NoResult EXCEPT !.n = -1]

ServeWrite(s) ==
    LET did == OfCommand(slot[s].cmd)
        asked == OfCall(slot[s].req)
        effect == IF did.docs = asked.docs THEN asked.e ELSE NotAsked
        kind == slot[s].req.kind
        failed == [NoResult EXCEPT !.errors = <<[index |-> 0, code |-> DocumentValidationFailure]>>]
    IN /\ \/ /\ kind \in {"insert", "update", "replace", "delete"}
             /\ Served(s, did.docs, effect, WriteReply(did.e, kind \in {"update", "replace"}), << >>)
          \/ /\ kind \in {"update", "replace", "delete"}
             /\ Served(s, stored, failed, WriteReply(failed, kind # "delete"), << >>)
          \/ /\ kind = "findAndModify"
             /\ Served(s, did.docs, effect,
                       <<Ok, El("value", IF did.e.docs = << >> THEN Value("null", 0, << >>)
                                         ELSE Value("document", did.e.docs[1], << >>))>>, << >>)
          \/ /\ kind = "drop"
             /\ Served(s, did.docs, effect, <<Ok>>, << >>)
       /\ UNCHANGED cursors

\* A cursor stays open while documents remain, and sometimes until the
\* empty batch after the last one.
ServeBatch(s, name, docs, ids, promise) ==
    LET n == BatchSize(slot[s].cmd)
        rest == RestOf(docs, n)
    IN \E id \in ids \cup {0} :
        /\ id = 0 => rest = << >>
        /\ LET e == [NoResult EXCEPT !.docs = FirstOf(docs, n), !.id = id]
           IN Served(s, stored, e, CursorReply(e, name), promise)
        /\ cursors' = [c \in (DOMAIN cursors \ ids) \cup ({id} \ {0}) |->
                        IF c = id THEN rest ELSE cursors[c]]

Match(cmd) == Get(Nth(cmd, "pipeline"), "$match").n
Stage(cmd, name) ==
    LET s == SelectSeq(Get(cmd, "pipeline").els, LAMBDA el : el.val.els[1].key = name)
    IN IF s = << >> THEN 0 ELSE s[1].val.els[1].val.n

ServeRead(s) ==
    LET req == slot[s].req
        cmd == slot[s].cmd
        held == {handle[t].id : t \in {u \in Slots : handle[u] # None}}
        free == CursorIds \ (DOMAIN cursors \cup held)
        fresh == IF free = {} THEN {} ELSE {CHOOSE i \in free : TRUE}
        asked(filter) == IdsOf(Matching(filter))
        count == Counted(req.filter, req.skip, req.limit)
    IN \/ /\ req.kind = "find"
          /\ ServeBatch(s, "firstBatch", asked(Get(cmd, "filter").n), fresh, asked(req.filter))
       \/ /\ req.kind = "aggregate"
          /\ ServeBatch(s, "firstBatch", asked(Match(cmd)), fresh, asked(req.filter))
       \/ /\ req.kind = "getMore" /\ cmd[1].val.n \in DOMAIN cursors
          /\ ServeBatch(s, "nextBatch", cursors[cmd[1].val.n], {cmd[1].val.n}, << >>)
       \/ /\ req.kind = "count_documents"
          /\ Served(s, stored, count,
                    CountReply(Counted(Match(cmd), Stage(cmd, "$skip"), Stage(cmd, "$limit")).n), << >>)
          /\ UNCHANGED cursors
       \/ /\ req.kind = "hello"
          /\ Served(s, stored, NoResult, HelloReply, << >>)
          /\ UNCHANGED cursors
       \/ /\ req.kind = "count"
          /\ Served(s, stored, [NoResult EXCEPT !.n = Len(stored)], <<Ok, El("n", Int32(Len(stored)))>>, << >>)
          /\ UNCHANGED cursors
       \/ /\ req.kind = "distinct"
          /\ Served(s, stored, [NoResult EXCEPT !.docs = asked(req.filter)],
                    <<Ok, El("values", DocsOf(asked(Get(cmd, "query").n)))>>, << >>)
          /\ UNCHANGED cursors

Serve(s) ==
    /\ got = None /\ slot[s].phase = "built"
    /\ ServeWrite(s) \/ ServeRead(s)
    /\ UNCHANGED <<handle, reading, got>>

\* An idle cursor times out on the server.
Expire(c) ==
    /\ got = None /\ c \in DOMAIN cursors
    /\ cursors' = [d \in DOMAIN cursors \ {c} |-> cursors[d]]
    /\ UNCHANGED <<stored, slot, handle, reading, got>>

\* What can happen to a command instead: the server refuses it, or the
\* connection is lost, before the command is executed or after.
LostWith == {Status("asio.misc", Misc.eof), Status("system", ECONNRESET), Status("asio.ssl", 1)}
Refuse(s) ==
    /\ got = None /\ slot[s].phase = "built"
    /\ LET code == IF slot[s].req.kind = "getMore" /\ slot[s].cmd[1].val.n \notin DOMAIN cursors
                   THEN CursorNotFound ELSE BadValue
           reply == <<El("ok", Double(0)), El("code", Int32(code)), El("errmsg", Utf8)>>
       IN \E message \in Intact :
            Complete(s, Completion(slot[s].req.kind, message, reply), [req |-> slot[s].req] @@ Untouched)
    /\ slot' = [slot EXCEPT ![s] = Idle]
    /\ reading' = [reading EXCEPT ![s] = None]
    /\ UNCHANGED <<stored, cursors, handle>>

Lose(s) ==
    /\ got = None /\ slot[s] # Idle
    /\ \E ec \in LostWith :
        Complete(s, Failed(unhandled_exception(system_error(ec))),
                 [req |-> slot[s].req, effect |-> NoResult, sound |-> TRUE, shaped |-> TRUE,
                  executed |-> IF slot[s].phase = "built" THEN "no" ELSE "unheard"])
    /\ slot' = [slot EXCEPT ![s] = Idle]
    /\ reading' = [reading EXCEPT ![s] = None]
    /\ UNCHANGED <<stored, cursors, handle>>

-----------------------------------------------------------------------------
(***************************************************************************)
(* The forms in which a reply may arrive.                                  *)
(***************************************************************************)

\* As listed, backwards, and with the first field last.
Orders(els) ==
    IF els = << >> THEN {els} ELSE {els, Reverse(els), Append(Tail(els), Head(els))}
Arranged(els) ==
    LET known == els \o <<El("$clusterTime", Value("document", 0, << >>))>>
        inner == {k \in DOMAIN els : els[k].val.t = "document" /\ els[k].val.els # << >>}
    IN Orders(known)
        \cup UNION {{[els EXCEPT ![k].val.els = f] : f \in Orders(els[k].val.els)} : k \in inner}

\* One element, at any depth, is missing or of another type.  (The documents
\* of the collection are the application's business.)
IsData(el) == el.val.t = "document" /\ el.val.els = << >> /\ el.key \notin {"_id", "value"}
RECURSIVE Flawed(_)
Flawed(els) ==
    LET open == {k \in DOMAIN els : ~IsData(els[k]) /\ els[k].key # "ok"}
    IN {RemoveAt(els, k) : k \in open}
        \cup {[els EXCEPT ![k].val = Value("null", 0, << >>)] : k \in open}
        \cup UNION {{[els EXCEPT ![k].val.els = f] : f \in Flawed(els[k].val.els)} : k \in open}

\* What the rules ask for, read off the whole reply.
IsInt(v) == v.t \in {"int32", "int64"}
IntIfAny(els, key) == LET v == Get(els, key) IN v.t = "eod" \/ IsInt(v)
WellFormed(kind, els) ==
    LET cursor == Get(els, "cursor")
        up == Get(els, "upserted")
        errs == Get(els, "writeErrors")
        batch == Get(cursor.els, "firstBatch")
        group == Get(batch.els, "0")
    IN CASE kind \in {"insert", "update", "replace"} ->
              /\ IsInt(Get(els, "n")) /\ IntIfAny(els, "nModified") /\ IntIfAny(els, "nUpserted")
              /\ up.t # "eod" =>
                    IsView(up) /\ IsView(Get(up.els, "0")) /\ Get(Get(up.els, "0").els, "_id").t # "eod"
              /\ errs.t # "eod" =>
                    /\ errs.t = "array"
                    /\ \A k \in DOMAIN errs.els :
                        LET e == errs.els[k].val
                        IN IsView(e) /\ IsInt(Get(e.els, "index")) /\ IsInt(Get(e.els, "code"))
                            /\ Get(e.els, "errmsg").t = "utf8"
         [] kind \in {"find", "aggregate", "getMore"} ->
              /\ IsView(cursor) /\ Get(cursor.els, "id").t = "int64"
              /\ IsView(batch) \/ IsView(Get(cursor.els, "nextBatch"))
         [] kind = "count_documents" ->
              /\ IsView(cursor) /\ IsView(batch)
              /\ \/ batch.els = << >>
                 \/ Len(batch.els) = 1 /\ IsView(group) /\ Get(group.els, "n").t = "int32"
         [] kind \in {"delete", "count"} -> IsInt(Get(els, "n"))
         [] kind = "distinct" -> Get(els, "values").t = "array"
         [] kind = "findAndModify" -> LET v == Get(els, "value") IN v.t = "null" \/ IsView(v)
         [] kind = "drop" -> TRUE
         [] kind = "hello" ->
              /\ \A key \in {"topologyVersion", "localTime", "logicalSessionTimeoutMinutes",
                            "maxBsonObjectSize", "maxMessageSizeBytes", "maxWriteBatchSize"} :
                    Get(els, key).t # "eod"
              /\ \A key \in {"isWritablePrimary", "readOnly"} : Get(els, key).t = "bool"
              /\ \A key \in {"connectionId", "minWireVersion", "maxWireVersion"} : IsInt(Get(els, key))
              /\ Get(els, "msg").t \in {"eod", "utf8"}
              /\ LET c == Get(els, "compression")
                 IN c.t \in {"eod", "array"} /\ \A k \in DOMAIN c.els : c.els[k].val.t = "utf8"

-----------------------------------------------------------------------------
\* The reply arrives and the coroutine of the operation runs to its end.
Receive(s, message, els, frame, sound) ==
    LET kind == slot[s].req.kind
        c == Completion(kind, message, els)
        ok == ~amongoc_is_error(c.status)
        old == IF kind = "getMore" THEN reading[s]
               ELSE [all |-> slot[s].promise, given |-> << >>]
    IN /\ ~Terminates(kind, message, els)
       /\ Complete(s, c, [req |-> slot[s].req, effect |-> slot[s].effect, sound |-> sound,
                          shaped |-> frame = "intact" /\ WellFormed(kind, els), frame |-> frame,
                          executed |-> "yes"])
       /\ slot' = [slot EXCEPT ![s] = Idle]
       /\ IF kind \in {"find", "aggregate", "getMore"} /\ ok
          THEN /\ handle' = [handle EXCEPT ![s] = [id |-> c.result.id, batch |-> slot[s].req.batch]]
               /\ reading' = [reading EXCEPT ![s] = [old EXCEPT !.given = @ \o c.result.docs]]
          ELSE /\ reading' = [reading EXCEPT ![s] = None]
               /\ UNCHANGED handle
       /\ UNCHANGED <<stored, cursors>>

\* The message it arrives in ends the process.
Crash(s, message, els, frame) ==
    /\ Terminates(slot[s].req.kind, message, els)
    /\ got' = [slot |-> s, req |-> slot[s].req, frame |-> frame, executed |-> "ended"]
    /\ UNCHANGED <<stored, cursors, slot, handle, reading>>

Arrive(s) ==
    /\ got = None /\ slot[s].phase = "served"
    /\ \/ \E message \in Intact :
            \/ \E els \in Arranged(slot[s].reply) : Receive(s, message, els, "intact", TRUE)
            \/ \E els \in Flawed(slot[s].reply) : Receive(s, message, els, "intact", FALSE)
       \/ \E frame \in {"broken", "unexpected"} :
            \E message \in IF frame = "broken" THEN Broken ELSE Unexpected :
                \/ Receive(s, message, slot[s].reply, frame, FALSE)
                \/ Crash(s, message, slot[s].reply, frame)

\* The handler returns.
Return == got # None /\ got.executed # "ended" /\ got' = None /\ UNCHANGED <<stored, cursors, slot, handle, reading>>

Init ==
    /\ stored = << >> /\ cursors = << >>
    /\ slot = [s \in Slots |-> Idle]
    /\ handle = [s \in Slots |-> None]
    /\ reading = [s \in Slots |-> None]
    /\ got = None

Next ==
    \/ \E s \in Slots : \/ \E req \in Menu[s] : Call(s, req)
                        \/ Handshake(s) \/ CursorNext(s) \/ CursorDelete(s) \/ Abandon(s)
                        \/ Serve(s) \/ Refuse(s) \/ Lose(s) \/ Arrive(s)
    \/ \E c \in CursorIds : Expire(c)
    \/ Return

Spec == Init /\ [][Next]_vars

-----------------------------------------------------------------------------
(* A completion without an error means that the server has done what the   *)
(* called function stands for, to the documents that were asked for and    *)
(* not by another kind of update, and the counts, the documents and the    *)
(* codes of the write errors in the result are the ones of that effect, in *)
(* whatever order the reply listed them; when the server refused the       *)
(* operation, failed part of it or was not heard of again, the status is   *)
(* an error.  Three things are exactly as the code has them and not as it  *)
(* is documented: amongoc_delete_ex() does not look for write errors and   *)
(* succeeds although there are some (collection.rst:41 "the operation      *)
(* generated one or more write errors"); the index of every write error    *)
(* is 0, whatever the server sent (collection.rst:64 lists it beside the   *)
(* code); and amongoc_count_documents() boxes an int32 where count.rst:6   *)
(* says int64_t, as the other counts are.                                  *)
ReportsTheEffect ==
    got # None =>
        /\ got.executed \in {"no", "unheard"} => amongoc_is_error(got.status) /\ got.result = NoResult
        /\ got.executed = "yes" /\ got.sound =>
            LET sent == got.effect.errors
                heard == IF got.req.kind = "delete" THEN << >>
                         ELSE [k \in DOMAIN sent |-> [index |-> 0, code |-> sent[k].code]]
            IN /\ got.result.errors = heard
               /\ \A f \in DOMAIN NoResult \ {"errors", "box"} : got.result[f] = got.effect[f]
               /\ amongoc_is_error(got.status) <=> heard # << >>
               /\ got.result.box = CASE got.req.kind = "count_documents" -> "int32"
                                     [] got.req.kind \in {"count", "delete"} -> "int64"
                                     [] OTHER -> "none"

(* A reply is turned into a result exactly when its message is an OP_MSG   *)
(* whose lengths add up to one section, and when it has, anywhere in it,   *)
(* every field that the operation needs with a type it understands, and    *)
(* every field that it would use if present.  Otherwise the operation      *)
(* fails with EPROTO and no result, except that the process ends exactly   *)
(* on messages with no or two sections and on a document length below the  *)
(* smallest: throw_protocol_error() "throws a std::system_error with       *)
(* std::errc::protocol_error" (error.hpp:26), but out of a noexcept        *)
(* function, and the length fails an assertion.                            *)
ShapeDecides ==
    got # None =>
        /\ got.executed = "ended" => got.frame = "unexpected"
        /\ got.executed = "yes" =>
            /\ got.frame # "unexpected"
            /\ ~got.shaped <=> got.status = Status("generic", EPROTO)
            /\ ~got.shaped => got.result = NoResult

(* A read that is followed to id zero has delivered every document of its  *)
(* result once and in order, whatever the batch sizes; until then what is  *)
(* still to come is exactly what the server keeps for the cursor, unless   *)
(* it has dropped the cursor.                                              *)
ReadsInFull ==
    \A s \in Slots : handle[s] # None =>
        /\ reading[s] # None
        /\ IsPrefix(reading[s].given, reading[s].all)
        /\ handle[s].id = 0 => reading[s].given = reading[s].all
        /\ handle[s].id \in DOMAIN cursors =>
                reading[s].given \o cursors[handle[s].id] = reading[s].all
=============================================================================
