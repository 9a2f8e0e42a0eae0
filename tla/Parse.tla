------------------------------- MODULE Parse --------------------------------
(***************************************************************************)
(* The parsing combinators of bson/parse.hpp.  A rule looks at an element  *)
(* and accepts it, rejects it (softly: someone else may want it) or        *)
(* reports an error, which stops the parse; on the way it stores values    *)
(* into the caller's variables, whether or not the whole is accepted in    *)
(* the end.  A rule is a record; what it does is Apply().                  *)
(*                                                                         *)
(* A value is its type, a number where it has one and its elements where   *)
(* it is a document or an array.                                           *)
(***************************************************************************)
EXTENDS Naturals, Sequences

Value(t, n, els) == [t |-> t, n |-> n, els |-> els]
El(key, val) == [key |-> key, val |-> val]
IsView(v) == v.t \in {"document", "array"}

\* The rules.
JustAccept == [op |-> "all", of |-> << >>]
AnyRule(rules) == [op |-> "any", of |-> rules]
AllRule(rules) == [op |-> "all", of |-> rules]
Must(rule) == [op |-> "must", of |-> rule]
Maybe(rule) == [op |-> "maybe", of |-> rule]
Type(types, rule) == [op |-> "type", types |-> types, of |-> rule]
Assign(dest) == [op |-> "assign", dest |-> dest]
Store(types, dest) == Type(types, Assign(dest))
Action(dest) == Assign(dest)
Field(key, rule) == [op |-> "field", key |-> key, of |-> rule]
Require(key, rule) == Must(Field(key, rule))
Integer(rule) == Type({"int32", "int64"}, rule)
Each(rule) == Type({"array"}, [op |-> "each", of |-> rule])
Doc(rules) == [op |-> "doc", of |-> rules]
RejectOthers == [op |-> "reject_others"]

Result(state, stores) == [state |-> state, stores |-> stores]
Then(before, r) == Result(r.state, before \o r.stores)

RECURSIVE Apply(_, _), AnyOf(_, _), AllOf(_, _), EachOf(_, _), Offer(_, _, _, _), Scan(_, _, _)

\* Each rule in turn until one does not reject, or does not accept.
AnyOf(rules, el) ==
    IF rules = << >> THEN Result("reject", << >>)
    ELSE LET r == Apply(Head(rules), el)
         IN IF r.state # "reject" THEN r ELSE Then(r.stores, AnyOf(Tail(rules), el))
AllOf(rules, el) ==
    IF rules = << >> THEN Result("accept", << >>)
    ELSE LET r == Apply(Head(rules), el)
         IN IF r.state # "accept" THEN r ELSE Then(r.stores, AllOf(Tail(rules), el))
EachOf(rule, els) ==
    IF els = << >> THEN Result("accept", << >>)
    ELSE LET r == Apply(rule, Head(els))
         IN IF r.state # "accept" THEN r ELSE Then(r.stores, EachOf(rule, Tail(els)))

(***************************************************************************)
(* doc: its rules are parts that share the elements of one document.       *)
(***************************************************************************)
Part == [done |-> FALSE, errored |-> FALSE]

\* part<must<R>> takes the rule out of the must: an element that does not
\* match is not the end, one that never comes is.
PartRule(rule) == IF rule.op = "must" THEN rule.of ELSE rule

handle_element(rule, part, el) ==
    IF rule.op = "reject_others"
    THEN [part |-> [part EXCEPT !.done = TRUE], r |-> Result("reject", << >>)]
    ELSE IF part.done THEN [part |-> part, r |-> Result("reject", << >>)]
    ELSE LET r == Apply(PartRule(rule), el)
         IN [part |-> [done |-> r.state = "accept", errored |-> r.state = "error"], r |-> r]

\* Mutant: an element that never comes is not missed.
FinalStateOptional(rule, part) ==
    IF rule.op = "reject_others" THEN (IF part.done THEN "reject" ELSE "accept")
    ELSE IF part.errored THEN "error"
    ELSE "accept"

final_state(rule, part) ==
    IF rule.op = "reject_others" THEN (IF part.done THEN "reject" ELSE "accept")
    ELSE IF part.errored THEN "error"
    ELSE IF rule.op = "must" /\ ~part.done THEN "reject"
    ELSE "accept"

\* An element goes to the parts in order until one accepts or errors.
Offer(rules, parts, el, k) ==
    IF k > Len(rules) THEN [parts |-> parts, r |-> Result("reject", << >>)]
    ELSE LET h == handle_element(rules[k], parts[k], el)
             now == [parts EXCEPT ![k] = h.part]
         IN IF h.r.state # "reject" THEN [parts |-> now, r |-> h.r]
            ELSE LET rest == Offer(rules, now, el, k + 1)
                 IN [rest EXCEPT !.r = Then(h.r.stores, @)]

Conclude(rules, parts, stores) ==
    LET final == {final_state(rules[k], parts[k]) : k \in DOMAIN rules}
    IN Result(IF "error" \in final THEN "error" ELSE IF "reject" \in final THEN "reject" ELSE "accept",
              stores)

Scan(rules, parts, els) ==
    IF els = << >> \/ \A k \in DOMAIN rules : parts[k].done THEN Conclude(rules, parts, << >>)
    ELSE LET o == Offer(rules, parts, Head(els), 1)
         IN IF o.r.state = "error" THEN Conclude(rules, o.parts, o.r.stores)
            ELSE Then(o.r.stores, Scan(rules, o.parts, Tail(els)))

Apply(rule, el) ==
    CASE rule.op = "any" -> AnyOf(rule.of, el)
      [] rule.op = "all" -> AllOf(rule.of, el)
      [] rule.op = "must" ->
            LET r == Apply(rule.of, el)
            IN Result(IF r.state = "reject" THEN "error" ELSE r.state, r.stores)
      [] rule.op = "maybe" ->
            LET r == Apply(rule.of, el)
            IN Result(IF r.state = "error" THEN "error" ELSE "accept", r.stores)
      [] rule.op = "type" ->
            IF el.val.t \in rule.types THEN Apply(rule.of, el) ELSE Result("reject", << >>)
      [] rule.op = "assign" -> Result("accept", <<[dest |-> rule.dest, val |-> el.val]>>)
      [] rule.op = "field" ->
            IF el.key = rule.key THEN Apply(rule.of, el) ELSE Result("reject", << >>)
      [] rule.op = "each" -> EachOf(rule.of, el.val.els)
      [] rule.op = "doc" ->
            IF ~IsView(el.val) THEN Result("reject", << >>)
            ELSE Scan(rule.of, [k \in DOMAIN rule.of |-> Part], el.val.els)

must_parse(els, rule) == Apply(rule, El("", Value("document", 0, els)))

\* What a variable holds after the parse.
Stored(r, dest, default) ==
    LET s == SelectSeq(r.stores, LAMBDA a : a.dest = dest)
    IN IF s = << >> THEN default ELSE s[Len(s)].val
=============================================================================
