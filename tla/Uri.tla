-------------------------------- MODULE Uri ---------------------------------
(***************************************************************************)
(* connection_uri::parse(): the grammar is Boost.URL's; what this driver   *)
(* adds is the checks on scheme, host and port, the handlers of the query  *)
(* parameters, applied one after the other, and the warnings they fire at  *)
(* the listeners of the caller's event emitter, whose callbacks run in     *)
(* the middle of the parse.                                                *)
(*                                                                         *)
(* A parameter stands for all that share its handler.  A value is a        *)
(* number, Mixed, text that begins with a number and goes on, or Bad, any  *)
(* other text; an optional is a sequence of at most one value.             *)
(***************************************************************************)
EXTENDS EventEmitter, Integers, FiniteSets

CONSTANTS
    Urls,          \* what Boost.URL makes of the text
    Numbers,       \* the integers among the values of parameters
    Mixed,         \* a number and more behind it, like 12abc
    Lead,          \* Lead[m]: that number
    Bad,           \* the other text
    MaxParams,     \* bound on the parameters of a URI
    MinHeartbeat,  \* 500 ms
    MaxLevel       \* 9, the greatest zlib compression level

ASSUME UriConstants ==
    /\ Numbers \subseteq Int /\ Bad \notin Int \cup Mixed
    /\ \A m \in Mixed : m \notin Int /\ Lead[m] \in Int
    /\ MinHeartbeat \in 0..1000 /\ MaxLevel \in Nat

VARIABLES
    url,        \* the parsed text
    pc,         \* "start", "params", "accepted", or the error returned
    params,     \* connection_params: the value of each slot
    seen,       \* history: the parameters handled so far
    pending,    \* the warnings of the current parameter that are still to be fired
    warned      \* history: the warnings fired, each with its parameter

uriVars == <<url, pc, params, seen, pending, warned>>
vars == <<uriVars, emitterVars>>

Values == Numbers \cup Mixed \cup {Bad}

\* handle_param(): the slot that a key assigns to (two keys share one twice).
Slot == [appname |-> "appname", journal |-> "journal", zlibCompressionLevel |-> "zlib",
         heartbeatFrequencyMS |-> "heartbeat", connectTimeoutMS |-> "connectTimeout",
         tlsInsecure |-> "tlsInsecure", compressors |-> "compressors",
         readPreferenceTags |-> "tags", tls |-> "tls", ssl |-> "tls",
         wTimeout |-> "wTimeout", wTimeoutMS |-> "wTimeout", maxPoolSize |-> "maxPoolSize"]
Keys == DOMAIN Slot
Slots == {Slot[k] : k \in Keys}

Clamp(v, min, max) == IF v < min THEN min ELSE IF v > max THEN max ELSE v
Outside(v, min, max) == IF v < min \/ v > max THEN <<"range">> ELSE << >>

\* A conversion: the value, if there is one, and the warnings on the way.
Converted(val, warns) == [val |-> val, warns |-> warns]
Keep(v) == Converted(<<v>>, << >>)
\* from_chars() stops at the first character that is not part of the number.
from_chars(v) == IF v \in Mixed THEN Lead[v] ELSE v
try_parse_int(v) == IF v = Bad THEN Converted(<< >>, <<"invalid">>) ELSE Keep(from_chars(v))
try_parse_bool(v) ==
    IF v \in {1} THEN Keep(1)
    ELSE IF v \in {0, -1} THEN Keep(0) ELSE Converted(<< >>, <<"invalid">>)
clamp_and_warn(c, min, max) ==
    IF c.val = << >> THEN c
    ELSE Converted(<<Clamp(c.val[1], min, max)>>, c.warns \o Outside(c.val[1], min, max))
MaxDuration == 1000
try_parse_duration_ms(v) == clamp_and_warn(try_parse_int(v), 0, MaxDuration)

Convert(slot, v) ==
    CASE slot \in {"appname", "compressors", "tags"} -> Keep(v)
      [] slot \in {"journal", "tlsInsecure", "tls"} -> try_parse_bool(v)
      [] slot = "maxPoolSize" -> try_parse_int(v)
      [] slot = "zlib" -> clamp_and_warn(try_parse_int(v), -1, MaxLevel)
      [] slot = "heartbeat" ->
            clamp_and_warn(try_parse_duration_ms(v), MinHeartbeat, MaxDuration)
      [] slot \in {"connectTimeout", "wTimeout"} -> try_parse_duration_ms(v)

\* assign(): the new value, if only its absence, replaces the old one.
Assigned == {"connectTimeout", "tlsInsecure", "compressors"}
assign(old, c) == c.val

\* opt_fmap(opt_assign()): a value replaces the old one, with a warning.
opt_assign(old, c) == IF c.val = << >> THEN old ELSE c.val
\* Mutant: a parameter that is given twice replaces in silence.
ReplacesSilently(old, c) == << >>
AssignWarns(old, c) == IF old # << >> /\ c.val # << >> THEN <<"multiple">> ELSE << >>

Handle(slot, c) ==
    LET old == params[slot]
    IN IF slot \in Assigned THEN Converted(assign(old, c), c.warns)
       ELSE IF slot = "tags" THEN Converted(Append(old, c.val[1]), << >>)
       ELSE IF slot = "tls" THEN Converted(opt_assign(old, c), c.warns)
       ELSE Converted(opt_assign(old, c), c.warns \o AssignWarns(old, c))

\* toggle_tls
Conflict(slot, c) ==
    slot = "tls" /\ c.val # << >> /\ params[slot] # << >> /\ params[slot] # c.val

-----------------------------------------------------------------------------
\* The checks before the parameters, in their order.
boost_err_to_status(err) == IF err = "boost.url.grammar" THEN "einval" ELSE err
CheckUrl ==
    /\ pc = "start"
    /\ pc' = IF url.error # "none" THEN boost_err_to_status(url.error)
             ELSE IF url.scheme # "mongodb" THEN "protocol_not_supported"
             ELSE IF url.host \in {"empty", "slash"} THEN "einval"
             ELSE IF url.port = <<0>> THEN "einval"
             ELSE "params"
    /\ UNCHANGED <<url, params, seen, pending, warned, emitterVars>>

Ready == pc = "params" /\ pending = << >> /\ ~firing

\* One round of the loop over encoded_params().  The warnings of a parameter
\* are fired while it is handled; their listeners cannot see params, which
\* the parse has not returned yet.
Param(key, v) ==
    LET c == Convert(Slot[key], v)
        h == Handle(Slot[key], c)
    IN /\ Ready /\ Len(seen) < MaxParams
       /\ params' = [params EXCEPT ![Slot[key]] = h.val]
       /\ pending' = h.warns
       /\ pc' = IF Conflict(Slot[key], c) THEN "einval" ELSE pc
       /\ seen' = Append(seen, [slot |-> Slot[key], val |-> v])
       /\ UNCHANGED <<url, warned, emitterVars>>

UnknownParam ==
    /\ Ready /\ Len(seen) < MaxParams
    /\ pending' = <<"unknown">>
    /\ seen' = Append(seen, [slot |-> "unknown", val |-> Bad])
    /\ UNCHANGED <<url, pc, params, warned, emitterVars>>

Warn ==
    /\ pending # << >>
    /\ Fire
    /\ pending' = Tail(pending)
    /\ warned' = warned \cup {<<Len(seen), Head(pending)>>}
    /\ UNCHANGED <<url, pc, params, seen>>

\* The callback of a listener, and its return.
Callback ==
    /\ firing
    /\ \E l \in Listeners : Listen(l) \/ Destroy(l)
    /\ UNCHANGED uriVars
CallbackReturns == (CallNext \/ CallAstray) /\ UNCHANGED uriVars

\* The caller's listeners come and go before it parses.
Subscribe ==
    /\ pc = "start"
    /\ \E l \in Listeners : Listen(l) \/ Destroy(l)
    /\ UNCHANGED uriVars

\* The end of the query: credentials and the host.  (host_type ipvfuture and
\* none terminate the program.)
Finish ==
    /\ Ready
    /\ pc' = IF url.host = "ipvfuture" THEN "terminated" ELSE "accepted"
    /\ UNCHANGED <<url, params, seen, pending, warned, emitterVars>>

Init ==
    /\ url \in Urls
    /\ pc = "start"
    /\ params = [s \in Slots |-> << >>]
    /\ seen = << >> /\ pending = << >> /\ warned = {}
    /\ EmitterInit

Next ==
    \/ CheckUrl \/ Subscribe
    \/ \E key \in Keys, v \in Values : Param(key, v)
    \/ UnknownParam \/ Warn \/ Callback \/ CallbackReturns \/ Finish

Spec == Init /\ [][Next]_vars

-----------------------------------------------------------------------------
\* The parameters for a slot, and the ones among them that gave a value.
For(slot)    == {k \in 1..Len(seen) : seen[k].slot = slot}
Value(k)     == Convert(seen[k].slot, seen[k].val).val
Usable(slot) == {k \in For(slot) : Value(k) # << >>}

\* val is what the last of the parameters ks gave.
LastOf(ks, val) ==
    IF ks = {} THEN val = << >> ELSE \E k \in ks : val = Value(k) /\ \A j \in ks : j <= k

TagsUpTo(k) == Cardinality({j \in 1..k : seen[j].slot = "tags"})

(* What the parse returns is a matter of the whole query string: the last  *)
(* usable value of a parameter counts, under whichever of its names it was *)
(* given, the tags add up in order, and the values of tls and ssl agree;   *)
(* only for the parameters that are assigned without a check does a last   *)
(* value that is unusable erase a usable one.                              *)
LastValueWins ==
    pc = "accepted" =>
        /\ \A s \in Slots \ (Assigned \cup {"tags"}) : LastOf(Usable(s), params[s])
        /\ \A s \in Assigned : LastOf(For(s), params[s])
        /\ Len(params["tags"]) = TagsUpTo(Len(seen))
        /\ \A k \in For("tags") : params["tags"][TagsUpTo(k)] = seen[k].val
        /\ \A j, k \in Usable("tls") : Value(j) = Value(k)

\* The value of a numeric parameter was changed to fit its range.
Moved(slot, v) ==
    /\ slot \in {"maxPoolSize", "zlib", "heartbeat", "connectTimeout", "wTimeout"}
    /\ Convert(slot, v).val \notin {<< >>, <<from_chars(v)>>}

\* A usable parameter for a slot that an earlier one had filled.
Repeats(k) == Value(k) # << >> /\ \E j \in Usable(seen[k].slot) : j < k

\* What there is to say of the k-th parameter.
Warnings(k) ==
    IF seen[k].slot = "unknown" THEN {"unknown"}
    ELSE {r \in {"invalid", "range", "multiple"} :
            \/ r = "invalid" /\ Value(k) = << >>
            \/ r = "range" /\ Moved(seen[k].slot, seen[k].val)
            \/ /\ r = "multiple" /\ Repeats(k)
               /\ seen[k].slot \notin Assigned \cup {"tags", "tls"}}

(* The warnings are exactly these, parameter by parameter, whatever the    *)
(* listeners do meanwhile: a parameter is unknown, or gives no value, or   *)
(* its number was moved into its range, or it replaces the value of an     *)
(* earlier one through opt_assign().  So a value that assign() or          *)
(* toggle_tls replaces and the text behind a number go without a warning,  *)
(* although uri.cpp:218 says of an optional that already has a value that  *)
(* assigning it generates one.                                             *)
WarningsAreExact ==
    pc = "accepted" =>
        warned = UNION {{<<k, r>> : r \in Warnings(k)} : k \in 1..Len(seen)}

(* An accepted query string is read exactly: connection_uri::parse() gives *)
(* each option the value LastValueWins names, and has fired for each       *)
(* parameter the warnings of WarningsAreExact and no other.                *)
QueryIsReadExactly == LastValueWins /\ WarningsAreExact
=============================================================================
