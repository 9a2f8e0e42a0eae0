---------------------------- MODULE MCOperations ----------------------------
(* Operations for TLC: the expressions of an instance.                      *)
EXTENDS Operations

E(k, s, x) == [kind |-> k, st |-> s, end |-> x]

\* One emitter of every kind and every ending.
EveryEmitter ==
    {E("just", "ok", "return"), E("just", "err", "return"), E("nomem", "ok", "return"),
     E("later", "ok", "return"), E("ramp", "ok", "return"), E("ramp", "ok", "exception"),
     E("awaits", "ok", "return"), E("awaits", "ok", "bad_alloc"),
     E("awaits", "ok", "system_error"), E("nested", "ok", "return"),
     E("nested", "ok", "server_error")}

\* What a let transformer may return when its handler lives in the loop.
StatelessEmitters ==
    {E("just", "ok", "return"), E("just", "err", "return"), E("later", "ok", "return")}

Thens(uds) == [how : {"then"}, fwd : BOOLEAN, out : {"keep", "ok", "err"}, ud : uds]
Justs(uds) == [how : {"then_just"}, fwd : BOOLEAN, out : {"ok", "err"}, ud : uds]
Lets(nexts, uds) == [how : {"let"}, fwd : BOOLEAN, next : nexts, ud : uds]

EveryStage ==
    Thens({"inline"}) \cup Justs({"inline"}) \cup Lets(StatelessEmitters, {"nil"})
      \cup {s \in Thens({"dynamic"}) : s.out = "keep"}
CoroutineStages == Lets({E("just", "ok", "return"), E("awaits", "ok", "return")}, {"nil"})
=============================================================================
