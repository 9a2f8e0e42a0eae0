----------------------------- MODULE Operations -----------------------------
(***************************************************************************)
(* Emitters, handlers and operations of the C API (async*.cpp, handler.h,  *)
(* emitter.h, operation.h, nano/simple.hpp, nano/let.detail.hpp,           *)
(* nano/then.detail.hpp, box.compress.hpp, coroutine.hpp): who owns what,  *)
(* who completes whom, and in which order things are destroyed.            *)
(*                                                                         *)
(* An emitter expression is a source and a list of stages (amongoc_then,   *)
(* amongoc_then_just, amongoc_let) around it.  Connecting it nests the     *)
(* operations outside in and the handlers inside out: the source's         *)
(* operation owns the handler of stage 1, which owns that of stage 2, and  *)
(* so on to the user's handler.  From then on handlers MOVE: into the      *)
(* event loop (amongoc_schedule_later), into a coroutine's promise, or     *)
(* into the next operation of a let stage, which itself lives inside the   *)
(* handler of that stage.  The ownership tree is the variable owner;       *)
(* destroying an object destroys all that it owns.                         *)
(*                                                                         *)
(* One thread runs everything.  A chain of completions is modelled one     *)
(* call at a time (variable call); `stack' owns the handler that the loop  *)
(* is dispatching, which dies when the dispatch returns.                   *)
(***************************************************************************)
EXTENDS Naturals, Sequences

CONSTANTS
    Sources,      \* the source emitters to choose from, records of Emitters
    Stages,       \* the stages to choose from, records of AllStages
    MaxStages,    \* bound: stages around the source
    NULL          \* "nothing"

\* "just":   amongoc_just(): completes inside start();
\* "nomem":  amongoc_alloc_failure(), which stands for any emitter whose state
\*           or coroutine frame could not be allocated: ENOMEM inside start();
\* "later":  amongoc_schedule_later(): hands its handler to the loop;
\* "ramp":   a coroutine that is done before `co_await ramp_end';
\* "awaits": a coroutine that awaits a timer; "nested": one that awaits a
\*           co_task that awaits a timer.
EmitterKinds == {"just", "nomem", "later", "ramp", "awaits", "nested"}

IsCoroutine(e) == e.kind \in {"ramp", "awaits", "nested"}

\* How a coroutine ends: a return, or an exception that leaves its body.
Ends == {"return", "server_error", "system_error", "exception", "bad_alloc"}

Emitters == [kind : EmitterKinds, st : {"ok", "err"}, end : Ends]

\* fwd: amongoc_async_forward_errors; out: what a then transformer stores in
\* *status; next: the emitter that a let transformer returns; ud: how the
\* userdata box is stored: nothing to store, a value with a destructor that
\* fits the box, or one in dynamic storage.
Storage   == {"nil", "inline", "dynamic"}
AllStages ==
    [how : {"then"}, fwd : BOOLEAN, out : {"keep", "ok", "err"}, ud : Storage]
      \cup [how : {"then_just"}, fwd : BOOLEAN, out : {"ok", "err"}, ud : Storage]
      \cup [how : {"let"}, fwd : BOOLEAN, next : Emitters, ud : Storage]

ASSUME OperationsConstants ==
    /\ Sources \subseteq Emitters
    /\ Stages \subseteq AllStages
    /\ MaxStages \in Nat

\* em i:    the emitter after i stages;      op i:  the source's operation (0)
\*          or the one started by let stage i;
\* hnd i:   the handler of stage i, the user's handler when i is one more;
\* frame i: the coroutine frame behind op i; task i: the co_task it awaits;
\* rcv i:   the receiver of the awaited timer, a pointer into that frame;
\* ud i:    the userdata of stage i.
Levels == 0..(MaxStages + 1)
Objs   == {"em", "op", "hnd", "frame", "task", "rcv", "ud"} \X Levels

Em(i)    == <<"em", i>>
Op(i)    == <<"op", i>>
Hnd(i)   == <<"hnd", i>>
Frame(i) == <<"frame", i>>
Task(i)  == <<"task", i>>
Rcv(i)   == <<"rcv", i>>
Ud(i)    == <<"ud", i>>

\* Owners that are not objects; GONE: destroyed or not made, LOST: leaked.
USER  == <<"user", 0>>
LOOP  == <<"loop", 0>>
STACK == <<"stack", 0>>
GONE  == <<"gone", 0>>
LOST  == <<"lost", 0>>

VARIABLES
    src,      \* the source of the expression
    stages,   \* its stages
    phase,    \* what the user has done with it
    owner,    \* who destroys each object
    call,     \* the call in progress, or NULL
    result    \* what the user's handler has been completed with, in order

vars == <<src, stages, phase, owner, call, result>>

N == Len(stages)

Exists(x) == owner[x] \notin {GONE, LOST}

Init ==
    /\ src \in Sources
    /\ stages \in UNION {[1..n -> Stages] : n \in 0..MaxStages}
    /\ phase = "emitter"
    /\ call = NULL
    /\ result = <<>>
    /\ owner = [x \in Objs |->
         CASE x = Em(Len(stages)) -> USER
           [] x[1] = "em" /\ x[2] < Len(stages) -> Em(x[2] + 1)
           [] x = Frame(0) /\ IsCoroutine(src) -> Em(0)
           [] x[1] = "ud" /\ x[2] \in 1..Len(stages) ->
                IF stages[x[2]].ud = "nil" THEN GONE ELSE Em(x[2])
           [] OTHER -> GONE]

-----------------------------------------------------------------------------
(* Results.                                                                *)

IsError(r) == r.st # "ok"

\* emitter_promise::unhandled_exception().
UnhandledException(x) ==
    CASE x = "server_error" -> [st |-> "err", val |-> <<"body">>]
      [] x = "system_error" -> [st |-> "err", val |-> <<"message">>]
      [] x = "exception"    -> [st |-> "err", val |-> <<"nil">>]
      [] x = "bad_alloc"    -> [st |-> "enomem", val |-> <<"nil">>]

Nil(st) == [st |-> st, val |-> <<"nil">>]

\* amongoc_alloc_failure().
AllocFailure == Nil("enomem")

\* The value a coroutine finishes with: return_value() or the exception.
CoroutineResult(e, i) ==
    IF e.end = "return" THEN [st |-> e.st, val |-> <<"value", i>>]
                        ELSE UnhandledException(e.end)

\* What emitter e completes with when it is op i of the chain.
EmitterResult(e, i) ==
    CASE e.kind = "just"  -> [st |-> e.st, val |-> <<"value", i>>]
      [] e.kind = "nomem" -> AllocFailure
      [] e.kind = "later" -> Nil("ok")
      [] OTHER            -> CoroutineResult(e, i)

\* Mutant: the flag is ignored.
NeverForwards(s, r) == FALSE

\* res.status.is_error() under ForwardErrors: the transformer is skipped.
Forwards(s, r) == s.fwd /\ IsError(r)

\* The transformer that amongoc_then_just() installs: it replaces the status
\* and returns its userdata as the value.
JustTransformer(i, r) == [st |-> stages[i].out, val |-> <<"value", i>>]

\* A transformer of the user: it may store a new status and returns a value.
UserTransformer(i, r) ==
    [st |-> IF stages[i].out = "keep" THEN r.st ELSE stages[i].out, val |-> <<"value", i>>]

\* then_continuation::operator().
ThenResult(i, r) ==
    IF Forwards(stages[i], r) THEN r
    ELSE IF stages[i].how = "then_just" THEN JustTransformer(i, r)
    ELSE UserTransformer(i, r)

-----------------------------------------------------------------------------
(* Ownership.                                                              *)

\* amongoc_then_just() with an error boxes the value together with the status.
\* The pair is not trivially relocatable, so the box is dynamic.
Paired(s) == s.how = "then_just" /\ s.out = "err" /\ s.ud # "nil"

\* What a destructor does not reach: dynamic_box, the compressed form of a
\* box with dynamic storage, has none.  It holds dynamic userdata, the pair of
\* amongoc_then_just(), and the emitter that a stage is built around when that
\* is itself composed.
Loses(x) ==
    \/ x[1] = "ud" /\ (stages[x[2]].ud = "dynamic" \/ Paired(stages[x[2]]))
    \/ x[1] = "em" /\ x[2] > 0

\* The objects that go when those in S are destroyed.
Doomed(o, S) ==
    LET Depth == 4 * MaxStages + 8
        Reach[k \in 0..Depth] ==
          IF k = 0 THEN S
          ELSE S \cup {x \in Objs : o[x] \in Reach[k - 1] /\ ~Loses(x)}
    IN  Reach[Depth]

\* amongoc_box_destroy() on everything that is owned by S, and S itself.
Destroy(o, S) ==
    LET D == Doomed(o, S) IN
    [x \in Objs |-> IF x \in D THEN GONE
                    ELSE IF o[x] \in D THEN LOST
                    ELSE o[x]]

\* Nothing runs: no call, no dispatch.
Idle == call = NULL /\ \A x \in Objs : owner[x] # STACK

Complete(i, r) == [do |-> "complete", lvl |-> i, res |-> r]
StartOf(i, e, r) == [do |-> "start", lvl |-> i, em |-> e, res |-> r]

ASSUME NullIsNoCall == \A e \in Sources : StartOf(0, e, EmitterResult(e, 0)) # NULL

-----------------------------------------------------------------------------
(* What the user does.                                                     *)

\* amongoc_emitter_delete() on an emitter that was never connected.
DeleteEmitter ==
    /\ phase = "emitter"
    /\ phase' = "deleted"
    /\ owner' = Destroy(owner, {Em(N)})
    /\ UNCHANGED <<src, stages, call, result>>

\* as_handler(): the receiver of stage i owns the handler of the next one.
HandlerOwner(i) == IF i = 1 THEN Op(0) ELSE Hnd(i - 1)

\* recover(): a stage's userdata moves from the emitter to the handler.
RecoveredOwner(x) == IF Exists(x) THEN Hnd(x[2]) ELSE GONE

\* amongoc_emitter_connect() with the user's handler, through every stage;
\* nothing of the emitter is left.
Wired(root) ==
    [x \in Objs |->
       CASE x = Op(0) -> root
         [] x[1] = "hnd" /\ x[2] \in 1..(N + 1) -> HandlerOwner(x[2])
         [] x = Frame(0) /\ Exists(x) -> Op(0)
         [] x[1] = "ud" -> RecoveredOwner(x)
         [] OTHER -> GONE]

Connect ==
    /\ phase = "emitter"
    /\ phase' = "connected"
    /\ owner' = Wired(USER)
    /\ UNCHANGED <<src, stages, call, result>>

\* amongoc_start().
Start ==
    /\ phase = "connected"
    /\ phase' = "started"
    /\ call' = StartOf(0, src, EmitterResult(src, 0))
    /\ UNCHANGED <<src, stages, owner, result>>

\* amongoc_detach_start(): the user's handler is a consigned_operation, which
\* owns the operation that it is the handler of.
DetachStart ==
    /\ phase = "emitter"
    /\ phase' = "detached"
    /\ owner' = Wired(Hnd(N + 1))
    /\ call' = StartOf(0, src, EmitterResult(src, 0))
    /\ UNCHANGED <<src, stages, result>>

\* amongoc_operation_delete() on an operation that is not in progress.
Release ==
    /\ phase \in {"connected", "completed"}
    /\ Idle
    /\ phase' = "released"
    /\ owner' = Destroy(owner, {Op(0)})
    /\ UNCHANGED <<src, stages, call, result>>

-----------------------------------------------------------------------------
(* The chain of calls.                                                     *)

\* The start callback of amongoc_just(), of amongoc_alloc_failure() and of a
\* coroutine that is done completes the operation's handler in place.
StartImmediate ==
    /\ call # NULL
    /\ call.do = "start"
    /\ call.em.kind \in {"just", "nomem", "ramp"}
    /\ call' = Complete(call.lvl + 1, call.res)
    /\ UNCHANGED <<src, stages, phase, owner, result>>

\* The start callback of amongoc_schedule_later() gives the handler away.
StartLater ==
    /\ call # NULL
    /\ call.do = "start"
    /\ call.em.kind = "later"
    /\ call' = NULL
    /\ owner' = [owner EXCEPT ![Hnd(call.lvl + 1)] = LOOP]
    /\ UNCHANGED <<src, stages, phase, result>>

\* Mutant: the timer's receiver never reaches the loop.
AwaitUnheard(o, i) == o

\* nanosender_awaiter::await_suspend(): the awaited timer's handler is a
\* receiver that points into the frame, and it is given to the loop.
AwaitTimer(o, i) == [o EXCEPT ![Rcv(i)] = LOOP]

\* co_task::awaiter::await_suspend(): the child runs and awaits the timer; the
\* co_task is a temporary of the parent's frame.
AwaitTask(o, i, e) ==
    IF e.kind = "nested" THEN [o EXCEPT ![Task(i)] = Frame(i)] ELSE o

\* Mutant: the handler stays with the operation.
HandlerStays(o, i) == o

\* fin_handler = std::move(h): the promise owns the handler.
GiveHandlerToPromise(o, i) == [o EXCEPT ![Hnd(i + 1)] = Frame(i)]

\* The start callback of a coroutine that is suspended at `co_await ramp_end'.
StartCoroutine ==
    /\ call # NULL
    /\ call.do = "start"
    /\ call.em.kind \in {"awaits", "nested"}
    /\ call' = NULL
    /\ LET i == call.lvl
       IN  owner' = AwaitTimer(AwaitTask(GiveHandlerToPromise(owner, i), i, call.em), i)
    /\ UNCHANGED <<src, stages, phase, result>>

\* Mutant: the userdata of a skipped transformer is forgotten.
UserdataForgotten(i, r) ==
    IF owner[Ud(i)] # GONE /\ Forwards(stages[i], r) THEN LOST ELSE GONE

\* Mutant: recover() leaves dynamic userdata behind.
UserdataLeftBehind(i, r) ==
    IF Forwards(stages[i], r) THEN owner[Ud(i)]
    ELSE IF Paired(stages[i]) \/ stages[i].ud = "dynamic" THEN LOST
    ELSE GONE

\* The userdata goes to the transformer when it runs: a user's transformer is
\* responsible for it, and that of amongoc_then_just() returns it as the value.
\* With an error it returns the value out of the pair, whose box it drops.
UserdataAfter(i, r) ==
    IF Forwards(stages[i], r) THEN owner[Ud(i)]
    ELSE IF Paired(stages[i]) THEN LOST
    ELSE GONE

\* The handler of a then stage.
RunThen ==
    /\ call # NULL
    /\ call.do = "complete"
    /\ call.lvl \in 1..N
    /\ stages[call.lvl].how \in {"then", "then_just"}
    /\ call' = Complete(call.lvl + 1, ThenResult(call.lvl, call.res))
    /\ owner' = [owner EXCEPT ![Ud(call.lvl)] = UserdataAfter(call.lvl, call.res)]
    /\ UNCHANGED <<src, stages, phase, result>>

\* The emitter of a let continuation, with what it will complete with.
NextOf(i, r) ==
    IF Forwards(stages[i], r)
    THEN StartOf(i, [kind |-> "just", st |-> r.st, end |-> "return"], r)
    ELSE StartOf(i, stages[i].next, EmitterResult(stages[i].next, i))

\* let_recv::operator(): connect the next emitter to the next handler in place,
\* inside the handler of this stage, and start it.
RunLet ==
    /\ call # NULL
    /\ call.do = "complete"
    /\ call.lvl \in 1..N
    /\ stages[call.lvl].how = "let"
    /\ LET i == call.lvl
           n == NextOf(i, call.res)
       IN  /\ call' = n
           /\ owner' = [owner EXCEPT
                 ![Op(i)] = Hnd(i), ![Hnd(i + 1)] = Op(i),
                 ![Frame(i)] = IF IsCoroutine(n.em) THEN Op(i) ELSE GONE,
                 ![Ud(i)] = UserdataAfter(i, call.res)]
    /\ UNCHANGED <<src, stages, phase, result>>

\* The user's handler, which may destroy the operation there and then.
RunUser ==
    /\ call # NULL
    /\ call.do = "complete"
    /\ call.lvl = N + 1
    /\ call' = NULL
    /\ result' = Append(result, call.res)
    /\ \/ phase = "detached" /\ UNCHANGED <<phase, owner>>
       \/ phase # "detached" /\ phase' = "completed" /\ UNCHANGED owner
       \/ /\ phase # "detached"
          /\ phase' = "released"
          /\ owner' = Destroy(owner, {Op(0)})
    /\ UNCHANGED <<src, stages>>

-----------------------------------------------------------------------------
(* The event loop.                                                         *)

\* The emitter whose coroutine is frame i.
EmitterOf(i) == IF i = 0 THEN src ELSE stages[i].next

\* A timer of amongoc_schedule_later() fires: adapt_handler, now on the loop's
\* stack, completes the handler it owns.
FireLater(i) ==
    /\ Idle
    /\ owner[Hnd(i)] = LOOP
    /\ owner' = [owner EXCEPT ![Hnd(i)] = STACK]
    /\ call' = Complete(i, Nil("ok"))
    /\ UNCHANGED <<src, stages, phase, result>>

\* The final suspension of a co_task resumes its parent, which takes the result
\* (or throws the exception again) and destroys the co_task.
HandOff(o, i) == [o EXCEPT ![Task(i)] = GONE]

\* A timer that a coroutine awaits fires: the receiver resumes the coroutine or
\* the co_task that it awaits, and the final suspension completes fin_handler.
FireAwaited(i) ==
    /\ Idle
    /\ owner[Rcv(i)] = LOOP
    /\ owner' = HandOff([owner EXCEPT ![Rcv(i)] = STACK], i)
    /\ call' = Complete(i + 1, EmitterResult(EmitterOf(i), i))
    /\ UNCHANGED <<src, stages, phase, result>>

\* The dispatch returns and destroys the handler that it ran.
Return ==
    /\ call = NULL
    /\ \E x \in Objs : owner[x] = STACK /\ owner' = Destroy(owner, {x})
    /\ UNCHANGED <<src, stages, phase, call, result>>

Run == StartImmediate \/ StartLater \/ StartCoroutine \/ RunThen \/ RunLet \/ RunUser
Fire == \E i \in Levels : FireLater(i) \/ FireAwaited(i)

LoopThread == Run \/ Fire \/ Return

Next == DeleteEmitter \/ Connect \/ Start \/ DetachStart \/ Release \/ LoopThread

Spec == Init /\ [][Next]_vars

\* Calls return, and the loop runs what is ready: timers expire.
FairSpec == Spec /\ WF_vars(LoopThread)

-----------------------------------------------------------------------------
\* No call enters what has been destroyed, although handlers destroy
\* operations, loops destroy handlers and coroutines are destroyed while their
\* own completion is on the stack: the handler or operation that is entered
\* exists, a completion that the loop owes a coroutine finds its frame and the
\* handler inside it, and nothing is owned by something that is gone.
NoUseAfterFree ==
    /\ call # NULL =>
         Exists(IF call.do = "start" THEN Op(call.lvl) ELSE Hnd(call.lvl))
    /\ \A i \in Levels : owner[Rcv(i)] = LOOP => Exists(Frame(i)) /\ owner[Hnd(i + 1)] = Frame(i)
    /\ \A x \in Objs : owner[x] \in Objs => owner[owner[x]] # GONE

\* What the expression means, stage by stage: with forward_errors an error
\* passes a stage unchanged, otherwise the stage's own result takes over.
Meanings ==
    LET D[i \in 0..N] ==
          IF i = 0 THEN EmitterResult(src, 0)
          ELSE IF stages[i].fwd /\ D[i - 1].st # "ok" THEN D[i - 1]
          ELSE IF stages[i].how = "let" THEN EmitterResult(stages[i].next, i)
          ELSE [st |-> IF stages[i].out = "keep" THEN D[i - 1].st ELSE stages[i].out,
                val |-> <<"value", i>>]
    IN  D

Meaning == Meanings[N]

\* The user's handler is completed once, with the meaning of the expression,
\* whichever stages complete inside start(), on the loop or in a coroutine.
CompletesWithMeaning == result # <<>> => result = <<Meaning>>

\* Nothing runs, nothing is pending, and the user holds nothing.
AllOver ==
    /\ Idle
    /\ \A x \in Objs : owner[x] # LOOP
    /\ phase \in {"deleted", "released", "detached"}

\* An operation that the user released, or that was detached around a timer, has
\* been destroyed when all is over, with every handler, coroutine, operation and
\* userdata it owned.  The one thing that can be left is userdata in a dynamic
\* box; LeaksAreThese says when, and what is left of the other detached ones.
ConnectedIsReleased ==
    AllOver /\ (phase = "released" \/ (phase = "detached" /\ src.kind = "later")) =>
        \A x \in Objs : owner[x] = GONE \/ (x[1] = "ud" /\ owner[x] = LOST /\ Loses(x))

\* An error reaches stage i and passes it by.
SkippedBy(i) == stages[i].fwd /\ Meanings[i - 1].st # "ok"

\* The loop had the handler of some stage, and with it the whole operation.
LoopHadHandler ==
    \/ src.kind = "later"
    \/ \E i \in 1..N : /\ stages[i].how = "let"
                       /\ stages[i].next.kind = "later"
                       /\ ~SkippedBy(i)

\* The userdata of stage i that nothing destroys, by what became of the
\* expression: of a deleted emitter all but what fits the box of the last stage,
\* of an operation the value that amongoc_then_just() pairs with an error, and
\* what is in dynamic storage and was never given to its transformer.
Leaks(i) ==
    /\ stages[i].ud # "nil"
    /\ CASE phase = "deleted" -> i < N \/ Loses(Ud(i))
         [] phase = "released" ->
              \/ Paired(stages[i])
              \/ stages[i].ud = "dynamic" /\ (result = <<>> \/ SkippedBy(i))
         [] phase = "detached" ->
              \/ Paired(stages[i])
              \/ SkippedBy(i) /\ (stages[i].ud = "dynamic" \/ ~LoopHadHandler)

\* What is left when all is over, exactly.  The reference promises more:
\* "If the transformer function is not called but the associated emitter is
\* destroyed or resolves in another way, then the userdata will be destroyed
\* automatically" (async.rst:352-354), the value of amongoc_then_just() "will be
\* destroyed" upon failure (async.rst:182-184), and amongoc_detach_start() will
\* "destroy the operation state when the operation completes" (async.rst:310).
\* In the code userdata survives as Leaks says, and a detached operation is
\* destroyed only when the handler of some stage was given away to the loop.
LeaksAreThese ==
    AllOver =>
        /\ \A i \in 1..N : owner[Ud(i)] # GONE <=> Leaks(i)
        /\ phase = "detached" => (owner[Op(0)] = GONE <=> LoopHadHandler)

\* An operation that is started completes.
StartedCompletes == (phase \in {"started", "detached"}) ~> (result # <<>>)
=============================================================================
