------------------------------ MODULE Timeout ------------------------------
(***************************************************************************)
(* amongoc_timeout() on the default event loop (async.cpp, nano/first.hpp, *)
(* nano/simultaneous.hpp, default_loop.cpp): a race between the caller's   *)
(* emitter and a timer, run by one thread inside asio::io_context::run().  *)
(*                                                                         *)
(* A call R = amongoc_timeout(loop, em, d) starts em and then the timer.   *)
(* Whichever resolves first has its result stored and requests a stop on   *)
(* the race's own stop source; R resolves once BOTH have resolved.  The    *)
(* stop reaches an operation only through the stop callback that           *)
(* adapt_handler registered for it, which emits an Asio cancellation       *)
(* signal.  The signals belong to the loop: an object_pool lends one to    *)
(* each operation and takes it back when the operation's handler is gone,  *)
(* to lend it to another.  The pools of timers and resolvers work alike.   *)
(*                                                                         *)
(* Everything here runs on the loop's thread, so a handler is one action:  *)
(* starting em and starting the timer, which the code runs back to back,   *)
(* are two actions with nothing else in between.  Stop callbacks run in    *)
(* the order of StopSource: the most recently registered first.  Asio is   *)
(* external: a cancelled or finished operation joins the queue of ready    *)
(* completions, and a signal emitted while the operation is not installed  *)
(* in its slot does nothing.                                               *)
(***************************************************************************)
EXTENDS Naturals, Sequences

CONSTANTS
    Calls,     \* the amongoc_timeout() operations that share the loop
    EmKinds,   \* what em may be: see Kinds
    MayStop,   \* TRUE when the handler of R can request a stop
    Signals,   \* the addresses a cancellation signal can have
    MaxSize,   \* _max_size of the object_pool
    NULL       \* "nothing yet"

\* "waits":  an operation of the default loop that its signal cancels and whose
\*           handler passes on the stop token: a timer, tcp_connect;
\* "deaf":   a tcp read or write of the wire client, whose handler comes from
\*           unique_handler::from() and registers no stop callback; or
\*           getaddrinfo, as Asio's resolver has no cancellation per operation;
\* "inline": em resolves inside its own start(), as amongoc_just() does.
Kinds == {"waits", "deaf", "inline"}

Ops == {"em", "timer"}

ASSUME TimeoutConstants ==
    /\ EmKinds \subseteq Kinds
    /\ MayStop \in BOOLEAN
    /\ MaxSize \in Nat
    /\ NULL \notin Calls \cup Signals \cup Ops

\* While some half of a race has no signal, there is an address for a new one.
ASSUME SignalsSuffice ==
    \A lent \in [Calls -> [Ops -> Signals \cup {NULL}]] :
        (\E c \in Calls, o \in Ops : lent[c][o] = NULL) =>
            \E s \in Signals : \A c \in Calls, o \in Ops : lent[c][o] # s

VARIABLES
    kind,         \* what each call's em is
    starting,     \* the call whose start() is on the stack, or NULL
    op,           \* the Asio operation behind each half of each race
    ec,           \* the error code it completes with
    ticket,       \* the signal lent to it, or NULL
    objects,      \* _objects: the signals in the pool
    cookies,      \* the stop callbacks on the race's _stopper: what they emit
    stopped,      \* _stopper.stop_requested()
    outstanding,  \* _outstanding
    result,       \* _result: the half that won
    answer,       \* what R resolved with
    queue,        \* the completions that are ready to run, oldest first
    hit,          \* history: the calls whose timer ran its full duration
    asked         \* history: when each call's handler requested a stop: "never",
                  \* "early" (before R was started), "running" (while both halves
                  \* were waiting) or "late"

raceVars == <<cookies, stopped, outstanding, result, answer>>
poolVars == <<ticket, objects>>
vars     == <<kind, starting, op, ec, poolVars, raceVars, queue, hit, asked>>

Answers == [from : Ops, ec : {"ok", "canceled", "timedout"}]

\* sizeof...(Ss): the halves that have yet to resolve.
HalvesOutstanding == 2

Init ==
    /\ kind \in [Calls -> EmKinds]
    /\ starting = NULL
    /\ op = [c \in Calls |-> [o \in Ops |-> "idle"]]
    /\ ec = [c \in Calls |-> [o \in Ops |-> "none"]]
    /\ ticket = [c \in Calls |-> [o \in Ops |-> NULL]]
    /\ objects = <<>>
    /\ cookies = [c \in Calls |-> <<>>]
    /\ stopped = [c \in Calls |-> FALSE]
    /\ outstanding = [c \in Calls |-> HalvesOutstanding]
    /\ result = [c \in Calls |-> NULL]
    /\ answer = [c \in Calls |-> NULL]
    /\ queue = <<>>
    /\ hit = {}
    /\ asked = [c \in Calls |-> "never"]

-----------------------------------------------------------------------------
\* The callbacks cks without the one that emits s.  A race has two halves, so
\* there are at most two.
Without(cks, s) ==
    LET kept(i) == IF i \in 1..Len(cks) /\ cks[i] # s THEN <<cks[i]>> ELSE <<>>
    IN kept(1) \o kept(2)

Lent == {ticket[h[1]][h[2]] : h \in Calls \X Ops} \ {NULL}

\* Mutant: the signal that is lent stays in the pool.
CheckoutKeeps(c, o) ==
    LET s == IF objects = <<>> THEN CHOOSE x \in Signals : x \notin Lent ELSE Head(objects)
    IN /\ ticket' = [ticket EXCEPT ![c][o] = s]
       /\ objects' = objects

\* checkout(): the signal returned last, or a new one when the pool is empty.
Checkout(c, o) ==
    LET s == IF objects = <<>> THEN CHOOSE x \in Signals : x \notin Lent ELSE Head(objects)
    IN /\ ticket' = [ticket EXCEPT ![c][o] = s]
       /\ objects' = IF objects = <<>> THEN objects ELSE Tail(objects)

\* ~ticket() and return_(): a full pool does not take the signal back.
Return(c, o) ==
    /\ ticket' = [ticket EXCEPT ![c][o] = NULL]
    /\ objects' = IF Len(objects) < MaxSize THEN <<ticket[c][o]>> \o objects ELSE objects

\* The constructor of adapt_handler: a callback constructed on a stopped source
\* is executed there and then, and the signal it emits has no operation in its
\* slot yet, since Asio installs the operation after the handler is built.
RegisterStop(c, o) ==
    IF stopped[c] THEN cookies ELSE [cookies EXCEPT ![c] = <<ticket'[c][o]>> \o @]

\* The operation in the slot of a signal.
Holder(s) == CHOOSE h \in Calls \X Ops : ticket[h[1]][h[2]] = s

\* The operation that the i-th callback of cks cancels, unless Asio has already
\* queued it for completion.
Told(cks, i) ==
    LET h == Holder(cks[i]) IN
    IF i \in 1..Len(cks) /\ op[h[1]][h[2]] = "waiting" THEN <<h>> ELSE <<>>

\* Mutant: only the first callback of the list is executed.
EmitsOne(cks) == Told(cks, 1)

\* The operations that the callbacks cks cancel, in the order they run.
Emitted(cks) == Told(cks, 1) \o Told(cks, 2)

\* request_stop() on a race's _stopper: nothing the second time.
RequestStop(c, cks) == IF stopped[c] THEN <<>> ELSE Emitted(cks)

\* f once the operations in told have been cancelled.
Cancelled(told, f, new) ==
    [c \in Calls |-> [o \in Ops |->
        IF \E i \in 1..Len(told) : told[i] = <<c, o>> THEN new ELSE f[c][o]]]

\* Mutant: R resolves as soon as there is a winner.
AtOnce(left, won) == won # NULL

\* Mutant: the last result is not recognised.
NeverLast(left, won) == left < 0

\* nremain == 0 in nth_result().
LastOne(left, won) == left = 0

\* Mutant: the halves of the race are taken for each other.
SwappedOutcome(won, e) ==
    IF won = "timer" THEN [from |-> "em", ec |-> e]
                     ELSE [from |-> "timer", ec |-> "timedout"]

\* The end of the amongoc_timeout() coroutine.
Outcome(won, e) ==
    IF won = "em" THEN [from |-> "em", ec |-> e]
                  ELSE [from |-> "timer", ec |-> "timedout"]

\* The value of _result once the result of half o has been handled.
Winner(c, o) == IF result[c] = NULL THEN o ELSE result[c]

\* nth_result() of half o with error code e, its completion popped (rest is
\* what is left of the queue) and its own stop callback gone (cks are left).
\* The first result requests the stop, which cancels the other half; the last
\* one resolves R.
NthResult(c, o, e, rest, cks) ==
    LET won  == Winner(c, o)
        told == IF result[c] = NULL THEN RequestStop(c, cks) ELSE <<>>
        left == outstanding[c] - 1
    IN
    /\ outstanding' = [outstanding EXCEPT ![c] = left]
    /\ result' = [result EXCEPT ![c] = won]
    /\ stopped' = [stopped EXCEPT ![c] = TRUE]
    /\ cookies' = [cookies EXCEPT ![c] = IF stopped[c] THEN cks ELSE <<>>]
    /\ op' = [Cancelled(told, op, "queued") EXCEPT ![c][o] = "resolved"]
    /\ ec' = [Cancelled(told, ec, "canceled") EXCEPT ![c][o] = e]
    /\ queue' = rest \o told
    /\ answer' = IF LastOne(left, won)
                 THEN [answer EXCEPT ![c] = Outcome(won, ec'[c][won])]
                 ELSE answer

-----------------------------------------------------------------------------
\* amongoc_start() on R: the coroutine resumes and _start_all() starts em.
StartEm(c) ==
    /\ starting = NULL
    /\ op[c]["em"] = "idle"
    /\ starting' = c
    /\ \/ /\ kind[c] = "inline"
          /\ NthResult(c, "em", "ok", queue, cookies[c])
          /\ UNCHANGED poolVars
       \/ /\ kind[c] # "inline"
          /\ Checkout(c, "em")
          /\ op' = [op EXCEPT ![c]["em"] = "waiting"]
          /\ cookies' = IF kind[c] = "waits" THEN RegisterStop(c, "em") ELSE cookies
          /\ UNCHANGED <<ec, stopped, outstanding, result, answer, queue>>
    /\ UNCHANGED <<kind, hit, asked>>

\* The second half of _start_all(): amongoc_schedule_later(), call_later().
StartTimer(c) ==
    /\ starting = c
    /\ starting' = NULL
    /\ Checkout(c, "timer")
    /\ op' = [op EXCEPT ![c]["timer"] = "waiting"]
    /\ cookies' = RegisterStop(c, "timer")
    /\ UNCHANGED <<kind, ec, stopped, outstanding, result, answer, queue, hit, asked>>

\* Asio finds that the timer's deadline has passed.
Expire(c) ==
    /\ starting = NULL
    /\ op[c]["timer"] = "waiting"
    /\ op' = [op EXCEPT ![c]["timer"] = "queued"]
    /\ ec' = [ec EXCEPT ![c]["timer"] = "ok"]
    /\ queue' = Append(queue, <<c, "timer">>)
    /\ hit' = hit \cup {c}
    /\ UNCHANGED <<kind, starting, poolVars, raceVars, asked>>

\* Asio finds that em's own I/O has finished.
EmFinishes(c) ==
    /\ starting = NULL
    /\ op[c]["em"] = "waiting"
    /\ op' = [op EXCEPT ![c]["em"] = "queued"]
    /\ ec' = [ec EXCEPT ![c]["em"] = "ok"]
    /\ queue' = Append(queue, <<c, "em">>)
    /\ UNCHANGED <<kind, starting, poolVars, raceVars, hit, asked>>

\* io_context::run() runs the oldest ready completion: operator() of
\* adapt_handler drops the stop registration and completes the handler; with
\* the adapt_handler goes its ticket.
Dispatch ==
    /\ starting = NULL
    /\ queue # <<>>
    /\ LET c == Head(queue)[1]
           o == Head(queue)[2]
       IN  /\ NthResult(c, o, ec[c][o], Tail(queue), Without(cookies[c], ticket[c][o]))
           /\ Return(c, o)
    /\ UNCHANGED <<kind, starting, hit, asked>>

\* The handler of R requests a stop, before R is started or while it runs: the
\* race's stop_forwarder requests it on _stopper, unless R has been resolved.
Stop(c) ==
    /\ MayStop
    /\ starting = NULL
    /\ asked[c] = "never"
    /\ answer[c] = NULL
    /\ asked' = [asked EXCEPT ![c] =
                    IF op[c]["timer"] = "idle" THEN "early"
                    ELSE IF \A o \in Ops : op[c][o] = "waiting" THEN "running"
                    ELSE "late"]
    /\ LET told == RequestStop(c, cookies[c]) IN
       /\ op' = Cancelled(told, op, "queued")
       /\ ec' = Cancelled(told, ec, "canceled")
       /\ queue' = queue \o told
    /\ stopped' = [stopped EXCEPT ![c] = TRUE]
    /\ cookies' = [cookies EXCEPT ![c] = <<>>]
    /\ UNCHANGED <<kind, starting, poolVars, outstanding, result, answer, hit>>

Next ==
    \/ Dispatch
    \/ \E c \in Calls : \/ StartEm(c) \/ StartTimer(c) \/ Expire(c)
                        \/ EmFinishes(c) \/ Stop(c)

Spec == Init /\ [][Next]_vars

\* The loop runs: it finishes the start() it is in and runs what is ready.
\* Nothing says that a timer expires soon or that a peer ever answers.
LoopRuns ==
    /\ WF_vars(Dispatch)
    /\ \A c \in Calls : WF_vars(StartTimer(c))

LoopSpec == Spec /\ LoopRuns

\* Time passes as well.
TimePasses == \A c \in Calls : WF_vars(Expire(c))
TimedSpec  == LoopSpec /\ TimePasses

-----------------------------------------------------------------------------
Resolved(c, o) == op[c][o] = "resolved"

\* R resolves only when nothing of the race is left: both halves resolved, no
\* completion of theirs queued and no stop callback registered.  The operation
\* may be destroyed by R's handler, so anything left would be a dangling
\* access (the reason given in adapt_handler::operator()).
QuiescentWhenAnswered ==
    \A c \in Calls : answer[c] # NULL =>
        /\ \A o \in Ops : Resolved(c, o)
        /\ \A i \in 1..Len(queue) : queue[i][1] # c
        /\ cookies[c] = <<>>

\* Each operation is completed once: it is in the queue exactly while Asio owes
\* its completion, and never twice, however expiry, I/O and cancellation race.
CompletedOnce ==
    \A c \in Calls, o \in Ops :
        LET places == {i \in 1..Len(queue) : queue[i] = <<c, o>>} IN
        IF op[c][o] = "queued" THEN \E i \in places : places = {i}
                               ELSE places = {}

\* What R resolves with, whatever order expiry, I/O, the stop of the loser and
\* the stop of R's handler come in.  It is never the cancellation of em; it is
\* ETIMEDOUT when the timer ran its full duration, and in one other case, in
\* which it always is: R's handler requested a stop while neither half had
\* finished.  The stop cancels the timer before em, so the timer wins, and the
\* coroutine takes its index for its reason.  async.h (382-383) says otherwise:
\* "If the timeout is hit, then the result status will be ETIMEDOUT [...].
\* Otherwise, the result status and result value from the base operation will
\* be forwarded."  And when em resolves inside its start(), R waits for the whole
\* timeout: the stop reaches the timer's handler before Asio has the wait that
\* it should cancel.  nanosenders.rst (172-173) says "When the first value is
\* accepted, all other pending nanosenders will be cancelled immediately".
AnswerJustified ==
    \A c \in Calls : answer[c] # NULL =>
        /\ answer[c].ec # "canceled"
        /\ answer[c].ec = "timedout" => c \in hit \/ asked[c] = "running"
        /\ asked[c] = "running" => answer[c].ec = "timedout" /\ c \notin hit
        /\ kind[c] = "inline" => c \in hit

\* When the timer wins, R resolves with ETIMEDOUT, however long em's own I/O
\* would have taken; when em wins, R resolves without waiting for the timer.
WinnerResolves ==
    \A c \in Calls :
        (result[c] # NULL /\ asked[c] # "early") ~> (answer[c] # NULL)

\* A stop requested through R's handler while the race runs resolves R without
\* any help from the timer or the peer, if em hears stops.
StopResolves ==
    \A c \in Calls :
        (kind[c] = "waits" /\ asked[c] \in {"running", "late"}) ~> (answer[c] # NULL)

\* If em hears stops and time passes, every started call is eventually
\* resolved, even when the peer never answers.
Resolves ==
    TimePasses =>
        \A c \in Calls :
            (kind[c] = "waits" /\ op[c]["em"] # "idle" /\ asked[c] # "early")
                ~> (answer[c] # NULL)
=============================================================================
