----------------------------- MODULE StopSource -----------------------------
(***************************************************************************)
(* in_place_stop_source and in_place_stop_callback (nano/stop.hpp): the    *)
(* cancellation primitive every asynchronous operation of amongoc is built *)
(* on.  A stop source keeps an atomic two-bit word (a spin lock and the    *)
(* "stopped" flag), an intrusive doubly linked list of the registered stop *)
(* callbacks and the identity of the thread that runs request_stop().      *)
(*                                                                         *)
(* Any thread may construct a callback, destroy one, or call               *)
(* request_stop(), and the body of a callback that request_stop() runs may *)
(* itself do any of these, the destruction of the very callback that is    *)
(* running included.  The callback bodies are the caller's code; the model *)
(* lets them do any sequence of those operations.                          *)
(*                                                                         *)
(* The caller's contract, as for any C++ object: a callback is destroyed   *)
(* once, after its constructor has returned.  A body that runs inside a    *)
(* constructor (the source had already stopped) makes no nested call here. *)
(*                                                                         *)
(* Spinning (load, yield, failed compare-exchange) changes nothing, so a   *)
(* spin is the wait for the step that gets through.                        *)
(***************************************************************************)
EXTENDS Naturals, FiniteSets

CONSTANTS
    Threads,    \* the threads that use the stop source
    Callbacks,  \* the stop callback objects, each constructed at most once
    NULL,       \* the null pointer, and "no thread"
    HEAD        \* the address of _head_callback, as a value of _prev_nextptr

ASSUME StopConstants ==
    /\ NULL \notin Threads
    /\ NULL \notin Callbacks
    /\ HEAD \notin Callbacks
    /\ HEAD # NULL

VARIABLES
    state,       \* _state: the subset of {"locked", "stopped"} that is set
    head,        \* _head_callback
    stopping,    \* _stopping_thread
    next,        \* _next of every callback
    prev,        \* _prev_nextptr: NULL, HEAD, or the callback whose _next it is
    src,         \* TRUE when _src of the callback is set
    didRemove,   \* _did_remove_self_during_execution: NULL, or the thread whose
                 \* request_stop() frame holds the flag it points to
    execDone,    \* _exec_done
    life,        \* the lifetime of each callback object
    rs,          \* where each thread is in request_stop()
    cur,         \* request_stop()'s local cb
    removed,     \* request_stop()'s local was_removed_during_exec
    op,          \* where each thread is in a constructor or a destructor
    tgt,         \* the callback being constructed or destroyed
    saved,       \* _unregister()'s local prev_state
    runs,        \* history: how often each callback has been executed
    killer,      \* history: the thread on which each callback was destroyed
    granted,     \* history: the threads whose request_stop() returned true
    refused      \* history: the threads whose request_stop() returned false

srcVars  == <<state, head, stopping>>
cbVars   == <<next, prev, src, didRemove, execDone, life>>
rsVars   == <<rs, cur, removed>>
opVars   == <<op, tgt, saved>>
histVars == <<runs, killer, granted, refused>>
vars     == <<srcVars, cbVars, rsVars, opVars, histVars>>

Bits == {"locked", "stopped"}

Lifetimes == {"none", "constructing", "alive", "destroying", "dead"}

RsPcs == {"out", "call", "loop", "popped", "body", "signal", "relock"}

OpPcs == {"none", "register", "link", "setsrc", "inline",
          "unregister", "unlink", "selfremove", "wait"}

Init ==
    /\ state = {}
    /\ head = NULL
    /\ stopping = NULL
    /\ next = [c \in Callbacks |-> NULL]
    /\ prev = [c \in Callbacks |-> NULL]
    /\ src = [c \in Callbacks |-> FALSE]
    /\ didRemove = [c \in Callbacks |-> NULL]
    /\ execDone = [c \in Callbacks |-> FALSE]
    /\ life = [c \in Callbacks |-> "none"]
    /\ rs = [t \in Threads |-> "out"]
    /\ cur = [t \in Threads |-> NULL]
    /\ removed = [t \in Threads |-> FALSE]
    /\ op = [t \in Threads |-> "none"]
    /\ tgt = [t \in Threads |-> NULL]
    /\ saved = [t \in Threads |-> {}]
    /\ runs = [c \in Callbacks |-> 0]
    /\ killer = [c \in Callbacks |-> NULL]
    /\ granted = {}
    /\ refused = {}

-----------------------------------------------------------------------------
(* The spin lock.                                                          *)

\* _lock(): wait for the locked bit to clear, then set it, keeping the rest.
Lock ==
    /\ "locked" \notin state
    /\ state' = state \cup {"locked"}

\* Mutant: the lock is taken although a stop was requested.
TryLockAnyway(doSetStopped) ==
    /\ "locked" \notin state
    /\ state' = IF doSetStopped THEN {"locked", "stopped"} ELSE {"locked"}

\* _try_lock_unless_stopped(do_set_stopped), when it takes the lock.
TryLockUnlessStopped(doSetStopped) ==
    /\ state = {}
    /\ state' = IF doSetStopped THEN {"locked", "stopped"} ELSE {"locked"}

\* _try_lock_unless_stopped, when it returns false: the stopped bit is seen,
\* whether or not somebody holds the lock.
AlreadyStopped == "stopped" \in state

\* The caller's own code runs on t: outside the stop source, or in the body of
\* a callback that t's request_stop() executes.
InUserCode(t) == rs[t] \in {"out", "body"} /\ op[t] = "none"

-----------------------------------------------------------------------------
(* request_stop().                                                         *)

CallRequestStop(t) ==
    /\ rs[t] = "out" /\ op[t] = "none"
    /\ t \notin refused \cup granted     \* bound: one call per thread
    /\ rs' = [rs EXCEPT ![t] = "call"]
    /\ UNCHANGED <<srcVars, cbVars, cur, removed, opVars, histVars>>

\* The double-checked lock fails: return false.  A body may call
\* request_stop() again on the thread that is stopping.
RequestStopRefused(t) ==
    /\ rs[t] = "call" \/ (rs[t] = "body" /\ op[t] = "none" /\ t \notin refused)
    /\ AlreadyStopped
    /\ refused' = refused \cup {t}
    /\ rs' = IF rs[t] = "call" THEN [rs EXCEPT ![t] = "out"] ELSE rs
    /\ UNCHANGED <<srcVars, cbVars, cur, removed, opVars, runs, killer, granted>>

\* Take the lock, set the stopped bit, record the stopping thread.
BeginStop(t) ==
    /\ rs[t] = "call"
    /\ TryLockUnlessStopped(TRUE)
    /\ stopping' = t
    /\ rs' = [rs EXCEPT ![t] = "loop"]
    /\ UNCHANGED <<head, cbVars, cur, removed, opVars, histVars>>

\* Mutants: the callback stays at the head; the new head keeps its back-pointer
\* into the popped callback.
PopKeepsHead ==
    /\ head' = head
    /\ prev' = [prev EXCEPT ![head] = NULL]
PopForgetsBackPointer ==
    /\ head' = next[head]
    /\ prev' = [prev EXCEPT ![head] = NULL]

\* Take the first callback out of the list.
PopHead ==
    /\ head' = next[head]
    /\ prev' = [c \in Callbacks |-> IF c = head THEN NULL
                                    ELSE IF c = next[head] THEN HEAD
                                    ELSE prev[c]]

\* Unlink the first callback and unlock.
PopCallback(t) ==
    /\ rs[t] = "loop"
    /\ head # NULL
    /\ cur' = [cur EXCEPT ![t] = head]
    /\ PopHead
    /\ state' = {"stopped"}
    /\ rs' = [rs EXCEPT ![t] = "popped"]
    /\ UNCHANGED <<stopping, next, src, didRemove, execDone, life, removed,
                   opVars, histVars>>

\* Point the callback at the local flag and call do_execute().
BeginExecute(t) ==
    /\ rs[t] = "popped"
    /\ removed' = [removed EXCEPT ![t] = FALSE]
    /\ didRemove' = [didRemove EXCEPT ![cur[t]] = t]
    /\ runs' = [runs EXCEPT ![cur[t]] = @ + 1]
    /\ rs' = [rs EXCEPT ![t] = "body"]
    /\ UNCHANGED <<srcVars, next, prev, src, execDone, life, cur, opVars,
                   killer, granted, refused>>

\* Mutants: the removal is ignored; the flag pointer is left in the callback.
AfterBodyIgnoringRemoval(t) ==
    /\ rs' = [rs EXCEPT ![t] = "signal"]
    /\ didRemove' = [didRemove EXCEPT ![cur[t]] = NULL]
AfterBodyKeepingFlag(t) ==
    /\ rs' = [rs EXCEPT ![t] = IF removed[t] THEN "relock" ELSE "signal"]
    /\ UNCHANGED didRemove

\* The callback is touched only if this thread did not destroy it meanwhile.
AfterBody(t) ==
    IF removed[t]
      THEN /\ rs' = [rs EXCEPT ![t] = "relock"]
           /\ UNCHANGED didRemove
      ELSE /\ rs' = [rs EXCEPT ![t] = "signal"]
           /\ didRemove' = [didRemove EXCEPT ![cur[t]] = NULL]

\* do_execute() returns.
EndExecute(t) ==
    /\ rs[t] = "body" /\ op[t] = "none"
    /\ AfterBody(t)
    /\ UNCHANGED <<srcVars, next, prev, src, execDone, life, cur, removed,
                   opVars, histVars>>

\* Mutant: _exec_done is never stored.
StoreNothing(c) == UNCHANGED execDone

StoreDone(c) == execDone' = [execDone EXCEPT ![c] = TRUE]

\* Let a destructor that waits on another thread proceed.
SignalDone(t) ==
    /\ rs[t] = "signal"
    /\ StoreDone(cur[t])
    /\ rs' = [rs EXCEPT ![t] = "relock"]
    /\ UNCHANGED <<srcVars, next, prev, src, didRemove, life, cur, removed,
                   opVars, histVars>>

Relock(t) ==
    /\ rs[t] = "relock"
    /\ Lock
    /\ rs' = [rs EXCEPT ![t] = "loop"]
    /\ UNCHANGED <<head, stopping, cbVars, cur, removed, opVars, histVars>>

\* Mutant: the stopping thread stops looking after the callbacks run so far.
AlwaysDrained == TRUE

Drained == head = NULL

\* The list is empty: unlock and return true.
EndStop(t) ==
    /\ rs[t] = "loop"
    /\ Drained
    /\ state' = {"stopped"}
    /\ rs' = [rs EXCEPT ![t] = "out"]
    /\ granted' = granted \cup {t}
    /\ UNCHANGED <<head, stopping, cbVars, cur, removed, opVars, runs, killer,
                   refused>>

-----------------------------------------------------------------------------
(* The constructor: _try_register_or_execute().                            *)

Construct(t, c) ==
    /\ InUserCode(t)
    /\ life[c] = "none"
    /\ life' = [life EXCEPT ![c] = "constructing"]
    /\ op' = [op EXCEPT ![t] = "register"]
    /\ tgt' = [tgt EXCEPT ![t] = c]
    /\ UNCHANGED <<srcVars, next, prev, src, didRemove, execDone, rsVars, saved,
                   histVars>>

LockToRegister(t) ==
    /\ op[t] = "register"
    /\ TryLockUnlessStopped(FALSE)
    /\ op' = [op EXCEPT ![t] = "link"]
    /\ UNCHANGED <<head, stopping, cbVars, rsVars, tgt, saved, histVars>>

\* Push the callback at the head of the list and unlock.
LinkCallback(t) ==
    LET c == tgt[t] IN
    /\ op[t] = "link"
    /\ next' = [next EXCEPT ![c] = head]
    /\ prev' = [d \in Callbacks |-> IF d = c THEN HEAD
                                    ELSE IF d = head THEN c
                                    ELSE prev[d]]
    /\ head' = c
    /\ state' = {}
    /\ op' = [op EXCEPT ![t] = "setsrc"]
    /\ UNCHANGED <<stopping, src, didRemove, execDone, life, rsVars, tgt, saved,
                   histVars>>

\* _src is set after the list was unlocked: request_stop() may already be
\* running the callback.
SetSource(t) ==
    /\ op[t] = "setsrc"
    /\ src' = [src EXCEPT ![tgt[t]] = TRUE]
    /\ life' = [life EXCEPT ![tgt[t]] = "alive"]
    /\ op' = [op EXCEPT ![t] = "none"]
    /\ UNCHANGED <<srcVars, next, prev, didRemove, execDone, rsVars, tgt, saved,
                   histVars>>

\* A stop was already requested: the constructor executes the callback itself.
BeginInline(t) ==
    /\ op[t] = "register"
    /\ AlreadyStopped
    /\ runs' = [runs EXCEPT ![tgt[t]] = @ + 1]
    /\ op' = [op EXCEPT ![t] = "inline"]
    /\ UNCHANGED <<srcVars, cbVars, rsVars, tgt, saved, killer, granted, refused>>

EndInline(t) ==
    /\ op[t] = "inline"
    /\ life' = [life EXCEPT ![tgt[t]] = "alive"]
    /\ op' = [op EXCEPT ![t] = "none"]
    /\ UNCHANGED <<srcVars, next, prev, src, didRemove, execDone, rsVars, tgt,
                   saved, histVars>>

-----------------------------------------------------------------------------
(* The destructor: _unregister().                                          *)

\* The destructor of c returns on thread t.
Die(t, c) ==
    /\ life' = [life EXCEPT ![c] = "dead"]
    /\ killer' = [killer EXCEPT ![c] = t]

Destroy(t, c) ==
    /\ InUserCode(t)
    /\ life[c] = "alive"
    /\ IF src[c]
         THEN /\ life' = [life EXCEPT ![c] = "destroying"]
              /\ op' = [op EXCEPT ![t] = "unregister"]
              /\ tgt' = [tgt EXCEPT ![t] = c]
              /\ UNCHANGED killer
         ELSE /\ Die(t, c)
              /\ UNCHANGED <<op, tgt>>
    /\ UNCHANGED <<srcVars, next, prev, src, didRemove, execDone, rsVars, saved,
                   runs, granted, refused>>

LockToUnregister(t) ==
    /\ op[t] = "unregister"
    /\ Lock
    /\ saved' = [saved EXCEPT ![t] = state]
    /\ op' = [op EXCEPT ![t] = "unlink"]
    /\ UNCHANGED <<head, stopping, cbVars, rsVars, tgt, histVars>>

\* _set_state(prev_state).
Restore(t) == state' = saved[t]

\* *cb->_prev_nextptr = cb->_next, and the successor's back-pointer.
Splice(c) ==
    /\ head' = IF prev[c] = HEAD THEN next[c] ELSE head
    /\ next' = [d \in Callbacks |-> IF d = prev[c] THEN next[c] ELSE next[d]]
    /\ prev' = [d \in Callbacks |-> IF d = next[c] THEN prev[c] ELSE prev[d]]

\* The callback is still in the list: splice it out, restore the prior state.
UnlinkCallback(t) ==
    LET c == tgt[t] IN
    /\ op[t] = "unlink"
    /\ prev[c] # NULL
    /\ Splice(c)
    /\ Restore(t)
    /\ Die(t, c)
    /\ op' = [op EXCEPT ![t] = "none"]
    /\ UNCHANGED <<stopping, src, didRemove, execDone, rsVars, tgt, saved,
                   runs, granted, refused>>

\* Mutant: the thread is not checked.
TakesItselfForStopper(t) == TRUE

IsStopper(t) == t = stopping

\* request_stop() took it out: who is executing it, or was?
FoundUnlinked(t) ==
    /\ op[t] = "unlink"
    /\ prev[tgt[t]] = NULL
    /\ Restore(t)
    /\ op' = [op EXCEPT ![t] = IF IsStopper(t) THEN "selfremove" ELSE "wait"]
    /\ UNCHANGED <<head, stopping, cbVars, rsVars, tgt, saved, histVars>>

\* On the stopping thread: tell the request_stop() frame not to touch the
\* callback again, if one is executing it.
SelfRemove(t) ==
    LET c == tgt[t] IN
    /\ op[t] = "selfremove"
    /\ removed' = [u \in Threads |-> removed[u] \/ u = didRemove[c]]
    /\ Die(t, c)
    /\ op' = [op EXCEPT ![t] = "none"]
    /\ UNCHANGED <<srcVars, next, prev, src, didRemove, execDone, rs, cur, tgt,
                   saved, runs, granted, refused>>

\* On any other thread: the callback must stay alive until it has executed.
WaitExecuted(t) ==
    /\ op[t] = "wait"
    /\ execDone[tgt[t]]
    /\ Die(t, tgt[t])
    /\ op' = [op EXCEPT ![t] = "none"]
    /\ UNCHANGED <<srcVars, next, prev, src, didRemove, execDone, rsVars, tgt,
                   saved, runs, granted, refused>>

-----------------------------------------------------------------------------
(* The steps of the library on thread t.                                   *)
LibraryStep(t) ==
    \/ RequestStopRefused(t) \/ BeginStop(t) \/ PopCallback(t)
    \/ BeginExecute(t) \/ SignalDone(t) \/ Relock(t) \/ EndStop(t)
    \/ LockToRegister(t) \/ LinkCallback(t) \/ SetSource(t)
    \/ BeginInline(t)
    \/ LockToUnregister(t) \/ UnlinkCallback(t) \/ FoundUnlinked(t)
    \/ SelfRemove(t) \/ WaitExecuted(t)

(* A callback body returns. *)
BodyReturns(t) == EndExecute(t) \/ EndInline(t)

(* The caller makes a call on thread t. *)
UserStep(t) ==
    \/ CallRequestStop(t)
    \/ \E c \in Callbacks : Construct(t, c) \/ Destroy(t, c)

Next == \E t \in Threads : LibraryStep(t) \/ BodyReturns(t) \/ UserStep(t)

Spec == Init /\ [][Next]_vars

\* Every thread is scheduled and every body returns; nobody has to make calls.
\* The number of operations is finite, so that a spinning thread is eventually
\* the only contender and weak fairness is enough for the spin lock.
FairSpec == Spec /\ \A t \in Threads : WF_vars(LibraryStep(t) \/ BodyReturns(t))

-----------------------------------------------------------------------------
(* Properties.                                                             *)

TypeOK ==
    /\ state \in SUBSET Bits
    /\ head \in Callbacks \cup {NULL}
    /\ stopping \in Threads \cup {NULL}
    /\ next \in [Callbacks -> Callbacks \cup {NULL}]
    /\ prev \in [Callbacks -> Callbacks \cup {NULL, HEAD}]
    /\ src \in [Callbacks -> BOOLEAN]
    /\ didRemove \in [Callbacks -> Threads \cup {NULL}]
    /\ execDone \in [Callbacks -> BOOLEAN]
    /\ life \in [Callbacks -> Lifetimes]
    /\ rs \in [Threads -> RsPcs]
    /\ cur \in [Threads -> Callbacks \cup {NULL}]
    /\ removed \in [Threads -> BOOLEAN]
    /\ op \in [Threads -> OpPcs]
    /\ tgt \in [Threads -> Callbacks \cup {NULL}]
    /\ saved \in [Threads -> SUBSET Bits]
    /\ runs \in [Callbacks -> Nat]
    /\ killer \in [Callbacks -> Threads \cup {NULL}]
    /\ granted \in SUBSET Threads
    /\ refused \in SUBSET Threads

\* t is inside a critical section of the stop source.
HoldsLock(t) == rs[t] = "loop" \/ op[t] \in {"link", "unlink"}

\* The spin lock excludes: the locked bit is set exactly while some thread is
\* inside a critical section (_lock / _try_lock_unless_stopped ... _set_state),
\* and never more than one thread is.
MutualExclusion ==
    /\ ("locked" \in state) <=> \E t \in Threads : HoldsLock(t)
    /\ \A t, u \in Threads : HoldsLock(t) /\ HoldsLock(u) => t = u

\* c is a node of the list of registered callbacks.
Linked(c) == prev[c] # NULL /\ life[c] # "dead"

\* The pointers of the intrusive list agree in both directions, and the list
\* never runs through a destroyed callback.
ListPointers ==
    /\ head # NULL => Linked(head) /\ prev[head] = HEAD
    /\ \A c \in Callbacks : Linked(c) =>
          /\ prev[c] = HEAD => head = c
          /\ prev[c] # HEAD => Linked(prev[c]) /\ next[prev[c]] = c
          /\ next[c] # NULL => Linked(next[c]) /\ prev[next[c]] = c

\* No callback is executed twice, whether by request_stop() or by its own
\* constructor (_try_register_or_execute).
ExecutedAtMostOnce == \A c \in Callbacks : runs[c] <= 1

\* t's request_stop() is going to write to the callback it took from the list.
WillTouch(t) ==
    \/ rs[t] \in {"popped", "signal"}
    \/ rs[t] = "body" /\ ~removed[t]

\* request_stop() never writes to a callback that has been destroyed, on its
\* own thread (from inside the body) or on another one.
NoUseAfterDestroy ==
    \A t \in Threads : WillTouch(t) => life[cur[t]] # "dead"

\* A destructor that returns on another thread has waited for the body: when a
\* callback is gone while its body still runs, the body itself destroyed it, on
\* the thread that runs it.
DestructorWaits ==
    \A t \in Threads :
        rs[t] = "body" /\ life[cur[t]] = "dead" => killer[cur[t]] = t

\* _did_remove_self_during_execution of a live callback never dangles: it is
\* null, or points into the frame that is executing that very callback.
FlagNotDangling ==
    \A c \in Callbacks : life[c] # "dead" /\ didRemove[c] # NULL =>
        /\ rs[didRemove[c]] = "body"
        /\ cur[didRemove[c]] = c

\* Once request_stop() has returned true nothing is left registered, and every
\* callback that still exists has been executed.
StopReachesEveryCallback ==
    granted # {} =>
        \A c \in Callbacks :
            /\ ~Linked(c)
            /\ life[c] = "alive" => runs[c] = 1

\* request_stop() returns true on one thread only, and false only when a stop
\* has been requested.
OneStopper ==
    /\ \A t, u \in granted : t = u
    /\ granted \cup refused # {} => "stopped" \in state

\* When every thread is done and every callback that was constructed has been
\* destroyed, the assertions in ~in_place_stop_source hold.
SourceDestructible ==
    /\ \A t \in Threads : rs[t] = "out" /\ op[t] = "none"
    /\ \A c \in Callbacks : life[c] \in {"none", "dead"}
    => "locked" \notin state /\ head = NULL

\* stop_requested() never goes back to false.
StopIsPermanent == [][ "stopped" \in state => "stopped" \in state' ]_vars

\* request_stop(), the constructor and the destructor all return: no thread
\* spins for ever on the lock or on _exec_done.
CallsReturn ==
    \A t \in Threads :
        /\ rs[t] # "out" ~> rs[t] = "out"
        /\ op[t] # "none" ~> op[t] = "none"

-----------------------------------------------------------------------------
(* Refinement of StopPromise.                                              *)

Executing(c) ==
    \E t \in Threads : \/ rs[t] = "body" /\ cur[t] = c
                       \/ op[t] = "inline" /\ tgt[t] = c

\* In the list, or taken from it by request_stop() but not yet run.
Pending(c) ==
    Linked(c) \/ \E t \in Threads : rs[t] = "popped" /\ cur[t] = c

PhaseOf(c) ==
    IF life[c] = "dead" THEN "gone"
    ELSE IF Pending(c) THEN "registered"
    ELSE IF Executing(c) THEN "running"
    ELSE IF runs[c] = 0 THEN "absent" ELSE "ran"

Promise == INSTANCE StopPromise WITH
    requested <- "stopped" \in state,
    returned  <- granted # {},
    phase     <- [c \in Callbacks |-> PhaseOf(c)]

\* The stop source, with its spin lock, its list and its thread checks, keeps
\* the promise of StopPromise to the code that registers callbacks.
KeepsPromise == Promise!Spec
=============================================================================
