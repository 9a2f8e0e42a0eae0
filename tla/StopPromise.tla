---------------------------- MODULE StopPromise ----------------------------
(***************************************************************************)
(* What a stop source promises the code that uses it, without threads,     *)
(* locks or lists: a callback constructed before the stop request is run   *)
(* by the stop request unless it is destroyed first, one constructed later *)
(* is run by its constructor, none is run twice, none goes away while it   *)
(* runs unless it destroys itself, and request_stop() returns true only    *)
(* when no registered callback is left that has not been run.              *)
(***************************************************************************)
CONSTANT Callbacks

VARIABLES
    requested,  \* a stop has been requested
    returned,   \* request_stop() has returned true
    phase       \* the progress of every callback

vars == <<requested, returned, phase>>

Phases == {"absent", "registered", "running", "ran", "gone"}

Init ==
    /\ requested = FALSE
    /\ returned = FALSE
    /\ phase = [c \in Callbacks |-> "absent"]

To(c, from, to) == phase[c] = from /\ phase' = [phase EXCEPT ![c] = to]

Register(c) ==
    /\ ~requested
    /\ To(c, "absent", "registered")
    /\ UNCHANGED <<requested, returned>>

Request ==
    /\ ~requested
    /\ requested' = TRUE
    /\ UNCHANGED <<returned, phase>>

\* Run by the stop request, or by the constructor of a latecomer.
Run(c) ==
    /\ requested
    /\ To(c, "registered", "running") \/ To(c, "absent", "running")
    /\ UNCHANGED <<requested, returned>>

Finish(c) ==
    /\ To(c, "running", "ran")
    /\ UNCHANGED <<requested, returned>>

\* Destroyed before it could run, after it ran, or by itself while it runs.
Destroy(c) ==
    /\ \E from \in {"registered", "ran", "running"} : To(c, from, "gone")
    /\ UNCHANGED <<requested, returned>>

Return ==
    /\ requested
    /\ \A c \in Callbacks : phase[c] # "registered"
    /\ returned' = TRUE
    /\ UNCHANGED <<requested, phase>>

Next ==
    \/ Request \/ Return
    \/ \E c \in Callbacks : Register(c) \/ Run(c) \/ Finish(c) \/ Destroy(c)

Spec == Init /\ [][Next]_vars
=============================================================================
