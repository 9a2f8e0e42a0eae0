---------------------------- MODULE EventEmitter ----------------------------
(***************************************************************************)
(* event_emitter<T>: an intrusive list of listeners.  A listener enters at *)
(* the head when it is created and splices itself out through the pointer  *)
(* that points to it when it is destroyed; fire() walks the list and reads *)
(* a listener's next pointer after the listener has returned, when its     *)
(* callback may have created and destroyed others, or destroyed its own.   *)
(***************************************************************************)
EXTENDS Naturals, Sequences, SequencesExt

CONSTANTS Listeners, NULL
ASSUME NullAssumption == NULL \notin Listeners

VARIABLES
    next,     \* next[l]: the _next pointer of a listener; next[NULL]: _head
    prev,     \* prev[l]: whose pointer _previous_nextptr points to
    alive,    \* the listeners that exist
    order,    \* history: the same, most recent first
    walk,     \* the listener that fire() is calling, or NULL
    firing,   \* fire() is on the stack
    self,     \* "alive"; "destroyed" once a callback has destroyed its own
              \* listener, "read" once fire() has read that one's memory
    due,      \* history: who has to hear the event, most recent first
    called    \* history: who has heard it

emitterVars == <<next, prev, alive, order, walk, firing, self, due, called>>

head == next[NULL]

\* The i-th listener, with NULL at both ends of the list.
Nth(i) == IF i \in 1..Len(order) THEN order[i] ELSE NULL

\* The sequence s without l, if it is there.
Dropped(s, l) ==
    IF \E i \in 1..Len(s) : s[i] = l THEN RemoveAt(s, CHOOSE i \in 1..Len(s) : s[i] = l) ELSE s

\* listener_base()
Link(l) ==
    /\ next' = [next EXCEPT ![l] = head, ![NULL] = l]
    /\ prev' = [k \in Listeners |-> IF k = l THEN NULL ELSE IF k = head THEN l ELSE prev[k]]
    /\ alive' = alive \cup {l}
    /\ order' = <<l>> \o order

Listen(l) ==
    /\ l \notin alive
    /\ Link(l)
    /\ UNCHANGED <<walk, firing, self, due, called>>

\* Mutant: the next listener is not told where it now hangs.
UnlinkForward(l) ==
    /\ next' = [next EXCEPT ![prev[l]] = next[l], ![l] = NULL]
    /\ UNCHANGED prev

\* ~listener_base(); the two pointers of the destroyed listener are no more.
Unlink(l) ==
    /\ next' = [next EXCEPT ![prev[l]] = next[l], ![l] = NULL]
    /\ prev' = [k \in Listeners |-> IF k = l THEN NULL
                                    ELSE IF k = next[l] THEN prev[l] ELSE prev[k]]

\* A listener is destroyed by its owner, who may be the callback of any.
Destroy(l) ==
    /\ l \in alive
    /\ Unlink(l)
    /\ alive' = alive \ {l}
    /\ order' = Dropped(order, l)
    /\ self' = IF firing /\ l = walk /\ self = "alive" THEN "destroyed" ELSE self
    /\ due' = IF l \in ToSet(called) THEN due ELSE Dropped(due, l)
    /\ UNCHANGED <<walk, firing, called>>

\* fire(): the event is made only if there is a listener.
Fire ==
    /\ ~firing
    /\ firing' = (head # NULL)
    /\ walk' = head
    /\ due' = order
    /\ called' = IF head = NULL THEN << >> ELSE <<head>>
    /\ UNCHANGED <<next, prev, alive, order, self>>

\* The callback returns and the loop goes on to p->_next, wherever that points.
GoTo(p) ==
    /\ walk' = p
    /\ firing' = (p # NULL)
    /\ called' = IF p = NULL \/ self # "alive" THEN called ELSE Append(called, p)
    /\ self' = IF self = "alive" THEN "alive" ELSE "read"
    /\ UNCHANGED <<next, prev, alive, order, due>>

CallNext ==
    /\ firing /\ walk \in alive
    /\ GoTo(next[walk])

\* The memory of a destroyed listener holds the old pointer or anything else.
CallAstray ==
    /\ firing /\ walk \notin alive
    /\ \E p \in Listeners \cup {NULL} : GoTo(p)

EmitterInit ==
    /\ next = [l \in Listeners \cup {NULL} |-> NULL]
    /\ prev = [l \in Listeners |-> NULL]
    /\ alive = {} /\ order = << >>
    /\ walk = NULL /\ firing = FALSE /\ self = "alive"
    /\ due = << >> /\ called = << >>

-----------------------------------------------------------------------------
(* The pointers hold exactly the listeners that exist, most recent first;  *)
(* and as long as no callback destroys the listener that runs it, fire()   *)
(* calls the ones that were registered when the event was fired, in that   *)
(* order and each once, except the ones destroyed before their turn, and   *)
(* never follows a pointer to a destroyed listener, whatever else the      *)
(* callbacks create and destroy.  A callback that does destroy its own     *)
(* listener is not safe, although event_emitter.hpp:41 says that it "will  *)
(* be detached automatically when it is destroyed": by the time fire()     *)
(* returns it has read that listener's memory, in every such case.         *)
HeardInOrder ==
    /\ \A i \in 0..Len(order) : next[Nth(i)] = Nth(i + 1)
    /\ ToSet(order) = alive
    /\ self = "alive" =>
          /\ IsPrefix(called, due)
          /\ firing => walk \in alive
          /\ ~firing => called = due
    /\ self = "destroyed" => firing
=============================================================================
