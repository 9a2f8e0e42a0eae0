--------------------------- MODULE ConnectionPool ---------------------------
(***************************************************************************)
(* The connection pool and the wire clients above it (connection_pool.hpp  *)
(* and .cpp, wire/client.hpp, wire/proto.hpp).  A task runs one           *)
(* asynchronous operation after another, each with a pool_client of its    *)
(* own: the pool_client checks a member out when its first request needs   *)
(* one, keeps it for the requests that follow, and returns it to the pool  *)
(* when the operation ends.                                                *)
(*                                                                         *)
(* A request is a message written to the member's stream, then a message   *)
(* read from it.  The reader never compares responseTo with the id of the  *)
(* request, so that a task gets the answer to its own request rests        *)
(* entirely on who owns which connection and on what state connections are *)
(* in when they go back to the pool: that is what is checked here.         *)
(*                                                                         *)
(* Every co_await is a point where other tasks run: the connection being   *)
(* established, the message being written, the answer being read.  The     *)
(* server is external: it answers requests in order, answers with an error *)
(* document or with something that is not a valid message, and may close a *)
(* connection at any time, idle ones included.                             *)
(***************************************************************************)
EXTENDS Integers, Sequences, FiniteSets

CONSTANTS
    Tasks,     \* the operations that use the pool
    MaxConns,  \* bound: how many connections are ever established
    MaxReqs,   \* bound: how many requests a task issues in all
    NTries,    \* n_tries of retrying_client; 1 without a retrying_client
    Owning,    \* TRUE when the message owns its document (bson::document), FALSE
               \* when it views one (bson_view)
    NULL

Conns    == 1..MaxConns
Requests == Tasks \X (1..MaxReqs)

\* A message from the server.  "bad" is one that recv_message() rejects, "junk"
\* what such a message leaves unread.
Replies == [to : Requests, kind : {"ok", "error", "bad", "junk"}]

ASSUME PoolConstants ==
    /\ MaxConns \in Nat
    /\ MaxReqs \in Nat
    /\ NTries \in Int
    /\ Owning \in BOOLEAN
    /\ NULL \notin Tasks \cup Conns \cup Replies

VARIABLES
    made,    \* _conn_ids - 1: how many connections have joined the pool
    idle,    \* _idle_connections, front first
    holds,   \* the member in each task's pool_client (_pool_member)
    gone,    \* the connections that have been destroyed
    up,      \* the connections the server has not closed
    inbox,   \* requests on their way to the server, per connection
    stream,  \* replies the client has not read yet, per connection
    pc,      \* where each task is
    reqno,   \* how many requests each task has issued
    tries,   \* tries_remaining of the current request
    msg,     \* retrying_client's msg: "whole", or "moved" from
    sending, \* the message that the current attempt was given
    got,     \* the last reply each task was given
    served   \* history: how often the current request reached the server

poolVars == <<made, idle, holds, gone>>
wireVars == <<up, inbox, stream>>
taskVars == <<pc, reqno, tries, msg, sending, got>>
vars     == <<poolVars, wireVars, taskVars, served>>

Pcs == {"ready", "attempt", "connecting", "writing", "reading", "failed", "over"}

Init ==
    /\ made = 0
    /\ idle = <<>>
    /\ holds = [t \in Tasks |-> NULL]
    /\ gone = {}
    /\ up = {}
    /\ inbox = [k \in Conns |-> <<>>]
    /\ stream = [k \in Conns |-> <<>>]
    /\ pc = [t \in Tasks |-> "ready"]
    /\ reqno = [t \in Tasks |-> 0]
    /\ tries = [t \in Tasks |-> 0]
    /\ msg = [t \in Tasks |-> "whole"]
    /\ sending = [t \in Tasks |-> "whole"]
    /\ got = [t \in Tasks |-> NULL]
    /\ served = [t \in Tasks |-> 0]

Goto(t, l) == pc' = [pc EXCEPT ![t] = l]

-----------------------------------------------------------------------------
\* retrying_client::request(): the message is handed over and the count of
\* tries begins.  After "over" the request is the first of a new operation with
\* a pool_client of its own.
Issue(t) ==
    /\ pc[t] \in {"ready", "over"}
    /\ reqno[t] < MaxReqs
    /\ reqno' = [reqno EXCEPT ![t] = @ + 1]
    /\ tries' = [tries EXCEPT ![t] = NTries]
    /\ msg' = [msg EXCEPT ![t] = "whole"]
    /\ sending' = [sending EXCEPT ![t] = "whole"]
    /\ served' = [served EXCEPT ![t] = 0]
    /\ Goto(t, "attempt")
    /\ UNCHANGED <<poolVars, wireVars, got>>

\* Mutant: the connection is copied out of the idle list, not spliced.
CheckoutLeavesIdle == idle

\* The idle list once its front has been spliced to the caller, under the lock.
IdleAfterCheckout == Tail(idle)

\* One try: pool_client::_request() checks a member out unless it has one.
\* The pool gives an idle connection, or goes on to establish a new one.  Each
\* try moves the message into the call.
Attempt(t) ==
    /\ pc[t] = "attempt"
    /\ sending' = [sending EXCEPT ![t] = msg[t]]
    /\ msg' = [msg EXCEPT ![t] = IF Owning THEN "moved" ELSE @]
    /\ \/ /\ holds[t] # NULL
          /\ Goto(t, "writing")
          /\ UNCHANGED poolVars
       \/ /\ holds[t] = NULL
          /\ idle # <<>>
          /\ holds' = [holds EXCEPT ![t] = Head(idle)]
          /\ idle' = IdleAfterCheckout
          /\ Goto(t, "writing")
          /\ UNCHANGED <<made, gone>>
       \/ /\ holds[t] = NULL
          /\ idle = <<>>
          /\ Goto(t, "connecting")
          /\ UNCHANGED poolVars
    /\ UNCHANGED <<wireVars, reqno, tries, got, served>>

\* _conn_ids.fetch_add(1), counting from 1.
NextId == made + 1

\* Resolve, connect, TLS and handshake have all succeeded: only now does the
\* connection become a member, with the next id.
Established(t) ==
    /\ pc[t] = "connecting"
    /\ made < MaxConns
    /\ made' = made + 1
    /\ holds' = [holds EXCEPT ![t] = NextId]
    /\ up' = up \cup {NextId}
    /\ Goto(t, "writing")
    /\ UNCHANGED <<idle, gone, inbox, stream, reqno, tries, msg, sending, got, served>>

\* Mutant: one try more than was asked for.
OneTooMany(left) == left >= 0

\* retrying_client: whether to try again after a std::system_error.
RetriesAgain(left) == left >= 1

\* Mutant: failed tries are not counted.
RetryUncounted(t) ==
    /\ UNCHANGED tries
    /\ Goto(t, "attempt")

\* The exception reaches retrying_client.
Retry(t) ==
    LET left == tries[t] - 1 IN
    /\ tries' = [tries EXCEPT ![t] = left]
    /\ Goto(t, IF RetriesAgain(left) THEN "attempt" ELSE "failed")

\* Any stage of establishing the connection failed: nothing joined the pool.
EstablishFails(t) ==
    /\ pc[t] = "connecting"
    /\ Retry(t)
    /\ UNCHANGED <<poolVars, wireVars, reqno, msg, sending, got, served>>

\* Mutant: the member is not marked as perished, so it returns to the pool.
DropReturns(k) ==
    /\ idle' = <<k>> \o idle
    /\ UNCHANGED gone

\* The end of a perished member: it is destroyed and does not go back.
DropPerished(k) ==
    /\ gone' = gone \cup {k}
    /\ UNCHANGED idle

\* The request threw: member::_request() marks the member as perished, the
\* scope_fail of pool_client resets it, and retrying_client takes over.
Fail(t) ==
    /\ DropPerished(holds[t])
    /\ holds' = [holds EXCEPT ![t] = NULL]
    /\ Retry(t)
    /\ UNCHANGED <<made, reqno, msg, sending, got>>

\* The message has been written.  A closed peer may not have been noticed yet.
Written(t) ==
    /\ pc[t] = "writing"
    /\ LET k == holds[t] IN
       IF k \in up
       THEN /\ inbox' = [inbox EXCEPT ![k] = Append(@, <<t, reqno[t]>>)]
            /\ served' = [served EXCEPT ![t] = @ + 1]
       ELSE UNCHANGED <<inbox, served>>
    /\ Goto(t, "reading")
    /\ UNCHANGED <<poolVars, up, stream, reqno, tries, msg, sending, got>>

WriteFails(t) ==
    /\ pc[t] = "writing"
    /\ holds[t] \notin up
    /\ Fail(t)
    /\ UNCHANGED <<wireVars, served>>

\* recv_message() has a whole message.  A server error is an answer too: it is
\* thrown by checking_client, above the pool_client, and the member stays good.
Answered(t) ==
    /\ pc[t] = "reading"
    /\ LET k == holds[t] IN
       /\ stream[k] # <<>>
       /\ Head(stream[k]).kind \in {"ok", "error"}
       /\ got' = [got EXCEPT ![t] = Head(stream[k])]
       /\ stream' = [stream EXCEPT ![k] = Tail(@)]
    /\ Goto(t, "ready")
    /\ UNCHANGED <<poolVars, up, inbox, reqno, tries, msg, sending, served>>

\* recv_message() rejects what it reads, part of which stays unread.
ReadRejected(t) ==
    /\ pc[t] = "reading"
    /\ LET k == holds[t] IN
       /\ stream[k] # <<>>
       /\ Head(stream[k]).kind \in {"bad", "junk"}
       /\ stream' = [stream EXCEPT ![k] = <<[Head(@) EXCEPT !.kind = "junk"]>> \o Tail(@)]
    /\ Fail(t)
    /\ UNCHANGED <<up, inbox, served>>

\* End of file.
ReadFails(t) ==
    /\ pc[t] = "reading"
    /\ holds[t] \notin up
    /\ stream[holds[t]] = <<>>
    /\ Fail(t)
    /\ UNCHANGED <<wireVars, served>>

\* return_(): spliced to the front, under the lock.
Returned(k) == <<k>> \o idle

\* The operation ends and its pool_client is destroyed with it.
Finish(t) ==
    /\ pc[t] \in {"ready", "failed"}
    /\ idle' = IF holds[t] = NULL THEN idle ELSE Returned(holds[t])
    /\ holds' = [holds EXCEPT ![t] = NULL]
    /\ Goto(t, "over")
    /\ UNCHANGED <<made, gone, wireVars, reqno, tries, msg, sending, got, served>>

-----------------------------------------------------------------------------
\* The server answers the oldest request of a connection ...
Reply(k) ==
    /\ k \in up
    /\ inbox[k] # <<>>
    /\ \E kind \in {"ok", "error", "bad"} :
        stream' = [stream EXCEPT ![k] = Append(@, [to |-> Head(inbox[k]), kind |-> kind])]
    /\ inbox' = [inbox EXCEPT ![k] = Tail(@)]
    /\ UNCHANGED <<poolVars, up, taskVars, served>>

\* ... or closes it, forgetting the requests it has not answered.
Close(k) ==
    /\ k \in up
    /\ up' = up \ {k}
    /\ inbox' = [inbox EXCEPT ![k] = <<>>]
    /\ UNCHANGED <<poolVars, stream, taskVars, served>>

TaskStep(t) ==
    \/ Attempt(t) \/ Established(t) \/ EstablishFails(t) \/ Written(t) \/ WriteFails(t)
    \/ Answered(t) \/ ReadRejected(t) \/ ReadFails(t)

Next ==
    \/ \E t \in Tasks : TaskStep(t) \/ Issue(t) \/ Finish(t)
    \/ \E k \in Conns : Reply(k) \/ Close(k)

Spec == Init /\ [][Next]_vars

\* The loop runs every task that can go on, and the server answers or hangs up.
FairSpec ==
    /\ Spec
    /\ \A t \in Tasks : WF_vars(TaskStep(t))
    /\ \A k \in Conns : WF_vars(Reply(k) \/ Close(k))

-----------------------------------------------------------------------------
TypeOK ==
    /\ made \in 0..MaxConns
    /\ idle \in Seq(Conns)
    /\ holds \in [Tasks -> Conns \cup {NULL}]
    /\ gone \in SUBSET Conns
    /\ up \in SUBSET Conns
    /\ inbox \in [Conns -> Seq(Requests)]
    /\ stream \in [Conns -> Seq(Replies)]
    /\ pc \in [Tasks -> Pcs]
    /\ reqno \in [Tasks -> 0..MaxReqs]
    /\ tries \in [Tasks -> Int]
    /\ msg \in [Tasks -> {"whole", "moved"}]
    /\ sending \in [Tasks -> {"whole", "moved"}]
    /\ got \in [Tasks -> Replies \cup {NULL}]
    /\ served \in [Tasks -> Nat]
    /\ \A t \in Tasks : pc[t] \in {"writing", "reading"} => holds[t] # NULL

IsIn(s, x) == \E i \in 1..Len(s) : s[i] = x

IsIdle(k) == IsIn(idle, k)

Distinct(s) == \A i, j \in 1..Len(s) : s[i] = s[j] => i = j

\* Where a connection may be, and that it is somewhere.
OnePlace ==
    /\ \A t \in Tasks : holds[t] # NULL => ~IsIdle(holds[t]) /\ holds[t] \notin gone
    /\ \A t, u \in Tasks : holds[t] # NULL /\ holds[t] = holds[u] => t = u
    /\ \A k \in gone : ~IsIdle(k)
    /\ \A k \in 1..made : IsIdle(k) \/ k \in gone \/ \E t \in Tasks : holds[t] = k

\* A connection is in one place only: idle once, or in the pool_client of one
\* task, or destroyed; and no connection is lost.  Two owners would read each
\* other's answers.
OneOwner == Distinct(idle) /\ OnePlace

\* What goes back to the pool is clean: no request without an answer, nothing
\* unread, so the next owner starts at a message boundary.
IdleClean ==
    \A k \in Conns : IsIdle(k) => inbox[k] = <<>> /\ stream[k] = <<>>

\* Every answer a task is given is the answer to its own last request, although
\* nothing compares responseTo with the request's id.
OwnAnswer ==
    \A t \in Tasks : pc[t] = "ready" /\ reqno[t] > 0 =>
        got[t] # NULL /\ got[t].to = <<t, reqno[t]>>

\* Requests are not pipelined: at most one message is under way on a connection.
NoPipelining ==
    \A k \in Conns : Len(inbox[k]) + Len(stream[k]) <= 1

\* A request reaches the server at most n_tries times, once if n_tries is not
\* positive: a command that is not idempotent must not be repeated more often.
ServedAtMostNTries ==
    \A t \in Tasks : served[t] <= IF NTries < 1 THEN 1 ELSE NTries

\* Every request ends: with an answer, or with the error of its last try.
RequestsEnd ==
    \A t \in Tasks :
        (pc[t] \in {"attempt", "connecting", "writing", "reading"})
            ~> (pc[t] \in {"ready", "failed"})

\* What retrying_client hands on is the request on the first try only: every try
\* moves from a message that owns its document, so the later ones are given what
\* is left of it, although the adaptor "automatically retries requests"
\* (client.hpp:137) and connection_pool.test.cpp:59 sends a bson::document
\* through it.  A message that views its document is whole on every try.
OnlyFirstTryIsWhole ==
    \A t \in Tasks : pc[t] \in {"connecting", "writing"} =>
        (sending[t] = "whole" <=> ~Owning \/ tries[t] = NTries)
=============================================================================
