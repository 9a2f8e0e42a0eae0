----------------------------- MODULE TlsStream -----------------------------
(***************************************************************************)
(* The TLS stream adaptor (tls/detail/stream_base.cpp, stream_base.hpp,    *)
(* tls/stream.hpp): an OpenSSL engine between an Asio-style stream user    *)
(* and the TCP stream it wraps.                                            *)
(*                                                                         *)
(* connect(), async_read_some() and async_write_some() create an operation *)
(* and call reenter(), which feeds the engine what was read, tries the     *)
(* OpenSSL call, and then writes to the wrapped stream, reads from it, or  *)
(* completes the operation.  The completion of that I/O reenters.  All of  *)
(* it runs on the loop's thread, so one reenter() is one step; a user's    *)
(* completion handler is called from within it and may start the next      *)
(* operation before complete() returns.                                    *)
(*                                                                         *)
(* Ciphertext is a sequence of numbered units, RecordLen to a TLS record,  *)
(* so that the wrapped stream can accept part of a record, and reads and   *)
(* the BIO pair have sizes in units.  OpenSSL, Asio and the peer are       *)
(* external: the engine says hello, waits for the                          *)
(* server's flight and finishes; SSL_write() turns one record of plaintext *)
(* into RecordLen units; SSL_read() skips session tickets.  The peer       *)
(* answers each whole message it has received with one record.             *)
(***************************************************************************)
EXTENDS Integers, Sequences

CONSTANTS
    MaxOps,         \* how many operations the user starts
    MaxSize,        \* the largest buffer of an operation, in records
    PartialWrites,  \* TRUE when the wrapped stream may accept part of a write
    StaleErrno,     \* TRUE when other code on the thread may leave errno set
    ReadSize,       \* the size of a read from the wrapped stream (1024 bytes)
    BioSize,        \* what the BIO pair holds in one direction (17 KiB)
    NULL            \* a null pointer

ASSUME TlsConstants ==
    /\ MaxOps \in Nat
    /\ MaxSize \in Nat \ {0}
    /\ PartialWrites \in BOOLEAN
    /\ StaleErrno \in BOOLEAN
    /\ ReadSize \in Nat \ {0}
    /\ BioSize \in Nat /\ ReadSize <= BioSize
    /\ NULL \notin Nat /\ NULL \notin [op : Nat, read : BOOLEAN]

RecordLen == 2

VARIABLES
    active,      \* the operation that has not completed, or NULL
    op,          \* its kind and the records left in its buffers
    started,     \* the number of operations started so far
    live,        \* _live_operation
    taken,       \* the operations whose complete() is on the stack
    result,      \* what the last completed operation reported
    io,          \* the I/O outstanding on the wrapped stream: its operation
    pendingOut,  \* _pending_output
    bio,         \* ciphertext the engine has left in _bio
    pendingIn,   \* _pending_input
    received,    \* history: how many units the wrapped stream has delivered
    fed,         \* ciphertext written into _bio for the engine
    engine,      \* the state of _ssl
    wire,        \* ciphertext the wrapped stream has sent to the peer
    msgs,        \* the record that ends each message the engine produced
    answers,     \* the records the peer has sent
    cut          \* history: the wrapped stream accepted part of a write

opVars   == <<active, op, started, live, taken, result>>
peerVars == <<answers>>
vars     == <<opVars, io, pendingOut, bio, pendingIn, received, fed, engine, wire,
              msgs, peerVars, cut>>

Kinds == {"connect", "read", "write"}

Units(a, n) == [i \in 1..n |-> a + i]

\* Ciphertext produced so far.
Produced == Len(wire) + Len(pendingOut) + Len(bio)

Init ==
    /\ active = NULL
    /\ op = [kind |-> "connect", left |-> 0, done |-> 0]
    /\ started = 0
    /\ live = NULL
    /\ taken = <<>>
    /\ result = "none"
    /\ io = NULL
    /\ pendingOut = <<>>
    /\ bio = <<>>
    /\ pendingIn = <<>>
    /\ received = 0
    /\ fed = <<>>
    /\ engine = [hs |-> "new", want |-> "nothing", parsed |-> 0]
    /\ wire = <<>>
    /\ msgs = <<>>
    /\ answers = <<>>
    /\ cut = FALSE

-----------------------------------------------------------------------------
\* What an OpenSSL call leaves: err as SSL_get_error() reports it, the state of
\* the engine, whether it has left a record in _bio, whether that record ends a
\* message, and the records it moved.
Call(err, e, emits, ends, n) ==
    [err |-> err, engine |-> e, emits |-> emits, ends |-> ends, n |-> n]

\* The whole records among the units in.
Records(in) == Len(in) \div RecordLen

\* SSL_connect().  A flight with a certificate that does not verify makes the
\* engine leave an alert in _bio and fail.
SslConnect(e, in) ==
    CASE e.hs = "new" ->
           {Call("want_read", [e EXCEPT !.hs = "hello", !.want = "reading"], TRUE, TRUE, 0)}
      [] e.hs = "hello" /\ Records(in) = 0 ->
           {Call("want_read", [e EXCEPT !.want = "reading"], FALSE, FALSE, 0)}
      [] e.hs = "hello" /\ Records(in) > 0 ->
           LET seen == [e EXCEPT !.want = "nothing", !.parsed = 1] IN
           {Call("none", [seen EXCEPT !.hs = "done"], TRUE, TRUE, 0),
            Call("ssl", seen, TRUE, FALSE, 0)}
      [] OTHER -> {Call("none", [e EXCEPT !.want = "nothing"], FALSE, FALSE, 0)}

\* SSL_write() with partial writes enabled: one record.
SslWrite(e, left) ==
    {Call("none", [e EXCEPT !.want = "nothing"], TRUE, left = 1, 1)}

\* SSL_read(): the next record of data, past any session ticket.
SslRead(e, in) ==
    LET whole == {r \in e.parsed + 1 .. Records(in) : answers[r] # "ticket"}
        next  == CHOOSE r \in whole : \A s \in whole : r <= s
    IN
    CASE whole = {} ->
           {Call("want_read", [e EXCEPT !.want = "reading", !.parsed = Records(in)],
                 FALSE, FALSE, 0)}
      [] whole # {} /\ answers[next] = "data" ->
           {Call("none", [e EXCEPT !.want = "nothing", !.parsed = next], FALSE, FALSE, 1)}
      [] OTHER ->
           {Call("zero_return", [e EXCEPT !.want = "nothing", !.parsed = next],
                 FALSE, FALSE, 0)}

\* _transfer_more() without a buffer left makes no OpenSSL call and returns 0:
\* SSL_get_error() then goes by the state of the engine, and by default it
\* reports a system error, for which reenter() reads errno.
NoBuffers(e) ==
    IF e.want = "reading" THEN {Call("want_read", e, FALSE, FALSE, 0)}
    ELSE {Call(err, e, FALSE, FALSE, 0) :
            err \in {"errno 0"} \cup (IF StaleErrno THEN {"errno"} ELSE {})}

\* do_ssl_operation() of operation o, when the engine has been fed in.
DoSslOperation(o, e, in) ==
    CASE o.kind = "connect" -> SslConnect(e, in)
      [] o.kind # "connect" /\ o.left = 0 -> NoBuffers(e)
      [] o.kind = "read"  /\ o.left > 0 -> SslRead(e, in)
      [] o.kind = "write" /\ o.left > 0 -> SslWrite(e, o.left)

\* The classification in reenter() that ends an operation with an error.
Fatal(err) == err \in {"ssl", "zero_return", "errno"}

-----------------------------------------------------------------------------
\* Mutant: complete() leaves _live_operation in place.
StillAttached(lv) == lv

\* The value complete() leaves in _live_operation: it is moved from first.
Detached(lv) == NULL

\* complete(): detach the operation, then call the user's handler, which may
\* start another operation before this one is destroyed.  lv is the value of
\* _live_operation.
Complete(id, lv, ec) ==
    /\ live' = Detached(lv)
    /\ taken' = Append(taken, id)
    /\ active' = NULL
    /\ result' = ec
    /\ io' = NULL

\* Mutant: what was left of an earlier write is overwritten.
OverwriteOutput(out, new) == new

\* Mutant: the output is taken from _bio but never queued.
KeepOutput(out, new) == out

\* prepare() and BIO_read(): what the engine left in _bio goes behind whatever
\* is still in _pending_output.
QueueOutput(out, new) == out \o new

\* SSL_want_read().
SslWantRead(e) == e.want = "reading"

\* std::string::resize(n): cut, or padded with null characters.
Resized(buf, n) == [i \in 1..n |-> IF i <= Len(buf) THEN buf[i] ELSE 0]

\* What reenter() does once the engine has been fed in, and rest is left in
\* _pending_input: try the OpenSSL call and decide what is next.  A read is
\* given all of _pending_input, resized, whatever was left in it.
TryOperation(id, lv, o, out, in, rest) ==
    \E r \in DoSslOperation(o, engine, in) :
        LET made == IF r.emits
                    THEN bio \o Units(Len(wire') + Len(out) + Len(bio), RecordLen)
                    ELSE bio
        IN
        /\ engine' = r.engine
        /\ fed' = in
        /\ op' = [o EXCEPT !.left = @ - r.n, !.done = @ + r.n]
        /\ msgs' = IF r.ends
                   THEN Append(msgs, (Len(wire') + Len(out) + Len(made)) \div RecordLen)
                   ELSE msgs
        /\ \/ /\ Fatal(r.err)
              /\ pendingOut' = out
              /\ bio' = made
              /\ pendingIn' = rest
              /\ Complete(id, lv, "error")
           \/ /\ ~Fatal(r.err)
              /\ made # <<>>
              /\ pendingOut' = QueueOutput(out, made)
              /\ bio' = <<>>
              /\ pendingIn' = rest
              /\ io' = [op |-> id, read |-> FALSE]
              /\ active' = id
              /\ live' = lv
              /\ UNCHANGED <<taken, result>>
           \/ /\ ~Fatal(r.err)
              /\ made = <<>>
              /\ SslWantRead(r.engine)
              /\ pendingOut' = out
              /\ bio' = <<>>
              /\ pendingIn' = Resized(rest, ReadSize)
              /\ io' = [op |-> id, read |-> TRUE]
              /\ active' = id
              /\ live' = lv
              /\ UNCHANGED <<taken, result>>
           \/ /\ ~Fatal(r.err)
              /\ made = <<>>
              /\ ~SslWantRead(r.engine)
              /\ pendingOut' = out
              /\ bio' = <<>>
              /\ pendingIn' = rest
              /\ Complete(id, lv, "ok")

\* What _bio holds for the engine.  OpenSSL takes a record at a time, and when
\* it waits for input it has taken all there was.
InBio == IF engine.want = "reading" THEN 0 ELSE Len(fed) - RecordLen * engine.parsed

\* BIO_write(): how many units of buf there is room for.
BioWrite(buf) ==
    IF Len(buf) <= BioSize - InBio THEN Len(buf) ELSE BioSize - InBio

\* reenter() of operation id in state o, the wrapped stream having taken all
\* but out of _pending_output, and input being in _pending_input: _bio takes
\* what it has room for, and the rest stays in _pending_input.  A _bio that is
\* full queues no error, and the operation completes with no error at once.
Reenter(id, lv, o, out, input) ==
    LET n    == IF input = <<>> THEN 0 ELSE BioWrite(input)
        rest == SubSeq(input, n + 1, Len(input))
    IN
    IF input # <<>> /\ n <= 0
    THEN /\ Complete(id, lv, "ok")
         /\ op' = o /\ pendingOut' = out /\ pendingIn' = input
         /\ UNCHANGED <<bio, fed, engine, msgs>>
    ELSE TryOperation(id, lv, o, out, fed \o SubSeq(input, 1, n), rest)

-----------------------------------------------------------------------------
\* The user follows the wire protocol: a whole request, then its reply.
Awaiting ==
    Len(msgs) - 2 > Len(SelectSeq(SubSeq(answers, 1, engine.parsed),
                                  LAMBDA r : r = "data"))

MayStart(kind) ==
    CASE kind = "connect" -> started = 0
      [] kind = "write"   -> result = "ok" /\ ~Awaiting
      [] kind = "read"    -> result = "ok" /\ Awaiting

\* connect().start(), async_write_some() and async_read_some(), from the loop or
\* from the handler of the operation before.  connect() is owned by its caller
\* and is not in _live_operation; the others assert that nothing is there
\* (see NeverTerminates).
Start(kind, size) ==
    /\ active = NULL
    /\ started < MaxOps
    /\ MayStart(kind)
    /\ kind = "connect" \/ live = NULL
    /\ started' = started + 1
    /\ wire' = wire
    /\ Reenter(started + 1, IF kind = "connect" THEN live ELSE started + 1,
               [kind |-> kind, left |-> size, done |-> 0], pendingOut, pendingIn)
    /\ UNCHANGED <<received, answers, cut>>

Connect == Start("connect", 0)
Write   == \E n \in 1..MaxSize : Start("write", n)
Read    == \E n \in 1..MaxSize : Start("read", n)

\* Mutant: whatever is left in _live_operation is destroyed as well.
DestroyLive == NULL

\* _live_operation when complete() returns: the handler may have set it.
LiveAfterHandler == live

\* The user's handler returns, and complete() destroys the operation it took.
HandlerReturns ==
    /\ taken # <<>>
    /\ taken' = SubSeq(taken, 1, Len(taken) - 1)
    /\ live' = LiveAfterHandler
    /\ UNCHANGED <<active, op, started, result, io, pendingOut, bio, pendingIn,
                   received, fed, engine, wire, msgs, peerVars, cut>>

\* The thread is in the loop, with I/O outstanding on the wrapped stream.
Outstanding(read) == taken = <<>> /\ io # NULL /\ io.read = read

\* async_write() with transfer_at_least(1) ends: n units were accepted, and
\* Asio has trimmed them from _pending_output.
WroteSome(n) ==
    /\ Outstanding(FALSE)
    /\ n = Len(pendingOut) \/ PartialWrites
    /\ wire' = wire \o SubSeq(pendingOut, 1, n)
    /\ cut' = (cut \/ n < Len(pendingOut))
    /\ Reenter(io.op, live, op, SubSeq(pendingOut, n + 1, Len(pendingOut)), pendingIn)
    /\ UNCHANGED <<started, received, answers>>

Wrote == \E n \in 1..Len(pendingOut) : WroteSome(n)

\* Mutant: _pending_input keeps the size of the buffer.
Untruncated(buf, nbytes) == buf

\* io_callback of a read: _pending_input is cut to what was read.
Truncated(buf, nbytes) == Resized(buf, nbytes)

\* The next n units that the peer sent go to the front of the buffer.
ReadInto(buf, n) == [i \in DOMAIN buf |-> IF i <= n THEN received + i ELSE buf[i]]

\* async_read() with transfer_at_least(1) ends with n units.
ReadSome(n) ==
    /\ Outstanding(TRUE)
    /\ wire' = wire
    /\ received' = received + n
    /\ Reenter(io.op, live, op, pendingOut, Truncated(ReadInto(pendingIn, n), n))
    /\ UNCHANGED <<started, answers, cut>>

\* What the peer has sent and no read has taken.
Arrived == RecordLen * Len(answers) - received

GotInput == \E n \in 1..Len(pendingIn) : n <= Arrived /\ ReadSome(n)

\* The outstanding read or write fails, a read with nothing read: reenter()
\* completes at once.
IoFails ==
    /\ taken = <<>>
    /\ io # NULL
    /\ pendingIn' = IF io.read THEN Truncated(pendingIn, 0) ELSE pendingIn
    /\ Complete(io.op, live, "error")
    /\ UNCHANGED <<op, started, pendingOut, bio, received, fed, engine, wire, msgs,
                   answers, cut>>

\* The peer has received a whole message: it answers the hello with its flight,
\* the end of the handshake with a session ticket and a request with a reply,
\* or it closes the session.
PeerAnswers ==
    /\ Len(answers) < Len(msgs)
    /\ Len(wire) >= RecordLen * msgs[Len(answers) + 1]
    /\ \E r \in CASE Len(answers) = 0 -> {"flight"}
                  [] Len(answers) = 1 -> {"ticket"}
                  [] OTHER -> {"data", "close"} :
          answers' = Append(answers, r)
    /\ UNCHANGED <<opVars, io, pendingOut, bio, pendingIn, received, fed, engine, wire,
                   msgs, cut>>

Next ==
    \/ Connect \/ Write \/ Read
    \/ HandlerReturns \/ Wrote \/ GotInput \/ IoFails
    \/ PeerAnswers

Spec == Init /\ [][Next]_vars

\* Handlers return, the loop runs the I/O that is ready, the socket drains and
\* the peer answers what it has received in full.
FairSpec ==
    /\ Spec
    /\ WF_vars(HandlerReturns) /\ WF_vars(Wrote) /\ WF_vars(GotInput)
    /\ WF_vars(PeerAnswers)

-----------------------------------------------------------------------------
Ids == 1..MaxOps

\* The peer is sent the engine's ciphertext in order and without a gap: what
\* has been sent, what is left in _pending_output after a partial write and
\* what is still in _bio make up all that the engine produced.
CiphertextInOrder ==
    wire \o pendingOut \o bio = Units(0, Produced)

\* The engine is fed all that the reads delivered, once, in order and nothing
\* else: none of the buffer's padding, nothing that an earlier read left there.
\* Between reads nothing stays in _pending_input, so the next read overwrites
\* nothing and no later operation feeds it again.
InputInOrder ==
    /\ fed = Units(0, received)
    /\ pendingIn # <<>> => io # NULL /\ io.read

\* The operation that outstanding I/O will reenter has not been destroyed: it
\* is the one in _live_operation, or the caller's connect().
ReentersLiveOperation ==
    io # NULL => /\ io.op = active
                 /\ op.kind # "connect" => live = io.op

\* Whenever a user that runs one operation at a time may start the next one,
\* from a handler too, the assertion of _assert_no_outstanding_io() holds: it
\* never calls terminate().
NeverTerminates == active = NULL => live = NULL

\* Success means what the Asio stream concepts say: a write has encrypted all
\* of its buffers, a read has delivered something, and a connect is connected.
SuccessMeansDone ==
    active = NULL /\ result = "ok" =>
        CASE op.kind = "write"   -> op.left = 0
          [] op.kind = "read"    -> op.done > 0
          [] op.kind = "connect" -> engine.hs = "done"

\* Every operation completes, as long as the wrapped stream takes every write
\* whole.
OpsComplete == [](~cut) => ((active # NULL) ~> (active = NULL))

\* "Nothing to transmit. The operation is done" (reenter()): an operation that
\* succeeds has handed all of its ciphertext to the wrapped stream.
NothingToTransmit ==
    active = NULL /\ result = "ok" => pendingOut = <<>> /\ bio = <<>>
=============================================================================
