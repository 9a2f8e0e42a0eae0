# A TLA+ verification of amongoc

amongoc is an asynchronous MongoDB driver in C and C++: a BSON library, a small
library of lazy asynchronous operations ("nanosenders") with cancellation, an
event loop on top of Asio, TLS, the wire protocol, a connection pool and the
client API. This directory models its core, from the stop source to the BSON
buffer, model-checks it with TLC on small instances, and proves the central
results with TLAPS for every instance.

## 1. Inventory

| Component | State | Operations | What is hard | Correct when |
|---|---|---|---|---|
| Stop source, stop callbacks (`nano/stop.hpp`) | atomic word with a spin lock and a stopped bit, intrusive list, stopping thread | construct and destroy a callback, `request_stop()` | any thread, at any time; bodies that destroy callbacks, themselves included; waiting for a running body | nobody is run twice or missed, nothing is touched after its destruction, everyone returns |
| Race of two and `amongoc_timeout()` (`nano/first.hpp`, `nano/simultaneous.hpp`, `async.cpp`) | operations outstanding, winner, own stop source | start, n-th result, stop | results inside `start()`, expiry against completion, stop against both | one answer, the winner's, with nothing of the race left behind, and soon |
| Default event loop (`default_loop.cpp`, `tcp_conn.hpp`), object pool (`pool.hpp`) | Asio context, pools of cancellation signals, timers and resolvers | timers, name resolution, connect, read, write, run; checkout and return | cancellation slots, signals lent to one operation after another, loop destruction | each operation completes once, a stop reaches its own operation |
| TLS stream (`tls/`) | OpenSSL engine, BIO pair, pending input and output, live operation | connect, read some, write some, reenter, complete | partial writes and reads, reentrant handlers, error classification | ciphertext in order, success means done, no dangling reentry |
| Connection pool (`connection_pool.*`) and wire clients (`wire/client.hpp`, `wire/proto.hpp`) | idle list, members, connection ids; per request the tries left | checkout, establish, request, perish, return, retry | awaits between all of these, servers that hang up, err or answer late | one owner per connection, every answer belongs to its request |
| Handlers, emitters, operations (`async*.cpp`, `handler.*`, `operation.*`), nanosenders (`nano/then*`, `nano/let*`, `nano/simple.hpp`), coroutines (`coroutine.*`), boxes | frames, operation states, who owns whom | connect, start, complete, move, destroy, detach | completion inside `start()`, destruction inside completion, a frame destroyed while suspended | each life cycle is linear, the handler is completed once with the meaning of the expression |
| BSON (`include/bson/doc.h`, `mut.h`, `iterator.h`) | one byte buffer, a capacity cookie, mutators with raw pointers into it | insert, erase, splice, rename, nest, reserve, copy, iterate, find | size headers of all the documents around an edit, reallocation under iterators and mutators, int32 limits | reading gives back what was written |
| Parsing and building (`bson/parse.hpp`, `bson/make.hpp`) | variables assigned on the way | rules that accept, reject or fail | order of the fields, optional against required, leftovers | a reply is accepted by its shape alone |
| Checked integers (`mlib/integer.h`) | a wide value and its flags; the scope's flags | the operators of `mlibMath()`, cast, try, catch | the edges of the range; a failure long before the look at the scope | unflagged means exact |
| Client, database, collection, cursors, status codes | cursor id and batch | CRUD commands, `getMore` | replies of every shape, a lost connection, write errors inside an `ok` reply, cursor life across awaits | the status and the result are the effect on the server |
| Connection strings (`uri.*`), event emitter (`event_emitter.hpp`) | parameters; an intrusive list of listeners | parse, warn; listen, fire, destroy | duplicates, ranges, aliases; listeners that go away during `fire()` | the last usable value counts, losses are reported, no dangling listener |
| Handshake, wire messages | none | build, parse | malformed messages, checksums | a message is a reply or EPROTO |
| `when_all` (`nano/all.hpp`) | a counter | result | several threads | one completion |

They interact as follows. A collection operation is a coroutine that asks a
`pool_client` for a request; the pool hands it a member, whose stream is a TCP
connection of the loop or a TLS stream around one; `wire/proto.hpp` writes a
message and reads one. Every wait goes through the loop, which runs completion
handlers on the thread in `run()`. Cancellation goes the other way: a handler's
stop token, a stop source, a stop callback registered by the loop's
`adapt_handler`, an Asio cancellation signal.

`PROJECT.json` lists all parts with their status, and the hazards with the line
where each bites.

## 2. Modules

| Module | Models | Used by |
|---|---|---|
| `StopSource` | `in_place_stop_source`, `in_place_stop_callback`: threads, spin lock, list, callback bodies | `MCStopSource`, proofs |
| `StopPromise` | what a stop source promises, without threads, locks or lists | refinement, `KeepsPromise` |
| `StopSourceProofs` | inductive invariant and safety theorems; `StopSource` implements `StopPromise` | |
| `Timeout`, `TimeoutProofs` | the race inside `amongoc_timeout()` on the loop's thread, the pool of cancellation signals; safety theorems | `MCTimeout` |
| `TlsStream`, `TlsStreamProofs` | `tls::stream` and its operations; safety theorems | `MCTlsStream` |
| `ConnectionPool`, `ConnectionPoolProofs` | pool, pool client, retrying client, message exchange; safety theorems | `MCConnectionPool` |
| `Operations`, `OperationsProofs` | emitters, handlers, operations, coroutines: ownership and completion; safety theorems | `MCOperations` |
| `Bson`, `BsonProofs` | documents, iterators, mutators; safety theorems | `MCBson` |
| `CheckedInt`, `CheckedIntProofs` | `mlibMath()`; its exactness at every width | `MCCheckedInt` |
| `Parse` | the rules of `bson/parse.hpp` | `Crud` |
| `Wire` | `recv_message()`: headers, sections, checksums | `Crud` |
| `Status` | status codes, exceptions turned into them | `Crud` |
| `Crud` | handshake, collection operations and cursors against a server | `MCCrud` |
| `EventEmitter` | listeners and `fire()` | `Uri` |
| `Uri`, `UriProofs` | `connection_uri::parse()`; safety theorems, of the event emitter too | `MCUri` |

In each module an operator named in a comment as a mutant is a plausible bug of
the definition after it; `PROJECT.json` says which property notices.

### StopSource

One variable per member of the source (`state`, `head`, `stopping`) and per
field of a callback (`next`, `prev`, `src`, `didRemove`, `execDone`), a program
counter per thread for `request_stop()` (`rs`) and one for a constructor or
destructor (`op`), because a body that `request_stop()` runs may be inside
either. Each atomic access and each critical section is a step of its own; the
spin of a failed compare-exchange changes nothing and is the wait for the step
that gets through. `prev` is a pointer to a pointer in the code: here it is
`HEAD`, or the callback whose `_next` it is. Histories (`runs`, `killer`,
`granted`, `refused`) only serve the properties. Callback bodies are the
caller's: they may construct, destroy and stop anything, themselves included.

### Timeout

Everything runs on the thread in `run()`, so a handler is one step. em is one
of three kinds: an operation that passes its handler's stop token on to the
loop and that its signal cancels; one that no stop reaches, such as a read or
write of the wire client, which registers no callback, or a name resolution,
which Asio cannot cancel by itself; or an emitter that resolves inside
`start()`. `hit` remembers that the timer expired rather than was cancelled. The stop callbacks of the race are a sequence, most
recent first, which is the order `StopSource` runs them in. A callback knows
only the address of a cancellation signal, as in the code: the operation it
cancels is the one the loop's `object_pool` has lent that signal to. Asio is
external: a finished or cancelled operation joins the queue of ready
completions, and a signal emitted with nothing in its slot is lost.

### TlsStream

One `reenter()` is one step, from the input it feeds to the I/O it starts or
the completion it reports. Ciphertext is a sequence of numbered units, two to a
record, so that partial reads and writes split records. Both buffers are variables:
`_pending_input` is resized for a read, cut to what the read returned, and
erased by what the BIO took, which may be less than it holds. The user's handler runs
inside `complete()` and may start the next operation there: `taken` is the
stack of operations whose `complete()` has not returned. The engine is
external and follows the OpenSSL calls as `reenter()` uses them. `errno` at the
line that reads it is a free choice, because no call sets it there.

### ConnectionPool

A task runs operations one after another, each with its own pool client. The
stages of a request are steps, and other tasks run in between. Establishing a connection (resolve,
connect, TLS, handshake) is one awaited step that succeeds or fails. The server
answers in order, with an answer, an error document or an invalid message, and
closes connections at any time. `responseTo` is not compared by the code and
not by the model. `msg` is the message that the retrying client keeps; with
`Owning` it owns its document, and a try that takes it leaves it moved from.

### Operations

An expression is a source (`amongoc_just`, a timer, a coroutine that finishes
in its ramp, awaits, or nests a `co_task`, an emitter that failed to allocate)
and up to two stages (`then`, `then_just`, `let`). `owner` is the ownership
tree: the operation owns its handler, the handler the next one, the loop what
was moved into it, a coroutine its promise. Destroying an object destroys the
subtree. The userdata of a stage is in its box, in dynamic storage, or, with
`amongoc_then_just()`, paired with a status; `LOST` is the owner of what nobody
can destroy any more (`Loses` says when, `Leaks` what is lost in the end). A chain of completions goes one call at a time, so that destruction
can happen while a call is under way (`call`), and the loop's stack owns the
handler being dispatched. `Meaning` computes what the expression denotes
without any of this. A chain of calls is sequential; the user decides
when to connect, start, delete and detach.

### Bson

Bytes are bytes: `data` is the buffer, with its little-endian size headers and
type tags, and iteration decodes them. `docs` is the reference: for each mutator
in use, the sequence of elements that the edits so far denote for its document;
`path` says which element each mutator was made from. A pointer is an offset and
whether its buffer still exists. INT32_MAX is a constant, so that every size check
can fail. The allocator refuses, or grants more than it is asked for (`Surplus`),
which the capacity then counts; in a relabelling it may run out after any number of
elements (`RunsOut`). `fatal` records what a call must not do: fail an assertion, or
write to the static empty document that documents without a buffer share. Such a
state has no successors.

The reference follows a relabelling in everything but the keys, which it takes from
the bytes; those are the matter of `RelabelsEveryElement`.

A document that is inserted is the bytes of a view, and so is `Other`, the source
of spliced ranges. `ViewsAssumption` asks of them what the code can read back: a
walk to the end, at every depth (`IsView`), and no element that stops the reader
- an empty string (the reader asserts), code with scope (it aborts), a DBPointer
(it reads behind the size). Of the values that `_bson_insert_value()` takes, regular
expressions, DBPointers and code with scope are left out (`IsValue`), since they
are written with another size than they are read with; their encodings are in
`Payload`, and regular expressions can come in as part of a view. These are the
flaws listed under findings.

### Crud, Parse, Wire, Status

One operator per C function builds its command; the server executes the command
at one instant (or refuses, or loses the connection before or after), and the
reply is a document whose fields come in several orders, with one missing or of
the wrong type, in a message that may carry a checksum, lie about its length or
have another opcode, or have no, two or undersized sections. `Wire` takes such messages apart cell by cell, a cell being
an int32 or a byte. The client side is the rule of the function, evaluated by
`Parse`, and `Status` for what escapes as an exception; an exception that meets a
`noexcept` function, and a failed assertion, end the process instead. A write error
has an index and a code, a delete may fail in part, and what a call resolves with
has the width of the integer in its box. `OfCommand` is what the
server did to the documents, `OfCall` what the call stands for: comparing the
two catches a command that does not say what its function means. The handshake is
one more exchange, made before the first operation because it shares nothing
with them. Operations
take turns over slots, so that a writer changes the collection between two
batches of a reader.

### CheckedInt

One accumulator goes through every operation with every operand, saturating
or not. `sound` remembers whether every operation so far was exact or that one
difference, INT64_MAX + 1, which is not reported, and `escaped` whether it has come
up.

### Uri, EventEmitter

The parse handles one parameter per step and each warning is a step of
`fire()`, between which callbacks create and destroy listeners. The list is the
code's, two pointers per listener; the history `order` is the sequence the
pointers should spell, and `due` those of it that have to hear the event. A
callback may destroy the listener that runs it; `fire()` then reads the next
pointer of a destroyed object, and that read may give any pointer (`CallAstray`).
A parameter's value is a number, a number with text behind it, which
`from_chars()` takes for the number, or other text. Each warning is recorded with
the parameter and the reason it is fired for.
Boost.URL's grammar is external: a URL is what it returns.

## 3. Runs

| Run | Bounds | Shows |
|---|---|---|
| `stop_source` | 2 threads, 2 callbacks | the list, executions, destructors and stops are sound; refinement of `StopPromise`; every call returns |
| `timeout` | 2 calls, every kind of em, stops, a pool that keeps 1 signal | one quiescent answer, ETIMEDOUT exactly when the code gives it; a stop and the passing of time resolve R |
| `timeout_deaf` (violation) | em is a wire read or write | R does not resolve after the timer fired |
| `pool` | 2 tasks of 2 requests, in one operation or two, 3 connections, 2 tries | ownership, clean returns, matching answers, what a retry sends; every request ends |
| `tls_stream` | handshake and 3 exchanges of up to 2 records, reads of 3 units, a BIO of 4 | order in both directions, no dangling reentry; operations complete |
| `tls_unsent` (violation) | partial writes | an operation succeeds with ciphertext unsent |
| `operations` | every source, up to 2 stages, userdata in and outside its box | no use after destruction, one completion with the right meaning, what was connected is released, and what is not destroyed, exactly; started operations complete |
| `let_coroutine` (violation) | a `let` that continues with a coroutine after a timer | the suspended coroutine is destroyed and then resumed |
| `bson` | documents of up to 19 bytes, 3 levels of mutators, an allocator that is generous or fails | reading back, returned iterators, mutators, relabelling |
| `checked_int` | 4-bit wide, 2-bit narrow integers, every operand | one overflow escapes and no other; uncaught means exact but for that one |
| `crud` | 2 documents, 1 cursor, a reader and a writer calling every function, messages of every layout | results are effects, replies and messages are judged by shape and some end the process, cursors deliver everything once |
| `uri` | every early return, every pair of parameters, 3 listeners | last usable value, the warnings parameter by parameter, listeners, also ones that destroy themselves |

`SuccessMeansDone` of `TlsStream` and `CapacityIsHonest` of `Bson` have no run: they are
proved for every instance (`SuccessIsDone`, `CapacityStaysHonest`).

A run that expects a violation has one property, which states what a comment, a
document or a test of the repository says; `PROJECT.json` quotes it, and section 5
tells what the counterexample shows. Where a passing run meets a disagreement, its
property says exactly what the code does, on both sides, and its comment quotes the
line that says otherwise: it would fail if the code did something else again, and it
fails once the code is repaired, which is the time to restate it.

Why the bounds are enough to be interesting. Two threads and two callbacks let
one thread stop while the other destroys the callback that runs, or constructs
its neighbour; more of both is what the proofs are for, which hold for any
number. Two timeouts share the ready queue and the pool of signals, and a pool
of one both reuses a signal and turns one away. Two units make a record that
can be cut in the middle, and two records a write that continues after a cut
one. Two tasks, two requests and three connections let a connection be returned,
taken by the other task, closed while idle and replaced; with two tries, a
retry happens on another connection. Two stages are the least with a handler
between two handlers. A document of 19 bytes holds several elements or three levels
of nesting; keys shorter and longer than a label make renaming and relabelling move
bytes in both directions. A read of three units and a BIO of four do not fit records
of two, so that input is cut anywhere and the BIO takes part of it. At four bits every
case of the overflow predicates occurs, the smallest and greatest value
included. Two documents and batches of one make a cursor that is asked twice
for more. Deadlock is checked in `checked_int`; the other systems may
legitimately come to rest.

Fairness. `stop_source` assumes weak fairness of each thread: it is scheduled,
and a callback body returns. That is enough for the spin lock, since each thread
holds it for a few steps and each callback is constructed and destroyed once.
`timeout` assumes only that the loop runs what is ready, and `Resolves` states
for itself that time passes; nothing is assumed about peers. `operations` assumes
that calls return and timers expire. `tls_stream` and `pool` assume that the
loop runs, that sockets drain, and that the server answers or hangs up, which is
what ends a wait in the code; `OpsComplete` also asks that no write is cut,
because of the finding below.

## 4. Proofs

`StopSourceProofs` proves, for any sets of threads and callbacks, that the
inductive invariant `IInv` holds and with it every safety property of the run
`stop_source`. None of these properties is inductive alone. `IInv` has five
parts:

* `TypeOK`;
* `LockInv`: the locked bit is set exactly while one thread is at a program
  point inside a critical section, and the stopped bit and `stopping` follow
  the thread in `request_stop()`;
* `OwnerInv`: which thread is constructing or destroying which callback, so
  that two threads never work on the same one;
* `ExecInv`: how a callback's position (listed, popped, running, done,
  removed by itself) determines its fields, its run count and who may still
  touch it. This is the part that makes the removal flag and the wait of the
  destructor sound;
* `ListInv`: the list is doubly linked among live callbacks, is acyclic, and
  is empty once a `request_stop()` has returned.

Acyclicity cannot be had by induction over the list in this prover. It is stated
as: of any non-empty set of linked callbacks, some member's predecessor is
outside the set; linking at the head, popping and unlinking preserve it.

For the refinement, `StopSourceProofs` maps a callback's fields and the program counters to a
phase and proves that initial states map to initial states and every step to a
step of `StopPromise` or a stutter. The assumptions are `StopConstants` only:
the null pointer and the address of the head are no callbacks or threads.

`ConnectionPoolProofs` proves every safety property of the run `pool` for any
number of tasks, requests, connections and tries. The property that matters,
`OwnAnswer`, says nothing about connections, so its inductive invariant
`PoolInv` follows them:

* `TypeOK` and `OneOwner`;
* `KnownConns`: connections beyond the last id handed out do not exist, so a
  new id is new;
* `WireInv`: a connection that is idle or not yet established has nothing on
  it; a held one has nothing on it either except while its owner reads, when
  the one message under way belongs to the owner's last request;
* `OwnAnswer`.

`ServedAtMostNTries` has an invariant of its own, `TriesInv`, that relates the
tries left to the requests served, and so has `OnlyFirstTryIsWhole`: `MessageOf`
relates them to what is left of the message. The assumptions are `PoolConstants`: the
bounds are naturals, `NTries` any integer, and the null pointer is nothing else.

`CheckedIntProofs` proves both properties of `checked_int` for any width of the
wide and narrow types (`BoundsAssumption`: the narrow type and its unsigned
values fit the wide one). The lemmas are the ones the comments in `integer.h`
claim, in both directions: `AddExact` (the addition predicate is true exactly when
the sum has no representation), `SubExact` (the same for the difference, but for the
value INT64_MAX + 1), `MulSound` and `MulComplete` (a product is reported exactly
when it overflows), `QuotientInRange`, `BeyondQuotient`. So flags are set exactly
when some operation was neither exact nor the one that escapes. The invariant is the
conjunction of the two properties and the types: a scope is exact because each
expression cast in it was.

`TimeoutProofs` proves the three invariants of the run `timeout` and one more,
`PoolInv`, for any number of calls on one loop and any size of the signal pool.
A stop callback holds an address, so everything rests on who holds a signal:

* `PoolInv`: a signal is lent to one operation at a time, for as long as Asio
  has that operation, and is not in the pool meanwhile;
* `CookieInv`: the stop callbacks of a race emit the signals of its own halves.
  With `PoolInv`, a stop cancels its own race and nothing else;
* `QueuedOnce`: an operation is in the queue of ready completions exactly while
  it is queued, and once;
* `RaceInv`, `StartInv`: `outstanding` counts the unresolved halves, also
  between the two calls of `start()`; the winner has resolved and has stopped
  the other; an answer means that nothing is outstanding;
* `HearInv`: until the race is stopped, the timer's callback is the first to run;
* `CodeInv`: a timer that is queued has been cancelled or has been hit, and a race is
  stopped by its winner or by R's handler;
* `InlineInv`: the timer of an em that resolves inside `start()` is never cancelled;
* `ReasonInv`: how the answer will come out. Until a half has won (`Undecided`) the
  queue decides: after a stop while both wait the timer's completion is ahead of
  em's, since callbacks run most recent first, so R will report ETIMEDOUT. After that
  (`Decided`) the winner and `hit` say which of the reasons of `AnswerJustified`
  applies.

The assumptions are `TimeoutConstants` and `SignalsSuffice`: the allocator has
an address for a new signal while some operation has none.

`TlsStreamProofs` proves the four invariants of `tls_stream` and `SuccessMeansDone` for any
number and size of operations and any cuts of the ciphertext, with or without
partial writes and stale values of `errno`. There are three invariants.
`CiphertextInv` numbers the units on the wire, in `_pending_output` and in the
BIO one after the other. `InputInv` does it for what has been read, what is in
`_pending_input` (resized for a read, cut to what came, erased by what the BIO took)
and what the engine has been fed.
`LifeInv` is about who is reentered; it needs `CallOutcome`, a lemma about what
each OpenSSL call can return: a call that neither fails, nor leaves ciphertext,
nor waits for input has done what its operation is for. That is why
`reenter()` may complete there.

`UriProofs` proves both invariants of the run `uri` for any number of
listeners and any sequence of parameters. For the emitter, `EmitterInv` says that the
pointers form a doubly linked list over `order` (`ListInv`, whatever has been
destroyed) and, while no callback has destroyed its own listener, that the one being
called is where the sequences `due` and `called` say (`WalkInv`); removal during
`fire()` is the step that needs it. `SelfInv` is about a callback that has: `fire()`
is still on the stack and will read. For the parse, `UriInv` relates each slot to the
last usable parameter handled so far, and `WarnInv` the warnings fired and pending,
parameter by parameter, to what there is to say of the parameters handled. The
assumptions are `UriConstants` and `NullAssumption`.

`OperationsProofs` proves `CompletesWithMeaning` for any emitters and any
number of stages (`OperationsConstants` gives the constants their types). `CompletionInv` says that of the call in progress, the handlers
and receivers that the loop owes a completion, and the result, at most one
exists at a time, and that it carries the meaning of the expression up to its
stage. `NoUseAfterFree` is proved for expressions whose `let` stages do not
return a coroutine that waits (`LetsDoNotWait`); without that hypothesis it is
false, which is the finding of the run `let_coroutine`. Its invariant,
`OwnerInv`, says that an owner is never gone (`Tree`) and that behind whatever
can run next - an operation to start, a handler to complete, a handler in the
loop, a coroutine that waits - the chain of handlers to the user's is whole
(`Chain`). The difficult step is the return of a dispatch: everything on the
stack is destroyed, and `DoomedWithin` shows that the chain of a handler that
was moved into the loop is out of its reach.

`ConnectedIsReleased` is proved under `LetsDoNotWait` alone, for userdata of every
kind: what a dynamic box keeps is the only thing that may be lost. Its invariant,
`ReleaseInv`, gives every object a rank, above
that of its owner and at most 4 MaxStages + 7. That is why a destruction that
follows owners to the depth 4 MaxStages + 8 misses nothing (`DoomedIsClosed`),
and why, once the user, the loop and the stack hold nothing, nothing is left
(`RootsOwnAll`). A detached operation owns itself until its handler leaves it,
so it has no ranks before that; afterwards the operation ranks below its
handlers (`Knot`, `TopOf`). `NullIsNoCall` says that "no call" is not a call.

`Meaning` and `Doomed` are recursive functions of the number of stages. That
they satisfy their equations, and what they compute, is proved from the
well-ordering of the naturals (`LeastNatural`): a set of naturals is an object,
so it takes no induction schema.

`BsonProofs` proves the three invariants of the run `bson` and `CapacityIsHonest`: for every INT32_MAX from 17 to
2^31 - 1, any keys, values and source of ranges, any depth of mutators and any
sequence of edits, including the refused ones, with an allocator that grants any
surplus. The inductive invariant `Inv` is
that of a state of four things (`StateOk`):

* the capacity covers the buffer, whose header is its length (`Fits`);
* the root document is valid, and the mutators lead from it, each to the value of
  an element of the one before, at the element that `path` names (`IsChain`,
  `Link`). `Valid` is what the properties lack: the bytes are a document, and so
  are the values of its elements that nest one, to any depth. It is stated without
  recursion, as membership in a set of documents that is closed under nesting;
* the reference is what the bytes read as, at every mutator;
* the last result is an iterator of a walk over the innermost document, its end
  after a failure (`Lands`).

The argument has four layers. Walking and reading a document follow the places of
its elements (`WalkIs`, `DocumentIs`), and bytes mean the same wherever they are
(`DocumentMoves`). Replacing a run of elements gives a document with the run
replaced (`EditedDocument`), and what is inserted encodes what it should
(`PayloadEncodes`, `ElementStands`, `KeyEdited`). `_bson_splice_region()` changes
the run, the headers of all the documents on the way to the root and nothing else,
or fails and changes nothing (`RegionSpliced`); so the innermost document is the
edited one (`RangeEdited`), and of each document around it exactly one element has
another value (`AncestorEdited`, `StoreEdited`). That is what the edit does to the
reference (`Grafted`). The operations then keep the invariant one by one; the
relabelling of an array is a sequence of edits, of which any number may have
succeeded (`LabelStep`). The assumptions are `SizesAssumption`, `KeysAssumption`
and `ViewsAssumption`; that a view which is walked to its end is valid is proved
(`ViewIsValid`).

`foreach`, `Document`, `_bson_splice_region`, `Relabel`, `Graft` and
`bson_mut_capacity` are recursive functions. Each time the function that the
definition picks is shown to exist, and to agree with its closed form, from the
well-ordering of the naturals.

With TLC only:

* liveness: every leads-to property of the runs needs fairness, which this prover
  does not have (`KeepsPromise`, the refinement, is a safety property);
* `LeaksAreThese` and `RelabelsEveryElement`, which state what is lost, and which key
  is given, in every case of two stages and of the small documents;
* `Crud` (with `Parse` and `Wire`): the rules that parse a reply are trees that
  recursive operators interpret, over replies in every order and with a flaw at
  every depth, which are out of this prover's reach.

## 5. Findings

Runs that show a disagreement by a counterexample:

* `timeout_deaf`: reads and writes of the wire client register no stop callback,
  so a timeout or a stop does not interrupt a silent server.
* `tls_unsent`: a TLS operation completes, or goes on to wait for input, with the
  rest of a partially accepted write still in `_pending_output`.
* `let_coroutine`: the continuation of `amongoc_let()` lives in the handler of
  its input; after `amongoc_schedule_later()` that handler is destroyed when its
  completion returns, and with it a coroutine that is still waiting.

Disagreements that a property of a passing run states exactly as the code has them:

* `AnswerJustified`: a stop requested by R's own handler reaches the timer first, and
  R reports ETIMEDOUT although the timer was not hit ("if the timeout is hit",
  `async.rst:229-234`). An em that resolves inside `start()` is answered only when the
  timer, started after it, has expired: the stop is delivered while `adapt_handler` is
  constructed, before Asio has put the operation into the slot.
* `OnlyFirstTryIsWhole`: a retry forwards a message that the first try moved from
  (`wire/client.hpp:164`); `connection_pool.test.cpp:59` retries a `bson::document`.
* `LeaksAreThese`: `dynamic_box` has no destructor. So dynamic userdata of a
  transformer that is skipped or never reached leaks (`async.h:76-77`,
  `async.rst:352-354`), the value that `amongoc_then_just()` pairs with an error
  (`async.rst:182-184`), and all but the last stage's userdata of a composed emitter
  that is deleted. `amongoc_detach_start()` destroys only operations of which the loop
  has had a handler (`async.rst:310-311`).
* `RelabelsEveryElement`: `bson_relabel_array_elements()` never advances its index, so
  all keys are "0" (`mut.h:425`, `mut.rst:254`).
* `OneOverflowEscapes`: `_mlib_i64_sub_would_overflow()` does not report INT64_MAX + 1,
  although its comment (`integer.h:363`) says "iff".
* `ReportsTheEffect`: `amongoc_delete_ex()` succeeds although there are write errors
  (`collection.rst:41`); the index of every write error is 0 (`collection.rst:64`);
  `amongoc_count_documents()` boxes an int32 (`count.rst:6` says int64_t).
* `ShapeDecides`: `expect_one_body_section_op_msg()` is `noexcept` and throws, so a
  reply with no section or with two ends the process (`wire/message.cpp:10-17`), and so
  does, by an assertion (`doc.h:502`), a document whose size is below 5.
* `HeardInOrder`: `fire()` reads a listener that destroyed itself in its callback
  (`event_emitter.hpp:36`; line 41 says it is detached).
* `QueryIsReadExactly` (its part `WarningsAreExact`): `connectTimeoutMS`, `tlsInsecure`, `compressors` and `tls` replace
  an earlier value without a warning (`uri.cpp:218` says of its helper that assigning
  an optional twice warns), and text behind a number is dropped without one.
* `QueryIsReadExactly` (its part `LastValueWins`): a later unusable value of an assigned
  parameter erases an earlier one.

In the models without a property of their own, or seen while modelling:

* The last reentry of a TLS write can take a stale `errno` for its result.
* BSON: a relabelling that cannot grow the document hands the end iterator to
  `bson_next()`, whose assertion aborts (`mut.h:416`, `iterator.h:384`); `_bson_new()`
  takes a failed reservation for success (`doc.h:259`) and, like a splice of two empty
  ranges in a document without a buffer (`mut.h:184`), writes to the constant empty
  document (`doc.h:254`). The variable `fatal` marks these states. Regex, DBPointer and
  code-with-scope sizes are off; an empty string asserts when read; a failed
  subdocument insert yields a mutator without a document.
* `call_later()` completes a moved-from handler when the duration is rejected.
* Destroying the loop destroys the pools before the `io_context` whose handlers
  return their tickets to them.
* `checkNonNegativeInt16` compares with INT64_MAX; `clearFlags` passes its arguments
  in the wrong order.
* CRUD: `amongoc_database_aggregate()` looks for `firstBatch` at the top level
  and therefore always fails with EPROTO (`database.cpp:74`); a cursor that is
  abandoned is not killed. Wire: a checksum is skipped and not validated.
* Handshake: `setVersion` is read as a string and `secondary` as an integer
  (`handshake.cpp:64-66`), while members of a replica set send an integer and a
  Boolean; `ok` is not looked at, so a refusal shows as EPROTO.
* Connection strings: an IPvFuture host terminates the program.

## 6. Not modelled, and what is left

* `when_all` and `first_where` with halves that complete on several threads. The
  default loop completes everything on one thread.
* The destruction of a loop with pending work; handlers' allocators.
* Certificate callbacks of TLS, and key updates answered inside `SSL_read()`.
* The layout of sent messages and of type-erased boxes: a request is the
  document it carries, a box an owned value.
* Strings, vectors and allocators as such, conversions of BSON values and their
  text, message tables of the status categories, formatting and logging.
* Memory orders weaker than sequential consistency.
* Asio, OpenSSL, Boost.URL and the MongoDB server are external and modelled from
  their use. Build files, tests, documentation and examples are no part of the
  program's behaviour.

What the proofs leave: the three properties of `Crud`, which would need the rules
of `Parse` in a form that is not a recursive operator, `LeaksAreThese`,
`RelabelsEveryElement` and liveness.
