-------------------------- MODULE TlsStreamProofs --------------------------
(***************************************************************************)
(* The safety of the TLS stream, for any number of operations of any size  *)
(* and for any cuts of the ciphertext.  Every step but two is a call of    *)
(* reenter(), so the proofs go through one lemma per invariant about what  *)
(* Reenter() does with what it is given.                                   *)
(***************************************************************************)
EXTENDS TlsStream, TLAPS

\* Each wire' that a step has is a sequence: the ciphertext in its three places.
CiphertextTypes ==
    wire \in Seq(Nat) /\ pendingOut \in Seq(Nat) /\ bio \in Seq(Nat)

\* What is sent, then pending, then in _bio, numbered from one.
InOrder(w, p, b) ==
    /\ \A i \in 1..Len(w) : w[i] = i
    /\ \A i \in 1..Len(p) : p[i] = Len(w) + i
    /\ \A i \in 1..Len(b) : b[i] = Len(w) + Len(p) + i

CiphertextInv == CiphertextTypes /\ InOrder(wire, pendingOut, bio)

-----------------------------------------------------------------------------
\* Units(a, n) is a sequence of n numbers, the first of them a + 1.
LEMMA UnitsFacts ==
    ASSUME NEW a \in Nat, NEW n \in Nat
    PROVE  /\ Units(a, n) \in Seq(Nat) /\ Len(Units(a, n)) = n
           /\ \A i \in 1..n : Units(a, n)[i] = a + i
BY DEF Units

\* Sequences are equal when they agree everywhere.
LEMMA SameSequence ==
    ASSUME NEW S, NEW s \in Seq(S), NEW t \in Seq(S), Len(s) = Len(t),
           \A i \in 1..Len(s) : s[i] = t[i]
    PROVE  s = t
<1>1. s = [i \in 1..Len(s) |-> s[i]] /\ t = [i \in 1..Len(t) |-> t[i]]
  OBVIOUS
<1> QED BY <1>1, Zenon

\* A concatenation holds the one sequence, then the other.
LEMMA ConcatFacts ==
    ASSUME NEW S, NEW s \in Seq(S), NEW t \in Seq(S)
    PROVE  /\ s \o t \in Seq(S) /\ Len(s \o t) = Len(s) + Len(t)
           /\ \A i \in 1..Len(s) : (s \o t)[i] = s[i]
           /\ \A i \in 1..Len(t) : (s \o t)[Len(s) + i] = t[i]
OBVIOUS

\* Being in order place by place is being in order as a whole.
LEMMA InOrderIsUnits ==
    ASSUME CiphertextTypes
    PROVE  InOrder(wire, pendingOut, bio) => CiphertextInOrder
<1> SUFFICES ASSUME InOrder(wire, pendingOut, bio) PROVE CiphertextInOrder OBVIOUS
<1> DEFINE all == wire \o pendingOut \o bio
           n == Len(wire) + Len(pendingOut) + Len(bio)
<1>1. Len(wire) \in Nat /\ Len(pendingOut) \in Nat /\ Len(bio) \in Nat /\ n \in Nat
  BY DEF CiphertextTypes
<1>2. all \in Seq(Nat) /\ Len(all) = n
  BY DEF CiphertextTypes
<1>3. ASSUME NEW i \in 1..n PROVE all[i] = i
  <2>1. CASE i <= Len(wire)
    BY <1>1, <2>1 DEF CiphertextTypes, InOrder
  <2>2. CASE i > Len(wire) /\ i <= Len(wire) + Len(pendingOut)
    <3>1. i - Len(wire) \in 1..Len(pendingOut)
      BY <1>1, <2>2
    <3>2. all[i] = pendingOut[i - Len(wire)]
      BY <1>1, <2>2, <3>1 DEF CiphertextTypes
    <3> QED BY <1>1, <3>1, <3>2 DEF InOrder
  <2>3. CASE i > Len(wire) + Len(pendingOut)
    <3>1. i - Len(wire) - Len(pendingOut) \in 1..Len(bio)
      BY <1>1, <2>3
    <3>2. all[i] = bio[i - Len(wire) - Len(pendingOut)]
      BY <1>1, <2>3, <3>1 DEF CiphertextTypes
    <3> QED BY <1>1, <3>1, <3>2 DEF InOrder
  <2> QED BY <1>1, <2>1, <2>2, <2>3
<1>4. Units(0, n) \in Seq(Nat) /\ Len(Units(0, n)) = n /\ \A i \in 1..n : Units(0, n)[i] = i
  <2> HIDE DEF n
  <2>1. Units(0, n) \in Seq(Nat) /\ Len(Units(0, n)) = n /\ \A i \in 1..n : Units(0, n)[i] = 0 + i
    BY <1>1, UnitsFacts
  <2> QED BY <2>1, <1>1
<1>5. all = Units(0, n)
  <2> HIDE DEF all, n
  <2> QED BY <1>1, <1>2, <1>3, <1>4, SameSequence
<1> QED BY <1>5 DEF CiphertextInOrder, Produced

\* A write moves the first n units of _pending_output to the wire.
LEMMA WriteKeepsOrder ==
    ASSUME NEW w \in Seq(Nat), NEW p \in Seq(Nat), NEW b \in Seq(Nat),
           NEW n \in 1..Len(p), InOrder(w, p, b)
    PROVE  /\ w \o SubSeq(p, 1, n) \in Seq(Nat) /\ SubSeq(p, n + 1, Len(p)) \in Seq(Nat)
           /\ InOrder(w \o SubSeq(p, 1, n), SubSeq(p, n + 1, Len(p)), b)
<1> DEFINE front == SubSeq(p, 1, n)
           rest == SubSeq(p, n + 1, Len(p))
           sent == w \o front
<1>0. Len(w) \in Nat /\ Len(p) \in Nat /\ Len(b) \in Nat /\ n \in Nat /\ n <= Len(p)
  OBVIOUS
<1>1. front \in Seq(Nat) /\ Len(front) = n /\ \A i \in 1..n : front[i] = p[i]
  OBVIOUS
<1>2. rest \in Seq(Nat) /\ Len(rest) = Len(p) - n /\ \A i \in 1..Len(p) - n : rest[i] = p[n + i]
  OBVIOUS
<1> HIDE DEF front, rest
<1>3. sent \in Seq(Nat) /\ Len(sent) = Len(w) + n
  <2>1. sent \in Seq(Nat) /\ Len(sent) = Len(w) + Len(front)
    BY <1>1, ConcatFacts
  <2> QED BY <2>1, <1>1
<1>4. ASSUME NEW i \in 1..Len(sent) PROVE sent[i] = i
  <2>1. CASE i <= Len(w)
    <3>1. i \in 1..Len(w) /\ sent[i] = w[i]
      BY <1>1, <1>3, <2>1
    <3> QED BY <3>1 DEF InOrder
  <2>2. CASE i > Len(w)
    <3>1. i - Len(w) \in 1..n /\ sent[i] = front[i - Len(w)]
      BY <1>1, <1>3, <2>2
    <3>2. front[i - Len(w)] = p[i - Len(w)] /\ i - Len(w) \in 1..Len(p)
      BY <1>0, <1>1, <3>1
    <3> QED BY <1>0, <1>3, <3>1, <3>2 DEF InOrder
  <2> QED BY <1>0, <1>3, <2>1, <2>2
<1>5. \A i \in 1..Len(rest) : rest[i] = Len(sent) + i
  <2> SUFFICES ASSUME NEW i \in 1..Len(rest) PROVE rest[i] = Len(sent) + i OBVIOUS
  <2>1. n + i \in 1..Len(p) /\ rest[i] = p[n + i]
    BY <1>2
  <2> QED BY <1>3, <2>1 DEF InOrder
<1>6. \A i \in 1..Len(b) : b[i] = Len(sent) + Len(rest) + i
  BY <1>2, <1>3 DEF InOrder
<1> QED BY <1>2, <1>3, <1>4, <1>5, <1>6 DEF InOrder, front, rest

\* The engine's next record goes behind all the ciphertext there is.
LEMMA RecordKeepsOrder ==
    ASSUME NEW w \in Seq(Nat), NEW p \in Seq(Nat), NEW b \in Seq(Nat), InOrder(w, p, b)
    PROVE  LET made == b \o Units(Len(w) + Len(p) + Len(b), RecordLen)
           IN made \in Seq(Nat) /\ made # <<>> /\ InOrder(w, p, made)
<1> DEFINE a == Len(w) + Len(p) + Len(b)
           u == Units(a, RecordLen)
           made == b \o u
<1>0. Len(w) \in Nat /\ Len(p) \in Nat /\ Len(b) \in Nat /\ a \in Nat /\ RecordLen \in Nat
  BY DEF RecordLen
<1>1. u \in Seq(Nat) /\ Len(u) = RecordLen /\ \A i \in 1..RecordLen : u[i] = a + i
  <2> HIDE DEF a
  <2> QED BY <1>0, UnitsFacts
<1> HIDE DEF u
<1>2. /\ made \in Seq(Nat) /\ Len(made) = Len(b) + Len(u)
      /\ \A i \in 1..Len(b) : made[i] = b[i]
      /\ \A i \in 1..Len(u) : made[Len(b) + i] = u[i]
  BY <1>1, ConcatFacts
<1> HIDE DEF made
<1>3. made # <<>>
  BY <1>0, <1>1, <1>2 DEF RecordLen
<1>4. ASSUME NEW i \in 1..Len(made) PROVE made[i] = Len(w) + Len(p) + i
  <2>1. CASE i <= Len(b)
    <3>1. i \in 1..Len(b)
      BY <1>0, <2>1
    <3> QED BY <3>1, <1>2 DEF InOrder
  <2>2. CASE i > Len(b)
    <3> DEFINE j == i - Len(b)
    <3>1. j \in 1..Len(u) /\ i = Len(b) + j
      BY <1>0, <1>1, <1>2, <2>2
    <3> HIDE DEF j
    <3>2. made[i] = u[j] /\ u[j] = a + j
      BY <1>1, <1>2, <3>1
    <3> QED BY <1>0, <1>1, <3>1, <3>2
  <2> QED BY <1>0, <2>1, <2>2
<1>5. InOrder(w, p, made)
  BY <1>4 DEF InOrder
<1> QED BY <1>2, <1>3, <1>5 DEF made, u

\* Output that is taken from _bio stays where it is in the order.
LEMMA QueueKeepsOrder ==
    ASSUME NEW w \in Seq(Nat), NEW p \in Seq(Nat), NEW b \in Seq(Nat), InOrder(w, p, b)
    PROVE  QueueOutput(p, b) \in Seq(Nat) /\ InOrder(w, QueueOutput(p, b), <<>>)
<1> DEFINE q == p \o b
<1>0. Len(w) \in Nat /\ Len(p) \in Nat /\ Len(b) \in Nat
  OBVIOUS
<1>1. /\ q \in Seq(Nat) /\ Len(q) = Len(p) + Len(b)
      /\ \A i \in 1..Len(p) : q[i] = p[i]
      /\ \A i \in 1..Len(b) : q[Len(p) + i] = b[i]
  BY ConcatFacts
<1> HIDE DEF q
<1>2. ASSUME NEW i \in 1..Len(q) PROVE q[i] = Len(w) + i
  <2>1. CASE i <= Len(p)
    <3>1. i \in 1..Len(p)
      BY <1>0, <2>1
    <3> QED BY <3>1, <1>1 DEF InOrder
  <2>2. CASE i > Len(p)
    <3> DEFINE j == i - Len(p)
    <3>1. j \in 1..Len(b) /\ i = Len(p) + j
      BY <1>0, <1>1, <2>2
    <3> HIDE DEF j
    <3>2. q[i] = b[j] /\ b[j] = Len(w) + Len(p) + j
      BY <1>1, <3>1 DEF InOrder
    <3> QED BY <1>0, <3>1, <3>2
  <2> QED BY <1>0, <2>1, <2>2
<1>3. InOrder(w, q, <<>>)
  BY <1>2 DEF InOrder
<1> QED BY <1>1, <1>3 DEF QueueOutput, q

\* reenter() keeps the ciphertext in order, whatever the engine did.
LEMMA ReenterKeepsOrder ==
    ASSUME NEW id, NEW lv, NEW o, NEW out \in Seq(Nat), NEW input,
           Reenter(id, lv, o, out, input), wire' \in Seq(Nat), bio \in Seq(Nat),
           InOrder(wire', out, bio)
    PROVE  CiphertextInv'
<1>0. CASE pendingOut' = out /\ bio' = bio
  BY <1>0 DEF CiphertextInv, CiphertextTypes
<1> SUFFICES ASSUME NEW in, NEW rest, TryOperation(id, lv, o, out, in, rest)
             PROVE  CiphertextInv'
  BY <1>0, Zenon DEF Reenter
<1>1. PICK r \in DoSslOperation(o, engine, in) :
        LET made == IF r.emits
                    THEN bio \o Units(Len(wire') + Len(out) + Len(bio), RecordLen)
                    ELSE bio
        IN \/ pendingOut' = out /\ bio' = made
           \/ pendingOut' = QueueOutput(out, made) /\ bio' = <<>>
           \/ made = <<>> /\ pendingOut' = out /\ bio' = <<>>
  BY Zenon DEF TryOperation
<1> DEFINE made == IF r.emits
                   THEN bio \o Units(Len(wire') + Len(out) + Len(bio), RecordLen)
                   ELSE bio
<1>2. made \in Seq(Nat) /\ InOrder(wire', out, made)
  BY RecordKeepsOrder
<1>3. \/ pendingOut' = out /\ bio' = made
      \/ pendingOut' = QueueOutput(out, made) /\ bio' = <<>>
  BY <1>1
<1> HIDE DEF made
<1>4. QueueOutput(out, made) \in Seq(Nat) /\ InOrder(wire', QueueOutput(out, made), <<>>)
  BY <1>2, QueueKeepsOrder
<1>5. <<>> \in Seq(Nat)
  OBVIOUS
<1> QED BY <1>2, <1>3, <1>4, <1>5 DEF CiphertextInv, CiphertextTypes

-----------------------------------------------------------------------------
\* No step takes the ciphertext out of order: reenter() does not, and a write
\* takes the units it sends from the front of _pending_output.
LEMMA CiphertextStep == CiphertextInv /\ [Next]_vars => CiphertextInv'
<1> SUFFICES ASSUME CiphertextInv, [Next]_vars PROVE CiphertextInv' OBVIOUS
<1>0. wire \in Seq(Nat) /\ pendingOut \in Seq(Nat) /\ bio \in Seq(Nat) /\ InOrder(wire, pendingOut, bio)
  BY DEF CiphertextInv, CiphertextTypes
<1>1. ASSUME NEW kind, NEW size, Start(kind, size) PROVE CiphertextInv'
  <2>1. wire' = wire
    BY <1>1 DEF Start
  <2>2. PICK id, lv, o : Reenter(id, lv, o, pendingOut, pendingIn)
    BY <1>1, Zenon DEF Start
  <2> QED BY <1>0, <2>1, <2>2, ReenterKeepsOrder
<1>2. ASSUME NEW n \in 1..Len(pendingOut), WroteSome(n) PROVE CiphertextInv'
  <2> DEFINE rest == SubSeq(pendingOut, n + 1, Len(pendingOut))
  <2>1. wire' = wire \o SubSeq(pendingOut, 1, n) /\ Reenter(io.op, live, op, rest, pendingIn)
    BY <1>2 DEF WroteSome
  <2>2. wire' \in Seq(Nat) /\ rest \in Seq(Nat) /\ InOrder(wire', rest, bio)
    BY <1>0, <2>1, WriteKeepsOrder
  <2> HIDE DEF rest
  <2> QED BY <1>0, <2>1, <2>2, ReenterKeepsOrder
<1>3. ASSUME NEW n, ReadSome(n) PROVE CiphertextInv'
  <2>1. PICK input : wire' = wire /\ Reenter(io.op, live, op, pendingOut, input)
    BY <1>3, Zenon DEF ReadSome
  <2> QED BY <1>0, <2>1, ReenterKeepsOrder
<1>4. CASE HandlerReturns \/ IoFails \/ PeerAnswers \/ UNCHANGED vars
  BY <1>4 DEF HandlerReturns, IoFails, PeerAnswers, vars, CiphertextInv, CiphertextTypes
<1> QED BY <1>1, <1>2, <1>3, <1>4 DEF Next, Connect, Write, Read, Wrote, GotInput

\* The peer gets the engine's ciphertext whole and in order, however the wrapped
\* stream cuts the writes and whichever operations fail in between.
THEOREM SendsInOrder == Spec => []CiphertextInOrder
<1>1. Init => CiphertextInv
  BY DEF Init, CiphertextInv, CiphertextTypes, InOrder
<1>2. CiphertextInv => CiphertextInOrder
  BY InOrderIsUnits DEF CiphertextInv
<1> QED BY <1>1, <1>2, CiphertextStep, PTL DEF Spec

-----------------------------------------------------------------------------
\* A read is outstanding: it has all of the buffer, and the engine has drained _bio.
Reading == io # NULL /\ io.read

InputInv ==
    /\ fed \in Seq(Nat) /\ received \in Nat /\ pendingIn \in Seq(Nat)
    /\ InputInOrder
    /\ Reading => Len(pendingIn) = ReadSize /\ engine.want = "reading"

\* Units continue where they stopped.
LEMMA UnitsContinue ==
    ASSUME NEW a \in Nat, NEW n \in Nat
    PROVE  Units(0, a) \o Units(a, n) = Units(0, a + n)
<1> DEFINE u == Units(0, a)
           v == Units(a, n)
           all == Units(0, a + n)
           c == u \o v
<1>1. u \in Seq(Nat) /\ Len(u) = a /\ \A i \in 1..a : u[i] = 0 + i
  BY UnitsFacts
<1>2. v \in Seq(Nat) /\ Len(v) = n /\ \A i \in 1..n : v[i] = a + i
  BY UnitsFacts
<1>3. all \in Seq(Nat) /\ Len(all) = a + n /\ \A i \in 1..a + n : all[i] = 0 + i
  BY UnitsFacts
<1> HIDE DEF u, v, all
<1>4. /\ c \in Seq(Nat) /\ Len(c) = Len(u) + Len(v)
      /\ \A i \in 1..Len(u) : c[i] = u[i]
      /\ \A i \in 1..Len(v) : c[Len(u) + i] = v[i]
  <2>1. u \in Seq(Nat) /\ v \in Seq(Nat)
    BY <1>1, <1>2
  <2> QED BY <2>1, ConcatFacts
<1> HIDE DEF c
<1>5. ASSUME NEW i \in 1..a + n PROVE c[i] = all[i]
  <2>1. CASE i <= a
    BY <1>1, <1>3, <1>4, <2>1
  <2>2. CASE i > a
    <3> DEFINE j == i - a
    <3>1. j \in 1..n /\ i = a + j
      BY <2>2
    <3> HIDE DEF j
    <3>2. c[i] = v[j] /\ v[j] = a + j
      BY <1>1, <1>2, <1>4, <3>1
    <3> QED BY <1>3, <3>1, <3>2
  <2> QED BY <2>1, <2>2
<1>6. Len(c) = Len(all)
  BY <1>1, <1>2, <1>3, <1>4
<1>7. c = all
  BY <1>3, <1>4, <1>5, <1>6, SameSequence
<1> QED BY <1>7 DEF c, u, v, all

\* A buffer of n units is a sequence.
LEMMA ResizedFacts ==
    ASSUME NEW buf \in Seq(Nat), NEW n \in Nat
    PROVE  /\ Resized(buf, n) \in Seq(Nat) /\ Len(Resized(buf, n)) = n
           /\ \A i \in 1..n : i <= Len(buf) => Resized(buf, n)[i] = buf[i]
<1>1. \A i \in 1..n : (IF i <= Len(buf) THEN buf[i] ELSE 0) \in Nat
  OBVIOUS
<1> QED BY <1>1 DEF Resized

\* What is cut off the buffer after a read of n units is what was read.
LEMMA ReadFacts ==
    ASSUME InputInv, NEW n \in 1..Len(pendingIn)
    PROVE  Truncated(ReadInto(pendingIn, n), n) = Units(received, n)
<1> DEFINE buf == ReadInto(pendingIn, n)
<1>0. n \in Nat /\ n <= Len(pendingIn) /\ received \in Nat /\ pendingIn \in Seq(Nat)
  BY DEF InputInv
<1>1. buf \in Seq(Nat) /\ Len(buf) = Len(pendingIn) /\ \A i \in 1..n : buf[i] = received + i
  BY <1>0 DEF ReadInto
<1> HIDE DEF buf
<1>2. \A i \in 1..n : (IF i <= Len(buf) THEN buf[i] ELSE 0) = received + i
  BY <1>0, <1>1
<1>3. Truncated(buf, n) = Units(received, n)
  BY <1>2 DEF Truncated, Resized, Units
<1> QED BY <1>3 DEF buf

\* reenter() with input that _bio has room for feeds all of it to the engine, and
\* leaves a buffer behind only for a read.
LEMMA ReenterFeeds ==
    ASSUME NEW id, NEW lv, NEW o, NEW out, NEW input \in Seq(Nat), fed \in Seq(Nat),
           Reenter(id, lv, o, out, input),
           input = <<>> \/ (engine.want = "reading" /\ Len(input) <= BioSize)
    PROVE  /\ TryOperation(id, lv, o, out, fed \o input, <<>>)
           /\ fed' = fed \o input
           /\ \/ io' = [op |-> id, read |-> TRUE] /\ engine'.want = "reading"
                 /\ pendingIn' = Resized(<<>>, ReadSize)
              \/ (io' = NULL \/ io' = [op |-> id, read |-> FALSE]) /\ pendingIn' = <<>>
<1> DEFINE n == IF input = <<>> THEN 0 ELSE BioWrite(input)
<1>1. SubSeq(input, 1, n) = input /\ SubSeq(input, n + 1, Len(input)) = <<>>
      /\ ~(input # <<>> /\ n <= 0)
  <2>1. CASE input = <<>>
    BY <2>1
  <2>2. CASE input # <<>> /\ engine.want = "reading" /\ Len(input) <= BioSize
    <3>1. n = Len(input) /\ Len(input) \in Nat /\ Len(input) > 0
      BY <2>2, TlsConstants DEF BioWrite, InBio
    <3> HIDE DEF n
    <3> QED BY <2>2, <3>1
  <2> QED BY <2>1, <2>2
<1>2. TryOperation(id, lv, o, out, fed \o SubSeq(input, 1, n), SubSeq(input, n + 1, Len(input)))
  BY <1>1, Zenon DEF Reenter
<1>3. TryOperation(id, lv, o, out, fed \o input, <<>>)
  BY <1>1, <1>2
<1>4. /\ fed' = fed \o input
      /\ \E r : /\ engine' = r.engine
                /\ \/ io' = [op |-> id, read |-> TRUE] /\ SslWantRead(r.engine)
                      /\ pendingIn' = Resized(<<>>, ReadSize)
                   \/ (io' = NULL \/ io' = [op |-> id, read |-> FALSE]) /\ pendingIn' = <<>>
  BY <1>3, Zenon DEF TryOperation, Complete
<1> QED BY <1>3, <1>4, Zenon DEF SslWantRead

OpRecords == [kind : Kinds, left : Nat, done : Nat]

\* The engine; how many records it has parsed does not matter here.
EngineShape(e) ==
    /\ DOMAIN e = {"hs", "want", "parsed"} /\ e = [f \in DOMAIN e |-> e[f]]
    /\ e.hs \in {"new", "hello", "done"}

\* A read has been asked for something.
ReadsSomething(o) == o.kind = "read" => o.left + o.done > 0

TlsTypes ==
    /\ op \in OpRecords /\ ReadsSomething(op)
    /\ EngineShape(engine)
    /\ started \in Nat
    /\ io # NULL => io.op \in Nat

LifeInv == TlsTypes /\ ReentersLiveOperation /\ NeverTerminates /\ SuccessMeansDone

\* What an OpenSSL call can do: it moves a record only if there is a buffer for
\* it; and when it neither fails, nor leaves ciphertext, nor waits for input, the
\* operation has done what it is for.
CallFacts(o, e, r) ==
    /\ EngineShape(r.engine)
    /\ r.n \in {0, 1} /\ r.n <= o.left
    /\ ~Fatal(r.err) /\ ~r.emits /\ ~SslWantRead(r.engine) =>
        CASE o.kind = "write"   -> o.left - r.n = 0
          [] o.kind = "read"    -> o.done + r.n > 0
          [] o.kind = "connect" -> r.engine.hs = "done"

\* What a call leaves in the engine is an engine.
LEMMA EngineUpdates ==
    ASSUME NEW e, EngineShape(e), NEW w, NEW p
    PROVE  /\ EngineShape([e EXCEPT !.want = w])
           /\ [e EXCEPT !.want = w].want = w /\ [e EXCEPT !.want = w].hs = e.hs
           /\ EngineShape([e EXCEPT !.want = w, !.parsed = p])
           /\ [e EXCEPT !.want = w, !.parsed = p].want = w
           /\ EngineShape([e EXCEPT !.hs = "hello", !.want = w])
           /\ [e EXCEPT !.hs = "hello", !.want = w].want = w
           /\ EngineShape([e EXCEPT !.hs = "done"])
BY DEF EngineShape

\* Every OpenSSL call that do_ssl_operation() makes behaves so.
LEMMA CallOutcome ==
    ASSUME NEW o \in OpRecords, ReadsSomething(o), EngineShape(engine), NEW in \in Seq(Nat),
           NEW r \in DoSslOperation(o, engine, in)
    PROVE  CallFacts(o, engine, r)
<1>0. o.left \in Nat /\ o.done \in Nat /\ o.kind \in Kinds /\ Records(in) \in Nat
  BY DEF OpRecords, Records, RecordLen
<1>1. CASE o.kind = "connect"
  <2>1. r \in SslConnect(engine, in)
    BY <1>1 DEF DoSslOperation
  <2>2. \/ r.emits /\ r.n = 0 /\ EngineShape(r.engine)
        \/ r.n = 0 /\ EngineShape(r.engine) /\ r.engine.want = "reading"
        \/ r.n = 0 /\ EngineShape(r.engine) /\ r.engine.hs = "done"
    <3>1. CASE engine.hs = "new"
      <4> DEFINE next == [engine EXCEPT !.hs = "hello", !.want = "reading"]
      <4>1. r = Call("want_read", next, TRUE, TRUE, 0)
        BY <2>1, <3>1 DEF SslConnect
      <4>2. EngineShape(next)
        BY EngineUpdates, Zenon
      <4> HIDE DEF next
      <4> QED BY <4>1, <4>2 DEF Call
    <3>2. CASE engine.hs = "hello" /\ Records(in) = 0
      <4> DEFINE next == [engine EXCEPT !.want = "reading"]
      <4>1. r = Call("want_read", next, FALSE, FALSE, 0)
        BY <2>1, <3>2 DEF SslConnect
      <4>2. EngineShape(next) /\ next.want = "reading"
        BY EngineUpdates, Zenon
      <4> HIDE DEF next
      <4> QED BY <4>1, <4>2 DEF Call
    <3>3. CASE engine.hs = "hello" /\ Records(in) > 0
      <4> DEFINE seen == [engine EXCEPT !.want = "nothing", !.parsed = 1]
      <4>1. EngineShape(seen) /\ EngineShape([seen EXCEPT !.hs = "done"])
        BY EngineUpdates, Zenon
      <4>2. \/ r = Call("none", [seen EXCEPT !.hs = "done"], TRUE, TRUE, 0)
            \/ r = Call("ssl", seen, TRUE, FALSE, 0)
        <5>1. Records(in) # 0 /\ "hello" # "new"
          BY <1>0, <3>3
        <5> QED BY <2>1, <3>3, <5>1, Zenon DEF SslConnect
      <4> HIDE DEF seen
      <4> QED BY <4>1, <4>2 DEF Call
    <3>4. CASE engine.hs # "new" /\ ~(engine.hs = "hello" /\ Records(in) = 0)
                                 /\ ~(engine.hs = "hello" /\ Records(in) > 0)
      <4> DEFINE next == [engine EXCEPT !.want = "nothing"]
      <4>1. r = Call("none", next, FALSE, FALSE, 0)
        BY <2>1, <3>4 DEF SslConnect
      <4>2. EngineShape(next) /\ next.hs = engine.hs
        BY EngineUpdates, Zenon
      <4>3. CASE engine.hs = "done"
        <5> HIDE DEF next
        <5> QED BY <4>1, <4>2, <4>3 DEF Call
      <4>4. CASE engine.hs = "hello"
        BY <1>0, <3>4, <4>4
      <4> QED BY <3>4, <4>3, <4>4 DEF EngineShape
    <3> QED BY <3>1, <3>2, <3>3, <3>4
  <2> QED BY <1>0, <1>1, <2>2 DEF CallFacts, SslWantRead
<1>2. CASE o.kind # "connect" /\ o.left = 0
  <2>1. r \in NoBuffers(engine)
    BY <1>2 DEF DoSslOperation
  <2>2. PICK err : r = Call(err, engine, FALSE, FALSE, 0)
    BY <2>1, Zenon DEF NoBuffers
  <2>3. r.n = 0 /\ r.engine = engine
    BY <2>2 DEF Call
  <2>4. CASE o.kind = "write"
    BY <1>0, <1>2, <2>3, <2>4 DEF CallFacts
  <2>5. CASE o.kind = "read"
    BY <1>0, <1>2, <2>3, <2>5 DEF CallFacts, ReadsSomething
  <2> QED BY <1>0, <1>2, <2>4, <2>5 DEF Kinds
<1>3. CASE o.kind = "read" /\ o.left > 0
  <2>1. r \in SslRead(engine, in)
    BY <1>0, <1>3 DEF DoSslOperation
  <2>2. PICK p, w, err, n :
            /\ r = Call(err, [engine EXCEPT !.want = w, !.parsed = p], FALSE, FALSE, n)
            /\ \/ w = "reading" /\ n = 0
               \/ n = 1
               \/ err = "zero_return" /\ n = 0
    BY <2>1, Zenon DEF SslRead
  <2> DEFINE next == [engine EXCEPT !.want = w, !.parsed = p]
  <2>3. EngineShape(next) /\ next.want = w
    BY DEF EngineShape
  <2>4. r = Call(err, next, FALSE, FALSE, n)
    BY <2>2
  <2> HIDE DEF next
  <2>5. r.err = err /\ r.engine = next /\ r.n = n
    BY <2>4 DEF Call
  <2>6. r.n \in {0, 1} /\ EngineShape(r.engine)
    BY <2>2, <2>3, <2>5, Zenon
  <2>7. r.n = 1 \/ Fatal(r.err) \/ SslWantRead(r.engine)
    BY <2>2, <2>3, <2>5 DEF Fatal, SslWantRead
  <2> QED BY <1>0, <1>3, <2>6, <2>7 DEF CallFacts
<1>4. CASE o.kind = "write" /\ o.left > 0
  <2>1. r \in SslWrite(engine, o.left)
    BY <1>0, <1>4 DEF DoSslOperation
  <2> DEFINE next == [engine EXCEPT !.want = "nothing"]
  <2>2. r = Call("none", next, TRUE, o.left = 1, 1)
    BY <2>1 DEF SslWrite
  <2>3. EngineShape(next)
    BY EngineUpdates, Zenon
  <2> HIDE DEF next
  <2>4. r.n = 1 /\ r.emits /\ r.engine = next
    BY <2>2 DEF Call
  <2> QED BY <1>0, <1>4, <2>3, <2>4 DEF CallFacts
<1> QED BY <1>0, <1>1, <1>2, <1>3, <1>4 DEF Kinds

\* Reentering an operation leaves it live with its I/O outstanding, or detached
\* and complete; and it completes with success only when it is done.
LEMMA ReenterKeepsLife ==
    ASSUME NEW id \in Nat, NEW lv, NEW o \in OpRecords, NEW out, NEW in \in Seq(Nat),
           ReadsSomething(o), EngineShape(engine),
           o.kind # "connect" => lv = id,
           started' \in Nat,
           NEW rest, TryOperation(id, lv, o, out, in, rest)
    PROVE  LifeInv'
<1>1. PICK r \in DoSslOperation(o, engine, in) :
        LET made == IF r.emits
                    THEN bio \o Units(Len(wire') + Len(out) + Len(bio), RecordLen)
                    ELSE bio
        IN
        /\ engine' = r.engine
        /\ op' = [o EXCEPT !.left = @ - r.n, !.done = @ + r.n]
        /\ \/ Fatal(r.err) /\ Complete(id, lv, "error")
           \/ \E b \in BOOLEAN : io' = [op |-> id, read |-> b] /\ active' = id /\ live' = lv
           \/ /\ ~Fatal(r.err) /\ made = <<>> /\ ~SslWantRead(r.engine)
              /\ Complete(id, lv, "ok")
  BY Zenon DEF TryOperation
<1>2. CallFacts(o, engine, r)
  BY CallOutcome
<1>3. op' \in OpRecords /\ ReadsSomething(op') /\ op'.kind = o.kind
      /\ op'.left = o.left - r.n /\ op'.done = o.done + r.n
  <2>1. r.n \in {0, 1} /\ r.n <= o.left
    BY <1>2 DEF CallFacts
  <2>2. op' = [o EXCEPT !.left = @ - r.n, !.done = @ + r.n]
    BY <1>1
  <2> DEFINE n == r.n
  <2>3. n \in {0, 1} /\ n <= o.left /\ op' = [o EXCEPT !.left = @ - n, !.done = @ + n]
    BY <2>1, <2>2
  <2> HIDE DEF n
  <2>4. op' \in OpRecords /\ op'.kind = o.kind /\ op'.left = o.left - n /\ op'.done = o.done + n
    <3>1. o.left - n \in Nat /\ o.done + n \in Nat /\ o.kind \in Kinds
      BY <2>3 DEF OpRecords
    <3>2. o = [kind |-> o.kind, left |-> o.left, done |-> o.done]
      BY DEF OpRecords
    <3>3. op' = [kind |-> o.kind, left |-> o.left - n, done |-> o.done + n]
      BY <2>3, <3>2
    <3> QED BY <3>1, <3>3 DEF OpRecords
  <2>5. op'.left + op'.done = o.left + o.done
    BY <2>3, <2>4 DEF OpRecords
  <2>6. ReadsSomething(op')
    BY <2>4, <2>5 DEF ReadsSomething
  <2> QED BY <2>4, <2>6, Zenon DEF n
<1>4. EngineShape(engine') /\ id # NULL
  BY <1>1, <1>2, TlsConstants DEF CallFacts
<1>5. CASE Fatal(r.err) /\ Complete(id, lv, "error")
  BY <1>3, <1>4, <1>5 DEF Complete, Detached, LifeInv, TlsTypes, ReentersLiveOperation,
     NeverTerminates, SuccessMeansDone
<1>6. CASE \E b \in BOOLEAN : io' = [op |-> id, read |-> b] /\ active' = id /\ live' = lv
  <2>1. io'.op = id /\ active' = id /\ live' = lv
    BY <1>6
  <2> QED BY <1>3, <1>4, <2>1 DEF LifeInv, TlsTypes, ReentersLiveOperation,
     NeverTerminates, SuccessMeansDone
<1>7. CASE /\ ~Fatal(r.err) /\ ~r.emits /\ ~SslWantRead(r.engine)
           /\ Complete(id, lv, "ok")
  <2>1. SuccessMeansDone'
    BY <1>1, <1>2, <1>3, <1>7 DEF SuccessMeansDone, CallFacts
  <2> QED BY <1>3, <1>4, <1>7, <2>1 DEF Complete, Detached, LifeInv, TlsTypes,
     ReentersLiveOperation, NeverTerminates
<1>8. ASSUME r.emits
      PROVE  bio \o Units(Len(wire') + Len(out) + Len(bio), RecordLen) # <<>>
  BY DEF Units, RecordLen
<1> QED BY <1>1, <1>5, <1>6, <1>7, <1>8

\* Each call of reenter() is of a live operation, and what is in _pending_input
\* then follows what has been fed; _bio has room for it.
LEMMA ReenterCalls ==
    ASSUME LifeInv, InputInv, Connect \/ Write \/ Read \/ Wrote \/ GotInput
    PROVE  \E id \in Nat, o \in OpRecords, input \in Seq(Nat) : \E lv, out :
              /\ Reenter(id, lv, o, out, input)
              /\ ReadsSomething(o) /\ (o.kind # "connect" => lv = id)
              /\ input = Units(received, Len(input)) /\ received' = received + Len(input)
              /\ input = <<>> \/ (engine.want = "reading" /\ Len(input) <= BioSize)
              /\ started' \in Nat
<1>0. /\ fed \in Seq(Nat) /\ op \in OpRecords /\ ReadsSomething(op) /\ started \in Nat
      /\ received \in Nat /\ pendingIn \in Seq(Nat)
      /\ pendingIn # <<>> => io # NULL /\ io.read
  BY DEF LifeInv, TlsTypes, InputInv, InputInOrder
<1>1. Len(<<>>) = 0 /\ <<>> = Units(received, 0) /\ received = received + 0 /\ <<>> \in Seq(Nat)
  BY <1>0 DEF Units
<1>2. ASSUME NEW kind \in Kinds, NEW n \in Nat, Start(kind, n), kind = "read" => n > 0
      PROVE  \E id \in Nat, o \in OpRecords : \E lv, out :
              /\ Reenter(id, lv, o, out, <<>>)
              /\ ReadsSomething(o) /\ (o.kind # "connect" => lv = id)
              /\ received' = received /\ started' \in Nat
  <2> DEFINE o == [kind |-> kind, left |-> n, done |-> 0]
             lv == IF kind = "connect" THEN live ELSE started + 1
  <2>1. /\ Reenter(started + 1, lv, o, pendingOut, pendingIn) /\ started' = started + 1
        /\ active = NULL /\ received' = received
    BY <1>2 DEF Start
  <2>2. o \in OpRecords /\ ReadsSomething(o)
    BY <1>2 DEF OpRecords, ReadsSomething
  <2>3. (o.kind # "connect" => lv = started + 1) /\ started + 1 \in Nat
    BY <1>0
  <2>4. io = NULL
    BY <2>1, TlsConstants DEF LifeInv, TlsTypes, ReentersLiveOperation
  <2>5. pendingIn = <<>>
    BY <1>0, <2>4
  <2> HIDE DEF o, lv
  <2>6. started' \in Nat
    BY <2>1, <2>3
  <2> QED BY <2>1, <2>2, <2>3, <2>5, <2>6, Zenon
<1>3. ASSUME NEW n \in 1..MaxSize PROVE n \in Nat /\ n > 0
  BY TlsConstants
<1>4. CASE Connect \/ Write \/ Read
  <2>1. \E kind \in Kinds, n \in Nat : Start(kind, n) /\ (kind = "read" => n > 0)
    BY <1>3, <1>4 DEF Connect, Write, Read, Kinds
  <2> QED BY <1>1, <1>2, <2>1, Zenon
<1>5. ASSUME io # NULL PROVE io.op \in Nat /\ (op.kind # "connect" => live = io.op)
  BY <1>5 DEF LifeInv, TlsTypes, ReentersLiveOperation
<1>6. CASE Wrote
  <2>1. PICK n : WroteSome(n)
    BY <1>6 DEF Wrote
  <2>2. /\ Reenter(io.op, live, op, SubSeq(pendingOut, n + 1, Len(pendingOut)), pendingIn)
        /\ io # NULL /\ io.read = FALSE /\ received' = received /\ started' = started
    BY <2>1 DEF WroteSome, Outstanding
  <2>3. pendingIn = <<>> /\ started' \in Nat
    BY <1>0, <2>2
  <2>4. Reenter(io.op, live, op, SubSeq(pendingOut, n + 1, Len(pendingOut)), <<>>)
    BY <2>2, <2>3
  <2> QED BY <1>0, <1>1, <1>5, <2>2, <2>3, <2>4, Zenon
<1>7. CASE GotInput
  <2>1. PICK n \in 1..Len(pendingIn) : ReadSome(n)
    BY <1>7 DEF GotInput
  <2> DEFINE input == Units(received, n)
  <2>2. /\ Reenter(io.op, live, op, pendingOut, input)
        /\ io # NULL /\ io.read /\ received' = received + n /\ started' = started
    BY <2>1, ReadFacts DEF ReadSome, Outstanding
  <2>3. n \in Nat /\ n <= Len(pendingIn) /\ Len(pendingIn) \in Nat
    BY <1>0
  <2>4. input \in Seq(Nat) /\ Len(input) = n
    BY <1>0, <2>3, UnitsFacts
  <2>5. engine.want = "reading" /\ Len(pendingIn) = ReadSize
    BY <2>2 DEF InputInv, Reading
  <2>6. Len(input) <= BioSize
    BY <2>3, <2>4, <2>5, TlsConstants
  <2>7. input = Units(received, Len(input)) /\ received' = received + Len(input)
    BY <2>2, <2>4
  <2>8. started' \in Nat
    BY <1>0, <2>2
  <2> HIDE DEF input
  <2> QED BY <1>0, <1>5, <2>2, <2>4, <2>5, <2>6, <2>7, <2>8, Zenon
<1> QED BY <1>4, <1>6, <1>7

\* No step loses the live operation, lets one succeed before it is done, or
\* takes the input out of order.
LEMMA LifeStep == LifeInv /\ InputInv /\ [Next]_vars => LifeInv' /\ InputInv'
<1> SUFFICES ASSUME LifeInv, InputInv, [Next]_vars PROVE LifeInv' /\ InputInv' OBVIOUS
<1>0. /\ fed \in Seq(Nat) /\ received \in Nat /\ fed = Units(0, received) /\ EngineShape(engine)
  BY DEF LifeInv, TlsTypes, InputInv, InputInOrder
<1>1. CASE Connect \/ Write \/ Read \/ Wrote \/ GotInput
  <2>1. PICK id \in Nat, o \in OpRecords, input \in Seq(Nat) : \E lv, out :
              /\ Reenter(id, lv, o, out, input)
              /\ ReadsSomething(o) /\ (o.kind # "connect" => lv = id)
              /\ input = Units(received, Len(input)) /\ received' = received + Len(input)
              /\ input = <<>> \/ (engine.want = "reading" /\ Len(input) <= BioSize)
              /\ started' \in Nat
    BY <1>1, ReenterCalls
  <2>0. PICK lv, out :
              /\ Reenter(id, lv, o, out, input)
              /\ ReadsSomething(o) /\ (o.kind # "connect" => lv = id)
              /\ input = <<>> \/ (engine.want = "reading" /\ Len(input) <= BioSize)
              /\ started' \in Nat
    BY <2>1
  <2>9. input = Units(received, Len(input)) /\ received' = received + Len(input)
    BY <2>1
  <2>2. /\ TryOperation(id, lv, o, out, fed \o input, <<>>)
        /\ fed' = fed \o input
        /\ \/ io' = [op |-> id, read |-> TRUE] /\ engine'.want = "reading"
              /\ pendingIn' = Resized(<<>>, ReadSize)
           \/ (io' = NULL \/ io' = [op |-> id, read |-> FALSE]) /\ pendingIn' = <<>>
    BY <1>0, <2>0, ReenterFeeds
  <2>3. fed \o input \in Seq(Nat)
    BY <1>0, ConcatFacts
  <2>4. LifeInv'
    BY <1>0, <2>0, <2>2, <2>3, ReenterKeepsLife
  <2>5. fed' = Units(0, received') /\ received' \in Nat
    <3>1. Len(input) \in Nat
      OBVIOUS
    <3>2. Units(0, received) \o Units(received, Len(input)) = Units(0, received + Len(input))
      BY <1>0, <3>1, UnitsContinue
    <3>3. fed' = Units(0, received) \o Units(received, Len(input))
      BY <1>0, <2>2, <2>9, Zenon
    <3> QED BY <1>0, <2>9, <3>1, <3>2, <3>3
  <2>6. /\ Resized(<<>>, ReadSize) \in Seq(Nat) /\ Len(Resized(<<>>, ReadSize)) = ReadSize
        /\ <<>> \in Seq(Nat)
    <3>1. <<>> \in Seq(Nat) /\ ReadSize \in Nat
      BY TlsConstants
    <3> QED BY <3>1, ResizedFacts
  <2>7. pendingIn' \in Seq(Nat) /\ (pendingIn' # <<>> => io' # NULL /\ io'.read)
        /\ (Reading' => Len(pendingIn') = ReadSize /\ engine'.want = "reading")
    <3>1. CASE /\ io' = [op |-> id, read |-> TRUE] /\ engine'.want = "reading"
               /\ pendingIn' = Resized(<<>>, ReadSize)
      <4>1. io' # NULL /\ io'.read
        <5>1. [op |-> id, read |-> TRUE] \in [op : Nat, read : BOOLEAN]
          OBVIOUS
        <5>2. [op |-> id, read |-> TRUE].read
          OBVIOUS
        <5> QED BY <3>1, <5>1, <5>2, TlsConstants, Zenon
      <4> QED BY <2>6, <3>1, <4>1
    <3>2. CASE (io' = NULL \/ io' = [op |-> id, read |-> FALSE]) /\ pendingIn' = <<>>
      BY <2>6, <3>2 DEF Reading
    <3> QED BY <2>2, <3>1, <3>2
  <2>8. InputInv'
    BY <2>2, <2>3, <2>5, <2>7 DEF InputInv, InputInOrder
  <2> QED BY <2>4, <2>8
<1>2. CASE IoFails
  <2>1. LifeInv'
    BY <1>2 DEF IoFails, Complete, Detached, LifeInv, TlsTypes, ReentersLiveOperation,
       NeverTerminates, SuccessMeansDone
  <2>2. pendingIn' = <<>> /\ io' = NULL /\ fed' = fed /\ received' = received
    <3>1. Resized(pendingIn, 0) = <<>>
      BY DEF Resized
    <3> QED BY <1>2, <3>1 DEF IoFails, Complete, Truncated, InputInv, InputInOrder
  <2>3. InputInv'
    BY <1>0, <2>2 DEF InputInv, InputInOrder, Reading
  <2> QED BY <2>1, <2>3
<1>3. CASE HandlerReturns \/ PeerAnswers \/ UNCHANGED vars
  <2>1. UNCHANGED <<active, op, started, live, result, io, engine, fed, received, pendingIn>>
    BY <1>3 DEF HandlerReturns, LiveAfterHandler, PeerAnswers, vars, opVars
  <2> QED BY <2>1 DEF LifeInv, TlsTypes, ReentersLiveOperation, NeverTerminates,
     SuccessMeansDone, InputInv, InputInOrder, Reading
<1> QED BY <1>1, <1>2, <1>3 DEF Next

\* The two invariants hold together: a completion depends on the input, and what
\* is in _pending_input on the operation that waits.
LEMMA LifeInvariant == Spec => [](LifeInv /\ InputInv)
<1>1. Init => LifeInv
  BY TlsConstants DEF Init, LifeInv, TlsTypes, OpRecords, Kinds, ReadsSomething, EngineShape,
     ReentersLiveOperation, NeverTerminates, SuccessMeansDone
<1>2. Init => InputInv
  BY DEF Init, InputInv, InputInOrder, Reading, Units
<1> QED BY <1>1, <1>2, LifeStep, PTL DEF Spec

\* For any sizes of the read buffer and of the BIO pair, the engine is fed all that
\* the reads delivered, once and in order, as long as a read fits into an empty BIO.
THEOREM ReceivesInOrder == Spec => []InputInOrder
<1>1. InputInv => InputInOrder
  BY DEF InputInv
<1> QED BY <1>1, LifeInvariant, PTL

\* Outstanding I/O reenters an operation that has not been destroyed.
THEOREM NoDanglingReentry == Spec => []ReentersLiveOperation
<1>1. LifeInv => ReentersLiveOperation
  BY DEF LifeInv
<1> QED BY <1>1, LifeInvariant, PTL

\* A user that runs one operation at a time never meets the assertion of
\* _assert_no_outstanding_io().
THEOREM AssertionHolds == Spec => []NeverTerminates
<1>1. LifeInv => NeverTerminates
  BY DEF LifeInv
<1> QED BY <1>1, LifeInvariant, PTL

\* An operation that reports success has done all that it is for.
THEOREM SuccessIsDone == Spec => []SuccessMeansDone
<1>1. LifeInv => SuccessMeansDone
  BY DEF LifeInv
<1> QED BY <1>1, LifeInvariant, PTL
=============================================================================
