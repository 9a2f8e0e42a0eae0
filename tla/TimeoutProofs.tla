--------------------------- MODULE TimeoutProofs ---------------------------
(***************************************************************************)
(* The safety of amongoc_timeout(), for any number of calls that share the *)
(* loop and any size of its pool.  The invariant says who holds which      *)
(* cancellation signal: then a stop reaches the race it was requested on   *)
(* and nothing else.                                                       *)
(***************************************************************************)
EXTENDS Timeout, SequenceTheorems, TLAPS

OpStates == {"idle", "waiting", "queued", "resolved"}

TypeInv ==
    /\ kind \in [Calls -> EmKinds]
    /\ starting \in Calls \cup {NULL}
    /\ op \in [Calls -> [Ops -> OpStates]]
    /\ ec \in [Calls -> [Ops -> {"none", "ok", "canceled"}]]
    /\ ticket \in [Calls -> [Ops -> Signals \cup {NULL}]]
    /\ objects \in Seq(Signals)
    /\ cookies \in [Calls -> Seq(Signals)]
    /\ stopped \in [Calls -> BOOLEAN]
    /\ outstanding \in [Calls -> 0..2]
    /\ result \in [Calls -> Ops \cup {NULL}]
    /\ answer \in [Calls -> Answers \cup {NULL}]
    /\ queue \in Seq(Calls \X Ops)
    /\ hit \in SUBSET Calls
    /\ asked \in [Calls -> {"never", "early", "running", "late"}]

\* A signal is lent to an operation for as long as Asio has it, to one at a
\* time, and it is not in the pool meanwhile.
PoolInv ==
    /\ \A c \in Calls, o \in Ops : ticket[c][o] # NULL <=> op[c][o] \in {"waiting", "queued"}
    /\ \A c, d \in Calls, o, p \in Ops :
          ticket[c][o] = ticket[d][p] /\ ticket[c][o] # NULL => c = d /\ o = p
    /\ \A i \in 1..Len(objects) : \A c \in Calls, o \in Ops : ticket[c][o] # objects[i]
    /\ \A i, j \in 1..Len(objects) : objects[i] = objects[j] => i = j

\* The stop callbacks of a race emit the signals lent to its own halves, and
\* each of them at most once.
OwnedBy(mine, cks) ==
    /\ \A i \in 1..Len(cks) : \E o \in Ops : cks[i] = mine[o]
    /\ \A i, j \in 1..Len(cks) : cks[i] = cks[j] => i = j

OwnSignals(c, cks) == OwnedBy(ticket[c], cks)

CookieInv ==
    \A c \in Calls : OwnSignals(c, cookies[c]) /\ (stopped[c] => cookies[c] = <<>>)

\* CompletedOnce, for operations in states s and the queue q.
QueuedOnce(s, q) ==
    /\ \A c \in Calls, o \in Ops :
          s[c][o] = "queued" <=> \E i \in 1..Len(q) : q[i] = <<c, o>>
    /\ \A i, j \in 1..Len(q) : q[i] = q[j] => i = j

Pending(c, o) == IF Resolved(c, o) THEN 0 ELSE 1

RaceInv ==
    \A c \in Calls :
        /\ outstanding[c] = Pending(c, "em") + Pending(c, "timer")
        /\ result[c] = NULL <=> outstanding[c] = 2
        /\ \A o \in Ops : result[c] = o => Resolved(c, o)
        /\ result[c] # NULL => stopped[c]
        /\ answer[c] # NULL => outstanding[c] = 0
        /\ op[c]["em"] = "idle" => op[c]["timer"] = "idle"

\* Between its two halves, start() has started em alone.
StartInv ==
    \A c \in Calls : starting = c <=> op[c]["em"] # "idle" /\ op[c]["timer"] = "idle"

\* Until the race is stopped, the timer's callback is the first to be called.
HearInv ==
    \A c \in Calls : ~stopped[c] /\ op[c]["timer"] # "idle" =>
        cookies[c] # <<>> /\ cookies[c][1] = ticket[c]["timer"]

\* In the queue q, half o of race c comes before half p.
Leads(q, c, o, p) ==
    \A i, j \in 1..Len(q) : q[i] = <<c, o>> /\ q[j] = <<c, p>> => i < j

\* Where an error code comes from.
CodeInv ==
    \A c \in Calls :
        /\ \A o \in Ops : op[c][o] \in {"queued", "resolved"} => ec[c][o] # "none"
        /\ op[c]["timer"] = "queued" => ec[c]["timer"] = "canceled" \/ c \in hit
        /\ c \in hit => op[c]["timer"] \in {"queued", "resolved"}
        /\ stopped[c] => result[c] # NULL \/ asked[c] # "never"

\* The timer of a race whose em resolves inside start() is never cancelled.
InlineInv ==
    \A c \in Calls : kind[c] = "inline" =>
        /\ op[c]["em"] \in {"idle", "resolved"}
        /\ ec[c]["timer"] # "canceled"
        /\ op[c]["timer"] = "resolved" => c \in hit

\* While no half has won, a half that was cancelled is behind the one that will
\* win; a stop requested while both were waiting makes that the timer.
Undecided(c) ==
    /\ ec[c]["em"] = "canceled" =>
          op[c]["timer"] = "queued" /\ Leads(queue, c, "timer", "em")
    /\ ec[c]["timer"] = "canceled" /\ asked[c] # "running" =>
          op[c]["em"] = "queued" /\ Leads(queue, c, "em", "timer")
    /\ asked[c] = "running" =>
          /\ op[c]["timer"] = "queued" /\ ec[c]["timer"] = "canceled" /\ c \notin hit
          /\ Leads(queue, c, "timer", "em")

\* Which half may have won.
Decided(c) ==
    /\ result[c] = "em" => ec[c]["em"] = "ok" /\ asked[c] # "running"
    /\ result[c] = "timer" => c \in hit \/ asked[c] = "running"
    /\ asked[c] = "running" => c \notin hit

ReasonInv == \A c \in Calls : IF result[c] = NULL THEN Undecided(c) ELSE Decided(c)

Inv == /\ TypeInv /\ PoolInv /\ CookieInv /\ QueuedOnce(op, queue) /\ RaceInv
       /\ StartInv /\ HearInv /\ CodeInv /\ InlineInv /\ ReasonInv /\ AnswerJustified

-----------------------------------------------------------------------------
\* Changing one half of one race changes that half alone.
LEMMA HalfUpdate ==
    ASSUME NEW S, NEW f \in [Calls -> [Ops -> S]], NEW c \in Calls, NEW o \in Ops, NEW v \in S
    PROVE  /\ [f EXCEPT ![c][o] = v] \in [Calls -> [Ops -> S]]
           /\ \A d \in Calls, p \in Ops :
                 [f EXCEPT ![c][o] = v][d][p] = IF d = c /\ p = o THEN v ELSE f[d][p]
OBVIOUS

\* checkout() lends a signal that nothing else holds and the pool no longer has.
LEMMA CheckoutIsFresh ==
    ASSUME TypeInv, PoolInv, NEW c \in Calls, NEW o \in Ops, ticket[c][o] = NULL,
           Checkout(c, o)
    PROVE  \E s \in Signals :
              /\ ticket' = [ticket EXCEPT ![c][o] = s]
              /\ \A d \in Calls, p \in Ops : ticket[d][p] # s
              /\ objects' \in Seq(Signals)
              /\ \A i \in 1..Len(objects') : objects'[i] # s
              /\ \A i \in 1..Len(objects') : \A d \in Calls, p \in Ops :
                    ticket[d][p] # objects'[i]
              /\ \A i, j \in 1..Len(objects') : objects'[i] = objects'[j] => i = j
<1>1. CASE objects = <<>>
  <2> DEFINE s == CHOOSE x \in Signals : x \notin Lent
  <2>1. \E x \in Signals : \A d \in Calls, p \in Ops : ticket[d][p] # x
    BY SignalsSuffice DEF TypeInv
  <2>2. \E x \in Signals : x \notin Lent
    BY <2>1 DEF Lent
  <2>3. s \in Signals /\ s \notin Lent
    BY <2>2
  <2>4. ticket' = [ticket EXCEPT ![c][o] = s] /\ objects' = <<>>
    BY <1>1 DEF Checkout
  <2> HIDE DEF s
  <2>5. s # NULL
    BY <2>3, TimeoutConstants
  <2>6. \A d \in Calls, p \in Ops : ticket[d][p] # s
    <3> SUFFICES ASSUME NEW d \in Calls, NEW p \in Ops, ticket[d][p] = s PROVE FALSE
      OBVIOUS
    <3>1. <<d, p>> \in Calls \X Ops /\ <<d, p>>[1] = d /\ <<d, p>>[2] = p
      OBVIOUS
    <3> QED BY <2>3, <2>5, <3>1 DEF Lent
  <2>7. objects' \in Seq(Signals) /\ 1..Len(objects') = {}
    BY <2>4
  <2> QED BY <2>3, <2>4, <2>6, <2>7, Zenon
<1>2. CASE objects # <<>>
  <2>1. ticket' = [ticket EXCEPT ![c][o] = Head(objects)] /\ objects' = Tail(objects)
    BY <1>2 DEF Checkout
  <2>2. /\ Len(objects) \in Nat /\ Len(objects) > 0
        /\ Head(objects) = objects[1] /\ Head(objects) \in Signals
        /\ objects' \in Seq(Signals) /\ Len(objects') = Len(objects) - 1
        /\ \A i \in 1..Len(objects') : objects'[i] = objects[i + 1]
    BY <1>2, <2>1 DEF TypeInv
  <2>3. \A i \in 1..Len(objects') : i + 1 \in 1..Len(objects) /\ i + 1 # 1
    BY <2>2
  <2>4. \A i \in 1..Len(objects') : objects'[i] # Head(objects)
    BY <2>2, <2>3 DEF PoolInv
  <2>5. \A d \in Calls, p \in Ops : ticket[d][p] # Head(objects)
    BY <2>2 DEF PoolInv
  <2>6. \A i \in 1..Len(objects') : \A d \in Calls, p \in Ops : ticket[d][p] # objects'[i]
    BY <2>2, <2>3 DEF PoolInv
  <2>7. \A i, j \in 1..Len(objects') : objects'[i] = objects'[j] => i = j
    <3> SUFFICES ASSUME NEW i \in 1..Len(objects'), NEW j \in 1..Len(objects'),
                        objects'[i] = objects'[j]
                 PROVE  i = j
      OBVIOUS
    <3>1. i + 1 = j + 1
      BY <2>2, <2>3 DEF PoolInv
    <3> QED BY <2>2, <3>1
  <2> QED BY <2>1, <2>2, <2>4, <2>5, <2>6, <2>7
<1> QED BY <1>1, <1>2

\* Lending keeps the pool in order.
LEMMA CheckoutStep ==
    ASSUME TypeInv, PoolInv, NEW c \in Calls, NEW o \in Ops,
           op[c][o] = "idle", Checkout(c, o), op' = [op EXCEPT ![c][o] = "waiting"]
    PROVE  /\ op' \in [Calls -> [Ops -> OpStates]]
           /\ ticket' \in [Calls -> [Ops -> Signals \cup {NULL}]]
           /\ objects' \in Seq(Signals)
           /\ PoolInv'
           /\ ticket'[c][o] \in Signals
           /\ \A d \in Calls, p \in Ops : ticket[d][p] # ticket'[c][o]
           /\ \A d \in Calls, p \in Ops : d # c \/ p # o => ticket'[d][p] = ticket[d][p]
           /\ \A d \in Calls, p \in Ops :
                 op'[d][p] = IF d = c /\ p = o THEN "waiting" ELSE op[d][p]
<1>0. ticket[c][o] = NULL
  BY DEF PoolInv
<1>1. PICK s \in Signals :
              /\ ticket' = [ticket EXCEPT ![c][o] = s]
              /\ \A d \in Calls, p \in Ops : ticket[d][p] # s
              /\ objects' \in Seq(Signals)
              /\ \A i \in 1..Len(objects') : objects'[i] # s
              /\ \A i \in 1..Len(objects') : \A d \in Calls, p \in Ops :
                    ticket[d][p] # objects'[i]
              /\ \A i, j \in 1..Len(objects') : objects'[i] = objects'[j] => i = j
  BY <1>0, CheckoutIsFresh
<1>2. s # NULL
  BY TimeoutConstants
<1>3. /\ op' \in [Calls -> [Ops -> OpStates]]
      /\ \A d \in Calls, p \in Ops :
            op'[d][p] = IF d = c /\ p = o THEN "waiting" ELSE op[d][p]
  BY HalfUpdate DEF TypeInv, OpStates
<1>4. /\ ticket' \in [Calls -> [Ops -> Signals \cup {NULL}]]
      /\ \A d \in Calls, p \in Ops :
            ticket'[d][p] = IF d = c /\ p = o THEN s ELSE ticket[d][p]
  BY <1>1 DEF TypeInv
<1>5. PoolInv'
  <2>1. \A d \in Calls, p \in Ops : ticket'[d][p] # NULL <=> op'[d][p] \in {"waiting", "queued"}
    BY <1>2, <1>3, <1>4 DEF PoolInv
  <2>2. ASSUME NEW d \in Calls, NEW e \in Calls, NEW p \in Ops, NEW q \in Ops,
               ticket'[d][p] = ticket'[e][q], ticket'[d][p] # NULL
        PROVE  d = e /\ p = q
    BY <1>1, <1>4, <2>2 DEF PoolInv
  <2>3. \A i \in 1..Len(objects') : \A d \in Calls, p \in Ops : ticket'[d][p] # objects'[i]
    BY <1>1, <1>4
  <2> QED BY <1>1, <2>1, <2>2, <2>3 DEF PoolInv
<1> QED BY <1>1, <1>3, <1>4, <1>5

\* Taking a signal back from a half that resolves keeps the pool in order.
LEMMA ReturnStep ==
    ASSUME TypeInv, PoolInv, NEW c \in Calls, NEW o \in Ops,
           op[c][o] = "queued", Return(c, o),
           op' \in [Calls -> [Ops -> OpStates]], op'[c][o] = "resolved",
           \A d \in Calls, p \in Ops : d # c \/ p # o =>
              (op'[d][p] \in {"waiting", "queued"} <=> op[d][p] \in {"waiting", "queued"})
    PROVE  /\ ticket' \in [Calls -> [Ops -> Signals \cup {NULL}]]
           /\ objects' \in Seq(Signals)
           /\ PoolInv'
           /\ \A d \in Calls, p \in Ops :
                 ticket'[d][p] = IF d = c /\ p = o THEN NULL ELSE ticket[d][p]
<1> DEFINE s == ticket[c][o]
<1>1. s \in Signals /\ s # NULL
  BY DEF TypeInv, PoolInv
<1>2. /\ ticket' \in [Calls -> [Ops -> Signals \cup {NULL}]]
      /\ \A d \in Calls, p \in Ops :
            ticket'[d][p] = IF d = c /\ p = o THEN NULL ELSE ticket[d][p]
  BY DEF TypeInv, Return
<1>3. /\ objects' \in Seq(Signals)
      /\ \A i \in 1..Len(objects') :
            objects'[i] = s \/ \E k \in 1..Len(objects) : objects'[i] = objects[k]
      /\ \A i, j \in 1..Len(objects') : objects'[i] = objects'[j] => i = j
  <2>0. objects \in Seq(Signals) /\ Len(objects) \in Nat
    BY DEF TypeInv
  <2>1. CASE Len(objects) < MaxSize
    <3>1. objects' = <<s>> \o objects
      BY <2>1 DEF Return
    <3> HIDE DEF s
    <3>2. /\ objects' \in Seq(Signals) /\ Len(objects') = Len(objects) + 1
          /\ objects'[1] = s
          /\ \A i \in 2..Len(objects') : objects'[i] = objects[i - 1]
      BY <1>1, <2>0, <3>1
    <3>3. \A i \in 1..Len(objects') : i = 1 \/ (i \in 2..Len(objects') /\ i - 1 \in 1..Len(objects))
      BY <2>0, <3>2
    <3>4. \A k \in 1..Len(objects) : objects[k] # s
      BY DEF PoolInv, s
    <3>5. ASSUME NEW i \in 1..Len(objects'), NEW j \in 1..Len(objects'),
                 objects'[i] = objects'[j]
          PROVE  i = j
      <4>1. CASE i = 1
        BY <3>2, <3>3, <3>4, <3>5, <4>1
      <4>2. CASE j = 1
        BY <3>2, <3>3, <3>4, <3>5, <4>2
      <4>3. CASE i # 1 /\ j # 1
        <5>1. i - 1 = j - 1
          BY <3>2, <3>3, <3>5, <4>3 DEF PoolInv
        <5> QED BY <2>0, <3>2, <5>1
      <4> QED BY <4>1, <4>2, <4>3
    <3> QED BY <3>2, <3>3, <3>5
  <2>2. CASE ~(Len(objects) < MaxSize)
    <3>1. objects' = objects
      BY <2>2 DEF Return
    <3> QED BY <2>0, <3>1 DEF PoolInv
  <2> QED BY <2>1, <2>2
<1> HIDE DEF s
<1>4. \A i \in 1..Len(objects') : \A d \in Calls, p \in Ops : ticket'[d][p] # objects'[i]
  <2> SUFFICES ASSUME NEW i \in 1..Len(objects'), NEW d \in Calls, NEW p \in Ops,
                      ticket'[d][p] = objects'[i]
               PROVE  FALSE
    OBVIOUS
  <2>1. CASE objects'[i] = s
    <3>1. d = c /\ p = o
      BY <1>1, <1>2, <2>1 DEF PoolInv, s
    <3> QED BY <1>1, <1>2, <2>1, <3>1
  <2>2. CASE \E k \in 1..Len(objects) : objects'[i] = objects[k]
    <3>1. PICK k \in 1..Len(objects) : objects'[i] = objects[k]
      BY <2>2
    <3>2. objects[k] # NULL /\ ticket[d][p] # objects[k]
      BY TimeoutConstants DEF TypeInv, PoolInv
    <3> QED BY <1>2, <3>1, <3>2
  <2> QED BY <1>3, <2>1, <2>2
<1>5. \A d \in Calls, p \in Ops : ticket'[d][p] # NULL <=> op'[d][p] \in {"waiting", "queued"}
  BY <1>2 DEF PoolInv
<1>6. ASSUME NEW d \in Calls, NEW e \in Calls, NEW p \in Ops, NEW q \in Ops,
             ticket'[d][p] = ticket'[e][q], ticket'[d][p] # NULL
      PROVE  d = e /\ p = q
  <2>1. ticket[d][p] = ticket[e][q] /\ ticket[d][p] # NULL
    BY <1>2, <1>6
  <2> QED BY <2>1 DEF PoolInv
<1> QED BY <1>2, <1>3, <1>4, <1>5, <1>6 DEF PoolInv

-----------------------------------------------------------------------------
\* The halves in told belong to race c, are waiting, and are told once.
Cancels(c, told) ==
    /\ told \in Seq(Calls \X Ops)
    /\ \A i \in 1..Len(told) : \E p \in Ops : told[i] = <<c, p>> /\ op[c][p] = "waiting"
    /\ \A i, j \in 1..Len(told) : told[i] = told[j] => i = j

Among(told, d, p) == \E i \in 1..Len(told) : told[i] = <<d, p>>

\* The holder of a signal is the half that it is lent to.
LEMMA HolderIsOwner ==
    ASSUME PoolInv, NEW c \in Calls, NEW o \in Ops, ticket[c][o] # NULL
    PROVE  Holder(ticket[c][o]) = <<c, o>>
<1>1. /\ <<c, o>> \in Calls \X Ops
      /\ ticket[<<c, o>>[1]][<<c, o>>[2]] = ticket[c][o]
  OBVIOUS
<1>2. ASSUME NEW h \in Calls \X Ops, ticket[h[1]][h[2]] = ticket[c][o]
      PROVE  h = <<c, o>>
  BY <1>2 DEF PoolInv
<1> DEFINE h == Holder(ticket[c][o])
<1>3. h \in Calls \X Ops /\ ticket[h[1]][h[2]] = ticket[c][o]
  BY <1>1, Zenon DEF Holder
<1> QED BY <1>2, <1>3

\* Nothing cancels nothing, one half alone, or two in turn.
LEMMA ToldShapes ==
    ASSUME NEW c \in Calls
    PROVE  /\ Cancels(c, <<>>)
           /\ \A p \in Ops : op[c][p] = "waiting" => Cancels(c, <<<<c, p>>>>)
           /\ \A p, q \in Ops : op[c][p] = "waiting" /\ op[c][q] = "waiting" /\ p # q =>
                 Cancels(c, <<<<c, p>>, <<c, q>>>>)
BY DEF Cancels

\* One callback and then another.
LEMMA InTurn == ASSUME NEW x, NEW y PROVE <<x>> \o <<y>> = <<x, y>>
<1> DEFINE s == <<x>> \o <<y>>  t == <<x, y>>
<1>1. <<x>> \in Seq({x, y}) /\ <<y>> \in Seq({x, y}) /\ t \in Seq({x, y})
  OBVIOUS
<1>2. /\ s \in Seq({x, y}) /\ Len(s) = 2 /\ s[1] = x /\ s[2] = y
      /\ Len(t) = 2 /\ t[1] = x /\ t[2] = y
  BY <1>1
<1> HIDE DEF s, t
<1>3. s = [i \in 1..2 |-> s[i]] /\ t = [i \in 1..2 |-> t[i]]
  BY <1>1, <1>2
<1>4. \A i \in 1..2 : s[i] = t[i]
  BY <1>2
<1>5. s = t
  BY <1>3, <1>4, Zenon
<1> QED BY <1>5 DEF s, t

\* The stop callbacks of a race cancel halves of that race.
LEMMA EmittedCancels ==
    ASSUME TypeInv, PoolInv, NEW c \in Calls, NEW cks \in Seq(Signals), OwnSignals(c, cks)
    PROVE  Cancels(c, Emitted(cks))
<1>0. Len(cks) \in Nat
  OBVIOUS
<1>1. ASSUME NEW i \in 1..Len(cks)
      PROVE  \E p \in Ops : cks[i] = ticket[c][p] /\ Holder(cks[i]) = <<c, p>>
  <2>1. PICK p \in Ops : cks[i] = ticket[c][p]
    BY DEF OwnSignals, OwnedBy
  <2>2. cks[i] # NULL
    BY TimeoutConstants
  <2> QED BY <2>1, <2>2, HolderIsOwner
<1>2. ASSUME NEW i \in {1, 2}
      PROVE  \/ Told(cks, i) = <<>>
             \/ \E p \in Ops : /\ i \in 1..Len(cks) /\ cks[i] = ticket[c][p]
                               /\ Told(cks, i) = <<<<c, p>>>> /\ op[c][p] = "waiting"
  <2>1. CASE i \in 1..Len(cks)
    <3>1. PICK p \in Ops : cks[i] = ticket[c][p] /\ Holder(cks[i]) = <<c, p>>
      BY <1>1, <2>1
    <3> DEFINE h == Holder(cks[i])
    <3>2. h = <<c, p>> /\ h[1] = c /\ h[2] = p
      BY <3>1
    <3>3. Told(cks, i) = IF op[h[1]][h[2]] = "waiting" THEN <<h>> ELSE <<>>
      BY <2>1 DEF Told
    <3> HIDE DEF h
    <3> QED BY <2>1, <3>1, <3>2, <3>3
  <2>2. CASE i \notin 1..Len(cks)
    BY <2>2, Zenon DEF Told
  <2> QED BY <2>1, <2>2
<1> DEFINE a == Told(cks, 1)  b == Told(cks, 2)
<1>3. /\ \/ a = <<>>
         \/ \E p \in Ops : /\ 1 \in 1..Len(cks) /\ cks[1] = ticket[c][p]
                           /\ a = <<<<c, p>>>> /\ op[c][p] = "waiting"
      /\ \/ b = <<>>
         \/ \E p \in Ops : /\ 2 \in 1..Len(cks) /\ cks[2] = ticket[c][p]
                           /\ b = <<<<c, p>>>> /\ op[c][p] = "waiting"
  BY <1>2
<1>4. Emitted(cks) = a \o b
  BY DEF Emitted
<1> HIDE DEF a, b
<1>5. CASE a = <<>> /\ b = <<>>
  BY <1>4, <1>5, ToldShapes
<1>6. CASE a = <<>> /\ b # <<>>
  <2>1. PICK p \in Ops : b = <<<<c, p>>>> /\ op[c][p] = "waiting"
    BY <1>3, <1>6
  <2>2. Emitted(cks) = <<<<c, p>>>>
    BY <1>4, <1>6, <2>1
  <2> QED BY <2>1, <2>2, ToldShapes
<1>7. CASE a # <<>> /\ b = <<>>
  <2>1. PICK p \in Ops : a = <<<<c, p>>>> /\ op[c][p] = "waiting"
    BY <1>3, <1>7
  <2>2. Emitted(cks) = <<<<c, p>>>>
    BY <1>4, <1>7, <2>1
  <2> QED BY <2>1, <2>2, ToldShapes
<1>8. CASE a # <<>> /\ b # <<>>
  <2>1. PICK p \in Ops : /\ 1 \in 1..Len(cks) /\ cks[1] = ticket[c][p]
                         /\ a = <<<<c, p>>>> /\ op[c][p] = "waiting"
    BY <1>3, <1>8
  <2>2. PICK q \in Ops : /\ 2 \in 1..Len(cks) /\ cks[2] = ticket[c][q]
                         /\ b = <<<<c, q>>>> /\ op[c][q] = "waiting"
    BY <1>3, <1>8
  <2>3. p # q
    BY <2>1, <2>2 DEF OwnSignals, OwnedBy
  <2>4. Emitted(cks) = <<<<c, p>>, <<c, q>>>>
    BY <1>4, <2>1, <2>2, InTurn
  <2> QED BY <2>1, <2>2, <2>3, <2>4, ToldShapes
<1> QED BY <1>5, <1>6, <1>7, <1>8

\* Dropping a stop callback leaves callbacks of the same race.
LEMMA WithoutIsOwn ==
    ASSUME NEW c \in Calls, NEW cks \in Seq(Signals), OwnSignals(c, cks), NEW s
    PROVE  Without(cks, s) \in Seq(Signals) /\ OwnSignals(c, Without(cks, s))
<1> DEFINE kept(i) == IF i \in 1..Len(cks) /\ cks[i] # s THEN <<cks[i]>> ELSE <<>>
           a == kept(1)  b == kept(2)
<1>0. Len(cks) \in Nat
  OBVIOUS
<1>1. ASSUME NEW i \in {1, 2}
      PROVE  \/ kept(i) = <<>>
             \/ \E x \in Signals : kept(i) = <<x>> /\ x = cks[i] /\ i \in 1..Len(cks)
  <2>1. \A k \in 1..Len(cks) : cks[k] \in Signals
    OBVIOUS
  <2> QED BY <2>1, Zenon
<1>2. /\ a = <<>> \/ \E x \in Signals : a = <<x>> /\ x = cks[1] /\ 1 \in 1..Len(cks)
      /\ b = <<>> \/ \E x \in Signals : b = <<x>> /\ x = cks[2] /\ 2 \in 1..Len(cks)
  BY <1>1
<1>3. Without(cks, s) = a \o b
  BY DEF Without
<1> HIDE DEF kept, a, b
<1>4. CASE a = <<>> /\ b = <<>>
  BY <1>3, <1>4 DEF OwnSignals, OwnedBy
<1>5. CASE a = <<>> /\ b # <<>>
  <2>1. PICK x \in Signals : b = <<x>> /\ x = cks[2] /\ 2 \in 1..Len(cks)
    BY <1>2, <1>5
  <2>2. Without(cks, s) = <<x>>
    BY <1>3, <1>5, <2>1
  <2> QED BY <2>1, <2>2 DEF OwnSignals, OwnedBy
<1>6. CASE a # <<>> /\ b = <<>>
  <2>1. PICK x \in Signals : a = <<x>> /\ x = cks[1] /\ 1 \in 1..Len(cks)
    BY <1>2, <1>6
  <2>2. Without(cks, s) = <<x>>
    BY <1>3, <1>6, <2>1
  <2> QED BY <2>1, <2>2 DEF OwnSignals, OwnedBy
<1>7. CASE a # <<>> /\ b # <<>>
  <2>1. PICK x \in Signals : a = <<x>> /\ x = cks[1] /\ 1 \in 1..Len(cks)
    BY <1>2, <1>7
  <2>2. PICK y \in Signals : b = <<y>> /\ y = cks[2] /\ 2 \in 1..Len(cks)
    BY <1>2, <1>7
  <2>3. Without(cks, s) = <<x, y>> /\ x # y
    <3>1. cks[1] # cks[2]
      BY <2>1, <2>2 DEF OwnSignals, OwnedBy
    <3> QED BY <1>3, <2>1, <2>2, <3>1, InTurn
  <2> QED BY <2>1, <2>2, <2>3 DEF OwnSignals, OwnedBy
<1> QED BY <1>4, <1>5, <1>6, <1>7

-----------------------------------------------------------------------------
\* Halves of race c, not queued in s, are queued in t.
Joining(s, t, c, told) ==
    /\ told \in Seq(Calls \X Ops)
    /\ \A i \in 1..Len(told) : \E p \in Ops : told[i] = <<c, p>> /\ s[c][p] # "queued"
    /\ \A i, j \in 1..Len(told) : told[i] = told[j] => i = j
    /\ \A d \in Calls, p \in Ops :
          t[d][p] = IF Among(told, d, p) THEN "queued" ELSE s[d][p]

\* Halves that were waiting join the queue, each once.
LEMMA JoinQueue ==
    ASSUME NEW s, NEW t, NEW c \in Calls, NEW q \in Seq(Calls \X Ops), NEW told,
           QueuedOnce(s, q), Joining(s, t, c, told)
    PROVE  q \o told \in Seq(Calls \X Ops) /\ QueuedOnce(t, q \o told)
<1> USE DEF Joining
<1> DEFINE all == q \o told
<1>1. /\ all \in Seq(Calls \X Ops) /\ Len(all) = Len(q) + Len(told)
      /\ Len(q) \in Nat /\ Len(told) \in Nat
      /\ \A i \in 1..Len(q) : all[i] = q[i]
      /\ \A i \in 1..Len(told) : all[Len(q) + i] = told[i]
  OBVIOUS
<1> HIDE DEF all
<1>2. /\ \A i \in 1..Len(q) : i \in 1..Len(all)
      /\ \A i \in 1..Len(told) : Len(q) + i \in 1..Len(all)
      /\ \A k \in 1..Len(all) : k \in 1..Len(q) \/ \E i \in 1..Len(told) : k = Len(q) + i
  <2>1. ASSUME NEW k \in 1..Len(all), k \notin 1..Len(q)
        PROVE  k - Len(q) \in 1..Len(told) /\ k = Len(q) + (k - Len(q))
    BY <1>1, <2>1
  <2>2. /\ \A i \in 1..Len(q) : i \in 1..Len(all)
        /\ \A i \in 1..Len(told) : Len(q) + i \in 1..Len(all)
    BY <1>1
  <2> QED BY <2>1, <2>2, Zenon
<1>3. \A i \in 1..Len(q), j \in 1..Len(told) : q[i] # told[j]
  <2> SUFFICES ASSUME NEW i \in 1..Len(q), NEW j \in 1..Len(told), q[i] = told[j] PROVE FALSE
    OBVIOUS
  <2>1. PICK p \in Ops : told[j] = <<c, p>> /\ s[c][p] # "queued"
    OBVIOUS
  <2>2. \E k \in 1..Len(q) : q[k] = <<c, p>>
    BY <2>1, Zenon
  <2>3. s[c][p] = "queued" <=> \E k \in 1..Len(q) : q[k] = <<c, p>>
    BY Zenon DEF QueuedOnce
  <2> QED BY <2>1, <2>2, <2>3, Zenon
<1>4. ASSUME NEW d \in Calls, NEW p \in Ops
      PROVE  t[d][p] = "queued" <=> \E k \in 1..Len(all) : all[k] = <<d, p>>
  <2>1. (\E k \in 1..Len(all) : all[k] = <<d, p>>) <=>
           (\E i \in 1..Len(q) : q[i] = <<d, p>>) \/ Among(told, d, p)
    <3>1. ASSUME NEW k \in 1..Len(all), all[k] = <<d, p>>
          PROVE  (\E i \in 1..Len(q) : q[i] = <<d, p>>) \/ Among(told, d, p)
      <4>1. CASE k \in 1..Len(q)
        BY <1>1, <3>1, <4>1, Zenon
      <4>2. ASSUME NEW i \in 1..Len(told), k = Len(q) + i PROVE Among(told, d, p)
        BY <1>1, <3>1, <4>2, Zenon DEF Among
      <4> QED BY <1>2, <4>1, <4>2, Zenon
    <3>2. ASSUME NEW i \in 1..Len(q), q[i] = <<d, p>>
          PROVE  \E k \in 1..Len(all) : all[k] = <<d, p>>
      BY <1>1, <1>2, <3>2, Zenon
    <3>3. ASSUME NEW i \in 1..Len(told), told[i] = <<d, p>>
          PROVE  \E k \in 1..Len(all) : all[k] = <<d, p>>
      <4>1. Len(q) + i \in 1..Len(all) /\ all[Len(q) + i] = <<d, p>>
        BY <1>1, <1>2, <3>3
      <4> QED BY <4>1, Zenon
    <3> QED BY <3>1, <3>2, <3>3, Zenon DEF Among
  <2>2. s[d][p] = "queued" <=> \E i \in 1..Len(q) : q[i] = <<d, p>>
    BY Zenon DEF QueuedOnce
  <2>3. t[d][p] = IF Among(told, d, p) THEN "queued" ELSE s[d][p]
    OBVIOUS
  <2> QED BY <2>1, <2>2, <2>3, Zenon
<1>5. ASSUME NEW k \in 1..Len(all), NEW l \in 1..Len(all), all[k] = all[l]
      PROVE  k = l
  <2>1. CASE k \in 1..Len(q) /\ l \in 1..Len(q)
    BY <1>1, <1>5, <2>1 DEF QueuedOnce
  <2>2. ASSUME NEW i \in 1..Len(told), k = Len(q) + i, l \in 1..Len(q) PROVE FALSE
    BY <1>1, <1>3, <1>5, <2>2
  <2>3. ASSUME NEW i \in 1..Len(told), l = Len(q) + i, k \in 1..Len(q) PROVE FALSE
    BY <1>1, <1>3, <1>5, <2>3
  <2>4. ASSUME NEW i \in 1..Len(told), k = Len(q) + i,
               NEW j \in 1..Len(told), l = Len(q) + j
        PROVE  k = l
    BY <1>1, <1>5, <2>4
  <2> QED BY <1>2, <2>1, <2>2, <2>3, <2>4
<1> QED BY <1>1, <1>4, <1>5 DEF QueuedOnce, all

Leaving(s, t, c, o) ==
    \A d \in Calls, p \in Ops : t[d][p] = IF d = c /\ p = o THEN "resolved" ELSE s[d][p]

\* The oldest completion leaves the queue.
LEMMA LeaveQueue ==
    ASSUME NEW s, NEW t, NEW q \in Seq(Calls \X Ops), q # <<>>, QueuedOnce(s, q),
           NEW c \in Calls, NEW o \in Ops, Head(q) = <<c, o>>, Leaving(s, t, c, o)
    PROVE  Tail(q) \in Seq(Calls \X Ops) /\ QueuedOnce(t, Tail(q)) /\ s[c][o] = "queued"
<1> USE DEF Leaving
<1> DEFINE rest == Tail(q)
<1>1. /\ rest \in Seq(Calls \X Ops) /\ Len(rest) = Len(q) - 1
      /\ Len(q) \in Nat /\ Len(q) > 0 /\ q[1] = <<c, o>>
      /\ \A i \in 1..Len(rest) : rest[i] = q[i + 1]
  OBVIOUS
<1> HIDE DEF rest
<1>2. /\ \A i \in 1..Len(rest) : i + 1 \in 1..Len(q) /\ i + 1 # 1
      /\ \A k \in 1..Len(q) : k = 1 \/ \E i \in 1..Len(rest) : k = i + 1
  <2>1. ASSUME NEW k \in 1..Len(q), k # 1 PROVE k - 1 \in 1..Len(rest) /\ k = (k - 1) + 1
    BY <1>1, <2>1
  <2> QED BY <1>1, <2>1
<1>3. 1 \in 1..Len(q)
  BY <1>1
<1>4. s[c][o] = "queued"
  BY <1>1, <1>3 DEF QueuedOnce
<1>5. ASSUME NEW d \in Calls, NEW p \in Ops
      PROVE  t[d][p] = "queued" <=> \E i \in 1..Len(rest) : rest[i] = <<d, p>>
  <2>1. CASE d = c /\ p = o
    <3>1. \A i \in 1..Len(rest) : rest[i] # <<c, o>>
      <4> SUFFICES ASSUME NEW i \in 1..Len(rest), rest[i] = <<c, o>> PROVE FALSE
        OBVIOUS
      <4>1. i + 1 \in 1..Len(q) /\ i + 1 # 1 /\ q[i + 1] = q[1]
        BY <1>1, <1>2
      <4> QED BY <1>3, <4>1, Zenon DEF QueuedOnce
    <3>2. t[c][o] = "resolved"
      OBVIOUS
    <3> QED BY <2>1, <3>1, <3>2
  <2>2. CASE ~(d = c /\ p = o)
    <3>1. (\E k \in 1..Len(q) : q[k] = <<d, p>>) <=> \E i \in 1..Len(rest) : rest[i] = <<d, p>>
      <4>1. ASSUME NEW k \in 1..Len(q), q[k] = <<d, p>>
            PROVE  \E i \in 1..Len(rest) : rest[i] = <<d, p>>
        <5>1. k # 1
          BY <1>1, <2>2, <4>1
        <5>2. PICK i \in 1..Len(rest) : k = i + 1
          BY <1>2, <5>1
        <5>3. rest[i] = <<d, p>>
          BY <1>1, <4>1, <5>2
        <5> QED BY <5>3, Zenon
      <4>2. ASSUME NEW i \in 1..Len(rest), rest[i] = <<d, p>>
            PROVE  \E k \in 1..Len(q) : q[k] = <<d, p>>
        <5>1. i + 1 \in 1..Len(q) /\ q[i + 1] = <<d, p>>
          BY <1>1, <1>2, <4>2
        <5> QED BY <5>1, Zenon
      <4> QED BY <4>1, <4>2, Zenon
    <3>2. t[d][p] = s[d][p]
      BY <2>2
    <3>3. s[d][p] = "queued" <=> \E i \in 1..Len(q) : q[i] = <<d, p>>
      BY Zenon DEF QueuedOnce
    <3> QED BY <3>1, <3>2, <3>3, Zenon
  <2> QED BY <2>1, <2>2
<1>6. ASSUME NEW i \in 1..Len(rest), NEW j \in 1..Len(rest), rest[i] = rest[j]
      PROVE  i = j
  <2>1. i + 1 = j + 1
    BY <1>1, <1>2, <1>6 DEF QueuedOnce
  <2> QED BY <1>1, <2>1
<1> QED BY <1>1, <1>4, <1>5, <1>6 DEF QueuedOnce, rest

-----------------------------------------------------------------------------
\* A half that does not join the queue keeps its lead over one that does.
LEMMA JoinLeads ==
    ASSUME NEW q \in Seq(Calls \X Ops), NEW told \in Seq(Calls \X Ops),
           NEW d \in Calls, NEW o \in Ops, NEW p \in Ops,
           ~Among(told, d, o), Leads(q, d, o, p)
    PROVE  Leads(q \o told, d, o, p)
<1> DEFINE all == q \o told
<1>1. /\ Len(all) = Len(q) + Len(told)
      /\ Len(q) \in Nat /\ Len(told) \in Nat
      /\ \A i \in 1..Len(q) : all[i] = q[i]
      /\ \A i \in 1..Len(told) : all[Len(q) + i] = told[i]
  OBVIOUS
<1> HIDE DEF all
<1> SUFFICES ASSUME NEW i \in 1..Len(all), NEW j \in 1..Len(all),
                    all[i] = <<d, o>>, all[j] = <<d, p>>
             PROVE  i < j
  BY DEF Leads, all
<1>2. i \in 1..Len(q)
  <2>1. CASE i \notin 1..Len(q)
    <3>1. i - Len(q) \in 1..Len(told) /\ i = Len(q) + (i - Len(q))
      BY <1>1, <2>1
    <3>2. told[i - Len(q)] = <<d, o>>
      BY <1>1, <3>1
    <3> QED BY <3>1, <3>2 DEF Among
  <2> QED BY <2>1
<1>3. CASE j \in 1..Len(q)
  <2>1. q[i] = <<d, o>> /\ q[j] = <<d, p>>
    BY <1>1, <1>2, <1>3
  <2> QED BY <1>2, <1>3, <2>1, Zenon DEF Leads
<1>4. CASE j \notin 1..Len(q)
  BY <1>1, <1>2, <1>4
<1> QED BY <1>3, <1>4

\* A half that is not in the queue is not ahead of anything.
LEMMA AbsentFollows ==
    ASSUME NEW s, NEW q, QueuedOnce(s, q), NEW d \in Calls, NEW p \in Ops,
           s[d][p] # "queued"
    PROVE  \A o : Leads(q, d, o, p)
<1>1. s[d][p] = "queued" <=> \E i \in 1..Len(q) : q[i] = <<d, p>>
  BY Zenon DEF QueuedOnce
<1> QED BY <1>1, Zenon DEF Leads

\* The oldest completion is behind nothing, and its leaving changes no order.
LEMMA HeadLeads ==
    ASSUME NEW s, NEW q \in Seq(Calls \X Ops), q # <<>>, QueuedOnce(s, q),
           NEW c \in Calls, NEW o \in Ops, Head(q) = <<c, o>>
    PROVE  /\ \A p \in Ops : s[c][p] = "queued" => ~Leads(q, c, p, o)
           /\ \A d \in Calls, p, r \in Ops : Leads(q, d, p, r) => Leads(Tail(q), d, p, r)
<1> DEFINE rest == Tail(q)
<1>1. /\ rest \in Seq(Calls \X Ops) /\ Len(rest) = Len(q) - 1
      /\ Len(q) \in Nat /\ Len(q) > 0 /\ q[1] = <<c, o>>
      /\ \A i \in 1..Len(rest) : rest[i] = q[i + 1]
  OBVIOUS
<1> HIDE DEF rest
<1>2. ASSUME NEW p \in Ops, s[c][p] = "queued", Leads(q, c, p, o) PROVE FALSE
  <2>1. s[c][p] = "queued" <=> \E i \in 1..Len(q) : q[i] = <<c, p>>
    BY Zenon DEF QueuedOnce
  <2>2. PICK i \in 1..Len(q) : q[i] = <<c, p>>
    BY <1>2, <2>1
  <2>3. 1 \in 1..Len(q)
    BY <1>1
  <2>4. i < 1
    BY <1>1, <1>2, <2>2, <2>3, Zenon DEF Leads
  <2> QED BY <2>4
<1>3. ASSUME NEW d \in Calls, NEW p \in Ops, NEW r \in Ops, Leads(q, d, p, r),
             NEW i \in 1..Len(rest), NEW j \in 1..Len(rest),
             rest[i] = <<d, p>>, rest[j] = <<d, r>>
      PROVE  i < j
  <2>1. i + 1 \in 1..Len(q) /\ j + 1 \in 1..Len(q)
    BY <1>1
  <2>2. q[i + 1] = <<d, p>> /\ q[j + 1] = <<d, r>>
    BY <1>1, <1>3
  <2>3. i + 1 < j + 1
    BY <1>3, <2>1, <2>2, Zenon DEF Leads
  <2> QED BY <1>1, <2>3
<1>4. ASSUME NEW d \in Calls, NEW p \in Ops, NEW r \in Ops, Leads(q, d, p, r)
      PROVE  Leads(rest, d, p, r)
  BY <1>3, <1>4, Zenon DEF Leads
<1>5. \A d \in Calls, p, r \in Ops : Leads(q, d, p, r) => Leads(rest, d, p, r)
  BY <1>4, Zenon
<1>6. \A p \in Ops : s[c][p] = "queued" => ~Leads(q, c, p, o)
  BY <1>2, Zenon
<1> QED BY <1>5, <1>6, Zenon DEF rest

\* The first of the halves that join the queue is ahead of the other.
LEMMA FirstLeads ==
    ASSUME NEW s, NEW q \in Seq(Calls \X Ops), QueuedOnce(s, q), NEW c \in Calls,
           NEW told \in Seq(Calls \X Ops), told # <<>>, told[1] = <<c, "timer">>,
           \A i, j \in 1..Len(told) : told[i] = told[j] => i = j,
           \A p \in Ops : s[c][p] # "queued"
    PROVE  Leads(q \o told, c, "timer", "em")
<1> DEFINE all == q \o told
<1>1. /\ Len(all) = Len(q) + Len(told)
      /\ Len(q) \in Nat /\ Len(told) \in Nat /\ 1 \in 1..Len(told)
      /\ \A i \in 1..Len(q) : all[i] = q[i]
      /\ \A i \in 1..Len(told) : all[Len(q) + i] = told[i]
  OBVIOUS
<1>2. ASSUME NEW i \in 1..Len(q), NEW p \in Ops, q[i] = <<c, p>> PROVE FALSE
  <2>1. s[c][p] = "queued" <=> \E k \in 1..Len(q) : q[k] = <<c, p>>
    BY Zenon DEF QueuedOnce
  <2>2. \E k \in 1..Len(q) : q[k] = <<c, p>>
    BY <1>2, Zenon
  <2> QED BY <2>1, <2>2
<1> HIDE DEF all
<1>3. ASSUME NEW i \in 1..Len(all), NEW p \in Ops, all[i] = <<c, p>>
      PROVE  /\ i - Len(q) \in 1..Len(told) /\ i = Len(q) + (i - Len(q))
             /\ told[i - Len(q)] = <<c, p>>
  <2>1. i \notin 1..Len(q)
    BY <1>1, <1>2, <1>3
  <2>2. i - Len(q) \in 1..Len(told) /\ i = Len(q) + (i - Len(q))
    BY <1>1, <2>1
  <2> QED BY <1>1, <1>3, <2>2
<1> SUFFICES ASSUME NEW i \in 1..Len(all), NEW j \in 1..Len(all),
                    all[i] = <<c, "timer">>, all[j] = <<c, "em">>
             PROVE  i < j
  BY DEF Leads, all
<1>4. "timer" \in Ops /\ "em" \in Ops
  BY DEF Ops
<1>5. i - Len(q) \in 1..Len(told) /\ told[i - Len(q)] = told[1]
  BY <1>3, <1>4
<1>6. i - Len(q) = 1
  BY <1>1, <1>5
<1>7. j - Len(q) \in 1..Len(told) /\ told[j - Len(q)] = <<c, "em">>
  BY <1>3, <1>4
<1>8. j - Len(q) # 1
  BY <1>7
<1> QED BY <1>1, <1>6, <1>7, <1>8

-----------------------------------------------------------------------------
\* request_stop() cancels halves of its own race, and none the second time.
LEMMA RequestStopCancels ==
    ASSUME TypeInv, PoolInv, NEW c \in Calls, NEW cks \in Seq(Signals), OwnSignals(c, cks)
    PROVE  Cancels(c, RequestStop(c, cks))
BY EmittedCancels, ToldShapes DEF RequestStop

\* A race that is stopped while its timer waits tells the timer first.
LEMMA TimerToldFirst ==
    ASSUME TypeInv, PoolInv, HearInv, NEW c \in Calls, ~stopped[c],
           op[c]["timer"] = "waiting", Cancels(c, RequestStop(c, cookies[c]))
    PROVE  RequestStop(c, cookies[c]) # <<>> /\ RequestStop(c, cookies[c])[1] = <<c, "timer">>
<1> DEFINE cks == cookies[c]  a == Told(cks, 1)  b == Told(cks, 2)
<1>1. cks \in Seq(Signals) /\ cks # <<>> /\ cks[1] = ticket[c]["timer"]
  BY DEF TypeInv, HearInv
<1>2. 1 \in 1..Len(cks) /\ cks[1] # NULL /\ "timer" \in Ops
  BY <1>1, TimeoutConstants DEF Ops
<1>3. Holder(cks[1]) = <<c, "timer">>
  BY <1>1, <1>2, HolderIsOwner
<1> DEFINE h == Holder(cks[1])
<1>4. h = <<c, "timer">> /\ h[1] = c /\ h[2] = "timer"
  BY <1>3
<1>5. a = IF op[h[1]][h[2]] = "waiting" THEN <<h>> ELSE <<>>
  BY <1>2 DEF Told
<1>6. RequestStop(c, cookies[c]) = a \o b
  BY DEF RequestStop, Emitted
<1> HIDE DEF h
<1>7. a = <<<<c, "timer">>>>
  BY <1>4, <1>5
<1>8. b = <<>> \/ \E x : b = <<x>>
  BY Zenon DEF Told
<1> HIDE DEF a, b
<1>9. CASE b = <<>>
  BY <1>6, <1>7, <1>9
<1>10. ASSUME NEW x, b = <<x>> PROVE a \o b # <<>> /\ (a \o b)[1] = <<c, "timer">>
  BY <1>7, <1>10, InTurn
<1> QED BY <1>6, <1>8, <1>9, <1>10

\* Only waiting halves of the race are told.
LEMMA ToldAreWaiting ==
    ASSUME NEW c, NEW told, Cancels(c, told), NEW d, NEW p \in Ops, Among(told, d, p)
    PROVE  d = c /\ op[c][p] = "waiting"
BY DEF Cancels, Among

\* What nth_result() does to the halves of all races when its stop cancels told.
HalvesAfter(c, o, e, rest, told) ==
    /\ Cancels(c, told)
    /\ result[c] # NULL => told = <<>>
    /\ op' \in [Calls -> [Ops -> OpStates]]
    /\ ec' \in [Calls -> [Ops -> {"none", "ok", "canceled"}]]
    /\ \A d \in Calls, p \in Ops :
          op'[d][p] = IF d = c /\ p = o THEN "resolved"
                      ELSE IF Among(told, d, p) THEN "queued" ELSE op[d][p]
    /\ \A d \in Calls, p \in Ops :
          ec'[d][p] = IF d = c /\ p = o THEN e
                      ELSE IF Among(told, d, p) THEN "canceled" ELSE ec[d][p]
    /\ queue' = rest \o told

\* nth_result() cancels waiting halves of its own race and nothing else.
LEMMA NthResultEffect ==
    ASSUME TypeInv, PoolInv, NEW c \in Calls, NEW o \in Ops, NEW e \in {"ok", "canceled"},
           NEW rest, NEW cks \in Seq(Signals), OwnSignals(c, cks),
           NthResult(c, o, e, rest, cks)
    PROVE  \E told : HalvesAfter(c, o, e, rest, told)
<1> DEFINE told == IF result[c] = NULL THEN RequestStop(c, cks) ELSE <<>>
           f == Cancelled(told, op, "queued")
           g == Cancelled(told, ec, "canceled")
<1>1. Cancels(c, told) /\ (result[c] # NULL => told = <<>>)
  BY RequestStopCancels, ToldShapes
<1>2. /\ op' = [f EXCEPT ![c][o] = "resolved"]
      /\ ec' = [g EXCEPT ![c][o] = e]
      /\ queue' = rest \o told
  BY DEF NthResult
<1> HIDE DEF told
<1>3. /\ f \in [Calls -> [Ops -> OpStates]]
      /\ \A d \in Calls, p \in Ops : f[d][p] = IF Among(told, d, p) THEN "queued" ELSE op[d][p]
      /\ "resolved" \in OpStates
  <2>1. op \in [Calls -> [Ops -> OpStates]] /\ "queued" \in OpStates /\ "resolved" \in OpStates
    BY DEF TypeInv, OpStates
  <2> QED BY <2>1 DEF Cancelled, Among
<1>4. /\ g \in [Calls -> [Ops -> {"none", "ok", "canceled"}]]
      /\ \A d \in Calls, p \in Ops : g[d][p] = IF Among(told, d, p) THEN "canceled" ELSE ec[d][p]
      /\ e \in {"none", "ok", "canceled"}
  <2>1. ec \in [Calls -> [Ops -> {"none", "ok", "canceled"}]]
    BY DEF TypeInv
  <2> DEFINE S == {"none", "ok", "canceled"}
  <2>2. "canceled" \in S /\ e \in S /\ ec \in [Calls -> [Ops -> S]]
    BY <2>1
  <2> HIDE DEF S
  <2>3. /\ g \in [Calls -> [Ops -> S]]
        /\ \A d \in Calls, p \in Ops : g[d][p] = IF Among(told, d, p) THEN "canceled" ELSE ec[d][p]
    BY <2>2 DEF Cancelled, Among
  <2> QED BY <2>2, <2>3 DEF S
<1> HIDE DEF f, g
<1>5. /\ op' \in [Calls -> [Ops -> OpStates]]
      /\ \A d \in Calls, p \in Ops : op'[d][p] = IF d = c /\ p = o THEN "resolved" ELSE f[d][p]
  BY <1>2, <1>3, HalfUpdate
<1>6. /\ ec' \in [Calls -> [Ops -> {"none", "ok", "canceled"}]]
      /\ \A d \in Calls, p \in Ops : ec'[d][p] = IF d = c /\ p = o THEN e ELSE g[d][p]
  BY <1>2, <1>4, HalfUpdate
<1>7. /\ \A d \in Calls, p \in Ops :
            op'[d][p] = IF d = c /\ p = o THEN "resolved"
                        ELSE IF Among(told, d, p) THEN "queued" ELSE op[d][p]
      /\ \A d \in Calls, p \in Ops :
            ec'[d][p] = IF d = c /\ p = o THEN e
                        ELSE IF Among(told, d, p) THEN "canceled" ELSE ec[d][p]
  BY <1>3, <1>4, <1>5, <1>6
<1>8. HalvesAfter(c, o, e, rest, told)
  BY <1>1, <1>2, <1>5, <1>6, <1>7, Zenon DEF HalvesAfter
<1> QED BY <1>8, Zenon

\* The callbacks of a race stay its own while its halves keep their signals.
LEMMA StillOwned ==
    ASSUME NEW mine, NEW now, NEW cks \in Seq(Signals), OwnedBy(mine, cks),
           \A p \in Ops : mine[p] # NULL => now[p] = mine[p]
    PROVE  OwnedBy(now, cks)
<1>1. \A i \in 1..Len(cks) : cks[i] # NULL
  BY TimeoutConstants
<1> QED BY <1>1 DEF OwnedBy

\* What a step has kept that calls nth_result() for half o of race c.
RaceAfter(c, o) ==
    /\ op' \in [Calls -> [Ops -> OpStates]] /\ op'[c][o] = "resolved"
    /\ \A d \in Calls, p \in Ops : d # c \/ p # o =>
          /\ op'[d][p] \in {"waiting", "queued"} <=> op[d][p] \in {"waiting", "queued"}
          /\ op'[d][p] = "idle" <=> op[d][p] = "idle"
    /\ ec' \in [Calls -> [Ops -> {"none", "ok", "canceled"}]]
    /\ cookies' = [cookies EXCEPT ![c] = <<>>]
    /\ stopped' = [stopped EXCEPT ![c] = TRUE]
    /\ outstanding' \in [Calls -> 0..2]
    /\ result' \in [Calls -> Ops \cup {NULL}]
    /\ answer' \in [Calls -> Answers \cup {NULL}]
    /\ queue' \in Seq(Calls \X Ops) /\ QueuedOnce(op', queue')
    /\ RaceInv' /\ CodeInv' /\ InlineInv' /\ ReasonInv' /\ AnswerJustified'

\* nth_result() keeps the race in order: of a half that Asio has just completed,
\* or that resolves inside its own start().
LEMMA NthResultStep ==
    ASSUME Inv, NEW c \in Calls, NEW o \in Ops, NEW e \in {"ok", "canceled"},
           NEW rest \in Seq(Calls \X Ops), NEW cks \in Seq(Signals), OwnSignals(c, cks),
           stopped[c] => cks = <<>>,
           op[c][o] \in {"idle", "queued"}, o = "em" \/ op[c]["em"] # "idle",
           QueuedOnce([op EXCEPT ![c][o] = "resolved"], rest),
           result[c] = NULL /\ o = "em" => e = "ok" /\ asked[c] # "running",
           result[c] = NULL /\ o = "timer" => c \in hit \/ asked[c] = "running",
           asked[c] = "running" => c \notin hit,
           o = "timer" => op[c][o] = "queued" /\ e = ec[c][o],
           \A d \in Calls, p, r \in Ops : Leads(queue, d, p, r) => Leads(rest, d, p, r),
           UNCHANGED <<kind, hit, asked>>,
           NthResult(c, o, e, rest, cks)
    PROVE  RaceAfter(c, o)
<1>0. TypeInv /\ PoolInv /\ RaceInv /\ CodeInv /\ InlineInv /\ ReasonInv /\ AnswerJustified
  BY DEF Inv
<1>t. PICK told : HalvesAfter(c, o, e, rest, told)
  BY <1>0, NthResultEffect
<1>1. /\ Cancels(c, told)
      /\ result[c] # NULL => told = <<>>
      /\ op' \in [Calls -> [Ops -> OpStates]]
      /\ ec' \in [Calls -> [Ops -> {"none", "ok", "canceled"}]]
      /\ \A d \in Calls, p \in Ops :
            op'[d][p] = IF d = c /\ p = o THEN "resolved"
                ELSE IF Among(told, d, p) THEN "queued" ELSE op[d][p]
      /\ \A d \in Calls, p \in Ops :
            ec'[d][p] = IF d = c /\ p = o THEN e
                ELSE IF Among(told, d, p) THEN "canceled" ELSE ec[d][p]
      /\ queue' = rest \o told
  BY <1>t DEF HalvesAfter
<1>2. \A d \in Calls, p \in Ops : Among(told, d, p) => d = c /\ p # o /\ op[c][p] = "waiting"
  BY <1>1, ToldAreWaiting
<1>3. told = <<>> => \A d \in Calls, p \in Ops : ~Among(told, d, p)
  BY DEF Among
<1>4. op'[c][o] = "resolved"
  BY <1>1
<1>5. \A d \in Calls, p \in Ops : d # c \/ p # o =>
         /\ op'[d][p] \in {"waiting", "queued"} <=> op[d][p] \in {"waiting", "queued"}
         /\ op'[d][p] = "idle" <=> op[d][p] = "idle"
         /\ op'[d][p] = "resolved" <=> op[d][p] = "resolved"
  BY <1>1, <1>2
<1>6. queue' \in Seq(Calls \X Ops) /\ QueuedOnce(op', queue')
  <2> DEFINE s == [op EXCEPT ![c][o] = "resolved"]
  <2>1. \A d \in Calls, p \in Ops : s[d][p] = IF d = c /\ p = o THEN "resolved" ELSE op[d][p]
    BY <1>0 DEF TypeInv
  <2>2. \A d \in Calls, p \in Ops :
           op'[d][p] = IF Among(told, d, p) THEN "queued" ELSE s[d][p]
    BY <1>1, <1>2, <2>1
  <2>3. \A i \in 1..Len(told) : \E p \in Ops : told[i] = <<c, p>> /\ s[c][p] # "queued"
    <3> SUFFICES ASSUME NEW i \in 1..Len(told)
                 PROVE  \E p \in Ops : told[i] = <<c, p>> /\ s[c][p] # "queued"
      OBVIOUS
    <3>1. PICK p \in Ops : told[i] = <<c, p>> /\ op[c][p] = "waiting"
      BY <1>1 DEF Cancels
    <3>2. s[c][p] # "queued"
      BY <2>1, <3>1
    <3> QED BY <3>1, <3>2
  <2>4. /\ told \in Seq(Calls \X Ops)
        /\ \A i, j \in 1..Len(told) : told[i] = told[j] => i = j
    BY <1>1 DEF Cancels
  <2>5. QueuedOnce(s, rest)
    OBVIOUS
  <2>6. Joining(s, op', c, told)
    BY <2>2, <2>3, <2>4, Zenon DEF Joining
  <2> HIDE DEF s
  <2>7. rest \o told \in Seq(Calls \X Ops) /\ QueuedOnce(op', rest \o told)
    BY <2>5, <2>6, JoinQueue
  <2> QED BY <1>1, <2>7
<1> DEFINE won == Winner(c, o)
           left == outstanding[c] - 1
<1>7. /\ outstanding' = [outstanding EXCEPT ![c] = left]
      /\ result' = [result EXCEPT ![c] = won]
      /\ stopped' = [stopped EXCEPT ![c] = TRUE]
      /\ cookies' = [cookies EXCEPT ![c] = <<>>]
      /\ answer' = IF left = 0
                   THEN [answer EXCEPT ![c] = Outcome(won, ec'[c][won])]
                   ELSE answer
  BY DEF NthResult, LastOne
<1>8. outstanding[c] \in {1, 2} /\ (result[c] = NULL <=> outstanding[c] = 2)
  BY <1>0 DEF RaceInv, Pending, Resolved, Ops
<1>9. won \in Ops /\ won # NULL /\ (result[c] = NULL => won = o)
      /\ (result[c] # NULL => won = result[c] /\ won # o /\ op[c][won] = "resolved")
  BY <1>0, TimeoutConstants DEF Winner, TypeInv, RaceInv, Resolved
<1> HIDE DEF won
<1>10. left \in {0, 1} /\ (left = 0 <=> result[c] # NULL)
  BY <1>8
<1>11. \A d \in Calls : /\ outstanding'[d] = IF d = c THEN left ELSE outstanding[d]
                        /\ result'[d] = IF d = c THEN won ELSE result[d]
                        /\ stopped'[d] = IF d = c THEN TRUE ELSE stopped[d]
                        /\ asked'[d] = asked[d]
  BY <1>0, <1>7 DEF TypeInv
<1>12. outstanding' \in [Calls -> 0..2] /\ result' \in [Calls -> Ops \cup {NULL}]
  <2>1. left \in 0..2
    BY <1>10
  <2> HIDE DEF left
  <2> QED BY <1>0, <1>7, <1>9, <2>1 DEF TypeInv
<1>13. RaceInv'
  <2> SUFFICES ASSUME NEW d \in Calls
               PROVE  /\ outstanding'[d] = Pending(d, "em")' + Pending(d, "timer")'
                      /\ result'[d] = NULL <=> outstanding'[d] = 2
                      /\ \A p \in Ops : result'[d] = p => op'[d][p] = "resolved"
                      /\ result'[d] # NULL => stopped'[d]
                      /\ answer'[d] # NULL => outstanding'[d] = 0
                      /\ op'[d]["em"] = "idle" => op'[d]["timer"] = "idle"
    BY DEF RaceInv, Resolved
  <2>1. CASE d # c
    <3>1. \A p \in Ops : op'[d][p] = op[d][p]
      BY <1>1, <1>2, <2>1
    <3>2. answer'[d] = answer[d]
      BY <1>0, <1>7, <2>1 DEF TypeInv
    <3>3. /\ outstanding'[d] = outstanding[d] /\ result'[d] = result[d]
          /\ stopped'[d] = stopped[d]
      BY <1>11, <2>1
    <3>4. "em" \in Ops /\ "timer" \in Ops
      BY DEF Ops
    <3>5. Pending(d, "em")' = Pending(d, "em") /\ Pending(d, "timer")' = Pending(d, "timer")
      BY <3>1, <3>4 DEF Pending, Resolved
    <3>6. /\ outstanding[d] = Pending(d, "em") + Pending(d, "timer")
          /\ result[d] = NULL <=> outstanding[d] = 2
          /\ \A p \in Ops : result[d] = p => op[d][p] = "resolved"
          /\ result[d] # NULL => stopped[d]
          /\ answer[d] # NULL => outstanding[d] = 0
          /\ op[d]["em"] = "idle" => op[d]["timer"] = "idle"
      BY <1>0 DEF RaceInv, Resolved
    <3> QED BY <3>1, <3>2, <3>3, <3>4, <3>5, <3>6
  <2>2. CASE d = c
    <3>1. left = Pending(c, "em")' + Pending(c, "timer")'
      <4>1. outstanding[c] = Pending(c, "em") + Pending(c, "timer")
        BY <1>0 DEF RaceInv
      <4>2. CASE o = "em"
        <5>1. Pending(c, "em") = 1 /\ Pending(c, "em")' = 0
          BY <1>4, <4>2 DEF Pending, Resolved
        <5>2. Pending(c, "timer")' = Pending(c, "timer") /\ Pending(c, "timer") \in {0, 1}
          BY <1>5, <4>2 DEF Pending, Resolved, Ops
        <5> QED BY <4>1, <5>1, <5>2
      <4>3. CASE o = "timer"
        <5>1. Pending(c, "timer") = 1 /\ Pending(c, "timer")' = 0
          BY <1>4, <4>3 DEF Pending, Resolved
        <5>2. Pending(c, "em")' = Pending(c, "em") /\ Pending(c, "em") \in {0, 1}
          BY <1>5, <4>3 DEF Pending, Resolved, Ops
        <5> QED BY <4>1, <5>1, <5>2
      <4> QED BY <4>2, <4>3 DEF Ops
    <3>2. \A p \in Ops : result'[c] = p => op'[c][p] = "resolved"
      <4>1. op'[c][won] = "resolved"
        <5>1. CASE result[c] = NULL
          BY <1>4, <1>9, <5>1
        <5>2. CASE result[c] # NULL
          BY <1>5, <1>9, <5>2
        <5> QED BY <5>1, <5>2
      <4> QED BY <1>11, <4>1
    <3>3. answer'[c] # NULL => left = 0
      <4>1. CASE left # 0
        <5>1. answer'[c] = answer[c] /\ outstanding[c] # 0
          BY <1>7, <1>8, <4>1
        <5> QED BY <1>0, <5>1 DEF RaceInv
      <4> QED BY <4>1
    <3>4. op'[c]["em"] = "idle" => op'[c]["timer"] = "idle"
      <4>1. CASE o = "em"
        BY <1>4, <4>1
      <4>2. CASE o = "timer"
        BY <1>5, <4>2 DEF Ops
      <4> QED BY <4>1, <4>2 DEF Ops
    <3>5. outstanding'[c] = left /\ result'[c] = won /\ stopped'[c]
      BY <1>11
    <3>6. won # NULL /\ left # 2
      BY <1>9, <1>10
    <3> HIDE DEF left
    <3> QED BY <2>2, <3>1, <3>2, <3>3, <3>4, <3>5, <3>6
  <2> QED BY <2>1, <2>2
<1>14. CodeInv'
  <2> SUFFICES ASSUME NEW d \in Calls
               PROVE  /\ \A p \in Ops : op'[d][p] \in {"queued", "resolved"} => ec'[d][p] # "none"
                      /\ op'[d]["timer"] = "queued" => ec'[d]["timer"] = "canceled" \/ d \in hit
                      /\ d \in hit => op'[d]["timer"] \in {"queued", "resolved"}
                      /\ stopped'[d] => result'[d] # NULL \/ asked[d] # "never"
    BY DEF CodeInv
  <2>0. "timer" \in Ops
    BY DEF Ops
  <2>1. CASE d # c
    <3>1. \A p \in Ops : op'[d][p] = op[d][p] /\ ec'[d][p] = ec[d][p]
      BY <1>1, <1>2, <2>1
    <3>2. result'[d] = result[d] /\ stopped'[d] = stopped[d]
      BY <1>11, <2>1
    <3> QED BY <1>0, <2>0, <3>1, <3>2 DEF CodeInv
  <2>2. CASE d = c
    <3>1. ASSUME NEW p \in Ops, op'[c][p] \in {"queued", "resolved"} PROVE ec'[c][p] # "none"
      <4>1. CASE p = o \/ Among(told, c, p)
        BY <1>1, <4>1
      <4>2. CASE p # o /\ ~Among(told, c, p)
        <5>1. op'[c][p] = op[c][p] /\ ec'[c][p] = ec[c][p]
          BY <1>1, <4>2
        <5> QED BY <1>0, <3>1, <5>1 DEF CodeInv
      <4> QED BY <4>1, <4>2
    <3>2. op'[c]["timer"] = "queued" => ec'[c]["timer"] = "canceled" \/ c \in hit
      <4>1. CASE o = "timer" \/ Among(told, c, "timer")
        BY <1>1, <1>4, <2>0, <4>1
      <4>2. CASE o # "timer" /\ ~Among(told, c, "timer")
        <5>1. op'[c]["timer"] = op[c]["timer"] /\ ec'[c]["timer"] = ec[c]["timer"]
          BY <1>1, <2>0, <4>2
        <5> QED BY <1>0, <5>1 DEF CodeInv
      <4> QED BY <4>1, <4>2
    <3>3. c \in hit => op'[c]["timer"] \in {"queued", "resolved"}
      <4>1. c \in hit => op[c]["timer"] \in {"queued", "resolved"}
        BY <1>0 DEF CodeInv
      <4> QED BY <1>1, <2>0, <4>1
    <3>4. result'[c] # NULL
      BY <1>9, <1>11
    <3> QED BY <2>2, <3>1, <3>2, <3>3, <3>4
  <2> QED BY <2>1, <2>2
<1>19. InlineInv'
  <2> SUFFICES ASSUME NEW d \in Calls, kind[d] = "inline"
               PROVE  /\ op'[d]["em"] \in {"idle", "resolved"}
                      /\ ec'[d]["timer"] # "canceled"
                      /\ op'[d]["timer"] = "resolved" => d \in hit
    BY DEF InlineInv
  <2>0. "timer" \in Ops /\ "em" \in Ops
    BY DEF Ops
  <2>1. /\ op[d]["em"] \in {"idle", "resolved"} /\ ec[d]["timer"] # "canceled"
        /\ op[d]["timer"] = "resolved" => d \in hit
    BY <1>0 DEF InlineInv
  <2>2. CASE d # c
    <3>1. \A p \in Ops : op'[d][p] = op[d][p] /\ ec'[d][p] = ec[d][p]
      BY <1>1, <1>2, <2>2
    <3> QED BY <2>0, <2>1, <3>1
  <2>3. CASE d = c /\ o = "em"
    <3>1. op[c]["timer"] = "idle"
      BY <1>0, <2>1, <2>3 DEF RaceInv
    <3>2. ~Among(told, c, "timer")
      BY <1>2, <2>0, <3>1
    <3>3. op'[c]["timer"] = "idle" /\ ec'[c]["timer"] = ec[c]["timer"]
      BY <1>1, <2>0, <2>3, <3>1, <3>2
    <3> QED BY <1>4, <2>1, <2>3, <3>3
  <2>4. CASE d = c /\ o = "timer"
    <3>1. op'[c]["em"] = op[c]["em"]
      BY <1>1, <1>2, <2>0, <2>1, <2>4
    <3>2. ec'[c]["timer"] = ec[c]["timer"]
      BY <1>1, <2>4
    <3>3. c \in hit
      BY <1>0, <2>1, <2>4 DEF CodeInv
    <3> QED BY <2>1, <2>4, <3>1, <3>2, <3>3
  <2> QED BY <2>2, <2>3, <2>4 DEF Ops
<1>18. ReasonInv'
  <2> SUFFICES ASSUME NEW d \in Calls
               PROVE  IF result'[d] = NULL THEN Undecided(d)' ELSE Decided(d)'
    BY DEF ReasonInv
  <2>0. hit' = hit /\ asked' = asked /\ "timer" \in Ops /\ "em" \in Ops
    BY DEF Ops
  <2>1. CASE d # c
    <3>1. \A p \in Ops : op'[d][p] = op[d][p] /\ ec'[d][p] = ec[d][p]
      BY <1>1, <1>2, <2>1
    <3>2. result'[d] = result[d]
      BY <1>11, <2>1
    <3>3. \A p, r \in Ops : Leads(queue, d, p, r) => Leads(queue', d, p, r)
      <4>1. \A p \in Ops : ~Among(told, d, p)
        BY <1>2, <2>1
      <4>2. told \in Seq(Calls \X Ops)
        BY <1>1 DEF Cancels
      <4>3. \A p, r \in Ops : Leads(rest, d, p, r) => Leads(rest \o told, d, p, r)
        BY <4>1, <4>2, JoinLeads
      <4> QED BY <1>1, <4>3
    <3>4. IF result[d] = NULL THEN Undecided(d) ELSE Decided(d)
      BY <1>0 DEF ReasonInv
    <3>5. CASE result[d] = NULL
      BY <2>0, <3>1, <3>2, <3>3, <3>4, <3>5 DEF Undecided
    <3>6. CASE result[d] # NULL
      BY <2>0, <3>1, <3>2, <3>4, <3>6 DEF Decided
    <3> QED BY <3>5, <3>6
  <2>2. CASE d = c
    <3>1. result'[c] = won /\ won # NULL
      BY <1>9, <1>11
    <3>2. CASE result[c] = NULL
      <4>1. won = o /\ ec'[c][o] = e
        BY <1>1, <1>9, <3>2
      <4> QED BY <2>0, <2>2, <3>1, <3>2, <4>1 DEF Decided
    <3>3. CASE result[c] # NULL
      <4>1. won = result[c] /\ ec'[c][won] = ec[c][won]
        BY <1>1, <1>3, <1>9, <3>3
      <4>2. Decided(c)
        BY <1>0, <3>3 DEF ReasonInv
      <4> QED BY <2>0, <2>2, <3>1, <4>1, <4>2 DEF Decided
    <3> QED BY <3>2, <3>3
  <2> QED BY <2>1, <2>2
<1>15. ASSUME left = 0
       PROVE  /\ Outcome(won, ec'[c][won]) \in Answers
              /\ Outcome(won, ec'[c][won]).ec # "canceled"
              /\ Outcome(won, ec'[c][won]).ec = "timedout" => c \in hit \/ asked[c] = "running"
              /\ asked[c] = "running" => Outcome(won, ec'[c][won]).ec = "timedout" /\ c \notin hit
  <2> DEFINE x == ec'[c][won]
  <2>1. x \in {"none", "ok", "canceled"} /\ hit' = hit /\ asked' = asked
    BY <1>1, <1>9
  <2>2. /\ won = "em" => x = "ok" /\ asked[c] # "running"
        /\ won = "timer" => c \in hit \/ asked[c] = "running"
        /\ asked[c] = "running" => c \notin hit
    <3>1. result'[c] = won /\ result'[c] # NULL
      BY <1>9, <1>11
    <3>2. Decided(c)'
      BY <1>18, <3>1 DEF ReasonInv
    <3> QED BY <2>1, <3>1, <3>2 DEF Decided
  <2> HIDE DEF x
  <2>3. won = "em" \/ won = "timer"
    BY <1>9 DEF Ops
  <2>4. Outcome(won, x) \in Answers
    BY <2>2, <2>3 DEF Outcome, Answers, Ops
  <2>5. /\ Outcome(won, x).ec # "canceled"
        /\ Outcome(won, x).ec = "timedout" => c \in hit \/ asked[c] = "running"
        /\ asked[c] = "running" => Outcome(won, x).ec = "timedout" /\ c \notin hit
    BY <2>2, <2>3 DEF Outcome
  <2> QED BY <2>4, <2>5 DEF x
<1>16. answer' \in [Calls -> Answers \cup {NULL}]
  <2>1. answer \in [Calls -> Answers \cup {NULL}]
    BY <1>0 DEF TypeInv
  <2> HIDE DEF left
  <2> QED BY <1>7, <1>15, <2>1
<1>17. AnswerJustified'
  <2> SUFFICES ASSUME NEW d \in Calls, answer'[d] # NULL
               PROVE  /\ answer'[d].ec # "canceled"
                      /\ answer'[d].ec = "timedout" => d \in hit \/ asked[d] = "running"
                      /\ asked[d] = "running" => answer'[d].ec = "timedout" /\ d \notin hit
    <3>1. hit' = hit /\ asked' = asked /\ kind' = kind
      OBVIOUS
    <3>2. ASSUME NEW d \in Calls, answer'[d] # NULL, kind[d] = "inline" PROVE d \in hit
      <4>1. outstanding'[d] = 0 /\ outstanding'[d] = Pending(d, "em")' + Pending(d, "timer")'
        BY <1>13, <3>2 DEF RaceInv
      <4>2. Pending(d, "em")' \in {0, 1} /\ Pending(d, "timer")' \in {0, 1}
        BY DEF Pending
      <4>3. Pending(d, "timer")' = 0
        BY <4>1, <4>2
      <4>4. op'[d]["timer"] = "resolved"
        BY <4>3 DEF Pending, Resolved
      <4> QED BY <1>19, <3>1, <3>2, <4>4 DEF InlineInv
    <3> QED BY <3>1, <3>2 DEF AnswerJustified
  <2>0. answer \in [Calls -> Answers \cup {NULL}]
    BY <1>0 DEF TypeInv
  <2>1. CASE left = 0 /\ d = c
    <3>1. answer'[d] = Outcome(won, ec'[c][won])
      BY <1>7, <2>0, <2>1
    <3> QED BY <1>15, <2>1, <3>1
  <2>2. CASE ~(left = 0 /\ d = c)
    <3>1. answer'[d] = answer[d]
      BY <1>7, <2>0, <2>2
    <3> QED BY <1>0, <3>1 DEF AnswerJustified
  <2> QED BY <2>1, <2>2
<1> HIDE DEF left
<1> QED BY <1>1, <1>4, <1>5, <1>6, <1>7, <1>12, <1>13, <1>14, <1>16, <1>17, <1>18, <1>19 DEF RaceAfter

\* With the signals in order, that is the whole invariant.
LEMMA RaceStep ==
    ASSUME Inv, NEW c \in Calls, NEW o \in Ops, RaceAfter(c, o), StartInv', PoolInv',
           \A d \in Calls, p \in Ops : d # c => ticket'[d][p] = ticket[d][p],
           ticket' \in [Calls -> [Ops -> Signals \cup {NULL}]], objects' \in Seq(Signals),
           starting' \in Calls \cup {NULL}, UNCHANGED <<kind, hit, asked>>
    PROVE  Inv'
<1>0. TypeInv /\ CookieInv /\ HearInv
  BY DEF Inv
<1>1. \A d \in Calls : /\ cookies'[d] = IF d = c THEN <<>> ELSE cookies[d]
                       /\ stopped'[d] = IF d = c THEN TRUE ELSE stopped[d]
  BY <1>0 DEF RaceAfter, TypeInv
<1>2. cookies' \in [Calls -> Seq(Signals)] /\ stopped' \in [Calls -> BOOLEAN]
  BY <1>0 DEF RaceAfter, TypeInv
<1>3. CookieInv'
  <2>1. ASSUME NEW d \in Calls, d # c PROVE OwnedBy(ticket'[d], cookies[d])
    <3>1. \A p \in Ops : ticket[d][p] # NULL => ticket'[d][p] = ticket[d][p]
      BY <2>1
    <3>2. cookies[d] \in Seq(Signals) /\ OwnedBy(ticket[d], cookies[d])
      BY <1>0 DEF TypeInv, CookieInv, OwnSignals
    <3> QED BY <3>1, <3>2, StillOwned
  <2>2. OwnedBy(ticket'[c], <<>>)
    BY DEF OwnedBy
  <2> QED BY <1>0, <1>1, <2>1, <2>2 DEF CookieInv, OwnSignals
<1>4. TypeInv'
  BY <1>0, <1>2 DEF TypeInv, RaceAfter
<1>5. HearInv'
  <2> SUFFICES ASSUME NEW d \in Calls, ~stopped'[d], op'[d]["timer"] # "idle"
               PROVE  cookies'[d] # <<>> /\ cookies'[d][1] = ticket'[d]["timer"]
    BY DEF HearInv
  <2>1. d # c /\ "timer" \in Ops
    BY <1>1 DEF Ops
  <2>2. op[d]["timer"] # "idle" /\ ticket'[d]["timer"] = ticket[d]["timer"]
    BY <2>1 DEF RaceAfter
  <2> QED BY <1>0, <1>1, <2>1, <2>2 DEF HearInv
<1> QED BY <1>3, <1>4, <1>5 DEF Inv, RaceAfter

-----------------------------------------------------------------------------
\* Registering the callback of a half that has just been lent a signal.
LEMMA RegisterOwned ==
    ASSUME NEW mine, NEW now, NEW cks \in Seq(Signals), OwnedBy(mine, cks),
           \A p \in Ops : mine[p] # NULL => now[p] = mine[p],
           NEW o \in Ops, now[o] \in Signals, \A p \in Ops : mine[p] # now[o]
    PROVE  <<now[o]>> \o cks \in Seq(Signals) /\ OwnedBy(now, <<now[o]>> \o cks)
<1> DEFINE all == <<now[o]>> \o cks
<1>1. /\ all \in Seq(Signals) /\ Len(all) = Len(cks) + 1 /\ Len(cks) \in Nat
      /\ all[1] = now[o] /\ \A i \in 2..Len(all) : all[i] = cks[i - 1]
  OBVIOUS
<1>2. OwnedBy(now, cks)
  BY StillOwned
<1>3. \A i \in 1..Len(cks) : cks[i] # now[o]
  BY DEF OwnedBy
<1> HIDE DEF all
<1>4. \A i \in 1..Len(all) : i = 1 \/ (i \in 2..Len(all) /\ i - 1 \in 1..Len(cks))
  BY <1>1
<1>5. \A i \in 1..Len(all) : \E p \in Ops : all[i] = now[p]
  BY <1>1, <1>2, <1>4 DEF OwnedBy
<1>6. ASSUME NEW i \in 1..Len(all), NEW j \in 1..Len(all), all[i] = all[j]
      PROVE  i = j
  <2>1. CASE i = 1
    BY <1>1, <1>3, <1>4, <1>6, <2>1
  <2>2. CASE j = 1
    BY <1>1, <1>3, <1>4, <1>6, <2>2
  <2>3. CASE i # 1 /\ j # 1
    <3>1. i - 1 = j - 1
      BY <1>1, <1>2, <1>4, <1>6, <2>3 DEF OwnedBy
    <3> QED BY <1>1, <3>1
  <2> QED BY <2>1, <2>2, <2>3
<1> QED BY <1>1, <1>5, <1>6 DEF OwnedBy, all

\* A step after which the same halves have resolved keeps the race in order.
LEMMA RaceKept ==
    ASSUME RaceInv,
           \A d \in Calls, p \in Ops : op'[d][p] = "resolved" <=> op[d][p] = "resolved",
           \A d \in Calls : op'[d]["em"] = "idle" => op'[d]["timer"] = "idle",
           UNCHANGED <<outstanding, result, answer>>,
           \A d \in Calls : stopped[d] => stopped'[d]
    PROVE  RaceInv'
<1> SUFFICES ASSUME NEW d \in Calls
             PROVE  /\ outstanding[d] = Pending(d, "em")' + Pending(d, "timer")'
                    /\ result[d] = NULL <=> outstanding[d] = 2
                    /\ \A p \in Ops : result[d] = p => op'[d][p] = "resolved"
                    /\ result[d] # NULL => stopped'[d]
                    /\ answer[d] # NULL => outstanding[d] = 0
  BY DEF RaceInv, Resolved
<1>1. "em" \in Ops /\ "timer" \in Ops
  BY DEF Ops
<1>2. Pending(d, "em")' = Pending(d, "em") /\ Pending(d, "timer")' = Pending(d, "timer")
  BY <1>1 DEF Pending, Resolved
<1> QED BY <1>2 DEF RaceInv, Resolved

\* A half is started: it is lent a signal and, unless em is deaf or the race has
\* been stopped, registers its callback.
LEMMA StartStep ==
    ASSUME Inv, NEW c \in Calls, NEW o \in Ops, op[c][o] = "idle", Checkout(c, o),
           op' = [op EXCEPT ![c][o] = "waiting"],
           cookies' = cookies \/ cookies' = RegisterStop(c, o),
           o = "timer" => cookies' = RegisterStop(c, o),
           o = "em" => kind[c] # "inline",
           starting' \in Calls \cup {NULL},
           \A d \in Calls : starting' = d <=> d = c /\ o = "em",
           \A d \in Calls : starting = d => d = c /\ o = "timer",
           o = "em" \/ op[c]["em"] # "idle",
           UNCHANGED <<kind, ec, stopped, outstanding, result, answer, queue, hit, asked>>
    PROVE  Inv'
<1>0. TypeInv /\ PoolInv /\ CookieInv /\ QueuedOnce(op, queue) /\ RaceInv /\ StartInv
      /\ HearInv /\ CodeInv /\ InlineInv /\ ReasonInv /\ AnswerJustified
  BY DEF Inv
<1>1. /\ op' \in [Calls -> [Ops -> OpStates]]
      /\ ticket' \in [Calls -> [Ops -> Signals \cup {NULL}]]
      /\ objects' \in Seq(Signals)
      /\ PoolInv'
      /\ ticket'[c][o] \in Signals
      /\ \A d \in Calls, p \in Ops : ticket[d][p] # ticket'[c][o]
      /\ \A d \in Calls, p \in Ops : d # c \/ p # o => ticket'[d][p] = ticket[d][p]
      /\ \A d \in Calls, p \in Ops :
            op'[d][p] = IF d = c /\ p = o THEN "waiting" ELSE op[d][p]
  BY <1>0, CheckoutStep
<1>2. ticket[c][o] = NULL
  BY <1>0 DEF PoolInv
<1>3. cookies' \in [Calls -> Seq(Signals)] /\ CookieInv'
  <2>1. \A d \in Calls, p \in Ops : ticket[d][p] # NULL => ticket'[d][p] = ticket[d][p]
    BY <1>1, <1>2
  <2>2. \A d \in Calls : /\ cookies[d] \in Seq(Signals) /\ OwnedBy(ticket[d], cookies[d])
                         /\ stopped[d] => cookies[d] = <<>>
    BY <1>0 DEF CookieInv, TypeInv, OwnSignals
  <2>3. \A d \in Calls : OwnedBy(ticket'[d], cookies[d])
    BY <2>1, <2>2, StillOwned
  <2>4. CASE cookies' = cookies
    BY <1>0, <2>2, <2>3, <2>4 DEF CookieInv, OwnSignals, TypeInv
  <2>5. CASE cookies' # cookies
    <3> DEFINE all == <<ticket'[c][o]>> \o cookies[c]
    <3>1. cookies' = [cookies EXCEPT ![c] = all] /\ ~stopped[c]
      BY <2>5 DEF RegisterStop
    <3>2. all \in Seq(Signals) /\ OwnedBy(ticket'[c], all)
      <4> DEFINE mine == ticket[c]  now == ticket'[c]  cks == cookies[c]
      <4>1. /\ cks \in Seq(Signals) /\ OwnedBy(mine, cks) /\ now[o] \in Signals
            /\ \A p \in Ops : mine[p] # NULL => now[p] = mine[p]
            /\ \A p \in Ops : mine[p] # now[o]
        BY <1>1, <2>1, <2>2
      <4> HIDE DEF mine, now, cks
      <4>2. <<now[o]>> \o cks \in Seq(Signals) /\ OwnedBy(now, <<now[o]>> \o cks)
        BY <4>1, RegisterOwned
      <4> QED BY <4>2 DEF mine, now, cks
    <3> HIDE DEF all
    <3>3. \A d \in Calls : cookies'[d] = IF d = c THEN all ELSE cookies[d]
      BY <1>0, <3>1 DEF TypeInv
    <3>4. cookies' \in [Calls -> Seq(Signals)]
      BY <1>0, <3>1, <3>2 DEF TypeInv
    <3> QED BY <2>2, <2>3, <3>1, <3>2, <3>3, <3>4 DEF CookieInv, OwnSignals
  <2> QED BY <2>4, <2>5
<1>4. QueuedOnce(op', queue')
  <2>1. \A d \in Calls, p \in Ops : op'[d][p] = "queued" <=> op[d][p] = "queued"
    BY <1>1
  <2>2. QueuedOnce(op', queue)
    BY <1>0, <2>1, Zenon DEF QueuedOnce
  <2> QED BY <2>2
<1>5. RaceInv'
  <2>1. \A d \in Calls, p \in Ops : op'[d][p] = "resolved" <=> op[d][p] = "resolved"
    BY <1>1
  <2>2. \A d \in Calls : op'[d]["em"] = "idle" => op'[d]["timer"] = "idle"
    BY <1>0, <1>1 DEF RaceInv, Ops
  <2> QED BY <1>0, <2>1, <2>2, RaceKept
<1>9. StartInv'
  BY <1>0, <1>1 DEF RaceInv, StartInv, Ops
<1>10. HearInv'
  <2> SUFFICES ASSUME NEW d \in Calls, ~stopped[d], op'[d]["timer"] # "idle"
               PROVE  cookies'[d] # <<>> /\ cookies'[d][1] = ticket'[d]["timer"]
    BY DEF HearInv
  <2>0. "timer" \in Ops /\ "em" \in Ops
    BY DEF Ops
  <2>1. CASE d # c
    <3>1. cookies'[d] = cookies[d]
      BY <1>0, <2>1 DEF RegisterStop, TypeInv
    <3>2. op[d]["timer"] # "idle" /\ ticket'[d]["timer"] = ticket[d]["timer"]
      BY <1>1, <2>0, <2>1
    <3> QED BY <1>0, <3>1, <3>2 DEF HearInv
  <2>2. CASE d = c /\ o = "timer"
    <3> DEFINE x == ticket'[c]["timer"]
    <3>1. cookies' = [cookies EXCEPT ![c] = <<x>> \o @] /\ x \in Signals
      BY <1>1, <2>2 DEF RegisterStop
    <3> HIDE DEF x
    <3>2. cookies'[c] = <<x>> \o cookies[c] /\ cookies[c] \in Seq(Signals)
      BY <1>0, <3>1 DEF TypeInv
    <3>3. <<x>> \o cookies[c] # <<>> /\ (<<x>> \o cookies[c])[1] = x
      BY <3>1, <3>2
    <3> QED BY <2>2, <3>2, <3>3 DEF x
  <2>3. CASE d = c /\ o = "em"
    BY <1>0, <1>1, <2>0, <2>3 DEF RaceInv
  <2> QED BY <2>1, <2>2, <2>3 DEF Ops
<1>11. CodeInv'
  <2>1. c \in hit => op[c]["timer"] # "idle"
    BY <1>0 DEF CodeInv
  <2> QED BY <1>0, <1>1, <2>1 DEF CodeInv, Ops
<1>12. InlineInv'
  <2>1. kind' = kind /\ ec' = ec /\ hit' = hit
    OBVIOUS
  <2>2. \A d \in Calls : kind[d] = "inline" => op'[d]["em"] = op[d]["em"]
    BY <1>1 DEF Ops
  <2>3. \A d \in Calls : op'[d]["timer"] = "resolved" => op[d]["timer"] = "resolved"
    BY <1>1 DEF Ops
  <2> QED BY <1>0, <2>1, <2>2, <2>3 DEF InlineInv
<1>6. ReasonInv'
  <2> SUFFICES ASSUME NEW d \in Calls
               PROVE  IF result[d] = NULL THEN Undecided(d)' ELSE Decided(d)'
    BY DEF ReasonInv
  <2>1. IF result[d] = NULL THEN Undecided(d) ELSE Decided(d)
    BY <1>0 DEF ReasonInv
  <2>2. /\ op[d]["timer"] = "queued" => op'[d]["timer"] = "queued"
        /\ op[d]["em"] = "queued" => op'[d]["em"] = "queued"
    BY <1>1 DEF Ops
  <2> QED BY <2>1, <2>2 DEF Undecided, Decided
<1>7. AnswerJustified'
  BY <1>0 DEF AnswerJustified
<1>8. TypeInv'
  BY <1>0, <1>1, <1>3 DEF TypeInv
<1> QED BY <1>1, <1>3, <1>4, <1>5, <1>6, <1>7, <1>8, <1>9, <1>10, <1>11, <1>12 DEF Inv

\* Asio finds that a waiting half is done, and queues its completion.
LEMMA FinishStep ==
    ASSUME Inv, NEW c \in Calls, NEW o \in Ops, op[c][o] = "waiting", starting = NULL,
           op' = [op EXCEPT ![c][o] = "queued"], ec' = [ec EXCEPT ![c][o] = "ok"],
           queue' = Append(queue, <<c, o>>),
           hit' = IF o = "timer" THEN hit \cup {c} ELSE hit,
           UNCHANGED <<kind, starting, poolVars, raceVars, asked>>
    PROVE  Inv'
<1>0. TypeInv /\ PoolInv /\ CookieInv /\ QueuedOnce(op, queue) /\ RaceInv /\ StartInv
      /\ HearInv /\ CodeInv /\ InlineInv /\ ReasonInv /\ AnswerJustified
  BY DEF Inv
<1>a. UNCHANGED <<ticket, objects, cookies, stopped, outstanding, result, answer>>
  BY DEF poolVars, raceVars
<1>1. /\ op' \in [Calls -> [Ops -> OpStates]]
      /\ \A d \in Calls, p \in Ops :
            op'[d][p] = IF d = c /\ p = o THEN "queued" ELSE op[d][p]
  BY <1>0 DEF TypeInv, OpStates
<1>2. /\ ec' \in [Calls -> [Ops -> {"none", "ok", "canceled"}]]
      /\ \A d \in Calls, p \in Ops :
            ec'[d][p] = IF d = c /\ p = o THEN "ok" ELSE ec[d][p]
  BY <1>0 DEF TypeInv
<1>3. queue' \in Seq(Calls \X Ops) /\ QueuedOnce(op', queue')
  <2> DEFINE told == <<<<c, o>>>>
  <2>1. told \in Seq(Calls \X Ops) /\ Len(told) = 1 /\ told[1] = <<c, o>>
    OBVIOUS
  <2>2. queue \in Seq(Calls \X Ops)
    BY <1>0 DEF TypeInv
  <2>3. queue' = queue \o told
    <3> DEFINE h == <<c, o>>  S == Calls \X Ops
    <3>1. h \in S /\ queue \in Seq(S) /\ queue' = Append(queue, h)
      BY <2>2
    <3> HIDE DEF h, S
    <3>2. queue' = queue \o <<h>>
      BY <3>1, AppendIsConcat
    <3> QED BY <3>2 DEF h
  <2> HIDE DEF told
  <2>4. \A d \in Calls, p \in Ops : Among(told, d, p) <=> d = c /\ p = o
    BY <2>1 DEF Among
  <2>5. Joining(op, op', c, told)
    BY <1>1, <2>1, <2>4 DEF Joining
  <2>6. queue \o told \in Seq(Calls \X Ops) /\ QueuedOnce(op', queue \o told)
    BY <1>0, <2>2, <2>5, JoinQueue
  <2> QED BY <2>3, <2>6
<1>4. PoolInv'
  BY <1>0, <1>a, <1>1 DEF PoolInv
<1>5. CookieInv'
  BY <1>0, <1>a DEF CookieInv, OwnSignals
<1>6. RaceInv'
  <2>1. \A d \in Calls, p \in Ops : op'[d][p] = "resolved" <=> op[d][p] = "resolved"
    BY <1>1
  <2>2. \A d \in Calls : op'[d]["em"] = "idle" => op'[d]["timer"] = "idle"
    BY <1>0, <1>1 DEF RaceInv, Ops
  <2> QED BY <1>0, <1>a, <2>1, <2>2, RaceKept
<1>s. StartInv'
  BY <1>0, <1>1 DEF StartInv, Ops
<1>10. HearInv'
  BY <1>0, <1>a, <1>1 DEF HearInv, Ops
<1>11. CodeInv'
  <2> SUFFICES ASSUME NEW d \in Calls
               PROVE  /\ \A p \in Ops : op'[d][p] \in {"queued", "resolved"} => ec'[d][p] # "none"
                      /\ op'[d]["timer"] = "queued" => ec'[d]["timer"] = "canceled" \/ d \in hit'
                      /\ d \in hit' => op'[d]["timer"] \in {"queued", "resolved"}
                      /\ stopped[d] => result[d] # NULL \/ asked[d] # "never"
    BY <1>a DEF CodeInv
  <2>1. "timer" \in Ops
    BY DEF Ops
  <2> QED BY <1>0, <1>1, <1>2, <2>1 DEF CodeInv
<1>12. InlineInv'
  <2> SUFFICES ASSUME NEW d \in Calls, kind[d] = "inline"
               PROVE  /\ op'[d]["em"] \in {"idle", "resolved"}
                      /\ ec'[d]["timer"] # "canceled"
                      /\ op'[d]["timer"] = "resolved" => d \in hit'
    BY DEF InlineInv
  <2>0. "timer" \in Ops /\ "em" \in Ops /\ (d \in hit => d \in hit')
    BY DEF Ops
  <2>1. /\ op[d]["em"] \in {"idle", "resolved"} /\ ec[d]["timer"] # "canceled"
        /\ op[d]["timer"] = "resolved" => d \in hit
    BY <1>0 DEF InlineInv
  <2> QED BY <1>1, <1>2, <2>0, <2>1
<1>7. ReasonInv'
  <2> SUFFICES ASSUME NEW d \in Calls
               PROVE  IF result[d] = NULL THEN Undecided(d)' ELSE Decided(d)'
    BY <1>a DEF ReasonInv
  <2>0. "timer" \in Ops /\ "em" \in Ops
    BY DEF Ops
  <2>1. IF result[d] = NULL THEN Undecided(d) ELSE Decided(d)
    BY <1>0 DEF ReasonInv
  <2>2. \A p, r \in Ops : (d # c \/ p # o) /\ Leads(queue, d, p, r) => Leads(queue', d, p, r)
    <3> SUFFICES ASSUME NEW p \in Ops, NEW r \in Ops, d # c \/ p # o, Leads(queue, d, p, r)
                 PROVE  Leads(queue', d, p, r)
      OBVIOUS
    <3> DEFINE h == <<c, o>>  S == Calls \X Ops  told == <<h>>
    <3>1. h \in S /\ queue \in Seq(S) /\ queue' = Append(queue, h)
      BY <1>0 DEF TypeInv
    <3>2. queue' = queue \o told
      <4> HIDE DEF h, S
      <4> QED BY <3>1, AppendIsConcat
    <3>3. told \in Seq(Calls \X Ops) /\ ~Among(told, d, p)
      BY DEF Among
    <3> QED BY <3>1, <3>2, <3>3, JoinLeads
  <2>3. CASE d # c
    <3>1. /\ \A p \in Ops : op'[d][p] = op[d][p] /\ ec'[d][p] = ec[d][p]
          /\ d \in hit' <=> d \in hit
      BY <1>1, <1>2, <2>3
    <3>2. CASE result[d] = NULL
      BY <1>a, <2>0, <2>1, <2>2, <2>3, <3>1, <3>2 DEF Undecided
    <3>3. CASE result[d] # NULL
      BY <1>a, <2>0, <2>1, <3>1, <3>3 DEF Decided
    <3> QED BY <3>2, <3>3
  <2>4. CASE d = c /\ result[c] = NULL
    <3>1. Undecided(c)
      BY <2>1, <2>4
    <3>2. CASE o = "timer"
      <4>1. op[c]["timer"] # "queued" /\ ec'[c]["timer"] = "ok" /\ ec'[c]["em"] = ec[c]["em"]
        BY <1>2, <2>0, <3>2
      <4> QED BY <2>4, <3>1, <4>1 DEF Undecided
    <3>3. CASE o = "em"
      <4>1. /\ op[c]["em"] # "queued" /\ ec'[c]["em"] = "ok"
            /\ ec'[c]["timer"] = ec[c]["timer"] /\ op'[c]["timer"] = op[c]["timer"]
            /\ hit' = hit /\ "timer" # o
        BY <1>1, <1>2, <2>0, <3>3
      <4>2. Leads(queue, c, "timer", "em") => Leads(queue', c, "timer", "em")
        BY <2>0, <2>2, <2>4, <4>1
      <4> QED BY <2>4, <3>1, <4>1, <4>2 DEF Undecided
    <3> QED BY <3>2, <3>3 DEF Ops
  <2>5. CASE d = c /\ result[c] # NULL
    <3>1. Decided(c) /\ result[c] \in Ops
      BY <1>0, <2>1, <2>5 DEF TypeInv
    <3>2. op[c][result[c]] = "resolved"
      BY <1>0, <3>1 DEF RaceInv, Resolved
    <3>3. CASE o = "timer"
      <4>1. result[c] = "em" /\ asked[c] # "running" /\ ec'[c]["em"] = ec[c]["em"]
        BY <1>2, <2>0, <3>1, <3>2, <3>3 DEF Decided, Ops
      <4> QED BY <1>a, <2>5, <3>1, <4>1 DEF Decided
    <3>4. CASE o = "em"
      <4>1. result[c] = "timer" /\ hit' = hit
        BY <2>0, <3>1, <3>2, <3>4 DEF Ops
      <4> QED BY <1>a, <2>5, <3>1, <4>1 DEF Decided
    <3> QED BY <3>3, <3>4 DEF Ops
  <2> QED BY <2>3, <2>4, <2>5
<1>8. AnswerJustified'
  <2> SUFFICES ASSUME NEW d \in Calls, answer[d] # NULL
               PROVE  /\ answer[d].ec # "canceled"
                      /\ answer[d].ec = "timedout" => d \in hit' \/ asked[d] = "running"
                      /\ asked[d] = "running" => answer[d].ec = "timedout" /\ d \notin hit'
                      /\ kind[d] = "inline" => d \in hit'
    BY <1>a DEF AnswerJustified
  <2>1. d # c
    <3>1. answer[c] # NULL => outstanding[c] = 0
      BY <1>0 DEF RaceInv
    <3>2. Pending(c, o) = 1 /\ outstanding[c] = Pending(c, "em") + Pending(c, "timer")
      BY <1>0 DEF Pending, Resolved, RaceInv
    <3>3. Pending(c, "em") \in {0, 1} /\ Pending(c, "timer") \in {0, 1} /\ (o = "em" \/ o = "timer")
      BY DEF Pending, Ops
    <3>4. outstanding[c] # 0
      BY <3>2, <3>3
    <3> QED BY <3>1, <3>4
  <2> QED BY <1>0, <2>1 DEF AnswerJustified
<1>9. TypeInv'
  BY <1>0, <1>a, <1>1, <1>2, <1>3 DEF TypeInv
<1> QED BY <1>3, <1>4, <1>5, <1>6, <1>s, <1>7, <1>8, <1>9, <1>10, <1>11, <1>12 DEF Inv

\* The handler of R requests a stop.
LEMMA StopStep == ASSUME Inv, NEW c \in Calls, Stop(c) PROVE Inv'
<1>0. TypeInv /\ PoolInv /\ CookieInv /\ QueuedOnce(op, queue) /\ RaceInv /\ StartInv
      /\ HearInv /\ CodeInv /\ InlineInv /\ ReasonInv /\ AnswerJustified
  BY DEF Inv
<1> DEFINE told == RequestStop(c, cookies[c])
<1>a. /\ op' = Cancelled(told, op, "queued") /\ ec' = Cancelled(told, ec, "canceled")
      /\ queue' = queue \o told
      /\ UNCHANGED <<kind, starting, ticket, objects, outstanding, result, answer, hit>>
      /\ stopped' = [stopped EXCEPT ![c] = TRUE] /\ cookies' = [cookies EXCEPT ![c] = <<>>]
      /\ starting = NULL
  BY DEF Stop, poolVars
<1>b. Cancels(c, told)
  BY <1>0, RequestStopCancels DEF CookieInv, TypeInv
<1>g. stopped[c] => told = <<>>
  BY DEF RequestStop
<1>f. ~stopped[c] /\ op[c]["timer"] = "waiting" => told # <<>> /\ told[1] = <<c, "timer">>
  BY <1>0, <1>b, TimerToldFirst
<1> HIDE DEF told
<1>c. /\ asked' \in [Calls -> {"never", "early", "running", "late"}] /\ asked'[c] # "never"
      /\ \A d \in Calls : d # c => asked'[d] = asked[d]
  <2>1. asked \in [Calls -> {"never", "early", "running", "late"}]
    BY <1>0 DEF TypeInv
  <2>2. \E x \in {"early", "running", "late"} : asked' = [asked EXCEPT ![c] = x]
    BY DEF Stop
  <2> QED BY <2>1, <2>2
<1>e. /\ asked[c] = "never" /\ answer[c] = NULL
      /\ asked'[c] = "early" => op[c]["timer"] = "idle"
      /\ asked'[c] = "running" => \A o \in Ops : op[c][o] = "waiting"
      /\ asked'[c] = "late" => op[c]["timer"] # "idle" /\ \E o \in Ops : op[c][o] # "waiting"
  <2>1. asked'[c] = IF op[c]["timer"] = "idle" THEN "early"
                    ELSE IF \A o \in Ops : op[c][o] = "waiting" THEN "running" ELSE "late"
    BY <1>0 DEF Stop, TypeInv
  <2> QED BY <2>1 DEF Stop
<1>1. /\ op' \in [Calls -> [Ops -> OpStates]]
      /\ \A d \in Calls, p \in Ops :
            op'[d][p] = IF Among(told, d, p) THEN "queued" ELSE op[d][p]
  BY <1>0, <1>a DEF TypeInv, OpStates, Cancelled, Among
<1>2. /\ ec' \in [Calls -> [Ops -> {"none", "ok", "canceled"}]]
      /\ \A d \in Calls, p \in Ops :
            ec'[d][p] = IF Among(told, d, p) THEN "canceled" ELSE ec[d][p]
  BY <1>0, <1>a DEF TypeInv, Cancelled, Among
<1>d. \A d \in Calls, p \in Ops : Among(told, d, p) => d = c /\ op[c][p] = "waiting"
  BY <1>b, ToldAreWaiting
<1>3. queue' \in Seq(Calls \X Ops) /\ QueuedOnce(op', queue')
  <2>1. queue \in Seq(Calls \X Ops)
    BY <1>0 DEF TypeInv
  <2>2. \A i \in 1..Len(told) : \E p \in Ops : told[i] = <<c, p>> /\ op[c][p] # "queued"
    BY <1>b DEF Cancels
  <2>3. Joining(op, op', c, told)
    BY <1>b, <1>1, <2>2 DEF Joining, Cancels
  <2>4. queue \o told \in Seq(Calls \X Ops) /\ QueuedOnce(op', queue \o told)
    BY <1>0, <2>1, <2>3, JoinQueue
  <2> QED BY <1>a, <2>4
<1>4. PoolInv'
  <2>1. \A d \in Calls, p \in Ops :
           op'[d][p] \in {"waiting", "queued"} <=> op[d][p] \in {"waiting", "queued"}
    BY <1>1, <1>d
  <2> QED BY <1>0, <1>a, <2>1 DEF PoolInv
<1>5. cookies' \in [Calls -> Seq(Signals)] /\ stopped' \in [Calls -> BOOLEAN] /\ CookieInv'
  <2>1. \A d \in Calls : /\ cookies'[d] = IF d = c THEN <<>> ELSE cookies[d]
                         /\ stopped'[d] = IF d = c THEN TRUE ELSE stopped[d]
    BY <1>0, <1>a DEF TypeInv
  <2>2. OwnedBy(ticket[c], <<>>)
    BY DEF OwnedBy
  <2> QED BY <1>0, <1>a, <2>1, <2>2 DEF CookieInv, OwnSignals, TypeInv
<1>6. RaceInv'
  <2>1. \A d \in Calls, p \in Ops : op'[d][p] = "resolved" <=> op[d][p] = "resolved"
    BY <1>1, <1>d
  <2>2. \A d \in Calls : op'[d]["em"] = "idle" => op'[d]["timer"] = "idle"
    BY <1>0, <1>1, <1>d DEF RaceInv, Ops
  <2>3. \A d \in Calls : stopped[d] => stopped'[d]
    BY <1>0, <1>a DEF TypeInv
  <2> QED BY <1>0, <1>a, <2>1, <2>2, <2>3, RaceKept
<1>s. StartInv'
  <2>1. \A d \in Calls, p \in Ops : op'[d][p] = "idle" <=> op[d][p] = "idle"
    BY <1>1, <1>d
  <2> QED BY <1>0, <1>a, <2>1 DEF StartInv, Ops
<1>10. HearInv'
  <2>1. \A d \in Calls : /\ cookies'[d] = IF d = c THEN <<>> ELSE cookies[d]
                         /\ stopped'[d] = IF d = c THEN TRUE ELSE stopped[d]
    BY <1>0, <1>a DEF TypeInv
  <2>2. \A d \in Calls : op'[d]["timer"] = "idle" <=> op[d]["timer"] = "idle"
    BY <1>1, <1>d DEF Ops
  <2>3. ASSUME NEW d \in Calls, ~stopped'[d], op'[d]["timer"] # "idle"
        PROVE  cookies'[d] # <<>> /\ cookies'[d][1] = ticket'[d]["timer"]
    <3>1. d # c /\ cookies'[d] = cookies[d] /\ ~stopped[d] /\ op[d]["timer"] # "idle"
      BY <2>1, <2>2, <2>3
    <3>2. cookies[d] # <<>> /\ cookies[d][1] = ticket[d]["timer"]
      BY <1>0, <3>1 DEF HearInv
    <3> QED BY <1>a, <3>1, <3>2
  <2> QED BY <2>3 DEF HearInv
<1>11. CodeInv'
  <2> SUFFICES ASSUME NEW d \in Calls
               PROVE  /\ \A p \in Ops : op'[d][p] \in {"queued", "resolved"} => ec'[d][p] # "none"
                      /\ op'[d]["timer"] = "queued" => ec'[d]["timer"] = "canceled" \/ d \in hit
                      /\ d \in hit => op'[d]["timer"] \in {"queued", "resolved"}
                      /\ stopped'[d] => result[d] # NULL \/ asked'[d] # "never"
    BY <1>a DEF CodeInv
  <2>1. "timer" \in Ops
    BY DEF Ops
  <2>2. stopped'[d] => result[d] # NULL \/ asked'[d] # "never"
    BY <1>0, <1>a, <1>c DEF CodeInv, TypeInv
  <2> QED BY <1>0, <1>1, <1>2, <2>1, <2>2 DEF CodeInv
<1>12. InlineInv'
  <2> SUFFICES ASSUME NEW d \in Calls, kind[d] = "inline"
               PROVE  /\ op'[d]["em"] \in {"idle", "resolved"}
                      /\ ec'[d]["timer"] # "canceled"
                      /\ op'[d]["timer"] = "resolved" => d \in hit
    BY <1>a DEF InlineInv
  <2>0. "timer" \in Ops /\ "em" \in Ops
    BY DEF Ops
  <2>1. /\ op[d]["em"] \in {"idle", "resolved"} /\ ec[d]["timer"] # "canceled"
        /\ op[d]["timer"] = "resolved" => d \in hit
    BY <1>0 DEF InlineInv
  <2>2. ~Among(told, d, "em")
    BY <1>d, <2>0, <2>1
  <2>3. ~Among(told, d, "timer")
    <3> SUFFICES ASSUME Among(told, d, "timer") PROVE FALSE
      OBVIOUS
    <3>1. d = c /\ op[c]["timer"] = "waiting"
      BY <1>d, <2>0
    <3>2. op[c]["em"] = "resolved"
      BY <1>0, <2>1, <3>1 DEF RaceInv
    <3>3. Pending(c, "em") = 0 /\ Pending(c, "timer") \in {0, 1}
      BY <3>2 DEF Pending, Resolved
    <3>4. outstanding[c] # 2
      BY <1>0, <3>3 DEF RaceInv
    <3>5. told = <<>>
      BY <1>0, <1>g, <3>4 DEF RaceInv
    <3> QED BY <3>5 DEF Among
  <2> QED BY <1>1, <1>2, <2>0, <2>1, <2>2, <2>3
<1>7. ReasonInv'
  <2> SUFFICES ASSUME NEW d \in Calls
               PROVE  IF result[d] = NULL THEN Undecided(d)' ELSE Decided(d)'
    BY <1>a DEF ReasonInv
  <2>0. /\ "timer" \in Ops /\ "em" \in Ops /\ queue \in Seq(Calls \X Ops)
        /\ told \in Seq(Calls \X Ops)
        /\ \A i, j \in 1..Len(told) : told[i] = told[j] => i = j
    BY <1>0, <1>b DEF Ops, TypeInv, Cancels
  <2>1. IF result[d] = NULL THEN Undecided(d) ELSE Decided(d)
    BY <1>0 DEF ReasonInv
  <2>2. \A p, r \in Ops : ~Among(told, d, p) /\ Leads(queue, d, p, r) => Leads(queue', d, p, r)
    BY <1>a, <2>0, JoinLeads
  <2>3. CASE d # c
    <3>1. /\ \A p \in Ops : ~Among(told, d, p) /\ op'[d][p] = op[d][p] /\ ec'[d][p] = ec[d][p]
          /\ asked'[d] = asked[d]
      BY <1>1, <1>2, <1>c, <1>d, <2>3
    <3>2. CASE result[d] = NULL
      BY <1>a, <2>0, <2>1, <2>2, <3>1, <3>2 DEF Undecided
    <3>3. CASE result[d] # NULL
      BY <1>a, <2>0, <2>1, <3>1, <3>3 DEF Decided
    <3> QED BY <3>2, <3>3
  <2>4. CASE d = c /\ result[c] = NULL
    <3>1. Undecided(c)
      BY <2>1, <2>4
    <3>2. \A p \in Ops : op[c][p] # "resolved"
      <4>1. outstanding[c] = 2 /\ outstanding[c] = Pending(c, "em") + Pending(c, "timer")
        BY <1>0, <2>4 DEF RaceInv
      <4>2. Pending(c, "em") \in {0, 1} /\ Pending(c, "timer") \in {0, 1}
        BY DEF Pending
      <4>3. Pending(c, "em") = 1 /\ Pending(c, "timer") = 1
        BY <4>1, <4>2
      <4> QED BY <4>3 DEF Pending, Resolved, Ops
    <3>3. \A p, r \in Ops : op[c][r] # "queued" => Leads(queue, c, p, r)
      BY <1>0, AbsentFollows
    <3>4. CASE asked'[c] = "running"
      <4>1. op[c]["timer"] = "waiting" /\ op[c]["em"] = "waiting"
        BY <1>e, <2>0, <3>4
      <4>2. ~stopped[c]
        BY <1>0, <1>e, <2>4 DEF CodeInv
      <4>3. told # <<>> /\ told[1] = <<c, "timer">>
        BY <1>f, <4>1, <4>2
      <4>4. Among(told, c, "timer")
        <5>1. 1 \in 1..Len(told)
          BY <2>0, <4>3
        <5> QED BY <4>3, <5>1 DEF Among
      <4>5. op'[c]["timer"] = "queued" /\ ec'[c]["timer"] = "canceled"
        BY <1>1, <1>2, <2>0, <4>4
      <4>6. c \notin hit'
        BY <1>0, <1>a, <4>1 DEF CodeInv
      <4>7. Leads(queue', c, "timer", "em")
        <5>1. \A p \in Ops : op[c][p] # "queued"
          BY <1>e, <3>4
        <5> QED BY <1>0, <1>a, <2>0, <4>3, <5>1, FirstLeads
      <4> QED BY <2>4, <3>4, <4>5, <4>6, <4>7 DEF Undecided
    <3>5. CASE asked'[c] = "early"
      <4>1. op[c]["timer"] = "idle" /\ op[c]["em"] = "idle"
        BY <1>0, <1>a, <1>e, <3>5, TimeoutConstants DEF StartInv
      <4>2. ~Among(told, c, "timer") /\ ~Among(told, c, "em")
        BY <1>d, <2>0, <4>1
      <4>3. ec'[c]["timer"] = ec[c]["timer"] /\ ec'[c]["em"] = ec[c]["em"]
        BY <1>2, <2>0, <4>2
      <4>4. ec[c]["em"] # "canceled" /\ ec[c]["timer"] # "canceled"
        BY <1>e, <3>1, <4>1 DEF Undecided
      <4> QED BY <2>4, <3>5, <4>3, <4>4 DEF Undecided
    <3>6. CASE asked'[c] = "late"
      <4>1. op[c]["timer"] \in {"waiting", "queued"} /\ op[c]["em"] \in {"waiting", "queued"}
        BY <1>0, <1>e, <2>0, <3>2, <3>6 DEF TypeInv, OpStates, RaceInv
      <4>2. op[c]["timer"] = "queued" \/ op[c]["em"] = "queued"
        BY <1>e, <3>6, <4>1 DEF Ops
      <4>3. ASSUME ec'[c]["em"] = "canceled"
            PROVE  op'[c]["timer"] = "queued" /\ Leads(queue', c, "timer", "em")
        <5>1. op[c]["timer"] = "queued" /\ Leads(queue, c, "timer", "em")
          <6>1. CASE Among(told, c, "em")
            <7>1. op[c]["em"] = "waiting"
              BY <1>d, <2>0, <6>1
            <7> QED BY <2>0, <3>3, <4>2, <7>1
          <6>2. CASE ~Among(told, c, "em")
            BY <1>2, <2>0, <3>1, <4>3, <6>2 DEF Undecided
          <6> QED BY <6>1, <6>2
        <5>2. ~Among(told, c, "timer")
          BY <1>d, <2>0, <5>1
        <5> QED BY <1>1, <2>0, <2>2, <2>4, <5>1, <5>2
      <4>4. ASSUME ec'[c]["timer"] = "canceled"
            PROVE  op'[c]["em"] = "queued" /\ Leads(queue', c, "em", "timer")
        <5>1. op[c]["em"] = "queued" /\ Leads(queue, c, "em", "timer")
          <6>1. CASE Among(told, c, "timer")
            <7>1. op[c]["timer"] = "waiting"
              BY <1>d, <2>0, <6>1
            <7> QED BY <2>0, <3>3, <4>2, <7>1
          <6>2. CASE ~Among(told, c, "timer")
            BY <1>2, <1>e, <2>0, <3>1, <4>4, <6>2 DEF Undecided
          <6> QED BY <6>1, <6>2
        <5>2. ~Among(told, c, "em")
          BY <1>d, <2>0, <5>1
        <5> QED BY <1>1, <2>0, <2>2, <2>4, <5>1, <5>2
      <4> QED BY <2>4, <3>6, <4>3, <4>4 DEF Undecided
    <3> QED BY <1>c, <3>4, <3>5, <3>6
  <2>5. CASE d = c /\ result[c] # NULL
    <3>1. Decided(c) /\ result[c] \in Ops
      BY <1>0, <2>1, <2>5 DEF TypeInv
    <3>2. op[c][result[c]] = "resolved"
      BY <1>0, <3>1 DEF RaceInv, Resolved
    <3>3. asked'[c] # "running" /\ asked[c] # "running"
      BY <1>e, <3>1, <3>2
    <3>4. ~Among(told, c, result[c])
      BY <1>d, <3>1, <3>2
    <3>5. ec'[c][result[c]] = ec[c][result[c]]
      BY <1>2, <3>1, <3>4
    <3> QED BY <1>a, <2>5, <3>1, <3>3, <3>5 DEF Decided
  <2> QED BY <2>3, <2>4, <2>5
<1>8. AnswerJustified'
  <2> SUFFICES ASSUME NEW d \in Calls, answer[d] # NULL
               PROVE  /\ answer[d].ec # "canceled"
                      /\ answer[d].ec = "timedout" => d \in hit \/ asked'[d] = "running"
                      /\ asked'[d] = "running" => answer[d].ec = "timedout" /\ d \notin hit
                      /\ kind[d] = "inline" => d \in hit
    BY <1>a DEF AnswerJustified
  <2>1. d # c
    BY <1>e
  <2> QED BY <1>0, <1>c, <2>1 DEF AnswerJustified
<1>9. TypeInv'
  BY <1>0, <1>a, <1>c, <1>1, <1>2, <1>3, <1>5 DEF TypeInv
<1> QED BY <1>3, <1>4, <1>5, <1>6, <1>s, <1>7, <1>8, <1>9, <1>10, <1>11, <1>12 DEF Inv

\* Every step keeps the invariant.
LEMMA InvStep == Inv /\ [Next]_vars => Inv'
<1> SUFFICES ASSUME Inv, [Next]_vars PROVE Inv' OBVIOUS
<1>0. TypeInv /\ PoolInv /\ CookieInv /\ QueuedOnce(op, queue) /\ RaceInv /\ StartInv
      /\ HearInv /\ CodeInv /\ InlineInv /\ ReasonInv /\ AnswerJustified
  BY DEF Inv
<1>a. "em" \in Ops /\ "timer" \in Ops
  BY DEF Ops
<1>1. ASSUME NEW c \in Calls, StartEm(c), kind[c] = "inline" PROVE Inv'
  <2> DEFINE s == [op EXCEPT ![c]["em"] = "resolved"]
  <2>1. /\ NthResult(c, "em", "ok", queue, cookies[c]) /\ starting' = c
        /\ UNCHANGED <<kind, hit, asked, ticket, objects>>
        /\ op[c]["em"] = "idle"
    BY <1>1 DEF StartEm, poolVars
  <2>2. \A d \in Calls, p \in Ops : s[d][p] = "queued" <=> op[d][p] = "queued"
    BY <1>0, <2>1 DEF TypeInv
  <2>3. QueuedOnce(s, queue)
    <3> HIDE DEF s
    <3> QED BY <1>0, <2>2, Zenon DEF QueuedOnce
  <2>4. /\ cookies[c] \in Seq(Signals) /\ OwnSignals(c, cookies[c])
        /\ stopped[c] => cookies[c] = <<>>
        /\ queue \in Seq(Calls \X Ops) /\ "ok" \in {"ok", "canceled"}
    BY <1>0 DEF TypeInv, CookieInv
  <2>5. RaceAfter(c, "em")
    <3>1. op[c]["timer"] = "idle"
      BY <1>0, <2>1 DEF RaceInv
    <3>2. result[c] = NULL /\ c \notin hit
      <4>1. Pending(c, "em") = 1 /\ Pending(c, "timer") = 1
        BY <2>1, <3>1 DEF Pending, Resolved
      <4>2. outstanding[c] = 2
        BY <1>0, <4>1 DEF RaceInv
      <4> QED BY <1>0, <3>1, <4>2 DEF RaceInv, CodeInv
    <3>3. asked[c] # "running"
      BY <1>0, <3>1, <3>2 DEF ReasonInv, Undecided
    <3>4. "em" # "timer"
      OBVIOUS
    <3> QED BY <1>a, <2>1, <2>3, <2>4, <3>2, <3>3, <3>4, NthResultStep
  <2>6. StartInv'
    <3>1. op'[c]["timer"] = "idle" /\ op'[c]["em"] # "idle"
      BY <1>0, <1>a, <2>1, <2>5 DEF RaceAfter, RaceInv
    <3>2. \A d \in Calls, p \in Ops : d # c => (op'[d][p] = "idle" <=> op[d][p] = "idle")
      BY <2>5 DEF RaceAfter
    <3>3. starting = NULL
      BY <1>1 DEF StartEm
    <3> QED BY <1>0, <1>a, <2>1, <3>1, <3>2, <3>3, TimeoutConstants DEF StartInv
  <2>7. PoolInv'
    <3>1. \A d \in Calls, p \in Ops :
             op'[d][p] \in {"waiting", "queued"} <=> op[d][p] \in {"waiting", "queued"}
      BY <2>1, <2>5 DEF RaceAfter
    <3> QED BY <1>0, <2>1, <3>1 DEF PoolInv
  <2>8. \A d \in Calls, p \in Ops : d # c => ticket'[d][p] = ticket[d][p]
    BY <2>1
  <2>9. ticket' \in [Calls -> [Ops -> Signals \cup {NULL}]] /\ objects' \in Seq(Signals)
    BY <1>0, <2>1 DEF TypeInv
  <2>10. starting' \in Calls \cup {NULL} /\ UNCHANGED <<kind, hit, asked>>
    BY <2>1
  <2> QED BY <1>a, <2>5, <2>6, <2>7, <2>8, <2>9, <2>10, RaceStep
<1>2. ASSUME NEW c \in Calls, StartEm(c), kind[c] # "inline" PROVE Inv'
  <2>1. /\ op[c]["em"] = "idle" /\ Checkout(c, "em")
        /\ op' = [op EXCEPT ![c]["em"] = "waiting"]
        /\ cookies' = cookies \/ cookies' = RegisterStop(c, "em")
        /\ starting' = c /\ starting = NULL
        /\ UNCHANGED <<kind, ec, stopped, outstanding, result, answer, queue, hit, asked>>
    BY <1>2 DEF StartEm
  <2>2. \A d \in Calls : starting # d
    BY <2>1, TimeoutConstants
  <2>3. (\A d \in Calls : starting' = d <=> d = c /\ "em" = "em") /\ "em" # "timer"
    BY <2>1
  <2> QED BY <1>a, <1>2, <2>1, <2>2, <2>3, StartStep
<1>3. ASSUME NEW c \in Calls, StartTimer(c) PROVE Inv'
  <2>1. /\ starting = c /\ starting' = NULL /\ Checkout(c, "timer")
        /\ op' = [op EXCEPT ![c]["timer"] = "waiting"]
        /\ cookies' = RegisterStop(c, "timer")
        /\ UNCHANGED <<kind, ec, stopped, outstanding, result, answer, queue, hit, asked>>
    BY <1>3 DEF StartTimer
  <2>2. op[c]["timer"] = "idle" /\ op[c]["em"] # "idle"
    BY <1>0, <2>1 DEF StartInv
  <2>3. (\A d \in Calls : starting' # d) /\ "timer" # "em" /\ (\A d \in Calls : starting = d => d = c)
    BY <2>1, TimeoutConstants
  <2> QED BY <1>a, <2>1, <2>2, <2>3, StartStep
<1>4. ASSUME NEW c \in Calls, Expire(c) PROVE Inv'
  <2>1. /\ op[c]["timer"] = "waiting" /\ starting = NULL
        /\ op' = [op EXCEPT ![c]["timer"] = "queued"]
        /\ ec' = [ec EXCEPT ![c]["timer"] = "ok"]
        /\ queue' = Append(queue, <<c, "timer">>)
        /\ hit' = hit \cup {c}
        /\ UNCHANGED <<kind, starting, poolVars, raceVars, asked>>
    BY <1>4 DEF Expire
  <2> QED BY <1>a, <2>1, FinishStep
<1>5. ASSUME NEW c \in Calls, EmFinishes(c) PROVE Inv'
  <2>1. /\ op[c]["em"] = "waiting" /\ starting = NULL
        /\ op' = [op EXCEPT ![c]["em"] = "queued"]
        /\ ec' = [ec EXCEPT ![c]["em"] = "ok"]
        /\ queue' = Append(queue, <<c, "em">>)
        /\ hit' = hit /\ "em" # "timer"
        /\ UNCHANGED <<kind, starting, poolVars, raceVars, asked>>
    BY <1>5 DEF EmFinishes
  <2> QED BY <1>a, <2>1, FinishStep
<1>6. CASE Dispatch
  <2>0. queue \in Seq(Calls \X Ops) /\ queue # <<>>
    BY <1>0, <1>6 DEF TypeInv, Dispatch
  <2>1. PICK c \in Calls, o \in Ops : Head(queue) = <<c, o>>
    <3>1. Head(queue) \in Calls \X Ops
      BY <2>0
    <3> QED BY <3>1
  <2>2. /\ NthResult(c, o, ec[c][o], Tail(queue), Without(cookies[c], ticket[c][o]))
        /\ Return(c, o) /\ starting = NULL
        /\ UNCHANGED <<kind, starting, hit, asked>>
    BY <1>6, <2>1 DEF Dispatch
  <2> DEFINE s == [op EXCEPT ![c][o] = "resolved"]
             cks == Without(cookies[c], ticket[c][o])
             e == ec[c][o]
  <2>3. Leaving(op, s, c, o)
    BY <1>0 DEF TypeInv, Leaving
  <2>4. Tail(queue) \in Seq(Calls \X Ops) /\ QueuedOnce(s, Tail(queue)) /\ op[c][o] = "queued"
    <3> HIDE DEF s
    <3> QED BY <1>0, <2>0, <2>1, <2>3, LeaveQueue
  <2>5. /\ cks \in Seq(Signals) /\ OwnSignals(c, cks) /\ (stopped[c] => cks = <<>>)
    <3>1. /\ cookies[c] \in Seq(Signals) /\ OwnSignals(c, cookies[c])
          /\ stopped[c] => cookies[c] = <<>>
      BY <1>0 DEF TypeInv, CookieInv
    <3>2. \A x : Without(<<>>, x) = <<>>
      BY DEF Without
    <3> QED BY <3>1, <3>2, WithoutIsOwn
  <2>6. /\ e \in {"ok", "canceled"}
        /\ result[c] = NULL /\ o = "em" => e = "ok" /\ asked[c] # "running"
        /\ result[c] = NULL /\ o = "timer" => c \in hit \/ asked[c] = "running"
        /\ asked[c] = "running" => c \notin hit
        /\ \A d \in Calls, p, r \in Ops : Leads(queue, d, p, r) => Leads(Tail(queue), d, p, r)
    <3>1. e # "none" /\ (o = "timer" => e = "canceled" \/ c \in hit)
      BY <1>0, <2>4 DEF CodeInv
    <3>2. e \in {"none", "ok", "canceled"}
      BY <1>0 DEF TypeInv
    <3>3. /\ \A p \in Ops : op[c][p] = "queued" => ~Leads(queue, c, p, o)
          /\ \A d \in Calls, p, r \in Ops : Leads(queue, d, p, r) => Leads(Tail(queue), d, p, r)
      BY <1>0, <2>0, <2>1, HeadLeads
    <3>4. IF result[c] = NULL THEN Undecided(c) ELSE Decided(c)
      BY <1>0 DEF ReasonInv
    <3>5. CASE result[c] = NULL /\ o = "em"
      BY <1>a, <3>1, <3>2, <3>3, <3>4, <3>5 DEF Undecided
    <3>6. CASE result[c] = NULL /\ o = "timer"
      BY <1>a, <3>1, <3>2, <3>3, <3>4, <3>6 DEF Undecided
    <3>7. CASE result[c] # NULL
      BY <3>1, <3>2, <3>3, <3>4, <3>7 DEF Decided
    <3> QED BY <3>5, <3>6, <3>7 DEF Ops
  <2>7. o = "em" \/ op[c]["em"] # "idle"
    BY <1>0, <2>4 DEF RaceInv, Ops
  <2>8. /\ NthResult(c, o, e, Tail(queue), cks) /\ UNCHANGED <<kind, hit, asked>>
        /\ e = ec[c][o]
    BY <2>2
  <2> HIDE DEF s, cks, e
  <2>9. RaceAfter(c, o)
    <3>1. QueuedOnce([op EXCEPT ![c][o] = "resolved"], Tail(queue))
      BY <2>4 DEF s
    <3> QED BY <2>4, <2>5, <2>6, <2>7, <2>8, <3>1, NthResultStep
  <2>10. StartInv'
    <3>1. \A d \in Calls, p \in Ops : d # c \/ p # o => (op'[d][p] = "idle" <=> op[d][p] = "idle")
      BY <2>9 DEF RaceAfter
    <3>2. op'[c][o] # "idle" /\ op[c][o] # "idle"
      BY <2>4, <2>9 DEF RaceAfter
    <3> QED BY <1>0, <1>a, <2>2, <3>1, <3>2 DEF StartInv
  <2>11. /\ ticket' \in [Calls -> [Ops -> Signals \cup {NULL}]]
         /\ objects' \in Seq(Signals)
         /\ PoolInv'
         /\ \A d \in Calls, p \in Ops :
                 ticket'[d][p] = IF d = c /\ p = o THEN NULL ELSE ticket[d][p]
    <3>1. /\ op' \in [Calls -> [Ops -> OpStates]] /\ op'[c][o] = "resolved"
          /\ \A d \in Calls, p \in Ops : d # c \/ p # o =>
                (op'[d][p] \in {"waiting", "queued"} <=> op[d][p] \in {"waiting", "queued"})
      BY <2>9 DEF RaceAfter
    <3> QED BY <1>0, <2>2, <2>4, <3>1, ReturnStep
  <2>12. \A d \in Calls, p \in Ops : d # c => ticket'[d][p] = ticket[d][p]
    BY <2>11
  <2>13. starting' \in Calls \cup {NULL} /\ UNCHANGED <<kind, hit, asked>>
    BY <1>0, <2>2 DEF TypeInv
  <2> QED BY <2>9, <2>10, <2>11, <2>12, <2>13, RaceStep
<1>7. ASSUME NEW c \in Calls, Stop(c) PROVE Inv'
  BY <1>7, StopStep
<1>8. CASE UNCHANGED vars
  <2>1. /\ UNCHANGED <<kind, starting, op, ec, ticket, objects, cookies, stopped>>
        /\ UNCHANGED <<outstanding, result, answer, queue, hit, asked>>
    BY <1>8 DEF vars, poolVars, raceVars
  <2>2. TypeInv'
    BY <1>0, <2>1 DEF TypeInv
  <2>3. PoolInv' /\ CookieInv'
    BY <1>0, <2>1 DEF PoolInv, CookieInv, OwnSignals
  <2>4. RaceInv' /\ StartInv' /\ HearInv' /\ CodeInv' /\ InlineInv'
    BY <1>0, <2>1 DEF RaceInv, Pending, Resolved, StartInv, HearInv, CodeInv, InlineInv
  <2>5. QueuedOnce(op', queue')
    BY <1>0, <2>1
  <2>6. ReasonInv' /\ AnswerJustified'
    BY <1>0, <2>1 DEF ReasonInv, Undecided, Decided, AnswerJustified
  <2> QED BY <2>2, <2>3, <2>4, <2>5, <2>6 DEF Inv
<1> QED BY <1>1, <1>2, <1>3, <1>4, <1>5, <1>6, <1>7, <1>8 DEF Next

\* The invariant of all races, signals and completions.
LEMMA Invariance == Spec => []Inv
<1>1. Init => Inv
  <2> SUFFICES ASSUME Init PROVE Inv OBVIOUS
  <2>1. TypeInv
    BY DEF Init, TypeInv, OpStates, HalvesOutstanding
  <2>2. PoolInv /\ CookieInv /\ QueuedOnce(op, queue)
    BY DEF Init, PoolInv, CookieInv, OwnSignals, OwnedBy, QueuedOnce
  <2>3. RaceInv /\ StartInv
    <3> SUFFICES ASSUME NEW c \in Calls
                 PROVE  /\ outstanding[c] = Pending(c, "em") + Pending(c, "timer")
                        /\ result[c] = NULL /\ outstanding[c] = 2 /\ answer[c] = NULL
                        /\ op[c]["em"] = "idle" /\ op[c]["timer"] = "idle" /\ starting # c
      BY TimeoutConstants DEF RaceInv, StartInv
    <3>1. Pending(c, "em") = 1 /\ Pending(c, "timer") = 1
      BY DEF Init, Pending, Resolved, Ops
    <3> QED BY <3>1, TimeoutConstants DEF Init, HalvesOutstanding, Ops
  <2>4. HearInv /\ CodeInv /\ InlineInv /\ ReasonInv /\ AnswerJustified
    BY TimeoutConstants DEF Init, HearInv, CodeInv, InlineInv, ReasonInv, Undecided, AnswerJustified, Ops
  <2> QED BY <2>1, <2>2, <2>3, <2>4 DEF Inv
<1> QED BY <1>1, InvStep, PTL DEF Spec

\* A cancellation signal of the loop's pool has one holder at a time, and is not
\* in the pool while it is lent: a stop never reaches somebody else's operation.
THEOREM OneHolder == Spec => []PoolInv
<1>1. Inv => PoolInv
  BY DEF Inv
<1> QED BY <1>1, Invariance, PTL

\* No operation completes twice, and none that Asio owes a completion is lost.
THEOREM NeverTwice == Spec => []CompletedOnce
<1>1. Inv => CompletedOnce
  <2> SUFFICES ASSUME Inv, NEW c \in Calls, NEW o \in Ops
               PROVE  LET places == {i \in 1..Len(queue) : queue[i] = <<c, o>>} IN
                      IF op[c][o] = "queued" THEN \E i \in places : places = {i}
                                             ELSE places = {}
    BY DEF CompletedOnce
  <2> DEFINE places == {i \in 1..Len(queue) : queue[i] = <<c, o>>}
  <2>1. /\ op[c][o] = "queued" <=> \E i \in 1..Len(queue) : queue[i] = <<c, o>>
        /\ \A i, j \in 1..Len(queue) : queue[i] = queue[j] => i = j
    BY Zenon DEF Inv, QueuedOnce
  <2>2. CASE op[c][o] = "queued"
    <3>1. PICK i \in 1..Len(queue) : queue[i] = <<c, o>>
      BY <2>1, <2>2
    <3>2. i \in places /\ \A j \in places : j = i
      BY <2>1, <3>1, Zenon
    <3>3. places = {i}
      BY <3>2, Zenon
    <3> QED BY <2>2, <3>2, <3>3, Zenon
  <2>3. CASE op[c][o] # "queued"
    <3>1. places = {}
      BY <2>1, <2>3, Zenon
    <3> QED BY <2>3, <3>1
  <2> QED BY <2>2, <2>3
<1> QED BY <1>1, Invariance, PTL

\* When R resolves nothing of its race is left that could touch the operation.
THEOREM NothingLeftBehind == Spec => []QuiescentWhenAnswered
<1>1. Inv => QuiescentWhenAnswered
  <2> SUFFICES ASSUME Inv, NEW c \in Calls, answer[c] # NULL
               PROVE  /\ \A o \in Ops : Resolved(c, o)
                      /\ \A i \in 1..Len(queue) : queue[i][1] # c
                      /\ cookies[c] = <<>>
    BY DEF QuiescentWhenAnswered
  <2>1. /\ outstanding[c] = 0 /\ outstanding[c] = Pending(c, "em") + Pending(c, "timer")
        /\ result[c] = NULL <=> outstanding[c] = 2
        /\ result[c] # NULL => stopped[c]
    BY DEF Inv, RaceInv
  <2>2. Resolved(c, "em") /\ Resolved(c, "timer")
    BY <2>1 DEF Pending
  <2>3. \A o \in Ops : op[c][o] = "resolved"
    BY <2>2 DEF Ops, Resolved
  <2>4. ASSUME NEW i \in 1..Len(queue), queue[i][1] = c PROVE FALSE
    <3>1. queue[i] \in Calls \X Ops
      BY DEF Inv, TypeInv
    <3>2. PICK o \in Ops : queue[i] = <<c, o>>
      BY <2>4, <3>1
    <3>3. op[c][o] = "queued" <=> \E k \in 1..Len(queue) : queue[k] = <<c, o>>
      BY Zenon DEF Inv, QueuedOnce
    <3>4. op[c][o] = "queued"
      BY <3>2, <3>3, Zenon
    <3> QED BY <2>3, <3>4
  <2>5. cookies[c] = <<>>
    BY <2>1 DEF Inv, CookieInv
  <2> QED BY <2>3, <2>4, <2>5 DEF Resolved
<1> QED BY <1>1, Invariance, PTL

\* R's answer has its reason, also when R's handler requested a stop.
THEOREM AnswersHaveReasons == Spec => []AnswerJustified
<1>1. Inv => AnswerJustified
  BY DEF Inv
<1> QED BY <1>1, Invariance, PTL
=============================================================================
