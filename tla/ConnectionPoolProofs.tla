------------------------ MODULE ConnectionPoolProofs ------------------------
(***************************************************************************)
(* Why every task gets its own answer, for any number of tasks, requests,  *)
(* connections and tries.  The invariant follows the connections: each has *)
(* one owner; one that is idle or not yet established has nothing on its   *)
(* stream; one that is held has nothing on it either, except while its     *)
(* owner reads, when all there is belongs to the owner's last request.     *)
(***************************************************************************)
EXTENDS ConnectionPool, TLAPS

\* Connections beyond made do not exist yet, and a task that establishes one
\* has none; only a task that has issued a request works on one.
KnownConns ==
    /\ \A k \in Conns : IsIdle(k) \/ k \in gone => k <= made
    /\ \A t \in Tasks : holds[t] # NULL => holds[t] <= made
    /\ \A t \in Tasks : pc[t] = "connecting" => holds[t] = NULL
    /\ \A t \in Tasks : pc[t] \notin {"ready", "over"} => reqno[t] # 0

Clean(k) == inbox[k] = <<>> /\ stream[k] = <<>>

\* All that is under way on k belongs to the last request of t.
OnlyOf(t, k) ==
    /\ inbox[k] # <<>> => Head(inbox[k]) = <<t, reqno[t]>>
    /\ stream[k] # <<>> => Head(stream[k]).to = <<t, reqno[t]>>

WireInv ==
    /\ NoPipelining
    /\ \A k \in Conns : IsIdle(k) \/ k > made => Clean(k)
    /\ \A t \in Tasks : holds[t] # NULL =>
          /\ pc[t] = "reading" => OnlyOf(t, holds[t])
          /\ pc[t] # "reading" => Clean(holds[t])

PoolInv == TypeOK /\ OneOwner /\ KnownConns /\ WireInv /\ OwnAnswer

-----------------------------------------------------------------------------
(* Facts about sequences.                                                  *)

\* A splice to the front adds one element, and keeps elements distinct if it is
\* a new one.
LEMMA ConsFacts ==
    ASSUME NEW S, NEW s \in Seq(S), NEW x \in S
    PROVE  /\ <<x>> \o s \in Seq(S)
           /\ Len(<<x>> \o s) = Len(s) + 1
           /\ \A y : IsIn(<<x>> \o s, y) <=> y = x \/ IsIn(s, y)
           /\ Distinct(s) /\ ~IsIn(s, x) => Distinct(<<x>> \o s)
<1> DEFINE c == <<x>> \o s
<1>1. c \in Seq(S) /\ Len(c) = Len(s) + 1
  OBVIOUS
<1>2. c[1] = x /\ \A i \in 1..Len(s) : c[i + 1] = s[i]
  OBVIOUS
<1>3. \A i \in 1..Len(c) : i = 1 \/ i - 1 \in 1..Len(s)
  BY <1>1
<1>4. \A i \in 2..Len(c) : c[i] = s[i - 1]
  OBVIOUS
<1>5. \A y : IsIn(c, y) <=> y = x \/ IsIn(s, y)
  <2>1. \A y : IsIn(c, y) => y = x \/ IsIn(s, y)
    BY <1>1, <1>2, <1>3, <1>4 DEF IsIn
  <2>2. \A y : IsIn(s, y) => IsIn(c, y)
    <3> SUFFICES ASSUME NEW y, NEW i \in 1..Len(s), s[i] = y PROVE IsIn(c, y)
      BY DEF IsIn
    <3>1. i + 1 \in 1..Len(c) /\ c[i + 1] = y
      BY <1>1, <1>2
    <3> QED BY <3>1 DEF IsIn
  <2>3. IsIn(c, x)
    BY <1>1, <1>2 DEF IsIn
  <2> QED BY <2>1, <2>2, <2>3
<1>6. Distinct(s) /\ ~IsIn(s, x) => Distinct(c)
  BY <1>1, <1>2, <1>3, <1>4 DEF IsIn, Distinct
<1> QED BY <1>1, <1>5, <1>6

\* Taking the front of a list of distinct elements takes that element away.
LEMMA TailFacts ==
    ASSUME NEW S, NEW s \in Seq(S), s # <<>>
    PROVE  /\ Head(s) \in S /\ IsIn(s, Head(s))
           /\ Tail(s) \in Seq(S) /\ Len(Tail(s)) = Len(s) - 1
           /\ Distinct(s) => /\ Distinct(Tail(s))
                             /\ \A y : IsIn(Tail(s), y) <=> IsIn(s, y) /\ y # Head(s)
<1>1. Len(s) \in Nat /\ Len(s) >= 1 /\ Head(s) = s[1] /\ Head(s) \in S
  OBVIOUS
<1>2. Tail(s) \in Seq(S) /\ Len(Tail(s)) = Len(s) - 1
  OBVIOUS
<1>3. \A i \in 1..Len(s) - 1 : Tail(s)[i] = s[i + 1]
  OBVIOUS
<1>4. IsIn(s, Head(s))
  BY <1>1 DEF IsIn
<1>5. ASSUME Distinct(s) PROVE Distinct(Tail(s))
  BY <1>1, <1>2, <1>3, <1>5 DEF Distinct
<1>6. ASSUME Distinct(s), NEW y PROVE IsIn(Tail(s), y) <=> IsIn(s, y) /\ y # Head(s)
  <2>1. ASSUME NEW i \in 1..Len(Tail(s)), Tail(s)[i] = y PROVE IsIn(s, y) /\ y # Head(s)
    <3>1. i + 1 \in 1..Len(s) /\ s[i + 1] = y /\ i + 1 # 1 /\ 1 \in 1..Len(s)
      BY <1>1, <1>2, <1>3, <2>1
    <3> QED BY <3>1, <1>1, <1>6 DEF IsIn, Distinct
  <2>2. ASSUME NEW i \in 1..Len(s), s[i] = y, y # Head(s) PROVE IsIn(Tail(s), y)
    <3>1. i - 1 \in 1..Len(Tail(s)) /\ Tail(s)[i - 1] = y
      BY <1>1, <1>2, <1>3, <2>2
    <3> QED BY <3>1 DEF IsIn
  <2> QED BY <2>1, <2>2 DEF IsIn
<1> QED BY <1>1, <1>2, <1>4, <1>5, <1>6

-----------------------------------------------------------------------------
(* The steps keep the types, the places and the list.                      *)

\* Every step keeps the types: the ids stay in range, and a task that writes or
\* reads on a connection has one.
LEMMA PoolTypeStep == TypeOK /\ KnownConns /\ [Next]_vars => TypeOK'
<1> SUFFICES ASSUME TypeOK, KnownConns, [Next]_vars PROVE TypeOK' OBVIOUS
<1> USE PoolConstants
<1>1. CASE UNCHANGED vars
  BY <1>1 DEF vars, poolVars, wireVars, taskVars, TypeOK, Pcs
<1>2. ASSUME NEW t \in Tasks, Issue(t) PROVE TypeOK'
  BY <1>2 DEF Issue, Goto, poolVars, wireVars, TypeOK, Pcs
<1>3. ASSUME NEW t \in Tasks, Attempt(t) PROVE TypeOK'
  <2>1. idle # <<>> => Head(idle) \in Conns /\ Tail(idle) \in Seq(Conns)
    BY TailFacts, Zenon DEF TypeOK
  <2>2. /\ idle' \in Seq(Conns) /\ holds' \in [Tasks -> Conns \cup {NULL}]
        /\ made' = made /\ gone' = gone
    BY <1>3, <2>1 DEF Attempt, IdleAfterCheckout, poolVars, TypeOK
  <2>3. \A u \in Tasks : pc'[u] \in {"writing", "reading"} => holds'[u] # NULL
    BY <1>3, <2>1 DEF Attempt, Goto, poolVars, TypeOK
  <2>4. pc' \in [Tasks -> Pcs] /\ msg' \in [Tasks -> {"whole", "moved"}]
    BY <1>3 DEF Attempt, Goto, TypeOK, Pcs
  <2> QED
    BY <1>3, <2>2, <2>3, <2>4 DEF Attempt, wireVars, TypeOK
<1>4. ASSUME NEW t \in Tasks, Established(t) PROVE TypeOK'
  <2>1. NextId \in Conns /\ made' \in 0..MaxConns
    BY <1>4 DEF Established, NextId, Conns, TypeOK
  <2>2. NextId # NULL
    BY <2>1
  <2> QED
    BY <1>4, <2>1, <2>2 DEF Established, Goto, TypeOK, Pcs
<1>5. ASSUME NEW t \in Tasks, EstablishFails(t) PROVE TypeOK'
  BY <1>5 DEF EstablishFails, Retry, RetriesAgain, Goto, poolVars, wireVars, TypeOK, Pcs
<1>6. ASSUME NEW t \in Tasks, Written(t) PROVE TypeOK'
  <2>1. <<t, reqno[t]>> \in Requests
    <3>1. reqno[t] # 0
      BY <1>6 DEF Written, KnownConns
    <3> QED BY <3>1 DEF Requests, TypeOK
  <2>2. holds[t] \in Conns
    BY <1>6 DEF Written, TypeOK
  <2>3. inbox' \in [Conns -> Seq(Requests)] /\ served' \in [Tasks -> Nat]
    <3>1. Append(inbox[holds[t]], <<t, reqno[t]>>) \in Seq(Requests)
      BY <2>1, <2>2 DEF TypeOK
    <3>2. CASE holds[t] \in up
      <4>1. /\ inbox' = [inbox EXCEPT ![holds[t]] = Append(inbox[holds[t]], <<t, reqno[t]>>)]
            /\ served' = [served EXCEPT ![t] = @ + 1]
        BY <1>6, <3>2 DEF Written
      <4>2. inbox' \in [Conns -> Seq(Requests)]
        BY <4>1, <3>1, <2>2, Zenon DEF TypeOK
      <4> QED BY <4>1, <4>2 DEF TypeOK
    <3>3. CASE holds[t] \notin up
      BY <1>6, <3>3 DEF Written, TypeOK
    <3> QED BY <3>2, <3>3
  <2> QED
    BY <1>6, <2>3 DEF Written, Goto, poolVars, TypeOK, Pcs
<1>7. ASSUME NEW t \in Tasks, WriteFails(t) PROVE TypeOK'
  BY <1>7 DEF WriteFails, Fail, DropPerished, Retry, RetriesAgain, Goto, wireVars,
    TypeOK, Pcs
<1>8. ASSUME NEW t \in Tasks, Answered(t) PROVE TypeOK'
  BY <1>8 DEF Answered, Goto, poolVars, TypeOK, Pcs
<1>9. ASSUME NEW t \in Tasks, ReadRejected(t) PROVE TypeOK'
  <2> DEFINE k == holds[t]
             r == [Head(stream[k]) EXCEPT !.kind = "junk"]
  <2>1. k \in Conns /\ stream[k] \in Seq(Replies) /\ stream[k] # <<>>
    BY <1>9 DEF ReadRejected, TypeOK
  <2>2. r \in Replies
    <3>1. Head(stream[k]) \in Replies
      BY <2>1
    <3>2. \A h \in Replies : [h EXCEPT !.kind = "junk"] \in Replies
      BY DEF Replies
    <3> QED BY <3>1, <3>2
  <2>3. <<r>> \o Tail(stream[k]) \in Seq(Replies)
    BY <2>1, <2>2
  <2>4. stream' \in [Conns -> Seq(Replies)]
    BY <1>9, <2>1, <2>3 DEF ReadRejected, TypeOK
  <2> QED
    BY <1>9, <2>4
      DEF ReadRejected, Fail, DropPerished, Retry, RetriesAgain, Goto, TypeOK, Pcs
<1>10. ASSUME NEW t \in Tasks, ReadFails(t) PROVE TypeOK'
  BY <1>10 DEF ReadFails, Fail, DropPerished, Retry, RetriesAgain, Goto, wireVars,
    TypeOK, Pcs
<1>11. ASSUME NEW t \in Tasks, Finish(t) PROVE TypeOK'
  BY <1>11 DEF Finish, Returned, Goto, wireVars, TypeOK, Pcs
<1>12. ASSUME NEW k \in Conns, Reply(k) PROVE TypeOK'
  <2>1. /\ inbox[k] \in Seq(Requests) /\ Head(inbox[k]) \in Requests
        /\ Tail(inbox[k]) \in Seq(Requests)
    BY <1>12 DEF Reply, TypeOK
  <2>2. PICK kind \in {"ok", "error", "bad"} :
          stream' = [stream EXCEPT ![k] = Append(@, [to |-> Head(inbox[k]), kind |-> kind])]
    BY <1>12 DEF Reply
  <2>3. [to |-> Head(inbox[k]), kind |-> kind] \in Replies
    BY <2>1 DEF Replies
  <2>4. stream' \in [Conns -> Seq(Replies)]
    BY <2>2, <2>3 DEF TypeOK
  <2> QED
    BY <1>12, <2>1, <2>4 DEF Reply, poolVars, taskVars, TypeOK
<1>13. ASSUME NEW k \in Conns, Close(k) PROVE TypeOK'
  BY <1>13 DEF Close, poolVars, taskVars, TypeOK, Pcs
<1> QED
  BY <1>1, <1>2, <1>3, <1>4, <1>5, <1>6, <1>7, <1>8, <1>9, <1>10, <1>11, <1>12, <1>13
  DEF Next, TaskStep

\* A checkout takes the front away, and nothing else.
LEMMA CheckoutIdle ==
    ASSUME TypeOK, Distinct(idle), idle # <<>>, idle' = Tail(idle)
    PROVE  /\ Head(idle) \in Conns /\ IsIdle(Head(idle))
           /\ Distinct(idle')
           /\ \A x : IsIn(idle', x) <=> IsIdle(x) /\ x # Head(idle)
<1>1. idle \in Seq(Conns)
  BY DEF TypeOK
<1> QED BY <1>1, TailFacts DEF IsIdle

\* A return adds the one connection.
LEMMA ReturnIdle ==
    ASSUME TypeOK, NEW k \in Conns, idle' = <<k>> \o idle
    PROVE  /\ Distinct(idle) /\ ~IsIdle(k) => Distinct(idle')
           /\ \A x : IsIn(idle', x) <=> x = k \/ IsIdle(x)
<1>1. idle \in Seq(Conns)
  BY DEF TypeOK
<1>2. \A x : (IsIdle(x) <=> IsIn(idle, x)) /\ (IsIn(idle', x) <=> IsIn(idle', x))
  BY DEF IsIdle
<1>3. /\ Distinct(idle) /\ ~IsIn(idle, k) => Distinct(idle')
      /\ \A x : IsIn(idle', x) <=> x = k \/ IsIn(idle, x)
  BY <1>1, ConsFacts
<1> QED BY <1>2, <1>3

\* A step that leaves the list alone leaves the idle connections alone.
LEMMA SameIdle ==
    ASSUME idle' = idle
    PROVE  \A x : IsIn(idle', x) <=> IsIdle(x)
BY DEF IsIdle

\* No step produces a connection that was never established.
LEMMA KnownStep == TypeOK /\ OneOwner /\ KnownConns /\ [Next]_vars => KnownConns'
<1> SUFFICES ASSUME TypeOK, OneOwner, KnownConns, [Next]_vars PROVE KnownConns' OBVIOUS
<1> USE PoolConstants, SameIdle
<1>1. CASE UNCHANGED vars
  BY <1>1 DEF vars, poolVars, wireVars, taskVars, IsIdle, KnownConns, TypeOK, Conns
<1>2. ASSUME NEW t \in Tasks, Issue(t) PROVE KnownConns'
  BY <1>2 DEF Issue, Goto, poolVars, wireVars, IsIdle, KnownConns, TypeOK, Conns
<1>3. ASSUME NEW t \in Tasks, Attempt(t) PROVE KnownConns'
  <2>1. CASE holds[t] = NULL /\ idle # <<>>
    <3>1. idle' = Tail(idle) /\ holds' = [holds EXCEPT ![t] = Head(idle)] /\ Distinct(idle)
      BY <1>3, <2>1 DEF Attempt, IdleAfterCheckout, OneOwner
    <3>2. /\ Head(idle) \in Conns /\ IsIdle(Head(idle))
          /\ \A x : IsIn(idle', x) <=> IsIdle(x) /\ x # Head(idle)
      BY <2>1, <3>1, CheckoutIdle
    <3>3. pc' = [pc EXCEPT ![t] = "writing"] /\ UNCHANGED <<made, gone, reqno>>
      BY <1>3, <2>1 DEF Attempt, Goto
    <3> QED BY <1>3, <3>1, <3>2, <3>3 DEF Attempt, IsIdle, KnownConns, TypeOK
  <2>2. CASE ~(holds[t] = NULL /\ idle # <<>>)
    <3>1. UNCHANGED poolVars
      BY <1>3, <2>2 DEF Attempt
    <3> QED BY <1>3, <2>2, <3>1, SameIdle
      DEF Attempt, Goto, poolVars, IsIdle, KnownConns, TypeOK
  <2> QED BY <2>1, <2>2
<1>4. ASSUME NEW t \in Tasks, Established(t) PROVE KnownConns'
  <2>1. /\ made' = made + 1 /\ made \in Nat /\ gone' = gone /\ idle' = idle /\ reqno' = reqno
        /\ pc[t] = "connecting"
    BY <1>4 DEF Established, TypeOK
  <2>2. \A u \in Tasks : /\ holds'[u] = IF u = t THEN made + 1 ELSE holds[u]
                         /\ pc'[u] = IF u = t THEN "writing" ELSE pc[u]
    BY <1>4 DEF Established, NextId, Goto, TypeOK
  <2>3. \A k \in Conns : k \in Int
    BY DEF Conns
  <2>4. \A u \in Tasks : holds[u] # NULL => holds[u] \in Conns
    BY DEF TypeOK
  <2>5. \A k \in Conns : IsIn(idle', k) \/ k \in gone' => k <= made'
    BY <2>1, <2>3 DEF IsIdle, KnownConns
  <2>6. \A u \in Tasks : holds'[u] # NULL => holds'[u] <= made'
    BY <2>1, <2>2, <2>3, <2>4 DEF KnownConns
  <2>7. \A u \in Tasks : /\ pc'[u] = "connecting" => holds'[u] = NULL
                         /\ pc'[u] \notin {"ready", "over"} => reqno'[u] # 0
    BY <2>1, <2>2 DEF KnownConns
  <2> QED BY <2>5, <2>6, <2>7 DEF IsIdle, KnownConns
<1>5. ASSUME NEW t \in Tasks, EstablishFails(t) PROVE KnownConns'
  BY <1>5 DEF EstablishFails, Retry, RetriesAgain, Goto, poolVars, wireVars, IsIdle,
    KnownConns, TypeOK, Conns
<1>6. ASSUME NEW t \in Tasks, Written(t) PROVE KnownConns'
  BY <1>6 DEF Written, Goto, poolVars, IsIdle, KnownConns, TypeOK, Conns
<1>7. ASSUME NEW t \in Tasks, WriteFails(t) PROVE KnownConns'
  BY <1>7 DEF WriteFails, Fail, DropPerished, Retry, RetriesAgain, Goto, wireVars,
    IsIdle, KnownConns, TypeOK, Conns
<1>8. ASSUME NEW t \in Tasks, Answered(t) PROVE KnownConns'
  BY <1>8 DEF Answered, Goto, poolVars, IsIdle, KnownConns, TypeOK, Conns
<1>9. ASSUME NEW t \in Tasks, ReadRejected(t) PROVE KnownConns'
  BY <1>9 DEF ReadRejected, Fail, DropPerished, Retry, RetriesAgain, Goto, IsIdle,
    KnownConns, TypeOK, Conns
<1>10. ASSUME NEW t \in Tasks, ReadFails(t) PROVE KnownConns'
  BY <1>10 DEF ReadFails, Fail, DropPerished, Retry, RetriesAgain, Goto, wireVars,
    IsIdle, KnownConns, TypeOK, Conns
<1>11. ASSUME NEW t \in Tasks, Finish(t) PROVE KnownConns'
  <2>1. CASE holds[t] = NULL
    <3>1. idle' = idle
      BY <1>11, <2>1 DEF Finish
    <3> QED BY <1>11, <3>1, SameIdle DEF Finish, Goto, IsIdle, KnownConns, TypeOK
  <2>2. CASE holds[t] # NULL
    <3>1. idle' = <<holds[t]>> \o idle /\ holds[t] \in Conns
      BY <1>11, <2>2 DEF Finish, Returned, TypeOK
    <3> QED BY <1>11, <2>2, <3>1, ReturnIdle DEF Finish, Goto, IsIdle, KnownConns, TypeOK
  <2> QED BY <2>1, <2>2
<1>12. ASSUME NEW k \in Conns, Reply(k) PROVE KnownConns'
  BY <1>12 DEF Reply, poolVars, taskVars, IsIdle, KnownConns, TypeOK, Conns
<1>13. ASSUME NEW k \in Conns, Close(k) PROVE KnownConns'
  BY <1>13 DEF Close, poolVars, taskVars, IsIdle, KnownConns, TypeOK, Conns
<1> QED
  BY <1>1, <1>2, <1>3, <1>4, <1>5, <1>6, <1>7, <1>8, <1>9, <1>10, <1>11, <1>12, <1>13
  DEF Next, TaskStep

\* A perished member moves from its task to the destroyed ones.
LEMMA FailPlace ==
    ASSUME TypeOK, OneOwner, NEW t \in Tasks, pc[t] \in {"writing", "reading"}, Fail(t)
    PROVE  OnePlace'
<1>1. /\ holds[t] \in Conns /\ gone' = gone \cup {holds[t]}
      /\ holds' = [holds EXCEPT ![t] = NULL] /\ UNCHANGED <<idle, made>>
  BY DEF Fail, DropPerished, TypeOK
<1>2. holds[t] # NULL
  BY <1>1, PoolConstants
<1> QED BY <1>1, <1>2, SameIdle DEF IsIdle, OnePlace, OneOwner, TypeOK

\* Every step leaves each connection in one place: checkout, return, and the end
\* of a perished member move it, the other steps do not touch it.
LEMMA PlaceStep == TypeOK /\ OneOwner /\ KnownConns /\ [Next]_vars => OnePlace'
<1> SUFFICES ASSUME TypeOK, OneOwner, KnownConns, [Next]_vars PROVE OnePlace' OBVIOUS
<1> USE PoolConstants, SameIdle
<1>1. CASE UNCHANGED vars
  BY <1>1 DEF vars, poolVars, wireVars, taskVars, IsIdle, OnePlace, OneOwner
<1>2. ASSUME NEW t \in Tasks, Issue(t) PROVE OnePlace'
  <2>1. UNCHANGED poolVars
    BY <1>2 DEF Issue
  <2> QED BY <2>1, SameIdle DEF poolVars, IsIdle, OnePlace, OneOwner
<1>3. ASSUME NEW t \in Tasks, Attempt(t) PROVE OnePlace'
  <2>1. CASE holds[t] = NULL /\ idle # <<>>
    <3>1. /\ idle' = Tail(idle) /\ holds' = [holds EXCEPT ![t] = Head(idle)]
          /\ UNCHANGED <<made, gone>>
      BY <1>3, <2>1 DEF Attempt, IdleAfterCheckout
    <3>2. /\ Head(idle) \in Conns /\ IsIdle(Head(idle))
          /\ \A x : IsIn(idle', x) <=> IsIdle(x) /\ x # Head(idle)
      BY <2>1, <3>1, CheckoutIdle DEF OneOwner
    <3>3. Head(idle) # NULL
      BY <3>2
    <3>4. \A u \in Tasks : holds'[u] = IF u = t THEN Head(idle) ELSE holds[u]
      BY <3>1 DEF TypeOK
    <3>5. \A u \in Tasks : holds'[u] # NULL =>
              ~IsIn(idle', holds'[u]) /\ holds'[u] \notin gone'
      BY <3>1, <3>2, <3>4 DEF IsIdle, OnePlace, OneOwner
    <3>6. \A u, v \in Tasks : holds'[u] # NULL /\ holds'[u] = holds'[v] => u = v
      BY <3>2, <3>4 DEF IsIdle, OnePlace, OneOwner
    <3>7. \A k \in gone' : ~IsIn(idle', k)
      BY <3>1, <3>2 DEF IsIdle, OnePlace, OneOwner
    <3>8. \A k \in 1..made' :
              IsIn(idle', k) \/ k \in gone' \/ \E u \in Tasks : holds'[u] = k
      <4> SUFFICES ASSUME NEW k \in 1..made
                   PROVE  IsIn(idle', k) \/ k \in gone \/ \E u \in Tasks : holds'[u] = k
        BY <3>1
      <4>1. CASE k = Head(idle)
        BY <3>4, <4>1
      <4>2. CASE k # Head(idle)
        <5>1. CASE \E u \in Tasks : holds[u] = k
          <6>1. PICK u \in Tasks : holds[u] = k
            BY <5>1
          <6>2. k # NULL
            BY DEF TypeOK, Conns
          <6> QED BY <2>1, <6>1, <6>2, <3>4
        <5> QED BY <3>2, <4>2, <5>1 DEF IsIdle, OnePlace, OneOwner
      <4> QED BY <4>1, <4>2
    <3> QED BY <3>5, <3>6, <3>7, <3>8 DEF IsIdle, OnePlace
  <2>2. CASE ~(holds[t] = NULL /\ idle # <<>>)
    <3>1. UNCHANGED poolVars
      BY <1>3, <2>2 DEF Attempt
    <3> QED BY <3>1, SameIdle DEF poolVars, IsIdle, OnePlace, OneOwner
  <2> QED BY <2>1, <2>2
<1>4. ASSUME NEW t \in Tasks, Established(t) PROVE OnePlace'
  <2>1. /\ made' = made + 1 /\ holds' = [holds EXCEPT ![t] = made + 1]
        /\ UNCHANGED <<idle, gone>> /\ holds[t] = NULL /\ made \in Nat
    BY <1>4 DEF Established, NextId, KnownConns, TypeOK
  <2>2. made + 1 \in Conns /\ made + 1 # NULL
    BY <1>4 DEF Established, TypeOK, Conns
  <2>3. /\ ~IsIdle(made + 1) /\ made + 1 \notin gone
        /\ \A u \in Tasks : holds[u] # made + 1
    BY <2>1, <2>2 DEF KnownConns
  <2>4. \A x : IsIn(idle', x) <=> IsIdle(x)
    BY <2>1, SameIdle
  <2>5. \A x \in 1..made' : x \in 1..made \/ x = made + 1
    BY <2>1
  <2>6. \A u \in Tasks : holds'[u] = IF u = t THEN made + 1 ELSE holds[u]
    BY <2>1 DEF TypeOK
  <2>7. \A u \in Tasks : holds'[u] # NULL =>
            ~IsIn(idle', holds'[u]) /\ holds'[u] \notin gone'
    BY <2>1, <2>3, <2>4, <2>6 DEF IsIdle, OnePlace, OneOwner
  <2>8. \A u, v \in Tasks : holds'[u] # NULL /\ holds'[u] = holds'[v] => u = v
    BY <2>3, <2>6 DEF IsIdle, OnePlace, OneOwner
  <2>9. \A k \in gone' : ~IsIn(idle', k)
    BY <2>1, <2>4 DEF IsIdle, OnePlace, OneOwner
  <2>10. \A k \in 1..made' :
            IsIn(idle', k) \/ k \in gone' \/ \E u \in Tasks : holds'[u] = k
    <3> SUFFICES ASSUME NEW k \in 1..made'
                 PROVE  IsIn(idle', k) \/ k \in gone \/ \E u \in Tasks : holds'[u] = k
      BY <2>1
    <3>1. CASE k = made + 1
      BY <2>6, <3>1
    <3>2. CASE k \in 1..made /\ \E u \in Tasks : holds[u] = k
      <4>1. PICK u \in Tasks : holds[u] = k
        BY <3>2
      <4>2. k # NULL
        BY <3>2 DEF TypeOK, Conns
      <4> QED BY <2>1, <2>6, <4>1, <4>2
    <3>3. CASE k \in 1..made /\ ~\E u \in Tasks : holds[u] = k
      BY <2>1, <2>4, <3>3 DEF IsIdle, OnePlace, OneOwner
    <3> QED BY <2>5, <3>1, <3>2, <3>3
  <2> QED BY <2>7, <2>8, <2>9, <2>10 DEF IsIdle, OnePlace
<1>5. ASSUME NEW t \in Tasks, EstablishFails(t) PROVE OnePlace'
  <2>1. UNCHANGED poolVars
    BY <1>5 DEF EstablishFails
  <2> QED BY <2>1, SameIdle DEF poolVars, IsIdle, OnePlace, OneOwner
<1>6. ASSUME NEW t \in Tasks, Written(t) PROVE OnePlace'
  <2>1. UNCHANGED poolVars
    BY <1>6 DEF Written
  <2> QED BY <2>1, SameIdle DEF poolVars, IsIdle, OnePlace, OneOwner
<1>7. ASSUME NEW t \in Tasks, WriteFails(t) PROVE OnePlace'
  <2>1. Fail(t) /\ pc[t] \in {"writing", "reading"}
    BY <1>7 DEF WriteFails
  <2> QED BY <2>1, FailPlace
<1>8. ASSUME NEW t \in Tasks, Answered(t) PROVE OnePlace'
  <2>1. UNCHANGED poolVars
    BY <1>8 DEF Answered
  <2> QED BY <2>1, SameIdle DEF poolVars, IsIdle, OnePlace, OneOwner
<1>9. ASSUME NEW t \in Tasks, ReadRejected(t) PROVE OnePlace'
  <2>1. Fail(t) /\ pc[t] \in {"writing", "reading"}
    BY <1>9 DEF ReadRejected
  <2> QED BY <2>1, FailPlace
<1>10. ASSUME NEW t \in Tasks, ReadFails(t) PROVE OnePlace'
  <2>1. Fail(t) /\ pc[t] \in {"writing", "reading"}
    BY <1>10 DEF ReadFails
  <2> QED BY <2>1, FailPlace
<1>11. ASSUME NEW t \in Tasks, Finish(t) PROVE OnePlace'
  <2>1. CASE holds[t] = NULL
    <3>1. UNCHANGED <<idle, gone, made>> /\ holds' = holds
      BY <1>11, <2>1 DEF Finish, TypeOK
    <3> QED BY <3>1, SameIdle DEF IsIdle, OnePlace, OneOwner
  <2>2. CASE holds[t] # NULL
    <3>1. /\ idle' = <<holds[t]>> \o idle /\ holds[t] \in Conns
          /\ holds' = [holds EXCEPT ![t] = NULL] /\ UNCHANGED <<made, gone>>
      BY <1>11, <2>2 DEF Finish, Returned, TypeOK
    <3>2. \A x : IsIn(idle', x) <=> x = holds[t] \/ IsIdle(x)
      BY <3>1, ReturnIdle
    <3>3. \A u \in Tasks : holds'[u] = IF u = t THEN NULL ELSE holds[u]
      BY <3>1 DEF TypeOK
    <3>4. \A u \in Tasks : holds'[u] # NULL =>
              ~IsIn(idle', holds'[u]) /\ holds'[u] \notin gone'
      BY <3>1, <3>2, <3>3 DEF OnePlace, OneOwner
    <3>5. \A u, v \in Tasks : holds'[u] # NULL /\ holds'[u] = holds'[v] => u = v
      BY <3>3 DEF OnePlace, OneOwner
    <3>6. \A k \in gone' : ~IsIn(idle', k)
      BY <2>2, <3>1, <3>2 DEF OnePlace, OneOwner
    <3>7. ASSUME NEW k \in 1..made'
          PROVE  IsIn(idle', k) \/ k \in gone' \/ \E u \in Tasks : holds'[u] = k
      <4>1. IsIdle(k) \/ k \in gone \/ \E u \in Tasks : holds[u] = k
        BY <3>1 DEF OnePlace, OneOwner
      <4>2. CASE \E u \in Tasks : holds[u] = k
        <5>1. PICK u \in Tasks : holds[u] = k
          BY <4>2
        <5> QED BY <3>2, <3>3, <5>1
      <4> QED BY <3>1, <3>2, <4>1, <4>2
    <3> QED BY <3>4, <3>5, <3>6, <3>7 DEF IsIdle, OnePlace
  <2> QED BY <2>1, <2>2
<1>12. ASSUME NEW k \in Conns, Reply(k) PROVE OnePlace'
  <2>1. UNCHANGED poolVars
    BY <1>12 DEF Reply
  <2> QED BY <2>1, SameIdle DEF poolVars, IsIdle, OnePlace, OneOwner
<1>13. ASSUME NEW k \in Conns, Close(k) PROVE OnePlace'
  <2>1. UNCHANGED poolVars
    BY <1>13 DEF Close
  <2> QED BY <2>1, SameIdle DEF poolVars, IsIdle, OnePlace, OneOwner
<1> QED
  BY <1>1, <1>2, <1>3, <1>4, <1>5, <1>6, <1>7, <1>8, <1>9, <1>10, <1>11, <1>12, <1>13
  DEF Next, TaskStep

\* No connection is ever in the idle list twice.
LEMMA DistinctStep == TypeOK /\ OneOwner /\ [Next]_vars => Distinct(idle')
<1> SUFFICES ASSUME TypeOK, OneOwner, [Next]_vars PROVE Distinct(idle') OBVIOUS
<1> Distinct(idle)
  BY DEF OneOwner
<1>1. CASE UNCHANGED vars
  BY <1>1 DEF vars, poolVars, wireVars, taskVars, OneOwner
<1>2. ASSUME NEW t \in Tasks, Issue(t) PROVE Distinct(idle')
  BY <1>2 DEF Issue, poolVars
<1>3. ASSUME NEW t \in Tasks, Attempt(t) PROVE Distinct(idle')
  <2>1. CASE holds[t] = NULL /\ idle # <<>>
    BY <1>3, <2>1, CheckoutIdle DEF Attempt, IdleAfterCheckout
  <2>2. CASE ~(holds[t] = NULL /\ idle # <<>>)
    BY <1>3, <2>2 DEF Attempt, poolVars
  <2> QED BY <2>1, <2>2
<1>4. ASSUME NEW t \in Tasks, Established(t) PROVE Distinct(idle')
  BY <1>4 DEF Established
<1>5. ASSUME NEW t \in Tasks, EstablishFails(t) PROVE Distinct(idle')
  BY <1>5 DEF EstablishFails, poolVars
<1>6. ASSUME NEW t \in Tasks, Written(t) PROVE Distinct(idle')
  BY <1>6 DEF Written, poolVars
<1>7. ASSUME NEW t \in Tasks, WriteFails(t) PROVE Distinct(idle')
  BY <1>7 DEF WriteFails, Fail, DropPerished
<1>8. ASSUME NEW t \in Tasks, Answered(t) PROVE Distinct(idle')
  BY <1>8 DEF Answered, poolVars
<1>9. ASSUME NEW t \in Tasks, ReadRejected(t) PROVE Distinct(idle')
  BY <1>9 DEF ReadRejected, Fail, DropPerished
<1>10. ASSUME NEW t \in Tasks, ReadFails(t) PROVE Distinct(idle')
  BY <1>10 DEF ReadFails, Fail, DropPerished
<1>11. ASSUME NEW t \in Tasks, Finish(t) PROVE Distinct(idle')
  <2>1. CASE holds[t] = NULL
    BY <1>11, <2>1 DEF Finish
  <2>2. CASE holds[t] # NULL
    <3>1. idle' = <<holds[t]>> \o idle /\ holds[t] \in Conns
      BY <1>11, <2>2 DEF Finish, Returned, TypeOK
    <3>2. ~IsIdle(holds[t])
      BY <2>2 DEF OneOwner, OnePlace
    <3> QED BY <3>1, <3>2, ReturnIdle DEF OneOwner
  <2> QED BY <2>1, <2>2
<1>12. ASSUME NEW k \in Conns, Reply(k) PROVE Distinct(idle')
  BY <1>12 DEF Reply, poolVars
<1>13. ASSUME NEW k \in Conns, Close(k) PROVE Distinct(idle')
  BY <1>13 DEF Close, poolVars
<1> QED
  BY <1>1, <1>2, <1>3, <1>4, <1>5, <1>6, <1>7, <1>8, <1>9, <1>10, <1>11, <1>12, <1>13
  DEF Next, TaskStep

-----------------------------------------------------------------------------
(* What is under way on a connection.                                      *)

\* What the steps of the wire do to a queue.
LEMMA ShortFacts ==
    ASSUME NEW S, NEW s \in Seq(S)
    PROVE  /\ Len(s) \in Nat /\ (Len(s) = 0 <=> s = <<>>)
           /\ s # <<>> => Head(s) \in S /\ Len(Tail(s)) = Len(s) - 1
           /\ s # <<>> /\ Len(s) <= 1 => Tail(s) = <<>>
           /\ \A x : Len(Append(s, x)) = Len(s) + 1 /\ Append(s, x) # <<>>
           /\ \A x : s = <<>> => Head(Append(s, x)) = x
<1>1. Len(s) \in Nat /\ (Len(s) = 0 <=> s = <<>>)
  OBVIOUS
<1>2. s # <<>> => Head(s) \in S /\ Len(Tail(s)) = Len(s) - 1 /\ Tail(s) \in Seq(S)
  OBVIOUS
<1>3. s # <<>> /\ Len(s) <= 1 => Tail(s) = <<>>
  <2> SUFFICES ASSUME s # <<>>, Len(s) <= 1 PROVE Tail(s) = <<>> OBVIOUS
  <2>1. Len(Tail(s)) = 0 /\ Tail(s) \in Seq(S)
    BY <1>1, <1>2
  <2> QED BY <2>1
<1>4. \A x : Len(Append(s, x)) = Len(s) + 1
  OBVIOUS
<1>5. \A x : Append(s, x) # <<>>
  BY <1>1, <1>4
<1>6. \A x : s = <<>> => Head(Append(s, x)) = x
  OBVIOUS
<1> QED BY <1>1, <1>2, <1>3, <1>4, <1>5, <1>6

\* The queues of a connection are sequences.
LEMMA WireSeqs ==
    ASSUME TypeOK, NEW k \in Conns
    PROVE  inbox[k] \in Seq(Requests) /\ stream[k] \in Seq(Replies)
BY DEF TypeOK

\* The connection that a task works on exists, is not idle, and is its own.
LEMMA HeldFacts ==
    ASSUME TypeOK, OneOwner, KnownConns, NEW t \in Tasks, pc[t] \in {"writing", "reading"}
    PROVE  /\ holds[t] \in Conns /\ holds[t] # NULL
           /\ ~IsIdle(holds[t]) /\ ~(holds[t] > made)
           /\ \A u \in Tasks \ {t} : holds[u] # holds[t]
<1>1. holds[t] # NULL /\ holds[t] \in Conns
  BY DEF TypeOK
<1>2. holds[t] \in Int /\ made \in Int /\ holds[t] <= made
  BY <1>1, PoolConstants DEF TypeOK, Conns, KnownConns
<1>3. ~(holds[t] > made)
  BY <1>2
<1> QED BY <1>1, <1>3 DEF OneOwner, OnePlace

\* An empty queue has length 0.
LEMMA EmptyLen == Len(<<>>) = 0
OBVIOUS

\* Two counts that make at most one.
LEMMA SumAtMostOne ==
    ASSUME NEW m \in Nat, NEW n \in Nat, m + n <= 1
    PROVE  n <= 1 /\ (m # 0 => m = 1 /\ n = 0) /\ (n # 0 => n = 1 /\ m = 0)
OBVIOUS

\* If anything is under way on a connection it is one message, on one side.
LEMMA PipeFacts ==
    ASSUME TypeOK, WireInv, NEW k \in Conns
    PROVE  /\ Len(inbox[k]) \in Nat /\ Len(stream[k]) \in Nat
           /\ Len(inbox[k]) + Len(stream[k]) <= 1 /\ Len(stream[k]) <= 1
           /\ inbox[k] # <<>> => Len(inbox[k]) = 1 /\ stream[k] = <<>> /\ Tail(inbox[k]) = <<>>
           /\ stream[k] # <<>> => Len(stream[k]) = 1 /\ inbox[k] = <<>> /\ Tail(stream[k]) = <<>>
<1>1. Len(inbox[k]) + Len(stream[k]) <= 1
  <2>1. NoPipelining
    BY DEF WireInv
  <2> QED BY <2>1 DEF NoPipelining
<1>2. inbox[k] \in Seq(Requests) /\ stream[k] \in Seq(Replies)
  BY WireSeqs
<1>3. /\ Len(inbox[k]) \in Nat /\ (Len(inbox[k]) = 0 <=> inbox[k] = <<>>)
      /\ Len(stream[k]) \in Nat /\ (Len(stream[k]) = 0 <=> stream[k] = <<>>)
  BY <1>2, ShortFacts
<1>4. /\ inbox[k] # <<>> /\ Len(inbox[k]) <= 1 => Tail(inbox[k]) = <<>>
      /\ stream[k] # <<>> /\ Len(stream[k]) <= 1 => Tail(stream[k]) = <<>>
  BY <1>2, ShortFacts
<1>5. /\ Len(stream[k]) <= 1
      /\ Len(inbox[k]) # 0 => Len(inbox[k]) = 1 /\ Len(stream[k]) = 0
      /\ Len(stream[k]) # 0 => Len(stream[k]) = 1 /\ Len(inbox[k]) = 0
  BY <1>1, <1>3, SumAtMostOne
<1>6. 1 <= 1
  OBVIOUS
<1>7. inbox[k] # <<>> => Len(inbox[k]) = 1 /\ stream[k] = <<>> /\ Tail(inbox[k]) = <<>>
  BY <1>3, <1>4, <1>5, <1>6
<1>8. stream[k] # <<>> => Len(stream[k]) = 1 /\ inbox[k] = <<>> /\ Tail(stream[k]) = <<>>
  BY <1>3, <1>4, <1>5, <1>6
<1> QED BY <1>1, <1>3, <1>5, <1>7, <1>8

\* A request that throws gives its connection up: whatever is left on it, no one
\* else will read.
LEMMA FailWire ==
    ASSUME TypeOK, OneOwner, KnownConns, WireInv,
           NEW t \in Tasks, pc[t] \in {"writing", "reading"}, Fail(t),
           \A x \in Conns : x # holds[t] => inbox'[x] = inbox[x] /\ stream'[x] = stream[x],
           Len(inbox'[holds[t]]) + Len(stream'[holds[t]]) <= 1
    PROVE  WireInv'
<1>1. /\ holds[t] \in Conns /\ ~IsIdle(holds[t]) /\ ~(holds[t] > made)
      /\ \A u \in Tasks \ {t} : holds[u] # holds[t]
  BY HeldFacts
<1>2. /\ UNCHANGED <<made, idle, reqno>> /\ holds'[t] = NULL
      /\ \A u \in Tasks \ {t} : pc'[u] = pc[u] /\ holds'[u] = holds[u]
  BY DEF Fail, DropPerished, Retry, Goto, TypeOK
<1>3. \A x \in Conns : Len(inbox'[x]) + Len(stream'[x]) <= 1
  BY DEF WireInv, NoPipelining
<1>4. \A x \in Conns : IsIn(idle', x) \/ x > made' => inbox'[x] = <<>> /\ stream'[x] = <<>>
  BY <1>1, <1>2 DEF WireInv, Clean, IsIdle
<1>5. \A u \in Tasks : holds'[u] # NULL =>
         u # t /\ holds[u] \in Conns /\ holds[u] # holds[t] /\ holds'[u] = holds[u]
  BY <1>1, <1>2 DEF TypeOK
<1>6. ASSUME NEW u \in Tasks, holds'[u] # NULL
      PROVE  /\ pc'[u] = "reading" =>
                   /\ inbox'[holds'[u]] # <<>> => Head(inbox'[holds'[u]]) = <<u, reqno'[u]>>
                   /\ stream'[holds'[u]] # <<>> => Head(stream'[holds'[u]]).to = <<u, reqno'[u]>>
             /\ pc'[u] # "reading" => inbox'[holds'[u]] = <<>> /\ stream'[holds'[u]] = <<>>
  <2>1. u # t /\ holds[u] \in Conns /\ holds[u] # holds[t] /\ holds'[u] = holds[u]
    BY <1>5, <1>6
  <2>2. /\ pc'[u] = pc[u] /\ reqno'[u] = reqno[u] /\ inbox'[holds[u]] = inbox[holds[u]]
        /\ stream'[holds[u]] = stream[holds[u]] /\ holds[u] # NULL
    BY <1>2, <1>6, <2>1
  <2> QED BY <2>1, <2>2 DEF WireInv, Clean, OnlyOf
<1> QED BY <1>3, <1>4, <1>6 DEF WireInv, NoPipelining, Clean, OnlyOf, IsIdle

\* Every step keeps the connections clean, or occupied by their owner's request
\* alone.
LEMMA WireStep == TypeOK /\ OneOwner /\ KnownConns /\ WireInv /\ [Next]_vars => WireInv'
<1> SUFFICES ASSUME TypeOK, OneOwner, KnownConns, WireInv,
    [Next]_vars PROVE WireInv' OBVIOUS
<1>1. CASE UNCHANGED vars
  BY <1>1 DEF vars, poolVars, wireVars, taskVars, WireInv, NoPipelining, Clean, OnlyOf,
    IsIdle
<1>2. ASSUME NEW t \in Tasks, Issue(t) PROVE WireInv'
  <2>1. /\ UNCHANGED <<made, idle, holds, inbox, stream>>
        /\ \A u \in Tasks : pc'[u] = "reading" => u # t
        /\ \A u \in Tasks \ {t} : pc'[u] = pc[u] /\ reqno'[u] = reqno[u]
        /\ pc[t] # "reading"
    BY <1>2 DEF Issue, Goto, poolVars, wireVars, TypeOK
  <2> QED BY <2>1 DEF WireInv, NoPipelining, Clean, OnlyOf, IsIdle
<1>3. ASSUME NEW t \in Tasks, Attempt(t) PROVE WireInv'
  <2>1. /\ UNCHANGED <<made, inbox, stream, reqno>>
        /\ \A u \in Tasks : pc'[u] = "reading" => u # t
        /\ \A u \in Tasks \ {t} : pc'[u] = pc[u] /\ holds'[u] = holds[u]
        /\ pc[t] # "reading"
    BY <1>3 DEF Attempt, Goto, poolVars, wireVars, TypeOK
  <2>2. CASE holds[t] = NULL /\ idle # <<>>
    <3>1. idle' = Tail(idle) /\ holds'[t] = Head(idle)
      BY <1>3, <2>2 DEF Attempt, IdleAfterCheckout, TypeOK
    <3>2. /\ Head(idle) \in Conns /\ IsIdle(Head(idle))
          /\ \A x : IsIn(idle', x) <=> IsIdle(x) /\ x # Head(idle)
      BY <2>2, <3>1, CheckoutIdle DEF OneOwner
    <3> QED BY <2>1, <3>1, <3>2 DEF WireInv, NoPipelining, Clean, OnlyOf, IsIdle
  <2>3. CASE ~(holds[t] = NULL /\ idle # <<>>)
    <3>1. UNCHANGED poolVars
      BY <1>3, <2>3 DEF Attempt
    <3> QED BY <2>1, <3>1 DEF poolVars, WireInv, NoPipelining, Clean, OnlyOf, IsIdle
  <2> QED BY <2>2, <2>3
<1>4. ASSUME NEW t \in Tasks, Established(t) PROVE WireInv'
  <2>0. made \in Nat /\ made + 1 \in Conns
    BY <1>4, PoolConstants DEF Established, TypeOK, Conns
  <2>1. /\ UNCHANGED <<idle, inbox, stream, reqno>> /\ made' = made + 1
        /\ \A u \in Tasks : pc'[u] = "reading" => u # t
        /\ \A u \in Tasks \ {t} : pc'[u] = pc[u] /\ holds'[u] = holds[u]
        /\ holds'[t] = made + 1
    BY <1>4 DEF Established, NextId, Goto, TypeOK
  <2>2. made + 1 > made /\ \A k \in Conns : k > made + 1 => k > made
    BY <2>0 DEF Conns
  <2>3. Clean(made + 1)
    BY <2>0, <2>1, <2>2 DEF WireInv
  <2> QED BY <2>0, <2>1, <2>2, <2>3 DEF WireInv, NoPipelining, Clean, OnlyOf, IsIdle
<1>5. ASSUME NEW t \in Tasks, EstablishFails(t) PROVE WireInv'
  <2>1. /\ UNCHANGED <<made, idle, holds, inbox, stream, reqno>>
        /\ \A u \in Tasks : pc'[u] = "reading" => u # t
        /\ \A u \in Tasks \ {t} : pc'[u] = pc[u]
        /\ pc[t] # "reading"
    BY <1>5 DEF EstablishFails, Retry, Goto, poolVars, wireVars, TypeOK
  <2> QED BY <2>1 DEF WireInv, NoPipelining, Clean, OnlyOf, IsIdle
<1>6. ASSUME NEW t \in Tasks, Written(t) PROVE WireInv'
  <2>1. /\ holds[t] \in Conns /\ ~IsIdle(holds[t]) /\ ~(holds[t] > made)
        /\ \A u \in Tasks \ {t} : holds[u] # holds[t]
    BY <1>6, HeldFacts DEF Written
  <2> DEFINE k == holds[t]
             q == Append(inbox[k], <<t, reqno[t]>>)
  <2>2. /\ UNCHANGED <<made, idle, holds, stream, reqno>>
        /\ \A u \in Tasks \ {t} : pc'[u] = pc[u]
        /\ pc'[t] = "reading" /\ pc[t] # "reading"
        /\ \A x \in Conns : inbox'[x] = inbox[x] \/ (x = k /\ inbox'[x] = q)
        /\ k # NULL
    BY <1>6 DEF Written, Goto, poolVars, TypeOK
  <2>3. inbox[k] = <<>> /\ stream[k] = <<>>
    BY <2>1, <2>2 DEF WireInv, Clean
  <2>4. Len(q) = 1 /\ q # <<>> /\ Head(q) = <<t, reqno[t]>> /\ Len(stream[k]) = 0
    BY <2>1, <2>3, WireSeqs, ShortFacts
  <2> HIDE DEF q, k
  <2>5. ASSUME NEW x \in Conns PROVE Len(inbox'[x]) + Len(stream'[x]) <= 1
    <3>1. CASE x = k /\ inbox'[x] = q
      <4>1. Len(inbox'[x]) = 1 /\ Len(stream'[x]) = 0
        BY <2>2, <2>4, <3>1
      <4> QED BY <4>1
    <3>2. CASE inbox'[x] = inbox[x]
      BY <2>2, <3>2, PipeFacts
    <3> QED BY <2>2, <3>1, <3>2
  <2>6. \A x \in Conns : x # k => inbox'[x] = inbox[x]
    BY <2>2
  <2>7. \A x \in Conns : IsIn(idle', x) \/ x > made' => inbox'[x] = <<>> /\ stream'[x] = <<>>
    BY <2>1, <2>2, <2>6 DEF WireInv, Clean, IsIdle, k
  <2>8. ASSUME NEW u \in Tasks, holds'[u] # NULL
        PROVE  /\ pc'[u] = "reading" =>
                     /\ inbox'[holds'[u]] # <<>> => Head(inbox'[holds'[u]]) = <<u, reqno'[u]>>
                     /\ stream'[holds'[u]] # <<>> => Head(stream'[holds'[u]]).to = <<u, reqno'[u]>>
               /\ pc'[u] # "reading" => inbox'[holds'[u]] = <<>> /\ stream'[holds'[u]] = <<>>
    <3>1. CASE u = t
      BY <2>1, <2>2, <2>3, <2>4, <3>1 DEF k
    <3>2. CASE u # t
      <4>1. holds[u] \in Conns /\ holds[u] # k
        BY <2>1, <2>2, <2>8, <3>2 DEF TypeOK, k
      <4> QED BY <2>2, <2>6, <2>8, <3>2, <4>1 DEF WireInv, Clean, OnlyOf
    <3> QED BY <3>1, <3>2
  <2> QED BY <2>5, <2>7, <2>8 DEF WireInv, NoPipelining, Clean, OnlyOf, IsIdle
<1>7. ASSUME NEW t \in Tasks, WriteFails(t) PROVE WireInv'
  <2>1. /\ pc[t] \in {"writing", "reading"} /\ Fail(t)
        /\ UNCHANGED <<inbox, stream>>
    BY <1>7 DEF WriteFails, wireVars
  <2>2. holds[t] \in Conns
    BY <2>1, HeldFacts
  <2> QED BY <2>1, <2>2, FailWire DEF WireInv, NoPipelining
<1>8. ASSUME NEW t \in Tasks, Answered(t) PROVE WireInv'
  <2> DEFINE k == holds[t]
  <2>1. /\ k \in Conns /\ k # NULL /\ ~IsIdle(k) /\ ~(k > made)
        /\ \A u \in Tasks \ {t} : holds[u] # k
    BY <1>8, HeldFacts DEF Answered
  <2>2. /\ UNCHANGED <<made, idle, holds, inbox, reqno>>
        /\ \A u \in Tasks \ {t} : pc'[u] = pc[u]
        /\ pc'[t] # "reading"
        /\ stream[k] # <<>> /\ stream'[k] = Tail(stream[k])
        /\ \A x \in Conns : x # k => stream'[x] = stream[x]
    BY <1>8, <2>1 DEF Answered, Goto, poolVars, TypeOK
  <2>5. inbox'[k] = <<>> /\ stream'[k] = <<>>
    BY <2>1, <2>2, PipeFacts
  <2> HIDE DEF k
  <2>6. ASSUME NEW x \in Conns PROVE Len(inbox'[x]) + Len(stream'[x]) <= 1
    <3>1. CASE x = k
      <4>1. Len(inbox'[x]) = 0 /\ Len(stream'[x]) = 0
        BY <2>5, <3>1, EmptyLen
      <4> QED BY <4>1
    <3>2. CASE x # k
      BY <2>2, <3>2, PipeFacts
    <3> QED BY <3>1, <3>2
  <2>7. \A x \in Conns : IsIn(idle', x) \/ x > made' => inbox'[x] = <<>> /\ stream'[x] = <<>>
    BY <2>1, <2>2 DEF WireInv, Clean, IsIdle
  <2>8. \A u \in Tasks : holds'[u] # NULL => holds[u] \in Conns /\ (u # t => holds[u] # k)
    BY <2>1, <2>2 DEF TypeOK
  <2>9. holds[t] = k
    BY DEF k
  <2> QED BY <2>2, <2>5, <2>6, <2>7, <2>8, <2>9
    DEF WireInv, NoPipelining, Clean, OnlyOf, IsIdle
<1>9. ASSUME NEW t \in Tasks, ReadRejected(t) PROVE WireInv'
  <2>1. pc[t] \in {"writing", "reading"} /\ Fail(t) /\ inbox' = inbox
    BY <1>9 DEF ReadRejected
  <2> DEFINE k == holds[t]
             r == [Head(stream[k]) EXCEPT !.kind = "junk"]
  <2>2. k \in Conns
    BY <2>1, HeldFacts
  <2>3. /\ stream[k] # <<>> /\ stream'[k] = <<r>> \o Tail(stream[k])
        /\ \A x \in Conns : x # k => stream'[x] = stream[x]
    BY <1>9, <2>2 DEF ReadRejected, TypeOK
  <2>4. /\ stream[k] \in Seq(Replies) /\ Len(stream[k]) \in Nat /\ Len(Tail(stream[k])) = Len(stream[k]) - 1
        /\ Tail(stream[k]) \in Seq(Replies)
    BY <2>2, <2>3, WireSeqs
  <2> HIDE DEF r
  <2>5. Len(<<r>> \o Tail(stream[k])) = 1 + Len(Tail(stream[k]))
    BY <2>4
  <2>6. Len(stream'[k]) = Len(stream[k])
    BY <2>3, <2>4, <2>5
  <2> QED BY <2>1, <2>2, <2>3, <2>6, FailWire DEF WireInv, NoPipelining
<1>10. ASSUME NEW t \in Tasks, ReadFails(t) PROVE WireInv'
  <2>1. /\ pc[t] \in {"writing", "reading"} /\ Fail(t)
        /\ UNCHANGED <<inbox, stream>>
    BY <1>10 DEF ReadFails, wireVars
  <2>2. holds[t] \in Conns
    BY <2>1, HeldFacts
  <2> QED BY <2>1, <2>2, FailWire DEF WireInv, NoPipelining
<1>11. ASSUME NEW t \in Tasks, Finish(t) PROVE WireInv'
  <2>1. /\ UNCHANGED <<made, inbox, stream, reqno>> /\ pc[t] # "reading"
        /\ holds'[t] = NULL
        /\ \A u \in Tasks \ {t} : pc'[u] = pc[u] /\ holds'[u] = holds[u]
    BY <1>11 DEF Finish, Goto, wireVars, TypeOK
  <2>2. \A x : IsIn(idle', x) => IsIdle(x) \/ (x = holds[t] /\ holds[t] # NULL)
    <3>1. CASE holds[t] = NULL
      BY <1>11, <3>1 DEF Finish, IsIdle
    <3>2. CASE holds[t] # NULL
      <4>1. idle' = <<holds[t]>> \o idle /\ holds[t] \in Conns
        BY <1>11, <3>2 DEF Finish, Returned, TypeOK
      <4> QED BY <3>2, <4>1, ReturnIdle
    <3> QED BY <3>1, <3>2
  <2> QED BY <2>1, <2>2 DEF WireInv, NoPipelining, Clean, OnlyOf, IsIdle
<1>12. ASSUME NEW k \in Conns, Reply(k) PROVE WireInv'
  <2>1. PICK kind \in {"ok", "error", "bad"} :
            stream' = [stream EXCEPT ![k] = Append(@, [to |-> Head(inbox[k]), kind |-> kind])]
    BY <1>12 DEF Reply
  <2> DEFINE r == [to |-> Head(inbox[k]), kind |-> kind]
  <2>2. /\ UNCHANGED <<made, idle, holds, reqno, pc>>
        /\ inbox[k] # <<>> /\ inbox'[k] = Tail(inbox[k]) /\ stream'[k] = Append(stream[k], r)
        /\ \A x \in Conns : x # k => inbox'[x] = inbox[x] /\ stream'[x] = stream[x]
    BY <1>12, <2>1 DEF Reply, poolVars, taskVars, TypeOK
  <2>3. r.to = Head(inbox[k])
    OBVIOUS
  <2> HIDE DEF r
  <2>6. stream[k] = <<>> /\ inbox'[k] = <<>>
    BY <2>2, PipeFacts
  <2>7. Len(stream'[k]) = 1 /\ Head(stream'[k]) = r
    BY <2>2, <2>6, WireSeqs, ShortFacts
  <2>8. ASSUME NEW x \in Conns PROVE Len(inbox'[x]) + Len(stream'[x]) <= 1
    <3>1. CASE x = k
      <4>1. Len(inbox'[x]) = 0 /\ Len(stream'[x]) = 1
        BY <2>6, <2>7, <3>1, EmptyLen
      <4> QED BY <4>1
    <3>2. CASE x # k
      BY <2>2, <3>2, PipeFacts
    <3> QED BY <3>1, <3>2
  <2>9. \A x \in Conns : IsIn(idle', x) \/ x > made' => inbox'[x] = <<>> /\ stream'[x] = <<>>
    BY <2>2 DEF WireInv, Clean, IsIdle
  <2>10. \A u \in Tasks : holds[u] # NULL => holds[u] \in Conns
    BY DEF TypeOK
  <2> QED BY <2>2, <2>3, <2>6, <2>7, <2>8, <2>9, <2>10
    DEF WireInv, NoPipelining, Clean, OnlyOf, IsIdle
<1>13. ASSUME NEW k \in Conns, Close(k) PROVE WireInv'
  <2>1. /\ UNCHANGED <<made, idle, holds, stream, reqno, pc>>
        /\ inbox'[k] = <<>> /\ \A x \in Conns : x # k => inbox'[x] = inbox[x]
    BY <1>13 DEF Close, poolVars, taskVars, TypeOK
  <2>3. ASSUME NEW x \in Conns PROVE Len(inbox'[x]) + Len(stream'[x]) <= 1
    <3>1. CASE x = k
      <4>1. inbox'[x] = <<>> /\ stream'[x] = stream[x]
        BY <2>1, <3>1
      <4>2. Len(inbox'[x]) = 0 /\ Len(stream'[x]) \in Nat /\ Len(stream'[x]) <= 1
        BY <4>1, EmptyLen, PipeFacts
      <4> QED BY <4>2
    <3>2. CASE x # k
      BY <2>1, <3>2, PipeFacts
    <3> QED BY <3>1, <3>2
  <2>4. \A x \in Conns : inbox'[x] = <<>> \/ inbox'[x] = inbox[x]
    BY <2>1
  <2>5. \A u \in Tasks : holds[u] # NULL => holds[u] \in Conns
    BY DEF TypeOK
  <2> QED BY <2>1, <2>3, <2>4, <2>5 DEF WireInv, NoPipelining, Clean, OnlyOf, IsIdle
<1> QED
  BY <1>1, <1>2, <1>3, <1>4, <1>5, <1>6, <1>7, <1>8, <1>9, <1>10, <1>11, <1>12, <1>13
  DEF Next, TaskStep

\* A task that is ready again has the answer to its own request.
LEMMA AnswerStep == TypeOK /\ OneOwner /\ KnownConns /\ WireInv /\ OwnAnswer
    /\ [Next]_vars => OwnAnswer'
<1> SUFFICES ASSUME TypeOK, OneOwner, KnownConns, WireInv, OwnAnswer,
    [Next]_vars PROVE OwnAnswer' OBVIOUS
<1>1. CASE UNCHANGED vars
  BY <1>1 DEF vars, poolVars, wireVars, taskVars, OwnAnswer
<1>2. ASSUME NEW t \in Tasks, Issue(t) PROVE OwnAnswer'
  <2>1. /\ got' = got /\ pc'[t] # "ready"
        /\ \A u \in Tasks \ {t} : pc'[u] = pc[u] /\ reqno'[u] = reqno[u]
    BY <1>2 DEF Issue, Goto, TypeOK
  <2> QED BY <2>1 DEF OwnAnswer
<1>3. ASSUME NEW t \in Tasks, Attempt(t) PROVE OwnAnswer'
  <2>1. /\ got' = got /\ pc'[t] # "ready"
        /\ \A u \in Tasks \ {t} : pc'[u] = pc[u] /\ reqno'[u] = reqno[u]
    BY <1>3 DEF Attempt, Goto, TypeOK
  <2> QED BY <2>1 DEF OwnAnswer
<1>4. ASSUME NEW t \in Tasks, Established(t) PROVE OwnAnswer'
  <2>1. /\ got' = got /\ pc'[t] # "ready"
        /\ \A u \in Tasks \ {t} : pc'[u] = pc[u] /\ reqno'[u] = reqno[u]
    BY <1>4 DEF Established, Goto, TypeOK
  <2> QED BY <2>1 DEF OwnAnswer
<1>5. ASSUME NEW t \in Tasks, EstablishFails(t) PROVE OwnAnswer'
  <2>1. /\ got' = got /\ pc'[t] # "ready"
        /\ \A u \in Tasks \ {t} : pc'[u] = pc[u] /\ reqno'[u] = reqno[u]
    BY <1>5 DEF EstablishFails, Retry, Goto, TypeOK
  <2> QED BY <2>1 DEF OwnAnswer
<1>6. ASSUME NEW t \in Tasks, Written(t) PROVE OwnAnswer'
  <2>1. /\ got' = got /\ pc'[t] # "ready"
        /\ \A u \in Tasks \ {t} : pc'[u] = pc[u] /\ reqno'[u] = reqno[u]
    BY <1>6 DEF Written, Goto, TypeOK
  <2> QED BY <2>1 DEF OwnAnswer
<1>7. ASSUME NEW t \in Tasks, WriteFails(t) PROVE OwnAnswer'
  <2>1. /\ got' = got /\ pc'[t] # "ready"
        /\ \A u \in Tasks \ {t} : pc'[u] = pc[u] /\ reqno'[u] = reqno[u]
    BY <1>7 DEF WriteFails, Fail, Retry, Goto, TypeOK
  <2> QED BY <2>1 DEF OwnAnswer
<1>8. ASSUME NEW t \in Tasks, Answered(t) PROVE OwnAnswer'
  <2>1. /\ reqno' = reqno /\ got'[t] = Head(stream[holds[t]])
        /\ stream[holds[t]] # <<>> /\ pc[t] = "reading"
        /\ \A u \in Tasks \ {t} : pc'[u] = pc[u] /\ got'[u] = got[u]
    BY <1>8 DEF Answered, Goto, TypeOK
  <2>2. holds[t] \in Conns /\ holds[t] # NULL
    BY <2>1, HeldFacts
  <2>3. got'[t].to = <<t, reqno[t]>>
    BY <2>1, <2>2 DEF WireInv, OnlyOf
  <2>4. got'[t] \in Replies
    BY <2>1, <2>2, WireSeqs, ShortFacts
  <2>5. got'[t] # NULL
    BY <2>4, PoolConstants
  <2> QED BY <2>1, <2>3, <2>5 DEF OwnAnswer
<1>9. ASSUME NEW t \in Tasks, ReadRejected(t) PROVE OwnAnswer'
  <2>1. /\ got' = got /\ pc'[t] # "ready"
        /\ \A u \in Tasks \ {t} : pc'[u] = pc[u] /\ reqno'[u] = reqno[u]
    BY <1>9 DEF ReadRejected, Fail, Retry, Goto, TypeOK
  <2> QED BY <2>1 DEF OwnAnswer
<1>10. ASSUME NEW t \in Tasks, ReadFails(t) PROVE OwnAnswer'
  <2>1. /\ got' = got /\ pc'[t] # "ready"
        /\ \A u \in Tasks \ {t} : pc'[u] = pc[u] /\ reqno'[u] = reqno[u]
    BY <1>10 DEF ReadFails, Fail, Retry, Goto, TypeOK
  <2> QED BY <2>1 DEF OwnAnswer
<1>11. ASSUME NEW t \in Tasks, Finish(t) PROVE OwnAnswer'
  <2>1. /\ got' = got /\ pc'[t] # "ready"
        /\ \A u \in Tasks \ {t} : pc'[u] = pc[u] /\ reqno'[u] = reqno[u]
    BY <1>11 DEF Finish, Goto, TypeOK
  <2> QED BY <2>1 DEF OwnAnswer
<1>12. ASSUME NEW k \in Conns, Reply(k) PROVE OwnAnswer'
  BY <1>12 DEF Reply, taskVars, OwnAnswer
<1>13. ASSUME NEW k \in Conns, Close(k) PROVE OwnAnswer'
  BY <1>13 DEF Close, taskVars, OwnAnswer
<1> QED
  BY <1>1, <1>2, <1>3, <1>4, <1>5, <1>6, <1>7, <1>8, <1>9, <1>10, <1>11, <1>12, <1>13
  DEF Next, TaskStep

-----------------------------------------------------------------------------
(* The invariant and what it shows.                                        *)

\* The pool starts empty, and nothing is under way.
LEMMA PoolInit == Init => PoolInv
<1> SUFFICES ASSUME Init PROVE PoolInv OBVIOUS
<1> USE PoolConstants
<1>1. idle = <<>> /\ \A x : ~IsIdle(x)
  <2>1. idle = <<>> /\ Len(idle) = 0
    BY DEF Init
  <2> QED BY <2>1 DEF IsIdle, IsIn
<1>2. TypeOK
  BY DEF Init, TypeOK, Pcs
<1>3. OneOwner
  <2>1. Distinct(idle)
    BY <1>1 DEF Distinct
  <2>2. OnePlace
    BY <1>1 DEF Init, OnePlace
  <2> QED BY <2>1, <2>2 DEF OneOwner
<1>4. KnownConns
  BY <1>1 DEF Init, KnownConns
<1>5. WireInv
  <2>1. \A k \in Conns : inbox[k] = <<>> /\ stream[k] = <<>>
    BY DEF Init
  <2>2. NoPipelining
    <3>1. \A k \in Conns : Len(inbox[k]) = 0 /\ Len(stream[k]) = 0
      BY <2>1, EmptyLen
    <3>2. 0 + 0 <= 1
      OBVIOUS
    <3> QED BY <3>1, <3>2 DEF NoPipelining
  <2> QED BY <2>1, <2>2 DEF Init, WireInv, Clean
<1>6. OwnAnswer
  BY DEF Init, OwnAnswer
<1> QED BY <1>2, <1>3, <1>4, <1>5, <1>6 DEF PoolInv

\* The parts of the invariant are kept together by every step.
LEMMA PoolStep == PoolInv /\ [Next]_vars => PoolInv'
<1> SUFFICES ASSUME PoolInv, [Next]_vars PROVE PoolInv' OBVIOUS
<1>1. TypeOK /\ OneOwner /\ KnownConns /\ WireInv /\ OwnAnswer
  BY DEF PoolInv
<1>2. TypeOK' /\ KnownConns' /\ WireInv' /\ OwnAnswer'
  BY <1>1, PoolTypeStep, KnownStep, WireStep, AnswerStep
<1>3. OneOwner'
  BY <1>1, PlaceStep, DistinctStep DEF OneOwner
<1> QED BY <1>2, <1>3 DEF PoolInv

\* The inductive invariant of the pool holds in every reachable state.
THEOREM PoolInvariance == Spec => []PoolInv
BY PoolInit, PoolStep, PTL DEF Spec

\* Type correctness, for any number of tasks, connections, requests and tries.
THEOREM PoolTypes == Spec => []TypeOK
<1>1. PoolInv => TypeOK
  BY DEF PoolInv
<1> QED BY <1>1, PoolInvariance, PTL

\* checkout() and return_() keep every connection with one owner: idle once, in
\* one pool_client, or destroyed, and none is lost.
THEOREM OneOwnerAlways == Spec => []OneOwner
<1>1. PoolInv => OneOwner
  BY DEF PoolInv
<1> QED BY <1>1, PoolInvariance, PTL

\* A connection that return_() puts back has no answer outstanding and nothing
\* unread: the next checkout() starts at a message boundary.
THEOREM IdleAlwaysClean == Spec => []IdleClean
<1>1. PoolInv => IdleClean
  BY DEF PoolInv, WireInv, Clean, IdleClean
<1> QED BY <1>1, PoolInvariance, PTL

\* At most one message is ever under way on a connection of the pool.
THEOREM NeverPipelined == Spec => []NoPipelining
<1>1. PoolInv => NoPipelining
  BY DEF PoolInv, WireInv
<1> QED BY <1>1, PoolInvariance, PTL

\* recv_message() gives a task the answer to its own last request, although it
\* never compares responseTo with the request's id.
THEOREM AnswersAreOwn == Spec => []OwnAnswer
<1>1. PoolInv => OwnAnswer
  BY DEF PoolInv
<1> QED BY <1>1, PoolInvariance, PTL

-----------------------------------------------------------------------------
(* How often a request reaches the server.                                 *)

MaxServed == IF NTries < 1 THEN 1 ELSE NTries

\* Tries that have failed, tries that remain and requests that were served.  The
\* first try is made however few were asked for.
TriesOf(t) ==
    /\ served[t] <= MaxServed
    /\ pc[t] \in {"attempt", "connecting", "writing", "reading"} =>
          /\ tries[t] >= 1 \/ tries[t] = NTries
          /\ served[t] <= NTries - tries[t] + (IF pc[t] = "reading" THEN 1 ELSE 0)

TriesInv == TypeOK /\ \A t \in Tasks : TriesOf(t)

\* A failed try is taken off the tries that remain.
LEMMA RetryTries ==
    ASSUME TriesInv, NEW t \in Tasks, Retry(t), served' = served,
           pc[t] \in {"connecting", "writing", "reading"}
    PROVE  \A u \in Tasks : TriesOf(u)'
<1> USE PoolConstants
<1>1. \A u \in Tasks \ {t} : UNCHANGED <<pc[u], tries[u], served[u]>>
  BY DEF Retry, Goto, TriesInv, TypeOK
<1>2. TriesOf(t)'
  <2>1. /\ tries'[t] = tries[t] - 1 /\ tries[t] \in Int /\ served[t] \in Nat
        /\ pc'[t] = IF tries[t] - 1 >= 1 THEN "attempt" ELSE "failed"
    BY DEF Retry, RetriesAgain, Goto, TriesInv, TypeOK
  <2>2. served[t] <= MaxServed /\ served[t] <= NTries - tries[t] + 1
    BY <2>1 DEF TriesInv, TriesOf
  <2> QED BY <2>1, <2>2 DEF TriesOf
<1> QED BY <1>1, <1>2 DEF TriesInv, TriesOf

\* No step uses up more tries than it takes away.
LEMMA TriesStep == TriesInv /\ [Next]_vars => (\A u \in Tasks : TriesOf(u))'
<1> SUFFICES ASSUME TriesInv, [Next]_vars PROVE \A u \in Tasks : TriesOf(u)' OBVIOUS
<1> USE PoolConstants
<1>0. TypeOK /\ \A u \in Tasks : TriesOf(u)
  BY DEF TriesInv
<1>1. CASE UNCHANGED vars
  BY <1>0, <1>1 DEF vars, poolVars, wireVars, taskVars, TriesOf
<1>2. ASSUME NEW t \in Tasks, Issue(t) PROVE \A u \in Tasks : TriesOf(u)'
  <2>1. \A u \in Tasks \ {t} : UNCHANGED <<pc[u], tries[u], served[u]>>
    BY <1>0, <1>2 DEF Issue, Goto, TypeOK
  <2>2. TriesOf(t)'
    <3>1. served'[t] = 0 /\ tries'[t] = NTries /\ pc'[t] = "attempt"
      BY <1>0, <1>2 DEF Issue, Goto, TypeOK
    <3> QED BY <1>0, <3>1 DEF TriesOf, MaxServed, TypeOK
  <2> QED BY <1>0, <2>1, <2>2 DEF TriesOf
<1>3. ASSUME NEW t \in Tasks, Attempt(t) PROVE \A u \in Tasks : TriesOf(u)'
  <2>1. \A u \in Tasks \ {t} : UNCHANGED <<pc[u], tries[u], served[u]>>
    BY <1>0, <1>3 DEF Attempt, Goto, TypeOK
  <2>2. TriesOf(t)'
    <3>1. UNCHANGED <<tries, served>> /\ pc[t] = "attempt" /\ pc'[t] \in {"writing", "connecting"}
      BY <1>0, <1>3 DEF Attempt, Goto, TypeOK
    <3> QED BY <1>0, <3>1 DEF TriesOf, MaxServed, TypeOK
  <2> QED BY <1>0, <2>1, <2>2 DEF TriesOf
<1>4. ASSUME NEW t \in Tasks, Established(t) PROVE \A u \in Tasks : TriesOf(u)'
  <2>1. \A u \in Tasks \ {t} : UNCHANGED <<pc[u], tries[u], served[u]>>
    BY <1>0, <1>4 DEF Established, Goto, TypeOK
  <2>2. TriesOf(t)'
    <3>1. UNCHANGED <<tries, served>> /\ pc[t] = "connecting" /\ pc'[t] = "writing"
      BY <1>0, <1>4 DEF Established, Goto, TypeOK
    <3> QED BY <1>0, <3>1 DEF TriesOf, MaxServed, TypeOK
  <2> QED BY <1>0, <2>1, <2>2 DEF TriesOf
<1>5. ASSUME NEW t \in Tasks, EstablishFails(t) PROVE \A u \in Tasks : TriesOf(u)'
  <2>1. Retry(t) /\ served' = served /\ pc[t] \in {"connecting", "writing", "reading"}
    BY <1>5 DEF EstablishFails
  <2> QED BY <2>1, RetryTries
<1>6. ASSUME NEW t \in Tasks, Written(t) PROVE \A u \in Tasks : TriesOf(u)'
  <2>1. \A u \in Tasks \ {t} : UNCHANGED <<pc[u], tries[u], served[u]>>
    BY <1>0, <1>6 DEF Written, Goto, TypeOK
  <2>2. TriesOf(t)'
    <3>1. /\ tries' = tries /\ served'[t] \in {served[t], served[t] + 1}
          /\ pc[t] = "writing" /\ pc'[t] = "reading"
      BY <1>0, <1>6 DEF Written, Goto, TypeOK
    <3>2. /\ served[t] \in Nat /\ tries[t] \in Int /\ NTries \in Int
          /\ tries[t] >= 1 \/ tries[t] = NTries
          /\ served[t] <= NTries - tries[t]
      <4>1. served[t] \in Nat /\ tries[t] \in Int /\ NTries \in Int
        BY <1>0 DEF TypeOK
      <4>2. /\ tries[t] >= 1 \/ tries[t] = NTries
            /\ served[t] <= NTries - tries[t] + 0
        BY <1>0, <3>1 DEF TriesOf
      <4> QED BY <4>1, <4>2
    <3>3. served'[t] \in Nat /\ served'[t] <= NTries - tries[t] + 1
      BY <3>1, <3>2
    <3>4. NTries - tries[t] + 1 <= MaxServed /\ MaxServed \in Int
      BY <3>2 DEF MaxServed
    <3>5. served'[t] <= MaxServed
      BY <3>2, <3>3, <3>4
    <3> QED BY <3>1, <3>2, <3>3, <3>5 DEF TriesOf
  <2> QED BY <1>0, <2>1, <2>2 DEF TriesOf
<1>7. ASSUME NEW t \in Tasks, WriteFails(t) PROVE \A u \in Tasks : TriesOf(u)'
  <2>1. Retry(t) /\ served' = served /\ pc[t] \in {"connecting", "writing", "reading"}
    BY <1>7 DEF WriteFails, Fail
  <2> QED BY <2>1, RetryTries
<1>8. ASSUME NEW t \in Tasks, Answered(t) PROVE \A u \in Tasks : TriesOf(u)'
  <2>1. \A u \in Tasks \ {t} : UNCHANGED <<pc[u], tries[u], served[u]>>
    BY <1>0, <1>8 DEF Answered, Goto, TypeOK
  <2>2. TriesOf(t)'
    <3>1. UNCHANGED <<tries, served>> /\ pc'[t] = "ready"
      BY <1>0, <1>8 DEF Answered, Goto, TypeOK
    <3> QED BY <1>0, <3>1 DEF TriesOf, MaxServed, TypeOK
  <2> QED BY <1>0, <2>1, <2>2 DEF TriesOf
<1>9. ASSUME NEW t \in Tasks, ReadRejected(t) PROVE \A u \in Tasks : TriesOf(u)'
  <2>1. Retry(t) /\ served' = served /\ pc[t] \in {"connecting", "writing", "reading"}
    BY <1>9 DEF ReadRejected, Fail
  <2> QED BY <2>1, RetryTries
<1>10. ASSUME NEW t \in Tasks, ReadFails(t) PROVE \A u \in Tasks : TriesOf(u)'
  <2>1. Retry(t) /\ served' = served /\ pc[t] \in {"connecting", "writing", "reading"}
    BY <1>10 DEF ReadFails, Fail
  <2> QED BY <2>1, RetryTries
<1>11. ASSUME NEW t \in Tasks, Finish(t) PROVE \A u \in Tasks : TriesOf(u)'
  <2>1. \A u \in Tasks \ {t} : UNCHANGED <<pc[u], tries[u], served[u]>>
    BY <1>0, <1>11 DEF Finish, Goto, TypeOK
  <2>2. TriesOf(t)'
    <3>1. UNCHANGED <<tries, served>> /\ pc'[t] = "over"
      BY <1>0, <1>11 DEF Finish, Goto, TypeOK
    <3> QED BY <1>0, <3>1 DEF TriesOf, MaxServed, TypeOK
  <2> QED BY <1>0, <2>1, <2>2 DEF TriesOf
<1>12. ASSUME NEW k \in Conns, Reply(k) PROVE \A u \in Tasks : TriesOf(u)'
  BY <1>0, <1>12 DEF Reply, taskVars, TriesOf
<1>13. ASSUME NEW k \in Conns, Close(k) PROVE \A u \in Tasks : TriesOf(u)'
  BY <1>0, <1>13 DEF Close, taskVars, TriesOf
<1> QED
  BY <1>1, <1>2, <1>3, <1>4, <1>5, <1>6, <1>7, <1>8, <1>9, <1>10, <1>11, <1>12, <1>13
  DEF Next, TaskStep


\* retrying_client lets a request reach the server at most n_tries times, once
\* when n_tries is not positive.
THEOREM ServedAtMost == Spec => []ServedAtMostNTries
<1>1. Init => \A t \in Tasks : TriesOf(t)
  BY PoolConstants DEF Init, TriesOf, MaxServed
<1>2. TypeOK /\ (\A t \in Tasks : TriesOf(t)) /\ [Next]_vars => (\A t \in Tasks : TriesOf(t))'
  BY TriesStep DEF TriesInv
<1>3. (\A t \in Tasks : TriesOf(t)) => ServedAtMostNTries
  BY DEF TriesOf, MaxServed, ServedAtMostNTries
<1> QED BY <1>1, <1>2, <1>3, PoolTypes, PTL DEF Spec

-----------------------------------------------------------------------------
(* What a try is given.  While a try is on its way the retrying client is  *)
(* left with what the try did not take, and a failed one has been counted. *)

MessageOf(t) ==
    /\ pc[t] \in {"attempt", "connecting", "writing", "reading"} => tries[t] <= NTries
    /\ pc[t] = "attempt" => (msg[t] = "whole" <=> ~Owning \/ tries[t] = NTries)
    /\ pc[t] \in {"connecting", "writing", "reading"} => (msg[t] = "whole" <=> ~Owning)
    /\ pc[t] \in {"connecting", "writing"} => (sending[t] = "whole" <=> ~Owning \/ tries[t] = NTries)

\* A failed try leaves the next one what it did not take.
LEMMA RetryMessage ==
    ASSUME TypeOK, \A u \in Tasks : MessageOf(u), NEW t \in Tasks, Retry(t),
           UNCHANGED <<msg, sending>>, pc[t] \in {"connecting", "writing", "reading"}
    PROVE  \A u \in Tasks : MessageOf(u)'
<1> USE PoolConstants
<1>1. \A u \in Tasks \ {t} : UNCHANGED <<pc[u], tries[u], msg[u], sending[u]>>
  BY DEF Retry, Goto, TypeOK
<1>2. /\ tries'[t] = tries[t] - 1 /\ tries[t] \in Int
      /\ pc'[t] \in {"attempt", "failed"} /\ UNCHANGED <<msg[t], sending[t]>>
  BY DEF Retry, Goto, TypeOK
<1>3. tries[t] <= NTries /\ (msg[t] = "whole" <=> ~Owning)
  BY DEF MessageOf
<1>4. tries'[t] <= NTries /\ tries'[t] # NTries
  BY <1>2, <1>3
<1>5. MessageOf(t)'
  BY <1>2, <1>3, <1>4 DEF MessageOf
<1> QED BY <1>1, <1>5 DEF MessageOf

\* One step for each action.
LEMMA MessageStep ==
    ASSUME TypeOK, \A u \in Tasks : MessageOf(u), [Next]_vars
    PROVE  \A u \in Tasks : MessageOf(u)'
<1> USE PoolConstants
<1>1. CASE UNCHANGED vars
  BY <1>1 DEF vars, poolVars, wireVars, taskVars, MessageOf
<1>2. ASSUME NEW t \in Tasks, Issue(t) PROVE \A u \in Tasks : MessageOf(u)'
  <2>1. \A u \in Tasks \ {t} : UNCHANGED <<pc[u], tries[u], msg[u], sending[u]>>
    BY <1>2 DEF Issue, Goto, TypeOK
  <2>2. tries'[t] = NTries /\ pc'[t] = "attempt" /\ msg'[t] = "whole"
    BY <1>2 DEF Issue, Goto, TypeOK
  <2> QED BY <2>1, <2>2 DEF MessageOf
<1>3. ASSUME NEW t \in Tasks, Attempt(t) PROVE \A u \in Tasks : MessageOf(u)'
  <2>1. \A u \in Tasks \ {t} : UNCHANGED <<pc[u], tries[u], msg[u], sending[u]>>
    BY <1>3 DEF Attempt, Goto, TypeOK
  <2>2. /\ tries' = tries /\ pc[t] = "attempt" /\ pc'[t] \in {"writing", "connecting"}
        /\ sending'[t] = msg[t] /\ msg'[t] = IF Owning THEN "moved" ELSE msg[t]
    BY <1>3 DEF Attempt, Goto, TypeOK
  <2>3. tries[t] <= NTries /\ (msg[t] = "whole" <=> ~Owning \/ tries[t] = NTries)
    BY <2>2 DEF MessageOf
  <2>4. MessageOf(t)'
    BY <2>2, <2>3 DEF MessageOf
  <2> QED BY <2>1, <2>4 DEF MessageOf
<1>4. ASSUME NEW t \in Tasks, Established(t) \/ Written(t) \/ Answered(t) \/ Finish(t)
      PROVE  \A u \in Tasks : MessageOf(u)'
  <2>1. /\ UNCHANGED <<tries, msg, sending>>
        /\ \A u \in Tasks \ {t} : pc'[u] = pc[u]
    BY <1>4 DEF Established, Written, Answered, Finish, Goto, TypeOK
  <2>2. \/ pc[t] = "connecting" /\ pc'[t] = "writing"
        \/ pc[t] = "writing" /\ pc'[t] = "reading"
        \/ pc'[t] \in {"ready", "over"}
    BY <1>4 DEF Established, Written, Answered, Finish, Goto, TypeOK
  <2> QED BY <2>1, <2>2 DEF MessageOf
<1>5. ASSUME NEW t \in Tasks,
             EstablishFails(t) \/ WriteFails(t) \/ ReadRejected(t) \/ ReadFails(t)
      PROVE  \A u \in Tasks : MessageOf(u)'
  <2>1. Retry(t) /\ UNCHANGED <<msg, sending>> /\ pc[t] \in {"connecting", "writing", "reading"}
    BY <1>5 DEF EstablishFails, WriteFails, ReadRejected, ReadFails, Fail
  <2> QED BY <2>1, RetryMessage
<1>6. ASSUME NEW k \in Conns, Reply(k) \/ Close(k) PROVE \A u \in Tasks : MessageOf(u)'
  BY <1>6 DEF Reply, Close, taskVars, MessageOf
<1> QED BY <1>1, <1>2, <1>3, <1>4, <1>5, <1>6 DEF Next, TaskStep

\* retrying_client sends the request it was given on its first try and, when the
\* message owns its document, only on that one, for any number of tries.
THEOREM LaterTriesAreMovedFrom == Spec => []OnlyFirstTryIsWhole
<1>1. Init => \A t \in Tasks : MessageOf(t)
  BY PoolConstants DEF Init, MessageOf
<1>2. TypeOK /\ (\A t \in Tasks : MessageOf(t)) /\ [Next]_vars => (\A t \in Tasks : MessageOf(t))'
  BY MessageStep
<1>3. (\A t \in Tasks : MessageOf(t)) => OnlyFirstTryIsWhole
  BY DEF MessageOf, OnlyFirstTryIsWhole
<1> QED BY <1>1, <1>2, <1>3, PoolTypes, PTL DEF Spec
=============================================================================
