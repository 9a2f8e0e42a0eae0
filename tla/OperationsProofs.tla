-------------------------- MODULE OperationsProofs --------------------------
(***************************************************************************)
(* Emitters, handlers and operations, for expressions of any length: an    *)
(* operation completes at most once, with the meaning of its expression;   *)
(* no call enters what has been destroyed; and what was connected is       *)
(* destroyed in the end.                                                   *)
(***************************************************************************)
EXTENDS Operations, WellFoundedInduction, TLAPS

-----------------------------------------------------------------------------
(* Induction.  A set of naturals that is not empty has a least element;    *)
(* with it, recursive functions are shown to satisfy their equations.      *)

\* The well-ordering of the naturals.
LEMMA LeastNatural ==
    ASSUME NEW T \in SUBSET Nat, T # {}
    PROVE  \E m \in T : \A k \in T : m <= k
<1> DEFINE R == {ss \in Nat \X Nat : ss[1] < ss[2]}
<1>1. IsWellFoundedOn(R, Nat)
  BY NatLessThanWellFounded DEF OpToRel
<1>2. \E x \in T : \A y \in T : ~(<<y, x>> \in R)
  <2> HIDE DEF R
  <2> QED BY <1>1, WFMin
<1>3. \A x, y \in Nat : ~(<<y, x>> \in R) => x <= y
  OBVIOUS
<1> QED BY <1>2, <1>3

\* What stage i of the stages sg makes of the result r before it.
StageMeaning(sg, i, r) ==
    IF sg[i].fwd /\ r.st # "ok" THEN r
    ELSE IF sg[i].how = "let" THEN EmitterResult(sg[i].next, i)
    ELSE [st |-> IF sg[i].out = "keep" THEN r.st ELSE sg[i].out, val |-> <<"value", i>>]

Denotes(d, sr, sg, n) ==
    d = [i \in 0..n |-> IF i = 0 THEN EmitterResult(sr, 0) ELSE StageMeaning(sg, i, d[i - 1])]

Denotation(sr, sg) == CHOOSE d : Denotes(d, sr, sg, Len(sg))

\* The meaning is defined for any number of stages.
LEMMA DenotationExists ==
    ASSUME NEW sr, NEW sg, NEW n \in Nat
    PROVE  \E d : Denotes(d, sr, sg, n)
<1> DEFINE T == {m \in Nat : ~ \E d : Denotes(d, sr, sg, m)}
<1> SUFFICES ASSUME T # {} PROVE FALSE
  OBVIOUS
<1>1. PICK m \in T : \A k \in T : m <= k
  BY LeastNatural
<1>2. m # 0
  <2>1. Denotes([i \in 0..0 |-> EmitterResult(sr, 0)], sr, sg, 0)
    BY DEF Denotes
  <2> QED BY <2>1
<1>3. m - 1 \in Nat /\ m - 1 \notin T
  BY <1>1, <1>2
<1>4. PICK d : Denotes(d, sr, sg, m - 1)
  BY <1>3
<1> DEFINE e == [i \in 0..m |-> IF i = m THEN StageMeaning(sg, m, d[m - 1]) ELSE d[i]]
<1>5. ASSUME NEW i \in 0..m
      PROVE  e[i] = IF i = 0 THEN EmitterResult(sr, 0) ELSE StageMeaning(sg, i, e[i - 1])
  <2>1. CASE i = m
    <3>1. e[i] = StageMeaning(sg, m, d[m - 1]) /\ m - 1 \in 0..m /\ m - 1 # m
      BY <1>3, <2>1
    <3>2. e[m - 1] = d[m - 1]
      BY <3>1
    <3> QED BY <1>2, <2>1, <3>1, <3>2
  <2>2. CASE i # m
    <3>1. i \in 0..(m - 1) /\ e[i] = d[i]
      BY <1>3, <2>2
    <3>2. d[i] = IF i = 0 THEN EmitterResult(sr, 0) ELSE StageMeaning(sg, i, d[i - 1])
      BY <1>4, <3>1 DEF Denotes
    <3>3. i # 0 => i - 1 \in 0..m /\ i - 1 # m
      BY <3>1
    <3>4. i # 0 => e[i - 1] = d[i - 1]
      BY <3>3
    <3> QED BY <3>1, <3>2, <3>4
  <2> QED BY <2>1, <2>2
<1>6. Denotes(e, sr, sg, m)
  BY <1>5 DEF Denotes
<1> QED BY <1>6

\* The equations of the meaning.
LEMMA DenotationUnfolds ==
    ASSUME NEW sr, NEW sg, Len(sg) \in Nat
    PROVE  /\ Denotation(sr, sg)[0] = EmitterResult(sr, 0)
           /\ \A i \in 1..Len(sg) :
                Denotation(sr, sg)[i] = StageMeaning(sg, i, Denotation(sr, sg)[i - 1])
<1> DEFINE d == Denotation(sr, sg)
<1>1. Denotes(d, sr, sg, Len(sg))
  BY DenotationExists DEF Denotation
<1> HIDE DEF d
<1>2. \A i \in 0..Len(sg) :
        d[i] = IF i = 0 THEN EmitterResult(sr, 0) ELSE StageMeaning(sg, i, d[i - 1])
  BY <1>1 DEF Denotes
<1>3. 0 \in 0..Len(sg) /\ \A i \in 1..Len(sg) : i \in 0..Len(sg) /\ i # 0
  OBVIOUS
<1>4. d[0] = EmitterResult(sr, 0)
  BY <1>2, <1>3
<1>5. \A i \in 1..Len(sg) : d[i] = StageMeaning(sg, i, d[i - 1])
  BY <1>2, <1>3
<1> QED BY <1>4, <1>5 DEF d

\* It is the meaning that the model checks.
LEMMA MeaningDenotes == Meaning = Denotation(src, stages)[Len(stages)]
BY DEF Meaning, Meanings, Denotation, Denotes, StageMeaning, N

-----------------------------------------------------------------------------
(* One completion.  At any time at most one of these exists: the call in   *)
(* progress, a handler that the loop will complete, the receiver of a      *)
(* timer that a coroutine awaits, and the result.  It carries the meaning  *)
(* of the expression up to its stage.                                      *)

\* A handler or receiver that the loop owes a completion.
Pending == {x \in Objs : x[1] \in {"hnd", "rcv"} /\ owner[x] = LOOP}

Owners == Objs \cup {USER, LOOP, STACK, GONE, LOST}

TypeInv ==
    /\ src \in Sources /\ src \in Emitters /\ Len(stages) \in 0..MaxStages
    /\ \A i \in 1..Len(stages) : stages[i] \in Stages
    /\ owner \in [Objs -> Owners]

EmitterAt(sr, sg, i) == IF i = 0 THEN sr ELSE sg[i].next

CallMeans(sr, sg, c) ==
    LET d == Denotation(sr, sg) IN
    /\ c.do \in {"start", "complete"}
    /\ c.do = "complete" => c.lvl \in 1..(Len(sg) + 1) /\ c.res = d[c.lvl - 1]
    /\ c.do = "start" =>
         /\ c.lvl \in 0..Len(sg) /\ c.res = d[c.lvl]
         /\ c.em.kind = "later" => d[c.lvl] = Nil("ok")
         /\ c.em.kind \in {"awaits", "nested"} =>
              d[c.lvl] = EmitterResult(EmitterAt(sr, sg, c.lvl), c.lvl)

PendingMeans(sr, sg, x) ==
    LET d == Denotation(sr, sg) IN
    /\ x[1] = "hnd" => x[2] \in 1..(Len(sg) + 1) /\ d[x[2] - 1] = Nil("ok")
    /\ x[1] = "rcv" => x[2] \in 0..Len(sg) /\ d[x[2]] = EmitterResult(EmitterAt(sr, sg, x[2]), x[2])

OneCompletion ==
    /\ call # NULL => Pending = {} /\ result = <<>> /\ phase \in {"started", "detached"}
    /\ \A x, y \in Pending : x = y
    /\ Pending # {} => result = <<>> /\ phase \in {"started", "detached"}
    /\ phase \in {"emitter", "connected"} => result = <<>>

MeaningInv ==
    /\ call # NULL => CallMeans(src, stages, call)
    /\ \A x \in Pending : PendingMeans(src, stages, x)
    /\ result # <<>> => result = <<Denotation(src, stages)[Len(stages)]>>

CompletionInv == TypeInv /\ OneCompletion /\ MeaningInv

\* The names of objects and of the other owners do not clash.
LEMMA Names ==
    /\ \A i \in Levels : /\ Em(i) \in Objs /\ Op(i) \in Objs /\ Hnd(i) \in Objs /\ Frame(i) \in Objs
                         /\ Task(i) \in Objs /\ Rcv(i) \in Objs /\ Ud(i) \in Objs
    /\ \A x \in Objs : x = <<x[1], x[2]>> /\ x[2] \in Levels
    /\ USER \notin Objs /\ LOOP \notin Objs /\ STACK \notin Objs /\ GONE \notin Objs /\ LOST \notin Objs
    /\ LOOP # USER /\ LOOP # STACK /\ LOOP # GONE /\ LOOP # LOST /\ STACK # GONE /\ STACK # LOST
    /\ GONE # LOST /\ USER # GONE /\ USER # LOST /\ USER # STACK
BY DEF Objs, Em, Op, Hnd, Frame, Task, Rcv, Ud, USER, LOOP, STACK, GONE, LOST

\* A destroyed object is gone or lost; the others keep their owners.
LEMMA DestroyFacts ==
    ASSUME NEW o \in [Objs -> Owners], NEW S
    PROVE  /\ Destroy(o, S) \in [Objs -> Owners]
           /\ \A x \in Objs : Destroy(o, S)[x] \in {GONE, LOST, o[x]}
           /\ \A x \in Objs : x \notin Doomed(o, S) /\ o[x] \notin Doomed(o, S) =>
                 Destroy(o, S)[x] = o[x]
           /\ \A x \in Objs : Destroy(o, S)[x] = GONE => x \in Doomed(o, S) \/ o[x] = GONE
           /\ \A x \in Objs : Destroy(o, S)[x] \in Objs => o[x] \notin Doomed(o, S)
<1> DEFINE D == Doomed(o, S)
<1>1. Destroy(o, S) = [x \in Objs |-> IF x \in D THEN GONE ELSE IF o[x] \in D THEN LOST ELSE o[x]]
  BY DEF Destroy
<1> HIDE DEF D
<1>2. \A x \in Objs : o[x] \in Owners /\ GONE \in Owners /\ LOST \in Owners
  BY DEF Owners
<1> QED BY <1>1, <1>2, Names DEF D

\* The levels of an expression.
LEMMA LevelFacts ==
    ASSUME TypeInv
    PROVE  /\ N \in Nat /\ N = Len(stages) /\ MaxStages \in Nat
           /\ \A i \in 0..(N + 1) : i \in Levels
           /\ \A i \in Levels : i \in Nat
BY OperationsConstants DEF TypeInv, N, Levels

\* start() of an emitter that becomes the operation at its level.
LEMMA StartMeans ==
    ASSUME TypeInv
    PROVE  CallMeans(src, stages, StartOf(0, src, EmitterResult(src, 0)))
<1>1. Denotation(src, stages)[0] = EmitterResult(src, 0)
  BY DenotationUnfolds DEF TypeInv
<1>2. src.kind = "later" => EmitterResult(src, 0) = Nil("ok")
  BY DEF EmitterResult
<1>3. 0 \in 0..Len(stages)
  BY DEF TypeInv
<1> DEFINE c == StartOf(0, src, EmitterResult(src, 0))
<1>4. c.do = "start" /\ c.lvl = 0 /\ c.em = src /\ c.res = EmitterResult(src, 0)
  BY DEF StartOf
<1> HIDE DEF c
<1> QED BY <1>1, <1>2, <1>3, <1>4 DEF CallMeans, EmitterAt, c

\* A then stage completes the next handler with its meaning.
LEMMA ThenMeans ==
    ASSUME TypeInv, NEW i \in 1..N, stages[i].how \in {"then", "then_just"}
    PROVE  ThenResult(i, Denotation(src, stages)[i - 1]) = Denotation(src, stages)[i]
<1> DEFINE r == Denotation(src, stages)[i - 1]
<1>1. Denotation(src, stages)[i] = StageMeaning(stages, i, r)
  BY DenotationUnfolds DEF TypeInv, N
<1>2. stages[i] \in AllStages
  BY OperationsConstants DEF TypeInv, N
<1>3. stages[i].how = "then_just" => stages[i].out # "keep"
  BY <1>2 DEF AllStages
<1> HIDE DEF r
<1>4. StageMeaning(stages, i, r) = ThenResult(i, r)
  BY <1>3 DEF StageMeaning, ThenResult, Forwards, IsError, JustTransformer, UserTransformer
<1> QED BY <1>1, <1>4 DEF r

\* A let stage starts an emitter with its meaning.
LEMMA LetMeans ==
    ASSUME TypeInv, NEW i \in 1..N, stages[i].how = "let"
    PROVE  CallMeans(src, stages, NextOf(i, Denotation(src, stages)[i - 1]))
<1> DEFINE r == Denotation(src, stages)[i - 1]
           c == NextOf(i, r)
<1>1. Denotation(src, stages)[i] = StageMeaning(stages, i, r) /\ i \in 0..Len(stages) /\ i # 0
  BY DenotationUnfolds DEF TypeInv, N
<1> HIDE DEF r
<1>2. CASE Forwards(stages[i], r)
  <2>1. c.do = "start" /\ c.lvl = i /\ c.em.kind = "just" /\ c.res = r
    BY <1>2 DEF NextOf, StartOf
  <2>2. StageMeaning(stages, i, r) = r
    BY <1>2 DEF StageMeaning, Forwards, IsError
  <2> HIDE DEF c
  <2> QED BY <1>1, <2>1, <2>2 DEF CallMeans, r, c
<1>3. CASE ~Forwards(stages[i], r)
  <2> DEFINE e == stages[i].next
  <2>1. c.do = "start" /\ c.lvl = i /\ c.em = e /\ c.res = EmitterResult(e, i)
    BY <1>3 DEF NextOf, StartOf
  <2>2. StageMeaning(stages, i, r) = EmitterResult(e, i)
    BY <1>3 DEF StageMeaning, Forwards, IsError
  <2>3. e.kind = "later" => EmitterResult(e, i) = Nil("ok")
    BY DEF EmitterResult
  <2>4. EmitterAt(src, stages, i) = e
    BY <1>1 DEF EmitterAt
  <2> HIDE DEF c, e
  <2> QED BY <1>1, <2>1, <2>2, <2>3, <2>4 DEF CallMeans, r, c
<1> QED BY <1>2, <1>3

\* The user connects and starts, or lets go.
LEMMA UserSteps ==
    ASSUME CompletionInv, DeleteEmitter \/ Connect \/ Start \/ DetachStart \/ Release
    PROVE  CompletionInv'
<1>0. TypeInv /\ OneCompletion /\ MeaningInv /\ UNCHANGED <<src, stages, result>>
  BY DEF CompletionInv, DeleteEmitter, Connect, Start, DetachStart, Release
<1>1. Pending = {} /\ call = NULL
  BY <1>0 DEF OneCompletion, DeleteEmitter, Connect, Start, DetachStart, Release
<1>2. ASSUME NEW root \in Owners, root # LOOP
      PROVE  /\ Wired(root) \in [Objs -> Owners]
             /\ \A x \in Objs : Wired(root)[x] # LOOP
  <2> DEFINE w == Wired(root)
  <2>1. ASSUME NEW x \in Objs PROVE w[x] \in Owners /\ w[x] # LOOP
    <3>0. x[2] \in Levels /\ Op(0) \in Objs /\ Hnd(x[2]) \in Objs /\ GONE \in Owners
      <4>1. x[2] \in Levels
        BY Names
      <4>2. 0 \in Levels
        BY OperationsConstants DEF Levels
      <4> QED BY <4>1, <4>2, Names DEF Owners
    <3>1. x[1] = "hnd" /\ x[2] \in 1..(N + 1) => HandlerOwner(x[2]) \in Objs
      <4>1. ASSUME x[2] \in 2..(N + 1) PROVE Hnd(x[2] - 1) \in Objs
        <5>1. x[2] - 1 \in 0..(N + 1)
          BY <1>0, <4>1, LevelFacts
        <5>2. x[2] - 1 \in Levels
          BY <1>0, <5>1, LevelFacts
        <5> QED BY <5>2, Names
      <4> QED BY <1>0, <3>0, <4>1, LevelFacts DEF HandlerOwner
    <3>2. RecoveredOwner(x) \in {Hnd(x[2]), GONE}
      BY DEF RecoveredOwner
    <3>3. w[x] \in {root, Op(0), GONE} \cup Objs
      BY <3>0, <3>1, <3>2 DEF Wired
    <3> QED BY <3>0, <3>3, <1>2, Names DEF Owners
  <2> QED BY <2>1 DEF Wired
<1>3. owner' \in [Objs -> Owners] /\ (\A x \in Objs : owner'[x] = LOOP => owner[x] = LOOP)
  <2>1. CASE DeleteEmitter \/ Release
    <3>1. PICK S : owner' = Destroy(owner, S)
      BY <2>1 DEF DeleteEmitter, Release
    <3>2. owner \in [Objs -> Owners]
      BY <1>0 DEF TypeInv
    <3>3. owner' \in [Objs -> Owners] /\ \A x \in Objs : owner'[x] \in {GONE, LOST, owner[x]}
      BY <3>1, <3>2, DestroyFacts
    <3> QED BY <3>3, Names
  <2>2. CASE Connect
    <3>1. USER \in Owners /\ USER # LOOP
      BY Names DEF Owners
    <3> QED BY <1>2, <2>2, <3>1 DEF Connect
  <2>3. CASE Start
    BY <1>0, <2>3 DEF Start, TypeInv
  <2>4. CASE DetachStart
    <3>1. Hnd(N + 1) \in Owners /\ Hnd(N + 1) # LOOP
      <4>1. N + 1 \in Levels
        BY <1>0, LevelFacts
      <4> QED BY <4>1, Names DEF Owners
    <3> QED BY <1>2, <2>4, <3>1 DEF DetachStart
  <2> QED BY <2>1, <2>2, <2>3, <2>4
<1>4. TypeInv' /\ Pending' = {}
  BY <1>0, <1>1, <1>3 DEF TypeInv, Pending
<1>5. CASE DeleteEmitter \/ Connect \/ Release
  <2>1. call' = NULL
    BY <1>1, <1>5 DEF DeleteEmitter, Connect, Release
  <2>2. phase' \in {"emitter", "connected"} => result' = <<>>
    BY <1>0, <1>5 DEF OneCompletion, DeleteEmitter, Connect, Release
  <2> QED BY <1>0, <1>4, <2>1, <2>2 DEF CompletionInv, OneCompletion, MeaningInv
<1>6. CASE Start \/ DetachStart
  <2>1. /\ call' = StartOf(0, src, EmitterResult(src, 0)) /\ result = <<>>
        /\ phase' \in {"started", "detached"}
    BY <1>0, <1>6 DEF Start, DetachStart, OneCompletion
  <2>2. CallMeans(src', stages', call')
    BY <1>0, <2>1, StartMeans
  <2>3. OneCompletion'
    BY <1>0, <1>4, <2>1 DEF OneCompletion
  <2>4. MeaningInv'
    BY <1>0, <1>4, <2>1, <2>2 DEF MeaningInv
  <2> QED BY <1>4, <2>3, <2>4 DEF CompletionInv
<1> QED BY <1>5, <1>6

\* The chain of calls moves on by one stage.
LEMMA RunSteps == ASSUME CompletionInv, Run PROVE CompletionInv'
<1> DEFINE d == Denotation(src, stages)
           i == call.lvl
<1>0. TypeInv /\ OneCompletion /\ MeaningInv /\ UNCHANGED <<src, stages>> /\ call # NULL
  BY DEF CompletionInv, Run, StartImmediate, StartLater, StartCoroutine, RunThen, RunLet, RunUser
<1>1. /\ Pending = {} /\ result = <<>> /\ phase \in {"started", "detached"}
      /\ CallMeans(src, stages, call) /\ owner \in [Objs -> Owners]
  BY <1>0 DEF OneCompletion, MeaningInv, TypeInv
<1>2. N \in Nat /\ N = Len(stages) /\ (\A j \in 0..(N + 1) : j \in Levels)
  BY <1>0, LevelFacts
<1>3. \A x \in Objs : x[1] \in {"hnd", "rcv"} => owner[x] # LOOP
  BY <1>1 DEF Pending
<1>4. CASE StartImmediate
  <2>1. /\ call.do = "start" /\ call' = Complete(i + 1, call.res)
        /\ UNCHANGED <<phase, owner, result>>
    BY <1>4 DEF StartImmediate
  <2>2. i \in 0..N /\ call.res = d[i]
    BY <1>1, <1>2, <2>1 DEF CallMeans
  <2>3. call'.do = "complete" /\ call'.lvl = i + 1 /\ call'.res = d[i]
    BY <2>1, <2>2 DEF Complete
  <2>4. i + 1 \in 1..(N + 1) /\ (i + 1) - 1 = i
    BY <1>2, <2>2
  <2> HIDE DEF d, i
  <2>5. CallMeans(src', stages', call')
    BY <1>0, <1>2, <2>3, <2>4 DEF CallMeans, d
  <2>6. TypeInv' /\ Pending' = {}
    BY <1>0, <1>1, <2>1 DEF TypeInv, Pending
  <2> QED BY <1>1, <2>1, <2>5, <2>6 DEF CompletionInv, OneCompletion, MeaningInv
<1>5. CASE StartLater
  <2>1. /\ call.do = "start" /\ call.em.kind = "later" /\ call' = NULL
        /\ owner' = [owner EXCEPT ![Hnd(i + 1)] = LOOP] /\ UNCHANGED <<phase, result>>
    BY <1>5 DEF StartLater
  <2>2. i \in 0..N /\ d[i] = Nil("ok")
    BY <1>1, <1>2, <2>1 DEF CallMeans
  <2>3. i + 1 \in 1..(N + 1) /\ (i + 1) - 1 = i
    BY <1>2, <2>2
  <2> HIDE DEF d, i
  <2>4. owner' \in [Objs -> Owners] /\ \A x \in Objs : owner'[x] = IF x = Hnd(i + 1) THEN LOOP ELSE owner[x]
    BY <1>1, <2>1 DEF Owners
  <2>5. \A x \in Pending' : x = Hnd(i + 1)
    BY <1>3, <2>4 DEF Pending
  <2>6. PendingMeans(src', stages', Hnd(i + 1))
    <3>1. Hnd(i + 1)[1] = "hnd" /\ Hnd(i + 1)[2] = i + 1
      BY DEF Hnd
    <3> QED BY <1>0, <1>2, <2>2, <2>3, <3>1 DEF PendingMeans, d
  <2>7. TypeInv'
    BY <1>0, <2>4 DEF TypeInv
  <2>8. OneCompletion'
    BY <1>1, <2>1, <2>5 DEF OneCompletion
  <2>9. MeaningInv'
    BY <1>1, <2>1, <2>5, <2>6 DEF MeaningInv
  <2> QED BY <2>7, <2>8, <2>9 DEF CompletionInv
<1>6. CASE StartCoroutine
  <2>1. /\ call.do = "start" /\ call.em.kind \in {"awaits", "nested"} /\ call' = NULL
        /\ owner' = AwaitTimer(AwaitTask(GiveHandlerToPromise(owner, i), i, call.em), i)
        /\ UNCHANGED <<phase, result>>
    BY <1>6 DEF StartCoroutine
  <2>2. i \in 0..N /\ d[i] = EmitterResult(EmitterAt(src, stages, i), i)
    BY <1>1, <1>2, <2>1 DEF CallMeans
  <2>3. i \in Levels /\ Frame(i) \in Objs /\ LOOP \in Owners /\ Frame(i) # LOOP
    <3>1. i \in Levels
      BY <1>2, <2>2
    <3> QED BY <3>1, Names DEF Owners
  <2> HIDE DEF d, i
  <2> DEFINE a == GiveHandlerToPromise(owner, i)
             b == AwaitTask(a, i, call.em)
  <2>4. a \in [Objs -> Owners] /\ \A x \in Objs : a[x] = owner[x] \/ a[x] = Frame(i)
    BY <1>1, <2>3 DEF GiveHandlerToPromise, Owners
  <2> HIDE DEF a
  <2>5. b \in [Objs -> Owners] /\ \A x \in Objs : b[x] = a[x] \/ b[x] = Frame(i)
    BY <2>3, <2>4 DEF AwaitTask, Owners
  <2>6. owner' = AwaitTimer(b, i)
    BY <2>1 DEF a
  <2> HIDE DEF b
  <2>7. owner' \in [Objs -> Owners] /\ \A x \in Objs : x # Rcv(i) => owner'[x] = b[x]
    BY <2>3, <2>5, <2>6 DEF AwaitTimer
  <2>8. \A x \in Pending' : x = Rcv(i)
    BY <1>3, <2>3, <2>4, <2>5, <2>7 DEF Pending
  <2>9. PendingMeans(src', stages', Rcv(i))
    <3>1. Rcv(i)[1] = "rcv" /\ Rcv(i)[2] = i
      BY DEF Rcv
    <3> QED BY <1>0, <1>2, <2>2, <3>1 DEF PendingMeans, d
  <2>10. TypeInv'
    BY <1>0, <2>7 DEF TypeInv
  <2>11. OneCompletion'
    BY <1>1, <2>1, <2>8 DEF OneCompletion
  <2>12. MeaningInv'
    BY <1>1, <2>1, <2>8, <2>9 DEF MeaningInv
  <2> QED BY <2>10, <2>11, <2>12 DEF CompletionInv
<1>7. CASE RunThen
  <2>1. /\ call.do = "complete" /\ i \in 1..N /\ stages[i].how \in {"then", "then_just"}
        /\ call' = Complete(i + 1, ThenResult(i, call.res))
        /\ owner' = [owner EXCEPT ![Ud(i)] = UserdataAfter(i, call.res)]
        /\ UNCHANGED <<phase, result>>
    BY <1>7 DEF RunThen
  <2>2. call.res = d[i - 1]
    BY <1>1, <2>1 DEF CallMeans
  <2>3. ThenResult(i, d[i - 1]) = d[i]
    BY <1>0, <2>1, ThenMeans
  <2>4. call'.do = "complete" /\ call'.lvl = i + 1 /\ call'.res = d[i]
    BY <2>1, <2>2, <2>3 DEF Complete
  <2>5. i + 1 \in 1..(N + 1) /\ (i + 1) - 1 = i /\ i \in 0..(N + 1)
    BY <1>2, <2>1
  <2>6. Ud(i) \in Objs /\ Ud(i)[1] = "ud" /\ UserdataAfter(i, call.res) \in Owners
    <3>1. Ud(i) \in Objs /\ Ud(i)[1] = "ud"
      BY <1>2, <2>5, Names DEF Ud
    <3> QED BY <1>1, <3>1 DEF UserdataAfter, Owners
  <2> HIDE DEF d, i
  <2>7. CallMeans(src', stages', call')
    BY <1>0, <1>2, <2>4, <2>5 DEF CallMeans, d
  <2>8. owner' \in [Objs -> Owners] /\ \A x \in Objs : x[1] # "ud" => owner'[x] = owner[x]
    BY <1>1, <2>1, <2>6
  <2>9. TypeInv' /\ Pending' = {}
    BY <1>0, <1>3, <2>8 DEF TypeInv, Pending
  <2> QED BY <1>1, <2>1, <2>7, <2>9 DEF CompletionInv, OneCompletion, MeaningInv
<1>8. CASE RunLet
  <2> DEFINE n == NextOf(i, call.res)
  <2>1. /\ call.do = "complete" /\ i \in 1..N /\ stages[i].how = "let" /\ call' = n
        /\ owner' = [owner EXCEPT
              ![Op(i)] = Hnd(i), ![Hnd(i + 1)] = Op(i),
              ![Frame(i)] = IF IsCoroutine(n.em) THEN Op(i) ELSE GONE,
              ![Ud(i)] = UserdataAfter(i, call.res)]
        /\ UNCHANGED <<phase, result>>
    BY <1>8 DEF RunLet
  <2>2. call.res = d[i - 1]
    BY <1>1, <2>1 DEF CallMeans
  <2>3. CallMeans(src, stages, NextOf(i, d[i - 1]))
    BY <1>0, <2>1, LetMeans
  <2>4. CallMeans(src', stages', call')
    BY <1>0, <2>1, <2>2, <2>3
  <2>5. i \in 0..(N + 1) /\ i + 1 \in 0..(N + 1)
    BY <1>2, <2>1
  <2>6. /\ Op(i) \in Objs /\ Hnd(i) \in Objs /\ Ud(i) \in Objs /\ Hnd(i) # LOOP /\ Op(i) # LOOP
        /\ Ud(i)[1] = "ud" /\ UserdataAfter(i, call.res) \in Owners
    <3>1. i \in Levels
      BY <1>2, <2>5
    <3>2. Op(i) \in Objs /\ Hnd(i) \in Objs /\ Ud(i) \in Objs /\ Hnd(i) # LOOP /\ Op(i) # LOOP
      BY <3>1, Names
    <3>3. Ud(i)[1] = "ud"
      BY DEF Ud
    <3> QED BY <1>1, <3>2, <3>3 DEF UserdataAfter, Owners
  <2> DEFINE f == IF IsCoroutine(n.em) THEN Op(i) ELSE GONE
             u == UserdataAfter(i, call.res)
  <2>7. f \in Owners /\ f # LOOP /\ u \in Owners
    BY <2>6, Names DEF Owners
  <2>8. owner' = [owner EXCEPT ![Op(i)] = Hnd(i), ![Hnd(i + 1)] = Op(i), ![Frame(i)] = f, ![Ud(i)] = u]
    BY <2>1
  <2> HIDE DEF d, i, n, f, u
  <2>9. owner' \in [Objs -> Owners]
    BY <1>1, <2>6, <2>7, <2>8 DEF Owners
  <2>10. \A x \in Objs : x[1] # "ud" => owner'[x] \in {owner[x], Hnd(i), Op(i), f}
    <3>1. \A x \in Objs : x[1] # "ud" => x # Ud(i)
      BY <2>6
    <3> QED BY <1>1, <2>8, <3>1
  <2>11. TypeInv' /\ Pending' = {}
    BY <1>0, <1>3, <2>6, <2>7, <2>9, <2>10 DEF TypeInv, Pending
  <2> QED BY <1>1, <2>1, <2>4, <2>11 DEF CompletionInv, OneCompletion, MeaningInv
<1>9. CASE RunUser
  <2>1. /\ call.do = "complete" /\ i = N + 1 /\ call' = NULL /\ result' = Append(result, call.res)
        /\ owner' = owner \/ owner' = Destroy(owner, {Op(0)})
        /\ phase' \in {"detached", "completed", "released"}
    BY <1>9 DEF RunUser
  <2>2. call.res = d[N] /\ result' = <<d[N]>>
    <3>1. call.res = d[(N + 1) - 1] /\ (N + 1) - 1 = N
      BY <1>1, <1>2, <2>1 DEF CallMeans
    <3> QED BY <1>1, <2>1, <3>1
  <2>3. owner' \in [Objs -> Owners] /\ \A x \in Objs : owner'[x] \in {GONE, LOST, owner[x]}
    BY <1>1, <2>1, DestroyFacts
  <2>4. TypeInv' /\ Pending' = {}
    BY <1>0, <1>3, <2>3, Names DEF TypeInv, Pending
  <2> QED BY <1>0, <1>2, <2>1, <2>2, <2>4 DEF CompletionInv, OneCompletion, MeaningInv
<1> QED BY <1>4, <1>5, <1>6, <1>7, <1>8, <1>9 DEF Run

\* A timer fires, or a dispatch returns.
LEMMA LoopSteps == ASSUME CompletionInv, Fire \/ Return PROVE CompletionInv'
<1>0. /\ TypeInv /\ OneCompletion /\ MeaningInv /\ UNCHANGED <<src, stages, phase, result>>
      /\ call = NULL /\ owner \in [Objs -> Owners]
  BY DEF CompletionInv, TypeInv, Fire, FireLater, FireAwaited, Return, Idle
<1>1. N = Len(stages) /\ N \in Nat
  BY <1>0, LevelFacts
<1>2. CASE Fire
  <2> DEFINE d == Denotation(src, stages)
  <2>1. PICK i \in Levels : FireLater(i) \/ FireAwaited(i)
    BY <1>2 DEF Fire
  <2>2. ASSUME NEW x \in Pending, NEW o, owner' = o, o \in [Objs -> Owners], o[x] # LOOP,
               \A y \in Objs : y # x /\ o[y] = LOOP => owner[y] = LOOP,
               CallMeans(src, stages, call')
        PROVE  CompletionInv'
    <3>1. Pending' = {}
      BY <1>0, <2>2 DEF OneCompletion, Pending
    <3>2. result = <<>> /\ phase \in {"started", "detached"}
      BY <1>0, <2>2 DEF OneCompletion
    <3>3. TypeInv'
      BY <1>0, <2>2 DEF TypeInv
    <3>4. OneCompletion'
      BY <1>0, <3>1, <3>2 DEF OneCompletion
    <3>5. MeaningInv'
      BY <1>0, <2>2, <3>1, <3>2 DEF MeaningInv
    <3> QED BY <3>3, <3>4, <3>5 DEF CompletionInv
  <2>3. CASE FireLater(i)
    <3>1. /\ owner[Hnd(i)] = LOOP /\ call' = Complete(i, Nil("ok"))
          /\ owner' = [owner EXCEPT ![Hnd(i)] = STACK]
      BY <2>3 DEF FireLater
    <3>2. Hnd(i) \in Objs /\ Hnd(i)[1] = "hnd" /\ Hnd(i)[2] = i
      BY Names DEF Hnd
    <3>3. Hnd(i) \in Pending
      BY <3>1, <3>2 DEF Pending
    <3>4. i \in 1..(N + 1) /\ d[i - 1] = Nil("ok")
      BY <1>0, <1>1, <3>2, <3>3 DEF MeaningInv, PendingMeans
    <3>5. call'.do = "complete" /\ call'.lvl = i /\ call'.res = Nil("ok")
      BY <3>1 DEF Complete
    <3> HIDE DEF d
    <3>6. CallMeans(src, stages, call')
      BY <1>1, <3>4, <3>5 DEF CallMeans, d
    <3>7. /\ owner' \in [Objs -> Owners] /\ owner'[Hnd(i)] = STACK /\ STACK # LOOP
          /\ \A y \in Objs : y # Hnd(i) => owner'[y] = owner[y]
      BY <1>0, <3>1, <3>2, Names DEF Owners
    <3> QED BY <2>2, <3>3, <3>6, <3>7
  <2>4. CASE FireAwaited(i)
    <3>1. /\ owner[Rcv(i)] = LOOP /\ call' = Complete(i + 1, EmitterResult(EmitterOf(i), i))
          /\ owner' = [[owner EXCEPT ![Rcv(i)] = STACK] EXCEPT ![Task(i)] = GONE]
      BY <2>4 DEF FireAwaited, HandOff
    <3>2. Rcv(i) \in Objs /\ Rcv(i)[1] = "rcv" /\ Rcv(i)[2] = i /\ Rcv(i) # Task(i)
      BY Names DEF Rcv, Task
    <3>3. Rcv(i) \in Pending
      BY <3>1, <3>2 DEF Pending
    <3>4. i \in 0..N /\ d[i] = EmitterResult(EmitterOf(i), i)
      BY <1>0, <1>1, <3>2, <3>3 DEF MeaningInv, PendingMeans, EmitterOf, EmitterAt
    <3>5. call'.do = "complete" /\ call'.lvl = i + 1 /\ call'.res = d[i]
      BY <3>1, <3>4 DEF Complete
    <3>6. i + 1 \in 1..(N + 1) /\ (i + 1) - 1 = i
      BY <1>1, <3>4
    <3> HIDE DEF d
    <3>7. CallMeans(src, stages, call')
      BY <1>1, <3>5, <3>6 DEF CallMeans, d
    <3>8. /\ owner' \in [Objs -> Owners] /\ owner'[Rcv(i)] = STACK /\ STACK # LOOP
          /\ \A y \in Objs : y # Rcv(i) => owner'[y] \in {owner[y], GONE}
      BY <1>0, <3>1, <3>2, Names DEF Owners
    <3>9. \A y \in Objs : y # Rcv(i) /\ owner'[y] = LOOP => owner[y] = LOOP
      BY <3>8, Names
    <3> QED BY <2>2, <3>3, <3>7, <3>8, <3>9
  <2> QED BY <2>1, <2>3, <2>4
<1>3. CASE Return
  <2>1. PICK S : owner' = Destroy(owner, S)
    BY <1>3 DEF Return
  <2>2. owner' \in [Objs -> Owners] /\ \A x \in Objs : owner'[x] \in {GONE, LOST, owner[x]}
    BY <1>0, <2>1, DestroyFacts
  <2>3. Pending' \subseteq Pending
    BY <2>2, Names DEF Pending
  <2>4. call' = NULL
    BY <1>0, <1>3 DEF Return
  <2>5. TypeInv'
    BY <1>0, <2>2 DEF TypeInv
  <2>6. OneCompletion'
    BY <1>0, <2>3, <2>4 DEF OneCompletion
  <2>7. MeaningInv'
    BY <1>0, <2>3, <2>4 DEF MeaningInv
  <2> QED BY <2>5, <2>6, <2>7 DEF CompletionInv
<1> QED BY <1>2, <1>3


\* Who owns what before the expression is connected.
OwnedAtFirst(x, n) ==
    \/ x = Em(n) /\ owner[x] = USER
    \/ x[1] = "em" /\ x[2] < n /\ owner[x] = Em(x[2] + 1)
    \/ x = Frame(0) /\ IsCoroutine(src) /\ owner[x] = Em(0)
    \/ x[1] = "ud" /\ x[2] \in 1..n /\ owner[x] \in {GONE, Em(x[2])}
    \/ x[1] # "ud" /\ (x = Frame(0) => ~IsCoroutine(src)) /\ owner[x] = GONE
    \/ x[1] = "ud" /\ x[2] \notin 1..n /\ owner[x] = GONE

\* Init says so.
LEMMA InitialOwners ==
    ASSUME Init, NEW n, Len(stages) = n, NEW x \in Objs
    PROVE  OwnedAtFirst(x, n)
<1>1. owner[x] = CASE x = Em(n) -> USER
                   [] x[1] = "em" /\ x[2] < n -> Em(x[2] + 1)
                   [] x = Frame(0) /\ IsCoroutine(src) -> Em(0)
                   [] x[1] = "ud" /\ x[2] \in 1..n -> IF stages[x[2]].ud = "nil" THEN GONE ELSE Em(x[2])
                   [] OTHER -> GONE
  BY DEF Init
<1>2. /\ x = Em(n) => x[1] = "em" /\ x[2] = n /\ x # Frame(0)
      /\ x = Frame(0) => x[1] = "frame"
  BY DEF Em, Frame
<1>3. CASE x = Em(n)
  <2>1. ~(x[1] = "em" /\ x[2] < n) \/ owner[x] \in {USER, Em(x[2] + 1)}
    BY <1>1, <1>2, <1>3
  <2> QED BY <1>1, <1>2, <1>3 DEF OwnedAtFirst
<1>4. CASE x # Em(n) /\ x[1] = "em" /\ x[2] < n
  BY <1>1, <1>2, <1>4 DEF OwnedAtFirst
<1>5. CASE x # Em(n) /\ ~(x[1] = "em" /\ x[2] < n) /\ x = Frame(0) /\ IsCoroutine(src)
  BY <1>1, <1>2, <1>5 DEF OwnedAtFirst
<1>6. CASE x # Em(n) /\ x[1] = "ud" /\ x[2] \in 1..n
  BY <1>1, <1>2, <1>6 DEF OwnedAtFirst
<1>7. CASE /\ x # Em(n) /\ ~(x[1] = "em" /\ x[2] < n)
           /\ ~(x = Frame(0) /\ IsCoroutine(src)) /\ ~(x[1] = "ud" /\ x[2] \in 1..n)
  BY <1>1, <1>2, <1>7 DEF OwnedAtFirst
<1> QED BY <1>3, <1>4, <1>5, <1>6, <1>7

\* An expression that nothing has been done with yet.
LEMMA CompletionStarts == ASSUME Init PROVE CompletionInv
<1>1. PICK n \in 0..MaxStages : stages \in [1..n -> Stages]
  BY DEF Init
<1>2. n \in Nat /\ Len(stages) = n /\ \A i \in 1..n : stages[i] \in Stages
  BY <1>1, OperationsConstants
<1>3. /\ src \in Sources /\ src \in Emitters /\ phase = "emitter" /\ call = NULL /\ result = <<>>
  BY OperationsConstants DEF Init
<1>4. /\ owner \in [Objs -> Owners] /\ \A x \in Objs : owner[x] # LOOP
  <2>1. ASSUME NEW x \in Objs PROVE owner[x] \in Owners /\ owner[x] # LOOP
    <3>1. OwnedAtFirst(x, n)
      BY <1>2, InitialOwners
    <3>2. x[2] \in Levels /\ 0 \in Levels /\ (x[2] < n => x[2] + 1 \in Levels)
      <4>1. x[2] \in Levels
        BY Names
      <4> QED BY <1>1, <4>1, OperationsConstants DEF Levels
    <3>3. Em(x[2]) \in Objs /\ Em(0) \in Objs /\ (x[2] < n => Em(x[2] + 1) \in Objs)
      BY <3>2, Names
    <3> QED BY <3>1, <3>3, Names DEF Owners, OwnedAtFirst
  <2>2. owner = [x \in Objs |-> owner[x]]
    BY DEF Init
  <2> QED BY <2>1, <2>2
<1>5. TypeInv /\ Pending = {}
  BY <1>2, <1>3, <1>4 DEF TypeInv, Pending
<1> QED BY <1>3, <1>5 DEF CompletionInv, OneCompletion, MeaningInv

\* At most one completion is under way, and it carries the right result.
LEMMA CompletionInvariant == Spec => []CompletionInv
<1>1. Init => CompletionInv
  BY CompletionStarts
<1>2. CompletionInv /\ [Next]_vars => CompletionInv'
  <2> SUFFICES ASSUME CompletionInv, [Next]_vars PROVE CompletionInv'
    OBVIOUS
  <2>1. CASE UNCHANGED vars
    BY <2>1 DEF vars, CompletionInv, TypeInv, OneCompletion, MeaningInv, Pending
  <2>2. CASE Next
    BY <2>2, UserSteps, RunSteps, LoopSteps DEF Next, LoopThread
  <2> QED BY <2>1, <2>2
<1> QED BY <1>1, <1>2, PTL DEF Spec

(* For any emitters and any number of then, then_just and let stages: the  *)
(* user's handler is completed at most once, with the meaning of the       *)
(* expression, whether stages complete inside start(), on the loop or in   *)
(* coroutines, and whenever operations are deleted or detached.            *)
THEOREM CompletesRight == Spec => []CompletesWithMeaning
<1>1. CompletionInv => CompletesWithMeaning
  BY MeaningDenotes DEF CompletionInv, MeaningInv, CompletesWithMeaning
<1> QED BY <1>1, CompletionInvariant, PTL

-----------------------------------------------------------------------------
(* Destruction.  What is destroyed with S is reachable from S along owners. *)

\* One more generation of owned objects.
Heirs(o, R) == {x \in Objs : o[x] \in R /\ ~Loses(x)}

Reaches(f, o, S, n) ==
    f = [k \in 0..n |-> IF k = 0 THEN S ELSE S \cup Heirs(o, f[k - 1])]

ReachOf(o, S, n) == CHOOSE f : Reaches(f, o, S, n)

\* The generations are defined to any depth.
LEMMA ReachExists ==
    ASSUME NEW o, NEW S, NEW n \in Nat
    PROVE  \E f : Reaches(f, o, S, n)
<1> DEFINE T == {m \in Nat : ~ \E f : Reaches(f, o, S, m)}
<1> SUFFICES ASSUME T # {} PROVE FALSE
  OBVIOUS
<1>1. PICK m \in T : \A k \in T : m <= k
  BY LeastNatural
<1>2. m # 0
  <2>1. Reaches([k \in 0..0 |-> S], o, S, 0)
    BY DEF Reaches
  <2> QED BY <2>1
<1>3. m - 1 \in Nat /\ m - 1 \notin T
  BY <1>1, <1>2
<1>4. PICK f : Reaches(f, o, S, m - 1)
  BY <1>3
<1> DEFINE e == [k \in 0..m |-> IF k = m THEN S \cup Heirs(o, f[m - 1]) ELSE f[k]]
<1>5. ASSUME NEW k \in 0..m
      PROVE  e[k] = IF k = 0 THEN S ELSE S \cup Heirs(o, e[k - 1])
  <2>1. CASE k = m
    <3>1. e[k] = S \cup Heirs(o, f[m - 1]) /\ m - 1 \in 0..m /\ m - 1 # m
      BY <1>3, <2>1
    <3>2. e[m - 1] = f[m - 1]
      BY <3>1
    <3> QED BY <1>2, <2>1, <3>1, <3>2
  <2>2. CASE k # m
    <3>1. k \in 0..(m - 1) /\ e[k] = f[k]
      BY <1>3, <2>2
    <3>2. f[k] = IF k = 0 THEN S ELSE S \cup Heirs(o, f[k - 1])
      BY <1>4, <3>1 DEF Reaches
    <3>3. k # 0 => k - 1 \in 0..m /\ k - 1 # m
      BY <3>1
    <3>4. k # 0 => e[k - 1] = f[k - 1]
      BY <3>3
    <3> QED BY <3>1, <3>2, <3>4
  <2> QED BY <2>1, <2>2
<1>6. Reaches(e, o, S, m)
  BY <1>5 DEF Reaches
<1> QED BY <1>6

\* The depth to which Destroy() follows owners.
Depth == 4 * MaxStages + 8

\* It is what the model computes.
LEMMA DoomedReaches == \A o, S : Doomed(o, S) = ReachOf(o, S, Depth)[Depth]
BY DEF Doomed, ReachOf, Reaches, Heirs, Depth

\* A set that contains S and all that its members own contains the doomed.
LEMMA DoomedWithin ==
    ASSUME NEW o, NEW S, NEW U, S \subseteq U, \A x \in Objs : o[x] \in U => x \in U
    PROVE  Doomed(o, S) \subseteq U
<1> DEFINE f == ReachOf(o, S, Depth)
           T == {k \in 0..Depth : ~(f[k] \subseteq U)}
<1>0. Depth \in Nat
  BY OperationsConstants DEF Depth
<1>1. Reaches(f, o, S, Depth)
  BY <1>0, ReachExists DEF ReachOf
<1> HIDE DEF f
<1>2. \A k \in 0..Depth : f[k] = IF k = 0 THEN S ELSE S \cup Heirs(o, f[k - 1])
  BY <1>1 DEF Reaches
<1>3. T = {}
  <2> SUFFICES ASSUME T # {} PROVE FALSE
    OBVIOUS
  <2>1. PICK m \in T : \A k \in T : m <= k
    <3>1. T \in SUBSET Nat
      BY <1>0
    <3> QED BY <3>1, LeastNatural
  <2>2. m # 0
    BY <1>2, <2>1
  <2>3. m - 1 \in 0..Depth /\ m - 1 \notin T
    BY <1>0, <2>1, <2>2
  <2>4. f[m - 1] \subseteq U
    BY <2>3
  <2>5. f[m] = S \cup Heirs(o, f[m - 1])
    BY <1>2, <2>1, <2>2
  <2>6. Heirs(o, f[m - 1]) \subseteq U
    BY <2>4 DEF Heirs
  <2> QED BY <2>1, <2>4, <2>5, <2>6
<1>4. Depth \in 0..Depth
  BY <1>0
<1>5. f[Depth] \subseteq U
  BY <1>3, <1>4
<1> QED BY <1>5, DoomedReaches DEF f

-----------------------------------------------------------------------------
(* Ownership.  The operation of a let stage lives in the handler of that   *)
(* stage, and a coroutine that waits in it can be destroyed too early (the *)
(* run let_coroutine).  With that case left out, all is well.              *)

\* No let transformer returns a coroutine that waits.
LetsDoNotWait == \A s \in Stages : s.how = "let" => s.next.kind \notin {"awaits", "nested"}

Live(o, x) == o[x] \notin {GONE, LOST}

\* What owns something is not gone, and is not userdata or a child task.
Tree(o) ==
    \A x \in Objs : o[x] \in Objs =>
      /\ o[o[x]] # GONE
      /\ o[x][1] \in {"em", "op", "hnd", "frame"}
      /\ o[x][1] = "frame" => o[x][2] = 0

\* The handlers after i, each owned by the one before.
Chain(o, i, n) == \A j \in (i + 1)..(n + 1) : o[Hnd(j)] = Hnd(j - 1)

\* The operation at level i, with the handlers behind it.
OperationAt(o, i, n) == Live(o, Op(i)) /\ o[Hnd(i + 1)] = Op(i) /\ Chain(o, i + 1, n)

NothingOnStack(o) == \A x \in Objs : o[x] # STACK

SourceReady(s, o) == IsCoroutine(s) => Live(o, Frame(0))

Unconnected(s, o, n) ==
    /\ SourceReady(s, o) /\ NothingOnStack(o)
    /\ Live(o, Frame(0)) => IsCoroutine(s)
    /\ \A j \in Levels : Live(o, Ud(j)) => j \in 1..n

Connected(s, o, n) == SourceReady(s, o) /\ NothingOnStack(o) /\ OperationAt(o, 0, n)

Starting(s, o, n, c) ==
    /\ OperationAt(o, c.lvl, n)
    /\ c.em.kind \in {"awaits", "nested"} => c.lvl = 0
    /\ c.lvl = 0 => SourceReady(s, o) /\ NothingOnStack(o) /\ c.em = s

Completing(o, n, c) == Live(o, Hnd(c.lvl)) /\ Chain(o, c.lvl, n)

Awaiting(o, n) ==
    NothingOnStack(o) /\ Live(o, Frame(0)) /\ o[Hnd(1)] = Frame(0) /\ Chain(o, 1, n)

OwnerInv ==
    /\ Tree(owner)
    /\ phase = "emitter" => Unconnected(src, owner, N)
    /\ phase = "connected" => Connected(src, owner, N)
    /\ call # NULL /\ call.do = "start" => Starting(src, owner, N, call)
    /\ call # NULL /\ call.do = "complete" => Completing(owner, N, call)
    /\ \A i \in Levels : owner[Hnd(i)] = LOOP => Chain(owner, i, N)
    /\ \A i \in Levels : owner[Rcv(i)] = LOOP => i = 0 /\ Awaiting(owner, N)

\* Destruction leaves nothing that is owned by what has gone.
LEMMA DestroyTree ==
    ASSUME NEW o \in [Objs -> Owners], NEW S, Tree(o)
    PROVE  Tree(Destroy(o, S))
<1> DEFINE p == Destroy(o, S)
<1>1. /\ \A x \in Objs : p[x] \in {GONE, LOST, o[x]}
      /\ \A x \in Objs : p[x] = GONE => x \in Doomed(o, S) \/ o[x] = GONE
      /\ \A x \in Objs : p[x] \in Objs => o[x] \notin Doomed(o, S)
  BY DestroyFacts
<1> HIDE DEF p
<1>2. SUFFICES ASSUME NEW x \in Objs, p[x] \in Objs
               PROVE  /\ p[p[x]] # GONE /\ p[x][1] \in {"em", "op", "hnd", "frame"}
                      /\ p[x][1] = "frame" => p[x][2] = 0
  BY DEF Tree, p
<1>3. p[x] = o[x] /\ o[x] \in Objs /\ o[x] \notin Doomed(o, S)
  BY <1>1, <1>2, Names
<1>4. /\ o[o[x]] # GONE /\ o[x][1] \in {"em", "op", "hnd", "frame"}
      /\ o[x][1] = "frame" => o[x][2] = 0
  BY <1>3 DEF Tree
<1>5. p[o[x]] # GONE
  BY <1>1, <1>3, <1>4
<1> QED BY <1>3, <1>4, <1>5

\* A handler that the loop owns keeps its chain when a dispatch returns.
LEMMA DestroyKeepsChain ==
    ASSUME NEW o \in [Objs -> Owners], NEW n \in Nat, \A j \in 0..(n + 1) : j \in Levels,
           NEW i \in 1..(n + 1), o[Hnd(i)] = LOOP, Chain(o, i, n),
           NEW x \in Objs, o[x] = STACK
    PROVE  Chain(Destroy(o, {x}), i, n)
<1> DEFINE K == {Hnd(j) : j \in i..(n + 1)}
           U == Objs \ K
           D == Doomed(o, {x})
<1>1. \A j \in (i + 1)..(n + 1) : j \in i..(n + 1) /\ j - 1 \in i..(n + 1) /\ j \in 0..(n + 1)
  OBVIOUS
<1>2. \A j \in (i + 1)..(n + 1) : Hnd(j) \in K /\ Hnd(j - 1) \in K /\ Hnd(j) \in Objs
  BY <1>1, Names
<1>3. \A y \in K : o[y] \in K \cup {LOOP}
  <2> SUFFICES ASSUME NEW j \in i..(n + 1) PROVE o[Hnd(j)] \in K \cup {LOOP}
    OBVIOUS
  <2>1. j = i \/ j \in (i + 1)..(n + 1)
    OBVIOUS
  <2>2. ASSUME j \in (i + 1)..(n + 1) PROVE o[Hnd(j)] = Hnd(j - 1)
    BY <2>2 DEF Chain
  <2> HIDE DEF K
  <2> QED BY <1>2, <2>1, <2>2
<1>4. K \subseteq Objs
  <2>1. \A j \in i..(n + 1) : j \in 0..(n + 1)
    OBVIOUS
  <2> QED BY <2>1, Names
<1> HIDE DEF K
<1>5. x \in U
  BY <1>3, <1>4, Names
<1>6. \A y \in Objs : o[y] \in U => y \in U
  BY <1>3, Names
<1> HIDE DEF D, U
<1>7. D \subseteq U
  <2>1. {x} \subseteq U
    BY <1>5
  <2> QED BY <1>6, <2>1, DoomedWithin, Zenon DEF D
<1>8. \A y \in Objs : y \notin D /\ o[y] \notin D => Destroy(o, {x})[y] = o[y]
  BY DestroyFacts DEF D
<1>9. ASSUME NEW j \in (i + 1)..(n + 1) PROVE Destroy(o, {x})[Hnd(j)] = Hnd(j - 1)
  <2>1. o[Hnd(j)] = Hnd(j - 1)
    BY DEF Chain
  <2>2. Hnd(j) \notin D /\ Hnd(j - 1) \notin D /\ Hnd(j) \in Objs
    BY <1>2, <1>7 DEF U
  <2> QED BY <1>8, <2>1, <2>2
<1> QED BY <1>9 DEF Chain

\* Who owns x after connecting with the user's handler, and root above it all.
WiredAt(o, w, root, n, x) ==
    \/ x = Op(0) /\ w[x] = root
    \/ x[1] = "hnd" /\ x[2] \in 1..(n + 1) /\ w[x] = HandlerOwner(x[2])
    \/ x = Frame(0) /\ Live(o, Frame(0)) /\ w[x] = Op(0)
    \/ x[1] = "ud" /\ x[2] \in 1..n /\ w[x] = Hnd(x[2])
    \/ w[x] = GONE

\* Wired() says so.
LEMMA WiredOwners ==
    ASSUME Unconnected(src, owner, N), NEW root, NEW x \in Objs
    PROVE  WiredAt(owner, Wired(root), root, N, x)
<1> DEFINE w == Wired(root)
           n == N
<1>1. w[x] = CASE x = Op(0) -> root
               [] x[1] = "hnd" /\ x[2] \in 1..(n + 1) -> HandlerOwner(x[2])
               [] x = Frame(0) /\ Exists(x) -> Op(0)
               [] x[1] = "ud" -> RecoveredOwner(x)
               [] OTHER -> GONE
  BY DEF Wired
<1>2. /\ x = Op(0) => x[1] = "op" /\ x # Frame(0)
      /\ x = Frame(0) => x[1] = "frame"
  BY DEF Op, Frame
<1> HIDE DEF w, n
<1>3. CASE x = Op(0)
  BY <1>1, <1>2, <1>3 DEF WiredAt, w
<1>4. CASE x # Op(0) /\ x[1] = "hnd" /\ x[2] \in 1..(n + 1)
  BY <1>1, <1>2, <1>4 DEF WiredAt, w, n
<1>5. CASE x = Frame(0)
  <2>1. w[x] = IF Exists(x) THEN Op(0) ELSE GONE
    BY <1>1, <1>2, <1>5
  <2> QED BY <1>5, <2>1 DEF WiredAt, w, Live, Exists
<1>6. CASE x[1] = "ud"
  <2>1. x # Op(0) /\ x # Frame(0) /\ w[x] = RecoveredOwner(x)
    BY <1>1, <1>2, <1>6
  <2>2. x = Ud(x[2]) /\ x[2] \in Levels
    BY <1>6, Names DEF Ud
  <2>3. Exists(x) => x[2] \in 1..n
    BY <2>2 DEF Unconnected, Live, Exists, n
  <2>4. RecoveredOwner(x) = IF Exists(x) THEN Hnd(x[2]) ELSE GONE
    BY DEF RecoveredOwner
  <2> QED BY <1>6, <2>1, <2>3, <2>4 DEF WiredAt, w, n
<1>7. CASE /\ x # Op(0) /\ ~(x[1] = "hnd" /\ x[2] \in 1..(n + 1))
           /\ x # Frame(0) /\ x[1] # "ud"
  BY <1>1, <1>7 DEF WiredAt, w
<1> QED BY <1>3, <1>4, <1>5, <1>6, <1>7

\* Connecting hangs every handler behind the source's operation.
LEMMA WiredFacts ==
    ASSUME TypeInv, Unconnected(src, owner, N), NEW root \in {USER, Hnd(N + 1)}
    PROVE  Tree(Wired(root)) /\ Connected(src, Wired(root), N)
<1> DEFINE w == Wired(root)
           n == N
<1>0. /\ n \in Nat /\ (\A i \in 0..(n + 1) : i \in Levels) /\ 0 \in Levels
      /\ \A i \in 1..(n + 1) : i \in Levels /\ Hnd(i) \in Objs
  <2>1. n \in Nat /\ \A i \in 0..(n + 1) : i \in Levels
    BY LevelFacts
  <2>2. 0 \in 0..(n + 1) /\ \A i \in 1..(n + 1) : i \in 0..(n + 1)
    BY <2>1
  <2> QED BY <2>1, <2>2, Names
<1>1. \A x \in Objs : w[x] =
        CASE x = Op(0) -> root
          [] x[1] = "hnd" /\ x[2] \in 1..(n + 1) -> HandlerOwner(x[2])
          [] x = Frame(0) /\ Exists(x) -> Op(0)
          [] x[1] = "ud" -> RecoveredOwner(x)
          [] OTHER -> GONE
  BY DEF Wired
<1>2. Op(0) \in Objs /\ Frame(0) \in Objs
  BY <1>0, Names
<1> HIDE DEF w, n
<1>3. w[Op(0)] = root
  <2>1. Op(0)[1] = "op" /\ Op(0) # Frame(0)
    BY DEF Op, Frame
  <2> QED BY <1>1, <1>2, <2>1
<1>4. \A i \in 1..(n + 1) : w[Hnd(i)] = HandlerOwner(i)
  <2> SUFFICES ASSUME NEW i \in 1..(n + 1) PROVE w[Hnd(i)] = HandlerOwner(i)
    OBVIOUS
  <2>1. Hnd(i) \in Objs /\ Hnd(i) # Op(0) /\ Hnd(i) # Frame(0) /\ Hnd(i)[1] = "hnd" /\ Hnd(i)[2] = i
    BY <1>0 DEF Hnd, Op, Frame
  <2> QED BY <1>1, <2>1
<1>5. Exists(Frame(0)) => w[Frame(0)] = Op(0)
  <2>1. Frame(0)[1] = "frame" /\ Op(0) # Frame(0)
    BY DEF Op, Frame
  <2> QED BY <1>1, <1>2, <2>1
<1>6. ASSUME NEW x \in Objs
      PROVE  \/ x = Op(0) /\ w[x] = root
             \/ x[1] = "hnd" /\ x[2] \in 1..(n + 1) /\ w[x] = HandlerOwner(x[2])
             \/ w[x] = Op(0)
             \/ x[2] \in 1..(n + 1) /\ w[x] = Hnd(x[2])
             \/ w[x] = GONE
  <2>1. WiredAt(owner, w, root, n, x)
    BY WiredOwners DEF w, n
  <2>2. x[2] \in 1..n => x[2] \in 1..(n + 1)
    BY <1>0
  <2> QED BY <2>1, <2>2 DEF WiredAt
<1>7. /\ HandlerOwner(1) = Op(0)
      /\ \A i \in 2..(n + 1) : HandlerOwner(i) = Hnd(i - 1) /\ i - 1 \in 1..(n + 1) /\ i \in 1..(n + 1)
  BY <1>0 DEF HandlerOwner
<1>8. \A i \in 1..(n + 1) : HandlerOwner(i) = Op(0) \/ (i - 1 \in 1..(n + 1) /\ HandlerOwner(i) = Hnd(i - 1))
  <2> SUFFICES ASSUME NEW i \in 1..(n + 1)
               PROVE  HandlerOwner(i) = Op(0) \/ (i - 1 \in 1..(n + 1) /\ HandlerOwner(i) = Hnd(i - 1))
    OBVIOUS
  <2>1. i = 1 \/ i \in 2..(n + 1)
    BY <1>0
  <2>2. CASE i = 1
    BY <1>7, <2>2, Zenon
  <2>3. CASE i \in 2..(n + 1)
    BY <1>7, <2>3, Zenon
  <2> QED BY <2>1, <2>2, <2>3
<1> DEFINE Good == {Op(0)} \cup {Hnd(i) : i \in 1..(n + 1)}
<1>9. \A y \in Good : y \in Objs /\ w[y] \in Good \cup {USER} /\ y[1] \in {"op", "hnd"}
  <2>1. root \in Good \cup {USER}
    <3>1. n + 1 \in 1..(n + 1)
      BY <1>0
    <3> QED BY <3>1 DEF n
  <2>2. w[Op(0)] \in Good \cup {USER} /\ Op(0) \in Objs /\ Op(0)[1] = "op"
    BY <1>2, <1>3, <2>1 DEF Op
  <2>3. \A i \in 1..(n + 1) : w[Hnd(i)] \in Good /\ Hnd(i) \in Objs /\ Hnd(i)[1] = "hnd"
    BY <1>0, <1>4, <1>8 DEF Hnd
  <2> QED BY <2>2, <2>3
<1>10. \A x \in Objs : w[x] \in Good \cup {USER, GONE}
  <2> SUFFICES ASSUME NEW x \in Objs PROVE w[x] \in Good \cup {USER, GONE}
    OBVIOUS
  <2>1. root \in Good \cup {USER}
    BY <1>3, <1>9
  <2>2. \A i \in 1..(n + 1) : HandlerOwner(i) \in Good /\ Hnd(i) \in Good
    BY <1>8
  <2>3. Op(0) \in Good
    OBVIOUS
  <2> HIDE DEF Good
  <2> QED BY <1>6, <2>1, <2>2, <2>3
<1> HIDE DEF Good
<1>11. Tree(w)
  <2> SUFFICES ASSUME NEW x \in Objs, w[x] \in Objs
               PROVE  /\ w[w[x]] # GONE /\ w[x][1] \in {"em", "op", "hnd", "frame"}
                      /\ w[x][1] = "frame" => w[x][2] = 0
    BY DEF Tree
  <2>1. w[x] \in Good
    BY <1>10, Names
  <2>2. w[w[x]] # GONE /\ w[x][1] \in {"op", "hnd"}
    BY <1>9, <2>1, Names
  <2> QED BY <2>2
<1>12. NothingOnStack(w)
  BY <1>9, <1>10, Names DEF NothingOnStack
<1>13. SourceReady(src, w)
  BY <1>2, <1>5, Names DEF SourceReady, Unconnected, Live, Exists
<1>14. OperationAt(w, 0, n)
  <2>1. Live(w, Op(0))
    <3>1. w[Op(0)] \in Objs \cup {USER}
      BY <1>0, <1>3 DEF n
    <3> QED BY <3>1, Names DEF Live
  <2>2. w[Hnd(0 + 1)] = Op(0)
    BY <1>0, <1>4, <1>7
  <2>3. Chain(w, 0 + 1, n)
    BY <1>4, <1>7 DEF Chain
  <2> QED BY <2>1, <2>2, <2>3 DEF OperationAt
<1> QED BY <1>11, <1>12, <1>13, <1>14 DEF Connected, w, n

\* When the loop owes nothing, its part of the invariant holds.
LEMMA NothingOwed ==
    ASSUME Pending = {}
    PROVE  \A i \in Levels : owner[Hnd(i)] # LOOP /\ owner[Rcv(i)] # LOOP
<1> SUFFICES ASSUME NEW i \in Levels PROVE owner[Hnd(i)] # LOOP /\ owner[Rcv(i)] # LOOP
  OBVIOUS
<1>1. Hnd(i) \in Objs /\ Rcv(i) \in Objs /\ Hnd(i)[1] = "hnd" /\ Rcv(i)[1] = "rcv"
  BY Names DEF Hnd, Rcv
<1> QED BY <1>1 DEF Pending

\* An expression that has not been connected.
LEMMA OwnersAtFirst == ASSUME Init PROVE OwnerInv
<1>1. CompletionInv /\ phase = "emitter" /\ call = NULL
  BY CompletionStarts DEF Init
<1>2. TypeInv /\ N \in Nat /\ 0 \in Levels /\ N = Len(stages)
  <2>1. TypeInv
    BY <1>1 DEF CompletionInv
  <2> QED BY <2>1, LevelFacts, OperationsConstants DEF Levels
<1>3. \A i \in Levels : owner[Hnd(i)] # LOOP /\ owner[Rcv(i)] # LOOP
  BY <1>1, NothingOwed DEF CompletionInv, OneCompletion
<1>4. \A x \in Objs : OwnedAtFirst(x, N)
  BY <1>2, InitialOwners
<1>5. \A i \in 0..N : i \in Levels /\ Em(i) \in Objs
  <2>1. \A i \in 0..N : i \in 0..(N + 1)
    BY <1>2
  <2>2. \A i \in 0..N : i \in Levels
    BY <1>2, <2>1, LevelFacts
  <2> QED BY <2>2, Names
<1>6. \A i \in 0..N : owner[Em(i)] # GONE /\ owner[Em(i)] \in Objs \cup {USER}
  <2> SUFFICES ASSUME NEW i \in 0..N PROVE owner[Em(i)] # GONE /\ owner[Em(i)] \in Objs \cup {USER}
    OBVIOUS
  <2>1. OwnedAtFirst(Em(i), N) /\ Em(i)[1] = "em" /\ Em(i)[2] = i
    BY <1>4, <1>5 DEF Em
  <2>2. i = N \/ (i < N /\ i + 1 \in 0..N)
    BY <1>2
  <2>3. Em(i) # Frame(0) /\ (i = N => Em(i) = Em(N))
    BY DEF Em, Frame
  <2>4. CASE i = N
    <3>1. owner[Em(N)] = USER
      <4>1. owner[Em(N)] = CASE Em(N) = Em(N) -> USER
                             [] Em(N)[1] = "em" /\ Em(N)[2] < N -> Em(Em(N)[2] + 1)
                             [] Em(N) = Frame(0) /\ IsCoroutine(src) -> Em(0)
                             [] Em(N)[1] = "ud" /\ Em(N)[2] \in 1..N ->
                                  IF stages[Em(N)[2]].ud = "nil" THEN GONE ELSE Em(Em(N)[2])
                             [] OTHER -> GONE
        BY <1>2, <1>5 DEF Init
      <4>2. ~(N < N) /\ Em(N)[2] = N /\ Em(N)[1] = "em" /\ Em(N) # Frame(0)
        BY <1>2 DEF Em, Frame
      <4> QED BY <4>1, <4>2
    <3> QED BY <2>4, <3>1, Names
  <2>5. CASE i < N /\ i + 1 \in 0..N
    <3>1. Em(i + 1) \in Objs
      BY <1>5, <2>5
    <3>2. owner[Em(i)] = Em(i + 1)
      <4>1. owner[Em(i)] = CASE Em(i) = Em(N) -> USER
                             [] Em(i)[1] = "em" /\ Em(i)[2] < N -> Em(Em(i)[2] + 1)
                             [] Em(i) = Frame(0) /\ IsCoroutine(src) -> Em(0)
                             [] Em(i)[1] = "ud" /\ Em(i)[2] \in 1..N ->
                                  IF stages[Em(i)[2]].ud = "nil" THEN GONE ELSE Em(Em(i)[2])
                             [] OTHER -> GONE
        BY <1>2, <1>5 DEF Init
      <4>2. Em(i) # Em(N)
        BY <1>2, <2>5 DEF Em
      <4> QED BY <2>1, <2>3, <2>5, <4>1, <4>2
    <3> QED BY <3>1, <3>2, Names
  <2> QED BY <2>2, <2>4, <2>5
<1>7. ASSUME NEW x \in Objs
      PROVE  owner[x] \in {USER, GONE} \cup {Em(i) : i \in 0..N}
  <2>1. OwnedAtFirst(x, N) /\ x[2] \in Levels
    BY <1>4, Names
  <2>2. x[2] \in Nat /\ (x[2] < N => x[2] + 1 \in 0..N) /\ 0 \in 0..N /\ (x[2] \in 1..N => x[2] \in 0..N)
    BY <1>2, <2>1, LevelFacts
  <2> QED BY <2>1, <2>2 DEF OwnedAtFirst
<1>8. Tree(owner)
  <2> SUFFICES ASSUME NEW x \in Objs, owner[x] \in Objs
               PROVE  /\ owner[owner[x]] # GONE /\ owner[x][1] \in {"em", "op", "hnd", "frame"}
                      /\ owner[x][1] = "frame" => owner[x][2] = 0
    BY DEF Tree
  <2>1. PICK i \in 0..N : owner[x] = Em(i)
    BY <1>7, Names
  <2>2. owner[owner[x]] # GONE
    BY <1>6, <2>1
  <2>3. Em(i)[1] = "em"
    BY DEF Em
  <2> QED BY <2>1, <2>2, <2>3
<1>9. Unconnected(src, owner, N)
  <2>1. NothingOnStack(owner)
    <3>1. \A x \in Objs : owner[x] \in {USER, GONE} \cup Objs
      BY <1>5, <1>7
    <3> QED BY <3>1, Names DEF NothingOnStack
  <2>2. SourceReady(src, owner)
    <3> SUFFICES ASSUME IsCoroutine(src) PROVE Live(owner, Frame(0))
      BY DEF SourceReady
    <3>1. Frame(0) \in Objs /\ Frame(0)[1] = "frame" /\ Frame(0) # Em(N) /\ 0 \in 0..N
      <4>1. Frame(0) \in Objs
        BY <1>2, Names
      <4>2. Frame(0)[1] = "frame" /\ Frame(0) # Em(N)
        BY DEF Frame, Em
      <4> QED BY <1>2, <4>1, <4>2
    <3>2. OwnedAtFirst(Frame(0), N)
      BY <1>4, <3>1
    <3>3. owner[Frame(0)] = Em(0)
      BY <3>1, <3>2 DEF OwnedAtFirst
    <3> QED BY <1>5, <3>1, <3>3, Names DEF Live
  <2>3. ASSUME NEW j \in Levels, Live(owner, Ud(j)) PROVE j \in 1..N
    <3>1. Ud(j) \in Objs /\ Ud(j)[1] = "ud" /\ Ud(j)[2] = j /\ Ud(j) # Em(N) /\ Ud(j) # Frame(0)
      BY Names DEF Ud, Em, Frame
    <3>2. OwnedAtFirst(Ud(j), N)
      BY <1>4, <3>1
    <3> QED BY <2>3, <3>1, <3>2 DEF OwnedAtFirst, Live
  <2>4. ASSUME Live(owner, Frame(0)) PROVE IsCoroutine(src)
    <3>1. Frame(0) \in Objs
      BY <1>2, Names
    <3>2. Frame(0)[1] = "frame" /\ Frame(0) # Em(N)
      BY DEF Frame, Em
    <3>3. OwnedAtFirst(Frame(0), N)
      BY <1>4, <3>1
    <3> QED BY <2>4, <3>2, <3>3 DEF OwnedAtFirst, Live
  <2> QED BY <2>1, <2>2, <2>3, <2>4 DEF Unconnected
<1> QED BY <1>1, <1>3, <1>8, <1>9 DEF OwnerInv

\* The user connects, starts or deletes.
LEMMA UserOwns ==
    ASSUME CompletionInv, OwnerInv, DeleteEmitter \/ Connect \/ Start \/ DetachStart \/ Release
    PROVE  OwnerInv'
<1>0. /\ TypeInv /\ OneCompletion /\ UNCHANGED <<src, stages>> /\ Tree(owner) /\ N' = N
      /\ owner \in [Objs -> Owners]
  BY DEF CompletionInv, OwnerInv, TypeInv, N, DeleteEmitter, Connect, Start, DetachStart, Release
<1>1. Pending = {} /\ call = NULL
  BY <1>0 DEF OneCompletion, DeleteEmitter, Connect, Start, DetachStart, Release
<1>2. \A i \in Levels : owner[Hnd(i)] # LOOP /\ owner[Rcv(i)] # LOOP
  BY <1>1, NothingOwed
<1>3. \A i \in Levels : Hnd(i) \in Objs /\ Rcv(i) \in Objs
  BY Names
<1> DEFINE Quiet == \A i \in Levels : owner'[Hnd(i)] # LOOP /\ owner'[Rcv(i)] # LOOP
<1>4. CASE DeleteEmitter \/ Release
  <2>1. /\ call' = NULL /\ phase' \in {"deleted", "released"}
        /\ \E S : owner' = Destroy(owner, S)
    BY <1>1, <1>4 DEF DeleteEmitter, Release
  <2>2. Tree(owner') /\ \A x \in Objs : owner'[x] \in {GONE, LOST, owner[x]}
    BY <1>0, <2>1, DestroyTree, DestroyFacts
  <2>3. Quiet
    BY <1>2, <1>3, <2>2, Names
  <2> QED BY <2>1, <2>2, <2>3 DEF OwnerInv
<1>5. CASE Start
  <2>1. /\ phase = "connected" /\ phase' = "started" /\ owner' = owner
        /\ call' = StartOf(0, src, EmitterResult(src, 0))
    BY <1>5 DEF Start
  <2>2. call'.do = "start" /\ call'.lvl = 0 /\ call'.em = src
    BY <2>1 DEF StartOf
  <2>3. Connected(src, owner, N)
    BY <2>1 DEF OwnerInv
  <2>4. Starting(src', owner', N', call')
    BY <1>0, <2>1, <2>2, <2>3 DEF Starting, Connected
  <2> QED BY <1>0, <1>2, <2>1, <2>2, <2>4 DEF OwnerInv
<1>6. ASSUME NEW root \in {USER, Hnd(N + 1)}, owner' = Wired(root), phase = "emitter"
      PROVE  Tree(owner') /\ Connected(src', owner', N') /\ Quiet
  <2>1. Tree(owner') /\ Connected(src', owner', N')
    BY <1>0, <1>6, WiredFacts DEF OwnerInv
  <2>2. ASSUME NEW x \in Objs PROVE owner'[x] # LOOP
    <3>1. root # LOOP
      <4>1. N + 1 \in Levels
        BY <1>0, LevelFacts
      <4> QED BY <4>1, Names
    <3>2. owner'[x] \in {root, HandlerOwner(x[2]), Op(0), RecoveredOwner(x), GONE}
      BY <1>6 DEF Wired
    <3>3. HandlerOwner(x[2]) # LOOP /\ Op(0) # LOOP /\ RecoveredOwner(x) # LOOP /\ GONE # LOOP
      BY DEF HandlerOwner, RecoveredOwner, Op, Hnd, LOOP, GONE
    <3> QED BY <3>1, <3>2, <3>3
  <2> QED BY <1>3, <2>1, <2>2
<1>7. CASE Connect
  <2>1. phase = "emitter" /\ phase' = "connected" /\ owner' = Wired(USER) /\ call' = NULL
    BY <1>1, <1>7 DEF Connect
  <2>2. Tree(owner') /\ Connected(src', owner', N') /\ Quiet
    BY <1>6, <2>1
  <2> QED BY <2>1, <2>2 DEF OwnerInv
<1>8. CASE DetachStart
  <2>1. /\ phase = "emitter" /\ phase' = "detached" /\ owner' = Wired(Hnd(N + 1))
        /\ call' = StartOf(0, src, EmitterResult(src, 0))
    BY <1>8 DEF DetachStart
  <2>2. Tree(owner') /\ Connected(src', owner', N') /\ Quiet
    BY <1>6, <2>1
  <2>3. call'.do = "start" /\ call'.lvl = 0 /\ call'.em = src
    BY <2>1 DEF StartOf
  <2>4. Starting(src', owner', N', call')
    BY <1>0, <2>2, <2>3 DEF Starting, Connected
  <2> QED BY <2>1, <2>2, <2>3, <2>4 DEF OwnerInv
<1> QED BY <1>4, <1>5, <1>7, <1>8

\* A completion finds the handler that is entered, whatever starts it.
LEMMA StartedRuns ==
    ASSUME CompletionInv, OwnerInv, StartImmediate \/ StartLater
    PROVE  OwnerInv'
<1> DEFINE i == call.lvl
           n == N
<1>0. /\ TypeInv /\ OneCompletion /\ UNCHANGED <<src, stages, phase>> /\ Tree(owner) /\ n' = n
      /\ owner \in [Objs -> Owners] /\ call # NULL /\ call.do = "start"
      /\ Starting(src, owner, n, call) /\ CallMeans(src, stages, call)
  BY DEF CompletionInv, OwnerInv, TypeInv, MeaningInv, N, StartImmediate, StartLater
<1>1. Pending = {} /\ phase \in {"started", "detached"}
  BY <1>0 DEF OneCompletion
<1>2. \A k \in Levels : owner[Hnd(k)] # LOOP /\ owner[Rcv(k)] # LOOP
  BY <1>1, NothingOwed
<1>3. /\ n \in Nat /\ i \in 0..n /\ i + 1 \in Levels /\ i \in Levels
      /\ \A j \in 0..(n + 1) : j \in Levels
  <2>1. n \in Nat /\ n = Len(stages) /\ \A j \in 0..(n + 1) : j \in Levels
    BY <1>0, LevelFacts
  <2>2. i \in 0..n
    BY <1>0, <2>1 DEF CallMeans
  <2> QED BY <2>1, <2>2
<1>4. Hnd(i + 1) \in Objs /\ Op(i) \in Objs /\ owner[Hnd(i + 1)] = Op(i) /\ Chain(owner, i + 1, n)
  BY <1>0, <1>3, Names DEF Starting, OperationAt
<1>5. CASE StartImmediate
  <2>1. call' = Complete(i + 1, call.res) /\ owner' = owner
    BY <1>5 DEF StartImmediate
  <2>2. call'.do = "complete" /\ call'.lvl = i + 1
    BY <2>1 DEF Complete
  <2>3. Completing(owner', n', call')
    BY <1>0, <1>4, <2>1, <2>2, Names DEF Completing, Live
  <2> QED BY <1>0, <1>1, <1>2, <2>1, <2>2, <2>3 DEF OwnerInv
<1>6. CASE StartLater
  <2>1. call' = NULL /\ owner' = [owner EXCEPT ![Hnd(i + 1)] = LOOP]
    BY <1>6 DEF StartLater
  <2> HIDE DEF i, n
  <2>2. owner'[Hnd(i + 1)] = LOOP /\ \A x \in Objs : x # Hnd(i + 1) => owner'[x] = owner[x]
    BY <1>0, <1>4, <2>1
  <2>3. Tree(owner')
    BY <1>0, <2>2, Names DEF Tree
  <2>4. ASSUME NEW k \in Levels
        PROVE  owner'[Rcv(k)] # LOOP /\ (owner'[Hnd(k)] = LOOP => k = i + 1)
    <3>1. Rcv(k) \in Objs /\ Hnd(k) \in Objs /\ Rcv(k) # Hnd(i + 1) /\ (k # i + 1 => Hnd(k) # Hnd(i + 1))
      <4>1. Rcv(k) # Hnd(i + 1) /\ (k # i + 1 => Hnd(k) # Hnd(i + 1))
        BY DEF Rcv, Hnd
      <4> QED BY <4>1, Names
    <3> QED BY <1>2, <2>2, <3>1
  <2>5. Chain(owner', i + 1, n')
    <3> SUFFICES ASSUME NEW j \in ((i + 1) + 1)..(n + 1) PROVE owner'[Hnd(j)] = Hnd(j - 1)
      BY <1>0 DEF Chain
    <3>1. j \in 0..(n + 1) /\ j # i + 1
      BY <1>3
    <3>2. Hnd(j) \in Objs /\ Hnd(j) # Hnd(i + 1)
      <4>1. Hnd(j) \in Objs
        BY <1>3, <3>1, Names
      <4> QED BY <3>1, <4>1 DEF Hnd
    <3> QED BY <1>4, <2>2, <3>2 DEF Chain
  <2> QED BY <1>1, <1>0, <2>1, <2>3, <2>4, <2>5 DEF OwnerInv, n
<1> QED BY <1>5, <1>6

\* What the start callback of the source's coroutine does to owners.
Suspended(o, p) ==
    /\ p \in [Objs -> Owners]
    /\ p[Hnd(1)] = Frame(0) /\ p[Rcv(0)] = LOOP /\ p[Task(0)] \in {Frame(0), o[Task(0)]}
    /\ \A x \in Objs \ {Hnd(1), Rcv(0), Task(0)} : p[x] = o[x]

\* StartCoroutine says so.
LEMMA CoroutineEffect ==
    ASSUME owner \in [Objs -> Owners], StartCoroutine, call.lvl = 0, 0 \in Levels, 1 \in Levels
    PROVE  Suspended(owner, owner')
<1>1. /\ Hnd(1) \in Objs /\ Frame(0) \in Objs /\ Task(0) \in Objs /\ Rcv(0) \in Objs
      /\ Rcv(0) # Hnd(1) /\ Rcv(0) # Task(0) /\ Task(0) # Hnd(1)
  <2>1. Hnd(1) \in Objs /\ Frame(0) \in Objs /\ Task(0) \in Objs /\ Rcv(0) \in Objs
    BY Names
  <2> QED BY <2>1 DEF Hnd, Task, Rcv
<1>2. owner' = AwaitTimer(AwaitTask(GiveHandlerToPromise(owner, 0), 0, call.em), 0)
  BY DEF StartCoroutine
<1> DEFINE g == [owner EXCEPT ![Hnd(1)] = Frame(0)]
           t == IF call.em.kind = "nested" THEN [g EXCEPT ![Task(0)] = Frame(0)] ELSE g
<1>3. owner' = [t EXCEPT ![Rcv(0)] = LOOP]
  <2>1. 0 + 1 = 1
    OBVIOUS
  <2> QED BY <1>2, <2>1 DEF AwaitTimer, AwaitTask, GiveHandlerToPromise
<1>4. /\ g \in [Objs -> Owners] /\ g[Hnd(1)] = Frame(0)
      /\ \A x \in Objs \ {Hnd(1)} : g[x] = owner[x]
  BY <1>1 DEF Owners
<1> HIDE DEF g
<1>5. /\ t \in [Objs -> Owners] /\ t[Hnd(1)] = Frame(0) /\ t[Task(0)] \in {Frame(0), owner[Task(0)]}
      /\ \A x \in Objs \ {Hnd(1), Task(0)} : t[x] = owner[x]
  <2>1. CASE call.em.kind = "nested"
    BY <1>1, <1>4, <2>1 DEF Owners
  <2>2. CASE call.em.kind # "nested"
    BY <1>1, <1>4, <2>2 DEF Owners
  <2> QED BY <2>1, <2>2
<1> HIDE DEF t
<1> QED BY <1>1, <1>3, <1>5 DEF Owners, Suspended

\* The promise of a coroutine takes the handler and waits for its timer.
LEMMA CoroutineWaits ==
    ASSUME CompletionInv, OwnerInv, StartCoroutine
    PROVE  OwnerInv'
<1> DEFINE n == N
<1>0. /\ TypeInv /\ OneCompletion /\ UNCHANGED <<src, stages, phase>> /\ Tree(owner) /\ n' = n
      /\ owner \in [Objs -> Owners] /\ call # NULL /\ call.do = "start"
      /\ Starting(src, owner, n, call) /\ call' = NULL
      /\ call.em.kind \in {"awaits", "nested"}
  BY DEF CompletionInv, OwnerInv, TypeInv, N, StartCoroutine
<1>1. Pending = {} /\ phase \in {"started", "detached"}
  BY <1>0 DEF OneCompletion
<1>2. \A k \in Levels : owner[Hnd(k)] # LOOP /\ owner[Rcv(k)] # LOOP
  BY <1>1, NothingOwed
<1>3. n \in Nat /\ 0 \in Levels /\ 1 \in Levels /\ \A j \in 0..(n + 1) : j \in Levels
  <2>1. n \in Nat /\ \A j \in 0..(n + 1) : j \in Levels
    BY <1>0, LevelFacts
  <2> QED BY <2>1
<1>4. call.lvl = 0 /\ call.em = src /\ SourceReady(src, owner) /\ NothingOnStack(owner)
  BY <1>0 DEF Starting
<1>5. Live(owner, Frame(0))
  BY <1>0, <1>4 DEF SourceReady, IsCoroutine
<1>6. Chain(owner, 1, n)
  <2>1. Chain(owner, 0 + 1, n)
    BY <1>0, <1>4 DEF Starting, OperationAt
  <2> QED BY <2>1
<1> HIDE DEF n
<1>7. /\ Hnd(1) \in Objs /\ Frame(0) \in Objs /\ Task(0) \in Objs /\ Rcv(0) \in Objs
      /\ Rcv(0) # Hnd(1) /\ Rcv(0) # Task(0) /\ Rcv(0) # Frame(0) /\ Task(0) # Hnd(1)
      /\ Frame(0) # Hnd(1) /\ Frame(0) # Task(0) /\ Frame(0)[1] = "frame" /\ Frame(0)[2] = 0
  <2>1. Hnd(1) \in Objs /\ Frame(0) \in Objs /\ Task(0) \in Objs /\ Rcv(0) \in Objs
    BY <1>3, Names
  <2> QED BY <2>1 DEF Hnd, Frame, Task, Rcv
<1>8. /\ owner' \in [Objs -> Owners]
      /\ owner'[Hnd(1)] = Frame(0) /\ owner'[Rcv(0)] = LOOP
      /\ owner'[Task(0)] \in {Frame(0), owner[Task(0)]}
      /\ \A x \in Objs \ {Hnd(1), Rcv(0), Task(0)} : owner'[x] = owner[x]
  BY <1>0, <1>3, <1>4, CoroutineEffect DEF Suspended
<1>9. owner'[Frame(0)] = owner[Frame(0)] /\ owner[Frame(0)] \notin {GONE, LOST}
  BY <1>5, <1>7, <1>8 DEF Live
<1>10. Tree(owner')
  <2> SUFFICES ASSUME NEW x \in Objs, owner'[x] \in Objs
               PROVE  /\ owner'[owner'[x]] # GONE /\ owner'[x][1] \in {"em", "op", "hnd", "frame"}
                      /\ owner'[x][1] = "frame" => owner'[x][2] = 0
    BY DEF Tree
  <2>1. CASE owner'[x] = Frame(0)
    BY <1>7, <1>9, <2>1
  <2>2. CASE owner'[x] # Frame(0)
    <3>1. owner'[x] = owner[x]
      BY <1>8, <2>2, Names
    <3>2. /\ owner[owner[x]] # GONE /\ owner[x][1] \in {"em", "op", "hnd", "frame"}
          /\ owner[x][1] = "frame" => owner[x][2] = 0
      BY <1>0, <3>1 DEF Tree
    <3>3. \A y \in Objs : owner[y] # GONE => owner'[y] # GONE
      BY <1>7, <1>8, Names
    <3> QED BY <3>1, <3>2, <3>3
  <2> QED BY <2>1, <2>2
<1>11. ASSUME NEW k \in Levels
       PROVE  owner'[Hnd(k)] # LOOP /\ (owner'[Rcv(k)] = LOOP => k = 0)
  <2>1. Rcv(k) \in Objs /\ Hnd(k) \in Objs
    BY Names
  <2>2. /\ Hnd(k) # Rcv(0) /\ Hnd(k) # Task(0) /\ Rcv(k) # Hnd(1) /\ Rcv(k) # Task(0)
        /\ k # 0 => Rcv(k) # Rcv(0)
    BY DEF Hnd, Rcv, Task
  <2> QED BY <1>2, <1>7, <1>8, <2>1, <2>2, Names
<1>12. NothingOnStack(owner')
  BY <1>4, <1>7, <1>8, Names DEF NothingOnStack
<1>13. Chain(owner', 1, n)
  <2> SUFFICES ASSUME NEW j \in (1 + 1)..(n + 1) PROVE owner'[Hnd(j)] = Hnd(j - 1)
    BY DEF Chain
  <2>1. j \in 0..(n + 1) /\ j # 1
    BY <1>3
  <2>2. Hnd(j) \in Objs
    BY <1>3, <2>1, Names
  <2>3. Hnd(j) # Hnd(1) /\ Hnd(j) # Rcv(0) /\ Hnd(j) # Task(0)
    BY <2>1 DEF Hnd, Rcv, Task
  <2> QED BY <1>6, <1>8, <2>2, <2>3 DEF Chain
<1>14. Awaiting(owner', n)
  BY <1>8, <1>9, <1>12, <1>13 DEF Awaiting, Live
<1> QED BY <1>0, <1>1, <1>10, <1>11, <1>14 DEF OwnerInv, n

\* A then or let stage passes the completion on.
LEMMA StageRuns ==
    ASSUME LetsDoNotWait, CompletionInv, OwnerInv, RunThen \/ RunLet
    PROVE  OwnerInv'
<1> DEFINE i == call.lvl
           n == N
           u == UserdataAfter(i, call.res)
<1>0. /\ TypeInv /\ OneCompletion /\ UNCHANGED <<src, stages, phase>> /\ Tree(owner) /\ n' = n
      /\ owner \in [Objs -> Owners] /\ call # NULL /\ i \in 1..n
      /\ Completing(owner, n, call)
  BY DEF CompletionInv, OwnerInv, TypeInv, N, RunThen, RunLet
<1>1. Pending = {} /\ phase \in {"started", "detached"}
  BY <1>0 DEF OneCompletion
<1>2. \A k \in Levels : owner[Hnd(k)] # LOOP /\ owner[Rcv(k)] # LOOP
  BY <1>1, NothingOwed
<1>3. /\ n \in Nat /\ i + 1 \in Levels /\ i \in Levels /\ i # 0 /\ i + 1 \in (i + 1)..(n + 1)
      /\ (i + 1) - 1 = i /\ n = Len(stages)
      /\ \A j \in ((i + 1) + 1)..(n + 1) : j \in (i + 1)..(n + 1) /\ j \in Levels /\ j # i + 1
  <2>1. n \in Nat /\ n = Len(stages) /\ \A j \in 0..(n + 1) : j \in Levels
    BY <1>0, LevelFacts
  <2>2. \A j \in ((i + 1) + 1)..(n + 1) : j \in (i + 1)..(n + 1) /\ j \in 0..(n + 1) /\ j # i + 1
    BY <1>0, <2>1
  <2>3. i + 1 \in 0..(n + 1) /\ i \in 0..(n + 1) /\ i + 1 \in (i + 1)..(n + 1) /\ i # 0 /\ (i + 1) - 1 = i
    BY <1>0, <2>1
  <2> QED BY <2>1, <2>2, <2>3
<1>4. /\ owner[Hnd(i)] \notin {GONE, LOST} /\ owner[Hnd(i + 1)] = Hnd(i)
      /\ \A j \in ((i + 1) + 1)..(n + 1) : owner[Hnd(j)] = Hnd(j - 1)
  <2>1. Live(owner, Hnd(i)) /\ Chain(owner, i, n)
    BY <1>0 DEF Completing
  <2> HIDE DEF i, n
  <2> QED BY <1>3, <2>1 DEF Live, Chain
<1>5. /\ Hnd(i) \in Objs /\ Hnd(i + 1) \in Objs /\ Op(i) \in Objs /\ Frame(i) \in Objs /\ Ud(i) \in Objs
      /\ \A k \in Levels : Hnd(k) \in Objs /\ Rcv(k) \in Objs
  BY <1>3, Names
<1>6. /\ Hnd(i) # Op(i) /\ Hnd(i) # Frame(i) /\ Hnd(i) # Ud(i) /\ Hnd(i + 1) # Op(i) /\ Hnd(i + 1) # Frame(i)
      /\ Hnd(i + 1) # Ud(i) /\ Op(i) # Frame(i) /\ Op(i) # Ud(i) /\ Frame(i) # Ud(i)
      /\ Ud(i)[1] = "ud" /\ Frame(i)[1] = "frame" /\ Frame(i)[2] = i
      /\ Op(i)[1] = "op" /\ Hnd(i)[1] = "hnd"
      /\ \A k : /\ Rcv(k) # Op(i) /\ Rcv(k) # Frame(i) /\ Rcv(k) # Ud(i) /\ Rcv(k) # Hnd(i + 1)
                /\ Hnd(k) # Op(i) /\ Hnd(k) # Frame(i) /\ Hnd(k) # Ud(i)
                /\ k # i + 1 => Hnd(k) # Hnd(i + 1)
  BY DEF Hnd, Op, Frame, Ud, Rcv
<1>7. Hnd(i) # Hnd(i + 1)
  BY <1>0, <1>3 DEF Hnd
<1>8. u \in {owner[Ud(i)], GONE, LOST}
  BY DEF UserdataAfter
<1>9. \A x \in Objs : owner[x] # Ud(i) /\ owner[x] # Frame(i)
  BY <1>0, <1>3, <1>5, <1>6 DEF Tree
<1>10. CASE RunThen
  <2>1. call' = Complete(i + 1, ThenResult(i, call.res)) /\ owner' = [owner EXCEPT ![Ud(i)] = u]
    BY <1>10 DEF RunThen
  <2>2. call'.do = "complete" /\ call'.lvl = i + 1
    BY <2>1 DEF Complete
  <2> HIDE DEF i, n, u
  <2>3. owner'[Ud(i)] \in {owner[Ud(i)], GONE, LOST} /\ \A x \in Objs : x # Ud(i) => owner'[x] = owner[x]
    BY <1>0, <1>5, <1>8, <2>1
  <2>4. Tree(owner')
    BY <1>0, <1>9, <2>3, Names DEF Tree
  <2>5. \A k \in Levels : owner'[Hnd(k)] = owner[Hnd(k)] /\ owner'[Rcv(k)] = owner[Rcv(k)]
    BY <1>5, <1>6, <2>3
  <2>6. Chain(owner', i + 1, n)
    BY <1>3, <1>4, <2>5 DEF Chain
  <2>7. Live(owner', Hnd(i + 1))
    BY <1>3, <1>4, <1>5, <2>5, Names DEF Live
  <2>8. Completing(owner', n, call')
    BY <2>2, <2>6, <2>7 DEF Completing
  <2> QED BY <1>0, <1>1, <1>2, <2>2, <2>4, <2>5, <2>8 DEF OwnerInv, n
<1>11. CASE RunLet
  <2> DEFINE c == NextOf(i, call.res)
             f == IF IsCoroutine(c.em) THEN Op(i) ELSE GONE
  <2>1. /\ call' = c /\ stages[i].how = "let"
        /\ owner' = [owner EXCEPT ![Op(i)] = Hnd(i), ![Hnd(i + 1)] = Op(i), ![Frame(i)] = f, ![Ud(i)] = u]
    BY <1>11 DEF RunLet
  <2>2. c.do = "start" /\ c.lvl = i /\ c.em.kind \notin {"awaits", "nested"}
    <3>1. CASE Forwards(stages[i], call.res)
      BY <3>1 DEF NextOf, StartOf
    <3>2. CASE ~Forwards(stages[i], call.res)
      <4>1. c.do = "start" /\ c.lvl = i /\ c.em = stages[i].next
        BY <3>2 DEF NextOf, StartOf
      <4>2. stages[i] \in Stages
        BY <1>0, <1>3 DEF TypeInv
      <4>3. stages[i].next.kind \notin {"awaits", "nested"}
        BY <2>1, <4>2 DEF LetsDoNotWait
      <4> HIDE DEF c
      <4> QED BY <4>1, <4>3
    <3> QED BY <3>1, <3>2
  <2>3. f \in {Op(i), GONE}
    OBVIOUS
  <2> HIDE DEF i, n, u, c, f
  <2>4. /\ owner'[Op(i)] = Hnd(i) /\ owner'[Hnd(i + 1)] = Op(i) /\ owner'[Frame(i)] = f
        /\ owner'[Ud(i)] = u
        /\ \A x \in Objs \ {Op(i), Hnd(i + 1), Frame(i), Ud(i)} : owner'[x] = owner[x]
    BY <1>0, <1>5, <1>6, <2>1
  <2>5. owner'[Hnd(i)] = owner[Hnd(i)]
    BY <1>5, <1>6, <1>7, <2>4
  <2>6. Tree(owner')
    <3> SUFFICES ASSUME NEW x \in Objs, owner'[x] \in Objs
                 PROVE  /\ owner'[owner'[x]] # GONE /\ owner'[x][1] \in {"em", "op", "hnd", "frame"}
                        /\ owner'[x][1] = "frame" => owner'[x][2] = 0
      BY DEF Tree
    <3>1. CASE owner'[x] = Hnd(i)
      BY <1>4, <1>6, <2>5, <3>1
    <3>2. CASE owner'[x] = Op(i)
      BY <1>5, <1>6, <2>4, <3>2, Names
    <3>3. CASE owner'[x] # Hnd(i) /\ owner'[x] # Op(i)
      <4>1. owner'[x] = owner[x]
        BY <1>8, <2>3, <2>4, <3>3, Names
      <4>2. /\ owner[owner[x]] # GONE /\ owner[x][1] \in {"em", "op", "hnd", "frame"}
            /\ owner[x][1] = "frame" => owner[x][2] = 0
        BY <1>0, <4>1 DEF Tree
      <4>3. owner[x] # Ud(i) /\ owner[x] # Frame(i)
        BY <1>9
      <4>4. owner'[owner[x]] # GONE
        BY <1>5, <2>4, <4>1, <4>2, <4>3, Names
      <4> QED BY <4>1, <4>2, <4>4
    <3> QED BY <3>1, <3>2, <3>3
  <2>7. \A k \in Levels : /\ owner'[Rcv(k)] = owner[Rcv(k)]
                          /\ k # i + 1 => owner'[Hnd(k)] = owner[Hnd(k)]
    BY <1>5, <1>6, <2>4
  <2>8. Chain(owner', i + 1, n)
    BY <1>3, <1>4, <2>7 DEF Chain
  <2>9. OperationAt(owner', i, n)
    BY <1>5, <2>4, <2>8, Names DEF OperationAt, Live
  <2>10. Starting(src', owner', n, call')
    BY <1>3, <2>1, <2>2, <2>9 DEF Starting
  <2>11. \A k \in Levels : owner'[Hnd(k)] # LOOP /\ owner'[Rcv(k)] # LOOP
    BY <1>2, <1>5, <2>4, <2>7, Names
  <2> QED BY <1>0, <1>1, <2>1, <2>2, <2>6, <2>10, <2>11 DEF OwnerInv, n
<1> QED BY <1>10, <1>11

\* The user's handler may destroy the operation that completes it.
LEMMA UserRuns == ASSUME CompletionInv, OwnerInv, RunUser PROVE OwnerInv'
<1>0. /\ TypeInv /\ OneCompletion /\ Tree(owner) /\ owner \in [Objs -> Owners] /\ call # NULL
      /\ owner' = owner \/ owner' = Destroy(owner, {Op(0)})
      /\ phase' \in {"detached", "completed", "released"} /\ call' = NULL
  BY DEF CompletionInv, OwnerInv, TypeInv, RunUser
<1>1. Pending = {}
  BY <1>0 DEF OneCompletion
<1>2. \A k \in Levels : owner[Hnd(k)] # LOOP /\ owner[Rcv(k)] # LOOP
  BY <1>1, NothingOwed
<1>3. Tree(owner') /\ \A x \in Objs : owner'[x] \in {GONE, LOST, owner[x]}
  BY <1>0, DestroyTree, DestroyFacts
<1>4. \A k \in Levels : owner'[Hnd(k)] # LOOP /\ owner'[Rcv(k)] # LOOP
  BY <1>2, <1>3, Names
<1> QED BY <1>0, <1>3, <1>4 DEF OwnerInv

\* The loop dispatches a timer, and returns from it.
LEMMA LoopRuns == ASSUME CompletionInv, OwnerInv, Fire \/ Return PROVE OwnerInv'
<1> DEFINE n == N
<1>0. /\ TypeInv /\ OneCompletion /\ MeaningInv /\ UNCHANGED <<src, stages, phase>> /\ Tree(owner)
      /\ n' = n /\ owner \in [Objs -> Owners] /\ call = NULL
  BY DEF CompletionInv, OwnerInv, TypeInv, N, Fire, FireLater, FireAwaited, Return, Idle
<1>1. /\ n \in Nat /\ n = Len(stages) /\ (\A j \in 0..(n + 1) : j \in Levels)
      /\ \A k \in Levels : Hnd(k) \in Objs /\ Rcv(k) \in Objs /\ Task(k) \in Objs
  BY <1>0, LevelFacts, Names
<1>2. ASSUME NEW x \in Pending
      PROVE  /\ phase \in {"started", "detached"}
             /\ \A k \in Levels : /\ Hnd(k) # x => owner[Hnd(k)] # LOOP
                                  /\ Rcv(k) # x => owner[Rcv(k)] # LOOP
  <2>1. phase \in {"started", "detached"} /\ \A y \in Pending : y = x
    BY <1>0, <1>2 DEF OneCompletion
  <2>2. \A k \in Levels : Hnd(k)[1] = "hnd" /\ Rcv(k)[1] = "rcv"
    BY DEF Hnd, Rcv
  <2> QED BY <1>1, <2>1, <2>2 DEF Pending
<1>3. CASE \E i \in Levels : FireLater(i)
  <2>1. PICK i \in Levels : FireLater(i)
    BY <1>3
  <2>2. /\ owner[Hnd(i)] = LOOP /\ call' = Complete(i, Nil("ok"))
        /\ owner' = [owner EXCEPT ![Hnd(i)] = STACK]
    BY <2>1 DEF FireLater
  <2>3. Hnd(i) \in Pending
    BY <1>1, <2>2 DEF Pending, Hnd
  <2>4. i \in 1..(n + 1)
    <3>1. PendingMeans(src, stages, Hnd(i)) /\ Hnd(i)[1] = "hnd" /\ Hnd(i)[2] = i
      BY <1>0, <2>3 DEF MeaningInv, Hnd
    <3> QED BY <1>1, <3>1 DEF PendingMeans
  <2>5. Chain(owner, i, n)
    BY <2>2 DEF OwnerInv
  <2>6. call'.do = "complete" /\ call'.lvl = i
    BY <2>2 DEF Complete
  <2> HIDE DEF n
  <2>7. owner'[Hnd(i)] = STACK /\ \A x \in Objs : x # Hnd(i) => owner'[x] = owner[x]
    BY <1>0, <1>1, <2>2
  <2>8. Tree(owner')
    BY <1>0, <2>7, Names DEF Tree
  <2>9. Chain(owner', i, n)
    <3> SUFFICES ASSUME NEW j \in (i + 1)..(n + 1) PROVE owner'[Hnd(j)] = Hnd(j - 1)
      BY DEF Chain
    <3>1. j \in 0..(n + 1) /\ j # i
      BY <1>1, <2>4
    <3>2. Hnd(j) \in Objs
      BY <1>1, <3>1
    <3>3. Hnd(j) # Hnd(i)
      BY <3>1 DEF Hnd
    <3> QED BY <2>5, <2>7, <3>2, <3>3 DEF Chain
  <2>10. Completing(owner', n, call')
    BY <2>6, <2>7, <2>9, Names DEF Completing, Live
  <2>11. \A k \in Levels : owner'[Hnd(k)] # LOOP /\ owner'[Rcv(k)] # LOOP
    <3>1. \A k \in Levels : Rcv(k) # Hnd(i)
      BY DEF Rcv, Hnd
    <3> QED BY <1>1, <1>2, <2>3, <2>7, <3>1, Names
  <2>12. phase' \in {"started", "detached"}
    BY <1>0, <1>2, <2>3
  <2> QED BY <1>0, <2>6, <2>8, <2>10, <2>11, <2>12 DEF OwnerInv, n
<1>4. CASE \E i \in Levels : FireAwaited(i)
  <2>1. PICK i \in Levels : FireAwaited(i)
    BY <1>4
  <2>2. /\ owner[Rcv(i)] = LOOP /\ call' = Complete(i + 1, EmitterResult(EmitterOf(i), i))
        /\ owner' = [[owner EXCEPT ![Rcv(i)] = STACK] EXCEPT ![Task(i)] = GONE]
    BY <2>1 DEF FireAwaited, HandOff
  <2>3. i = 0 /\ Awaiting(owner, n)
    BY <2>2 DEF OwnerInv
  <2>4. Rcv(i) \in Pending
    BY <1>1, <2>2 DEF Pending, Rcv
  <2>5. call'.do = "complete" /\ call'.lvl = 1
    BY <2>2, <2>3 DEF Complete
  <2> HIDE DEF n
  <2>6. /\ Rcv(i) # Task(i) /\ Task(i)[1] = "task"
        /\ \A k \in Levels : Hnd(k) # Rcv(i) /\ Hnd(k) # Task(i) /\ Rcv(k) # Task(i)
    BY DEF Rcv, Task, Hnd
  <2>7. /\ owner'[Rcv(i)] = STACK /\ owner'[Task(i)] = GONE
        /\ \A x \in Objs \ {Rcv(i), Task(i)} : owner'[x] = owner[x]
    BY <1>0, <1>1, <2>2, <2>6
  <2>8. Tree(owner')
    <3>1. \A x \in Objs : owner[x] # Task(i)
      BY <1>0, <1>1, <2>6 DEF Tree
    <3> QED BY <1>0, <2>7, <3>1, Names DEF Tree
  <2>9. \A k \in Levels : owner'[Hnd(k)] = owner[Hnd(k)]
    BY <1>1, <2>6, <2>7
  <2>10. Chain(owner', 1, n)
    <3> SUFFICES ASSUME NEW j \in (1 + 1)..(n + 1) PROVE owner'[Hnd(j)] = Hnd(j - 1)
      BY DEF Chain
    <3>1. j \in 0..(n + 1)
      BY <1>1
    <3>2. j \in Levels
      BY <1>1, <3>1
    <3> QED BY <2>3, <2>9, <3>2 DEF Awaiting, Chain
  <2>11. 1 \in Levels /\ 0 \in Levels
    BY <1>1
  <2>12. owner'[Hnd(1)] = Frame(0) /\ Frame(0) \in Objs
    BY <2>3, <2>9, <2>11, Names DEF Awaiting
  <2>13. Completing(owner', n, call')
    BY <2>5, <2>10, <2>12, Names DEF Completing, Live
  <2>14. \A k \in Levels : owner'[Hnd(k)] # LOOP /\ owner'[Rcv(k)] # LOOP
    BY <1>1, <1>2, <2>4, <2>6, <2>7, <2>9, Names
  <2>15. phase' \in {"started", "detached"}
    BY <1>0, <1>2, <2>4
  <2> QED BY <1>0, <2>5, <2>8, <2>13, <2>14, <2>15 DEF OwnerInv, n
<1>5. CASE Return
  <2>1. PICK x \in Objs : owner[x] = STACK /\ owner' = Destroy(owner, {x})
    BY <1>5 DEF Return
  <2>2. call' = NULL
    BY <1>0, <1>5 DEF Return
  <2>3. phase \notin {"emitter", "connected"} /\ \A k \in Levels : owner[Rcv(k)] # LOOP
    BY <2>1 DEF OwnerInv, Unconnected, Connected, Awaiting, NothingOnStack
  <2>4. Tree(owner') /\ \A y \in Objs : owner'[y] \in {GONE, LOST, owner[y]}
    BY <1>0, <2>1, DestroyTree, DestroyFacts
  <2>5. \A k \in Levels : owner'[Rcv(k)] # LOOP /\ (owner'[Hnd(k)] = LOOP => owner[Hnd(k)] = LOOP)
    BY <1>1, <2>3, <2>4, Names
  <2>6. ASSUME NEW k \in Levels, owner[Hnd(k)] = LOOP PROVE Chain(owner', k, n)
    <3>1. Hnd(k) \in Pending
      BY <1>1, <2>6 DEF Pending, Hnd
    <3>2. k \in 1..(n + 1)
      <4>1. PendingMeans(src, stages, Hnd(k)) /\ Hnd(k)[1] = "hnd" /\ Hnd(k)[2] = k
        BY <1>0, <3>1 DEF MeaningInv, Hnd
      <4> QED BY <1>1, <4>1 DEF PendingMeans
    <3>3. Chain(owner, k, n)
      BY <2>6 DEF OwnerInv
    <3> HIDE DEF n
    <3> QED BY <1>0, <1>1, <2>1, <2>6, <3>2, <3>3, DestroyKeepsChain
  <2> QED BY <1>0, <2>2, <2>3, <2>4, <2>5, <2>6 DEF OwnerInv
<1> QED BY <1>3, <1>4, <1>5 DEF Fire

\* The ownership tree stays whole.
LEMMA OwnerInvariant == ASSUME LetsDoNotWait PROVE Spec => []OwnerInv
<1>1. Init => OwnerInv
  BY OwnersAtFirst
<1>2. CompletionInv /\ OwnerInv /\ [Next]_vars => OwnerInv'
  <2> SUFFICES ASSUME CompletionInv, OwnerInv, [Next]_vars PROVE OwnerInv'
    OBVIOUS
  <2>1. CASE UNCHANGED vars
    BY <2>1 DEF vars, OwnerInv, N
  <2>2. CASE Next
    BY <2>2, UserOwns, StartedRuns, CoroutineWaits, StageRuns, UserRuns, LoopRuns
       DEF Next, LoopThread, Run
  <2> QED BY <2>1, <2>2
<1> QED BY <1>1, <1>2, CompletionInvariant, PTL DEF Spec

(* For expressions of any length whose let stages do not return coroutines *)
(* that wait: no call enters a handler or an operation that has been       *)
(* destroyed, a timer that a coroutine awaits finds its frame and the      *)
(* handler in it, and nothing is owned by what has gone, whenever the user *)
(* deletes, detaches, or destroys an operation from its own handler.       *)
THEOREM NoCallEntersTheDead ==
    ASSUME LetsDoNotWait PROVE Spec => []NoUseAfterFree
<1>1. CompletionInv /\ OwnerInv => NoUseAfterFree
  <2> SUFFICES ASSUME CompletionInv, OwnerInv PROVE NoUseAfterFree
    OBVIOUS
  <2>1. ASSUME call # NULL
        PROVE  Exists(IF call.do = "start" THEN Op(call.lvl) ELSE Hnd(call.lvl))
    <3>1. call.do \in {"start", "complete"}
      BY <2>1 DEF CompletionInv, MeaningInv, CallMeans
    <3>2. CASE call.do = "start"
      BY <2>1, <3>2 DEF OwnerInv, Starting, OperationAt, Live, Exists
    <3>3. CASE call.do = "complete"
      BY <2>1, <3>3 DEF OwnerInv, Completing, Live, Exists
    <3> QED BY <3>1, <3>2, <3>3
  <2>2. ASSUME NEW i \in Levels, owner[Rcv(i)] = LOOP
        PROVE  Exists(Frame(i)) /\ owner[Hnd(i + 1)] = Frame(i)
    <3>1. i = 0 /\ Awaiting(owner, N)
      BY <2>2 DEF OwnerInv
    <3>2. Exists(Frame(0)) /\ owner[Hnd(1)] = Frame(0) /\ 0 + 1 = 1
      BY <3>1 DEF Awaiting, Live, Exists
    <3> QED BY <3>1, <3>2
  <2>3. \A x \in Objs : owner[x] \in Objs => owner[owner[x]] # GONE
    BY DEF OwnerInv, Tree
  <2> QED BY <2>1, <2>2, <2>3 DEF NoUseAfterFree
<1> QED BY <1>1, CompletionInvariant, OwnerInvariant, PTL

-----------------------------------------------------------------------------
(* Release.  What is connected is destroyed in the end, unless it is        *)
(* detached and never leaves its operation (it then owns itself for ever).  *)
(* Owners otherwise have ranks, no greater than the depth to which Doomed() *)
(* follows them, so that what is owned by what is destroyed is destroyed,   *)
(* or is userdata in a dynamic box.                                         *)

\* Userdata in a dynamic box, which has no destructor.
Lossy(sg, x) == x[1] = "ud" /\ (sg[x[2]].ud = "dynamic" \/ Paired(sg[x[2]]))

\* The rank of an object; that of the source's operation, top, depends on
\* whether it is above all handlers or, detached, below them.
Place(x) ==
    IF x[1] = "hnd" THEN 0 ELSE IF x[1] \in {"op", "ud"} THEN 1 ELSE IF x[1] = "frame" THEN 2 ELSE 3

Rank(x, top) == IF x = Op(0) THEN top ELSE 4 * x[2] + Place(x)

Below == 4 * MaxStages + 7
Tops  == {1, Below}

TopOf(ph) == IF ph = "detached" THEN Below ELSE 1

Ranked(o, top) == \A x \in Objs : o[x] \in Objs => Rank(o[x], top) < Rank(x, top)

\* What has been lost was in a dynamic box.
LostWasLossy(o, sg) == \A x \in Objs : o[x] = LOST => Lossy(sg, x)

\* Nothing is of the emitter; userdata is that of stages; the user holds the
\* operation, and only until it is released.
Owned(o, n, ph) ==
    /\ \A x \in Objs : x[1] = "em" => o[x] = GONE
    /\ \A j \in Levels : Live(o, Ud(j)) => j \in 1..n
    /\ \A x \in Objs : o[x] = USER => x = Op(0) /\ ph \in {"connected", "started", "completed"}

\* The cycle of a detached operation, before its handler leaves it.
Knot(o, n) ==
    /\ o[Op(0)] = Hnd(n + 1)
    /\ \A x \in Objs \ {Op(0), Hnd(1)} : o[x] \in Objs =>
         o[x] # Op(0) /\ Rank(o[x], Below) < Rank(x, Below)

DetachStarting == phase = "detached" /\ call # NULL /\ call.do = "start" /\ call.lvl = 0

\* The operation is the user's, or will leave itself when it is started.
Releasable == phase \notin {"emitter", "deleted"} /\ (phase = "detached" => src.kind = "later")

ReleaseInv ==
    Releasable =>
      /\ Owned(owner, N, phase) /\ LostWasLossy(owner, stages)
      /\ ~DetachStarting => Ranked(owner, TopOf(phase))
      /\ DetachStarting => Knot(owner, N)

\* The ranks.
LEMMA RankFacts ==
    ASSUME NEW top \in Tops
    PROVE  /\ \A x \in Objs : Rank(x, top) \in 0..Below
           /\ \A i \in Levels : /\ Rank(Hnd(i), top) = 4 * i
                                /\ i # 0 => Rank(Op(i), top) = 4 * i + 1
                                /\ Rank(Frame(i), top) = 4 * i + 2
                                /\ Rank(Task(i), top) = 4 * i + 3
                                /\ Rank(Ud(i), top) = 4 * i + 1
           /\ Rank(Op(0), top) = top /\ Below \in Nat
<1>0. MaxStages \in Nat /\ Below \in Nat /\ top \in 0..Below
  BY OperationsConstants DEF Tops, Below
<1>1. ASSUME NEW x \in Objs PROVE Rank(x, top) \in 0..Below
  <2>1. x[2] \in 0..(MaxStages + 1) /\ Place(x) \in 0..3
    BY Names DEF Levels, Place
  <2>2. 4 * x[2] + Place(x) \in 0..Below
    BY <1>0, <2>1 DEF Below
  <2> QED BY <1>0, <2>2 DEF Rank
<1>2. ASSUME NEW i \in Levels
      PROVE  /\ Rank(Hnd(i), top) = 4 * i
             /\ i # 0 => Rank(Op(i), top) = 4 * i + 1
             /\ Rank(Frame(i), top) = 4 * i + 2
             /\ Rank(Task(i), top) = 4 * i + 3
             /\ Rank(Ud(i), top) = 4 * i + 1
  <2>1. i \in Nat
    BY <1>0 DEF Levels
  <2>2. Rank(Hnd(i), top) = 4 * i
    BY <2>1 DEF Rank, Place, Hnd, Op
  <2>3. i # 0 => Rank(Op(i), top) = 4 * i + 1
    BY <2>1 DEF Rank, Place, Op
  <2>4. Rank(Frame(i), top) = 4 * i + 2
    BY <2>1 DEF Rank, Place, Frame, Op
  <2>5. Rank(Task(i), top) = 4 * i + 3
    BY <2>1 DEF Rank, Place, Task, Op
  <2>6. Rank(Ud(i), top) = 4 * i + 1
    BY <2>1 DEF Rank, Place, Ud, Op
  <2> QED BY <2>2, <2>3, <2>4, <2>5, <2>6
<1> QED BY <1>0, <1>1, <1>2 DEF Rank

\* Owners with ranks: what is owned by what is destroyed is destroyed or lost.
LEMMA DoomedIsClosed ==
    ASSUME NEW o \in [Objs -> Owners], NEW S \in SUBSET Objs, NEW top \in Tops, Ranked(o, top)
    PROVE  /\ S \subseteq Doomed(o, S) /\ Doomed(o, S) \subseteq Objs
           /\ \A x \in Objs : o[x] \in Doomed(o, S) /\ ~Loses(x) => x \in Doomed(o, S)
<1> DEFINE f == ReachOf(o, S, Depth)
           r(x) == Rank(x, top)
<1>0. Depth \in Nat /\ Below \in Nat /\ Depth = Below + 1 /\ \A x \in Objs : r(x) \in 0..Below
  BY OperationsConstants, RankFacts DEF Depth, Below
<1>1. Reaches(f, o, S, Depth)
  BY <1>0, ReachExists DEF ReachOf
<1>2. Doomed(o, S) = f[Depth]
  BY DoomedReaches
<1>3. Doomed(o, S) \subseteq Objs
  <2>1. S \subseteq Objs /\ \A x \in Objs : o[x] \in Objs => x \in Objs
    OBVIOUS
  <2> QED BY <2>1, DoomedWithin, Zenon
<1> HIDE DEF f, r
<1>4. \A k \in 0..Depth : f[k] = IF k = 0 THEN S ELSE S \cup Heirs(o, f[k - 1])
  BY <1>1 DEF Reaches
<1>5. 0 \in 0..Depth /\ f[0] = S
  <2>1. 0 \in 0..Depth
    BY <1>0
  <2> QED BY <1>4, <2>1, Zenon
<1>6. ASSUME NEW k \in 0..Depth, k # Depth
      PROVE  k + 1 \in 0..Depth /\ f[k + 1] = S \cup Heirs(o, f[k])
  <2>1. k + 1 \in 0..Depth /\ k + 1 # 0 /\ (k + 1) - 1 = k
    BY <1>0, <1>6
  <2> QED BY <1>4, <2>1
\* The generations grow.
<1> DEFINE Shrinks == {k \in 0..Depth : k # Depth /\ ~(f[k] \subseteq f[k + 1])}
<1>6a. Shrinks = {}
  <2> SUFFICES ASSUME Shrinks # {} PROVE FALSE
    OBVIOUS
  <2>1. PICK m \in Shrinks : \A n \in Shrinks : m <= n
    <3>1. Shrinks \in SUBSET Nat
      BY <1>0
    <3> QED BY <3>1, LeastNatural
  <2>2. f[m + 1] = S \cup Heirs(o, f[m])
    BY <1>6, <2>1
  <2>3. m # 0
    BY <1>5, <2>1, <2>2
  <2>4. m - 1 \in 0..Depth /\ m - 1 # Depth /\ (m - 1) + 1 = m /\ ~(m <= m - 1)
    BY <1>0, <2>1, <2>3
  <2>5. f[m - 1] \subseteq f[(m - 1) + 1]
    BY <2>1, <2>4
  <2>6. f[(m - 1) + 1] = S \cup Heirs(o, f[m - 1])
    BY <1>6, <2>4
  <2>7. f[m - 1] \subseteq f[m] /\ f[m] = S \cup Heirs(o, f[m - 1])
    BY <2>4, <2>5, <2>6
  <2>8. Heirs(o, f[m - 1]) \subseteq Heirs(o, f[m])
    BY <2>7 DEF Heirs
  <2> QED BY <2>1, <2>2, <2>7, <2>8
<1>7. ASSUME NEW j \in 0..Depth, NEW k \in 0..Depth, j <= k PROVE f[j] \subseteq f[k]
  <2> DEFINE T == {m \in 0..Depth : j <= m /\ ~(f[j] \subseteq f[m])}
  <2> SUFFICES ASSUME T # {} PROVE FALSE
    BY <1>7
  <2>1. PICK m \in T : \A n \in T : m <= n
    <3>1. T \in SUBSET Nat
      BY <1>0
    <3> QED BY <3>1, LeastNatural
  <2>2. m # j
    BY <2>1
  <2>3. m - 1 \in 0..Depth /\ j <= m - 1 /\ m - 1 # Depth /\ (m - 1) + 1 = m /\ ~(m <= m - 1)
    BY <1>0, <2>1, <2>2
  <2>4. m - 1 \notin T
    BY <2>1, <2>3
  <2>5. f[j] \subseteq f[m - 1]
    BY <2>3, <2>4
  <2>6. f[m - 1] \subseteq f[(m - 1) + 1]
    BY <1>6a, <2>3
  <2>7. f[m - 1] \subseteq f[m]
    BY <2>3, <2>6
  <2> QED BY <2>1, <2>5, <2>7
\* An object is reached by the generation of its rank.
<1> DEFINE G(m) == \A x \in f[m] : x \in Objs => x \in f[r(x)]
           T == {m \in 0..Depth : ~G(m)}
<1>8. T = {}
  <2> SUFFICES ASSUME T # {} PROVE FALSE
    OBVIOUS
  <2>1. PICK m \in T : \A n \in T : m <= n
    <3>1. T \in SUBSET Nat
      BY <1>0
    <3> QED BY <3>1, LeastNatural
  <2>2. PICK x \in f[m] : x \in Objs /\ x \notin f[r(x)]
    BY <2>1
  <2>3. r(x) \in 0..Below /\ r(x) \in 0..Depth /\ 0 <= r(x)
    BY <1>0, <2>2
  <2>4. m # 0
    BY <1>5, <1>7, <2>2, <2>3
  <2>5. m - 1 \in 0..Depth /\ m - 1 # Depth /\ (m - 1) + 1 = m /\ ~(m <= m - 1)
    BY <1>0, <2>1, <2>4
  <2>6. G(m - 1)
    BY <2>1, <2>5
  <2>7. f[(m - 1) + 1] = S \cup Heirs(o, f[m - 1])
    BY <1>6, <2>5
  <2>8. x \notin S
    BY <1>5, <1>7, <2>2, <2>3
  <2>9. x \in Heirs(o, f[m - 1])
    <3>1. x \in S \cup Heirs(o, f[m - 1])
      BY <2>2, <2>5, <2>7
    <3> QED BY <2>8, <3>1
  <2>10. o[x] \in f[m - 1] /\ ~Loses(x)
    BY <2>9 DEF Heirs
  <2>11. o[x] \in Objs
    <3>1. f[m - 1] \subseteq f[Depth]
      BY <1>0, <1>7, <2>5
    <3> QED BY <1>2, <1>3, <2>10, <3>1
  <2>12. o[x] \in f[r(o[x])] /\ r(o[x]) < r(x) /\ r(o[x]) \in 0..Below
    <3>1. o[x] \in f[r(o[x])]
      BY <2>6, <2>10, <2>11
    <3>2. r(o[x]) < r(x)
      BY <2>2, <2>11 DEF Ranked, r
    <3> QED BY <1>0, <2>11, <3>1, <3>2
  <2> DEFINE k == r(o[x])
  <2> HIDE DEF k
  <2>13. k \in 0..Depth /\ k # Depth /\ k + 1 <= r(x) /\ o[x] \in f[k]
    BY <1>0, <2>3, <2>12 DEF k
  <2>14. k + 1 \in 0..Depth /\ x \in f[k + 1]
    BY <1>6, <2>2, <2>10, <2>13 DEF Heirs
  <2>15. f[k + 1] \subseteq f[r(x)]
    BY <1>7, <2>3, <2>13, <2>14
  <2> QED BY <2>2, <2>14, <2>15
<1>9. Depth \in 0..Depth
  BY <1>0
<1>10. S \subseteq f[Depth]
  BY <1>0, <1>5, <1>7, <1>9
<1>11. ASSUME NEW x \in Objs, o[x] \in f[Depth], ~Loses(x) PROVE x \in f[Depth]
  <2>1. o[x] \in Objs
    BY <1>2, <1>3, <1>11
  <2>2. o[x] \in f[r(o[x])]
    BY <1>8, <1>9, <1>11, <2>1
  <2> DEFINE k == r(o[x])
  <2>3. k \in 0..Depth /\ k # Depth
    BY <1>0, <2>1
  <2> HIDE DEF k
  <2>4. k + 1 \in 0..Depth /\ x \in f[k + 1]
    BY <1>6, <1>11, <2>2, <2>3 DEF Heirs, k
  <2>5. f[k + 1] \subseteq f[Depth]
    BY <1>0, <1>7, <1>9, <2>4
  <2> QED BY <2>4, <2>5
<1> QED BY <1>2, <1>3, <1>10, <1>11

\* A step that destroys objects, or gives handlers and receivers to the loop.
Lesser(o, p, sg) ==
    \A x \in Objs : \/ p[x] \in {o[x], GONE}
                    \/ p[x] = LOST /\ Lossy(sg, x)
                    \/ x[1] \in {"hnd", "rcv"} /\ p[x] \in {LOOP, STACK}

\* Such a step keeps ranks and loses nothing else.
LEMMA LesserKeeps ==
    ASSUME NEW o, NEW p, NEW sg, Lesser(o, p, sg), NEW n, NEW ph, Owned(o, n, ph), LostWasLossy(o, sg)
    PROVE  Owned(p, n, ph) /\ LostWasLossy(p, sg) /\ \A top : Ranked(o, top) => Ranked(p, top)
<1>0. LostWasLossy(p, sg)
  BY Names DEF Lesser, LostWasLossy
<1>1. \A x \in Objs : x[1] = "em" => p[x] = GONE
  BY Names DEF Lesser, Owned, Lossy
<1>2. ASSUME NEW j \in Levels, Live(p, Ud(j)) PROVE j \in 1..n
  <2>1. Ud(j) \in Objs /\ Ud(j)[1] = "ud"
    BY Names DEF Ud
  <2>2. p[Ud(j)] \in {o[Ud(j)], GONE, LOST}
    BY <2>1 DEF Lesser
  <2>3. Live(o, Ud(j))
    BY <1>2, <2>2 DEF Live
  <2> QED BY <2>3 DEF Owned
<1>3. \A x \in Objs : p[x] = USER => o[x] = USER
  BY Names DEF Lesser
<1>4. \A x \in Objs : p[x] \in Objs => o[x] = p[x]
  BY Names DEF Lesser
<1>5. \A top : Ranked(o, top) => Ranked(p, top)
  BY <1>4 DEF Ranked
<1>6. Owned(p, n, ph)
  BY <1>1, <1>2, <1>3 DEF Owned
<1> QED BY <1>0, <1>5, <1>6

\* Destruction reaches all that is owned, to its end.
LEMMA DestroyReaches ==
    ASSUME TypeInv, NEW ph, Owned(owner, N, ph), NEW top \in Tops, Ranked(owner, top),
           NEW S \in SUBSET Objs
    PROVE  Lesser(owner, Destroy(owner, S), stages) /\ \A x \in S : Destroy(owner, S)[x] = GONE
<1> DEFINE D == Doomed(owner, S)
<1>0. owner \in [Objs -> Owners]
  BY DEF TypeInv
<1>1. S \subseteq D /\ D \subseteq Objs /\ \A x \in Objs : owner[x] \in D /\ ~Loses(x) => x \in D
  BY <1>0, DoomedIsClosed
<1>2. Destroy(owner, S) = [x \in Objs |-> IF x \in D THEN GONE ELSE IF owner[x] \in D THEN LOST ELSE owner[x]]
  BY DEF Destroy
<1> HIDE DEF D
<1>3. ASSUME NEW x \in Objs, x \notin D, owner[x] \in D PROVE Lossy(stages, x)
  <2>1. Loses(x) /\ owner[x] # GONE
    BY <1>1, <1>3, Names
  <2>2. x[1] # "em"
    BY <2>1 DEF Owned
  <2> QED BY <2>1, <2>2 DEF Loses, Lossy
<1>4. \A x \in Objs : Destroy(owner, S)[x] = IF x \in D THEN GONE ELSE IF owner[x] \in D THEN LOST ELSE owner[x]
  BY <1>2
<1> QED BY <1>1, <1>3, <1>4 DEF Lesser

\* The tops of the two kinds of operation.
LEMMA TopFacts ==
    /\ \A ph : TopOf(ph) \in Tops
    /\ TopOf("detached") = Below /\ \A ph : ph # "detached" => TopOf(ph) = 1
BY DEF TopOf, Tops

\* Connecting loses nothing, and hangs things below their owners.
LEMMA WiredIsOwned ==
    ASSUME TypeInv, Unconnected(src, owner, N), NEW root \in {USER, Hnd(N + 1)}, NEW ph,
           root = USER => ph \in {"connected", "started", "completed"}
    PROVE  /\ Owned(Wired(root), N, ph) /\ LostWasLossy(Wired(root), stages)
           /\ root = USER => Ranked(Wired(root), 1)
           /\ root = Hnd(N + 1) /\ src.kind = "later" => Knot(Wired(root), N)
<1> DEFINE w == Wired(root)
           n == N
<1>0. n \in Nat /\ n <= MaxStages /\ MaxStages \in Nat /\ (\A i \in 0..(n + 1) : i \in Levels) /\ 0 \in Levels
  <2>1. n \in Nat /\ MaxStages \in Nat /\ \A i \in 0..(n + 1) : i \in Levels
    BY LevelFacts
  <2>2. n <= MaxStages
    BY <2>1 DEF TypeInv, N
  <2> QED BY <2>1, <2>2
<1>1. \A x \in Objs : WiredAt(owner, w, root, n, x)
  BY WiredOwners
<1>2. root \in Objs \cup {USER}
  <2>1. n + 1 \in Levels
    BY <1>0
  <2> QED BY <2>1, Names
<1>3. Live(owner, Frame(0)) => IsCoroutine(src)
  BY DEF Unconnected
<1> HIDE DEF w, n
<1>4. ASSUME NEW i \in 1..(n + 1)
      PROVE  /\ HandlerOwner(i) = IF i = 1 THEN Op(0) ELSE Hnd(i - 1)
             /\ i \in Levels /\ i - 1 \in Levels /\ HandlerOwner(i) \in Objs
  <2>1. HandlerOwner(i) = IF i = 1 THEN Op(0) ELSE Hnd(i - 1)
    BY DEF HandlerOwner
  <2>2. i \in 0..(n + 1) /\ i - 1 \in 0..(n + 1)
    BY <1>0
  <2>3. i \in Levels /\ i - 1 \in Levels
    BY <1>0, <2>2
  <2>4. Op(0) \in Objs /\ Hnd(i - 1) \in Objs
    BY <1>0, <2>3, Names
  <2> QED BY <2>1, <2>3, <2>4
<1>5. ASSUME NEW x \in Objs
      PROVE  /\ w[x] # LOST /\ (x[1] = "em" => w[x] = GONE)
             /\ x[1] = "ud" /\ w[x] # GONE => x[2] \in 1..n
             /\ w[x] = USER => x = Op(0) /\ root = USER
  <2>1. WiredAt(owner, w, root, n, x) /\ x[2] \in Levels /\ 0 \in Levels
    BY <1>0, <1>1, Names
  <2>2. Hnd(x[2]) \in Objs /\ Op(0) \in Objs
    BY <2>1, Names
  <2>3. Op(0)[1] = "op" /\ Frame(0)[1] = "frame"
    BY DEF Op, Frame
  <2>4. x[2] \in 1..(n + 1) => HandlerOwner(x[2]) \in Objs
    BY <1>4
  <2> QED BY <1>2, <2>1, <2>2, <2>3, <2>4, Names DEF WiredAt
<1>6. Owned(w, n, ph)
  <2>1. ASSUME NEW j \in Levels, Live(w, Ud(j)) PROVE j \in 1..n
    <3>1. Ud(j) \in Objs /\ Ud(j)[1] = "ud" /\ Ud(j)[2] = j
      BY Names DEF Ud
    <3> QED BY <1>5, <2>1, <3>1 DEF Live
  <2> QED BY <1>5, <2>1 DEF Owned
<1>7. ASSUME NEW top \in Tops, NEW x \in Objs, x # Op(0), w[x] \in Objs, w[x] # Op(0)
      PROVE  Rank(w[x], top) < Rank(x, top)
  <2>1. CASE x[1] = "hnd" /\ x[2] \in 1..(n + 1) /\ w[x] = HandlerOwner(x[2])
    <3> DEFINE i == x[2]
    <3>1. i \in 1..(n + 1) /\ x = Hnd(i) /\ w[x] = HandlerOwner(i)
      BY <2>1, Names DEF Hnd
    <3> HIDE DEF i
    <3>2. w[x] = Hnd(i - 1) /\ i \in Levels /\ i - 1 \in Levels
      BY <1>4, <1>7, <3>1
    <3>3. Rank(x, top) = 4 * i /\ Rank(w[x], top) = 4 * (i - 1)
      BY <3>1, <3>2, RankFacts
    <3> QED BY <1>0, <3>1, <3>3
  <2>2. CASE x[1] = "ud" /\ x[2] \in 1..n /\ w[x] = Hnd(x[2])
    <3> DEFINE i == x[2]
    <3>1. i \in 1..n /\ x = Ud(i) /\ w[x] = Hnd(i) /\ i \in Levels
      BY <2>2, Names DEF Ud
    <3> HIDE DEF i
    <3>2. Rank(x, top) = 4 * i + 1 /\ Rank(w[x], top) = 4 * i
      BY <3>1, RankFacts
    <3> QED BY <1>0, <3>1, <3>2
  <2>3. WiredAt(owner, w, root, n, x) /\ GONE \notin Objs
    BY <1>1, Names
  <2> QED BY <1>7, <2>1, <2>2, <2>3 DEF WiredAt
<1>8. ASSUME NEW x \in Objs, x # Op(0), w[x] = Op(0)
      PROVE  x = Hnd(1) \/ (x = Frame(0) /\ IsCoroutine(src))
  <2>1. WiredAt(owner, w, root, n, x) /\ Op(0) # GONE
    BY <1>0, <1>1, Names
  <2>2. x[1] = "hnd" /\ x[2] \in 1..(n + 1) /\ w[x] = HandlerOwner(x[2]) => x = Hnd(1)
    <3> SUFFICES ASSUME x[1] = "hnd", x[2] \in 1..(n + 1), w[x] = HandlerOwner(x[2]) PROVE x = Hnd(1)
      OBVIOUS
    <3>1. x[2] = 1
      <4>1. x[2] # 1 => w[x] = Hnd(x[2] - 1)
        BY <1>4
      <4>2. Hnd(x[2] - 1) # Op(0)
        BY DEF Hnd, Op
      <4> QED BY <1>8, <4>1, <4>2
    <3> QED BY <3>1, Names DEF Hnd
  <2>3. Hnd(x[2]) # Op(0)
    BY DEF Hnd, Op
  <2> QED BY <1>3, <1>8, <2>1, <2>2, <2>3 DEF WiredAt
<1>9. w[Op(0)] = root /\ Op(0) \in Objs
  <2>1. Op(0) \in Objs
    BY <1>0, Names
  <2>2. Op(0)[1] = "op" /\ Op(0) # Frame(0)
    BY DEF Op, Frame
  <2> QED BY <2>1, <2>2 DEF Wired, w
<1>10. ASSUME root = USER PROVE Ranked(w, 1)
  <2> SUFFICES ASSUME NEW x \in Objs, w[x] \in Objs PROVE Rank(w[x], 1) < Rank(x, 1)
    BY DEF Ranked
  <2>1. 1 \in Tops /\ x # Op(0)
    BY <1>9, <1>10, Names DEF Tops
  <2>2. CASE w[x] # Op(0)
    BY <1>7, <2>1, <2>2
  <2>3. CASE w[x] = Op(0)
    <3>1. x \in {Hnd(1), Frame(0)}
      BY <1>8, <2>1, <2>3
    <3>2. 1 \in Levels /\ 0 \in Levels
      BY <1>0
    <3>3. Rank(Hnd(1), 1) = 4 * 1 /\ Rank(Frame(0), 1) = 4 * 0 + 2 /\ Rank(Op(0), 1) = 1
      BY <2>1, <3>2, RankFacts
    <3> QED BY <2>3, <3>1, <3>3
  <2> QED BY <2>2, <2>3
<1>11. ASSUME root = Hnd(n + 1), src.kind = "later" PROVE Knot(w, n)
  <2>1. ~IsCoroutine(src)
    BY <1>11 DEF IsCoroutine
  <2>2. Below \in Tops
    BY DEF Tops
  <2>3. ASSUME NEW x \in Objs \ {Op(0), Hnd(1)}, w[x] \in Objs
        PROVE  w[x] # Op(0) /\ Rank(w[x], Below) < Rank(x, Below)
    <3>1. w[x] # Op(0)
      BY <1>8, <2>1, <2>3
    <3> QED BY <1>7, <2>2, <2>3, <3>1
  <2> QED BY <1>9, <1>11, <2>3 DEF Knot
<1>12. LostWasLossy(w, stages)
  BY <1>5 DEF LostWasLossy
<1> QED BY <1>6, <1>10, <1>11, <1>12 DEF w, n

\* A step that only destroys or hands to the loop, and is no detached start.
LEMMA LesserReleases ==
    ASSUME ReleaseInv, Lesser(owner, owner', stages), UNCHANGED <<src, stages, phase>>,
           ~DetachStarting, ~DetachStarting'
    PROVE  ReleaseInv'
<1> SUFFICES ASSUME Releasable PROVE ReleaseInv'
  BY DEF ReleaseInv, Releasable
<1>1. Owned(owner, N, phase) /\ LostWasLossy(owner, stages) /\ Ranked(owner, TopOf(phase))
  BY DEF ReleaseInv
<1>2. Owned(owner', N, phase) /\ LostWasLossy(owner', stages) /\ Ranked(owner', TopOf(phase))
  BY <1>1, LesserKeeps
<1>3. N' = N /\ phase' = phase /\ stages' = stages
  BY DEF N
<1> HIDE DEF N
<1>4. Owned(owner', N', phase') /\ LostWasLossy(owner', stages') /\ Ranked(owner', TopOf(phase'))
  BY <1>2, <1>3
<1> QED BY <1>4 DEF ReleaseInv

\* The operation is destroyed, and the user holds nothing any more.
LEMMA OperationReleases ==
    ASSUME TypeInv, ReleaseInv, phase \notin {"emitter", "deleted", "detached"},
           owner' = Destroy(owner, {Op(0)}), phase' = "released", UNCHANGED <<src, stages>>
    PROVE  ReleaseInv'
<1>0. Op(0) \in Objs
  <2>1. 0 \in Levels
    BY OperationsConstants DEF Levels
  <2> QED BY <2>1, Names
<1>1. ~DetachStarting /\ ~DetachStarting' /\ TopOf(phase) = 1 /\ TopOf(phase') = 1 /\ 1 \in Tops
  BY TopFacts DEF DetachStarting, Tops
<1>2. Owned(owner, N, phase) /\ LostWasLossy(owner, stages) /\ Ranked(owner, 1)
  BY <1>1 DEF ReleaseInv, Releasable
<1>3. Lesser(owner, owner', stages) /\ owner'[Op(0)] = GONE
  BY <1>0, <1>1, <1>2, DestroyReaches
<1>4. Owned(owner', N, phase) /\ LostWasLossy(owner', stages) /\ Ranked(owner', 1)
  BY <1>2, <1>3, LesserKeeps
<1>5. Owned(owner', N, "released")
  BY <1>3, <1>4, Names DEF Owned
<1>6. N' = N
  BY DEF N
<1> HIDE DEF N
<1>7. Owned(owner', N', phase') /\ LostWasLossy(owner', stages') /\ Ranked(owner', TopOf(phase'))
  BY <1>1, <1>4, <1>5, <1>6
<1> QED BY <1>1, <1>7 DEF ReleaseInv

\* The user connects, starts or deletes.
LEMMA UserReleases ==
    ASSUME CompletionInv, OwnerInv, ReleaseInv,
           DeleteEmitter \/ Connect \/ Start \/ DetachStart \/ Release
    PROVE  ReleaseInv'
<1>0. TypeInv /\ OneCompletion /\ UNCHANGED <<src, stages>> /\ N' = N
  BY DEF CompletionInv, N, DeleteEmitter, Connect, Start, DetachStart, Release
<1>1. CASE DeleteEmitter
  BY <1>1 DEF DeleteEmitter, ReleaseInv, Releasable
<1>2. CASE Connect
  <2>1. phase = "emitter" /\ phase' = "connected" /\ owner' = Wired(USER)
    BY <1>2 DEF Connect
  <2>2. Unconnected(src, owner, N)
    BY <2>1 DEF OwnerInv
  <2>3. Owned(owner', N, phase') /\ LostWasLossy(owner', stages) /\ Ranked(owner', 1)
    BY <1>0, <2>1, <2>2, WiredIsOwned
  <2>4. TopOf(phase') = 1 /\ ~DetachStarting'
    BY <2>1, TopFacts DEF DetachStarting
  <2> QED BY <1>0, <2>1, <2>3, <2>4 DEF ReleaseInv
<1>3. CASE DetachStart
  <2> SUFFICES ASSUME src.kind = "later" PROVE ReleaseInv'
    BY <1>0, <1>3 DEF DetachStart, ReleaseInv, Releasable
  <2>1. /\ phase = "emitter" /\ phase' = "detached" /\ owner' = Wired(Hnd(N + 1))
    BY <1>3 DEF DetachStart
  <2>2. Unconnected(src, owner, N)
    BY <2>1 DEF OwnerInv
  <2>3. Hnd(N + 1) # USER
    BY DEF Hnd, USER
  <2>4. Owned(owner', N, phase') /\ LostWasLossy(owner', stages) /\ Knot(owner', N)
    BY <1>0, <2>1, <2>2, <2>3, WiredIsOwned
  <2>5. DetachStarting'
    <3>1. call' = StartOf(0, src, EmitterResult(src, 0)) /\ src \in Sources
      BY <1>0, <1>3 DEF DetachStart, TypeInv
    <3>2. call'.do = "start" /\ call'.lvl = 0 /\ call' # NULL
      BY <3>1, NullIsNoCall DEF StartOf
    <3> QED BY <2>1, <3>2 DEF DetachStarting
  <2> QED BY <1>0, <2>1, <2>4, <2>5 DEF ReleaseInv
<1>4. CASE Start
  <2>1. phase = "connected" /\ phase' = "started" /\ owner' = owner
    BY <1>4 DEF Start
  <2>2. TopOf(phase) = 1 /\ TopOf(phase') = 1 /\ ~DetachStarting /\ ~DetachStarting'
    BY <2>1, TopFacts DEF DetachStarting
  <2>3. Owned(owner, N, "connected") /\ LostWasLossy(owner, stages) /\ Ranked(owner, 1)
    BY <2>1, <2>2 DEF ReleaseInv, Releasable
  <2>4. Owned(owner, N, "started")
    BY <2>3 DEF Owned
  <2> QED BY <1>0, <2>1, <2>2, <2>3, <2>4 DEF ReleaseInv
<1>5. CASE Release
  <2>1. /\ phase \in {"connected", "completed"} /\ phase' = "released" /\ owner' = Destroy(owner, {Op(0)})
    BY <1>5 DEF Release
  <2> QED BY <1>0, <2>1, OperationReleases
<1> QED BY <1>1, <1>2, <1>3, <1>4, <1>5

\* The chain of calls.
LEMMA RunReleases ==
    ASSUME LetsDoNotWait, CompletionInv, OwnerInv, ReleaseInv, Run, Releasable
    PROVE  ReleaseInv'
<1> DEFINE i == call.lvl
           n == N
<1>0. /\ TypeInv /\ OneCompletion /\ UNCHANGED <<src, stages>> /\ n' = n /\ call # NULL
      /\ owner \in [Objs -> Owners]
  BY DEF CompletionInv, TypeInv, N, Run, StartImmediate, StartLater, StartCoroutine, RunThen, RunLet, RunUser
<1>1. phase \in {"started", "detached"} /\ CallMeans(src, stages, call)
  BY <1>0 DEF OneCompletion, CompletionInv, MeaningInv
<1>2. /\ n \in Nat /\ n = Len(stages) /\ n <= MaxStages /\ MaxStages \in Nat
      /\ (\A j \in 0..(n + 1) : j \in Levels) /\ 0 \in Levels /\ 1 \in Levels
  <2>1. n \in Nat /\ n = Len(stages) /\ MaxStages \in Nat /\ \A j \in 0..(n + 1) : j \in Levels
    BY <1>0, LevelFacts
  <2>2. 0 \in 0..(n + 1) /\ 1 \in 0..(n + 1) /\ n <= MaxStages
    BY <1>0, <2>1 DEF TypeInv, N
  <2> QED BY <2>1, <2>2
<1>3. Owned(owner, n, phase) /\ LostWasLossy(owner, stages) /\ (phase = "detached" => src.kind = "later")
  BY <1>1 DEF ReleaseInv, Releasable
<1>4. call.do = "start" => Starting(src, owner, n, call)
  BY <1>0 DEF OwnerInv
<1>5. CASE StartImmediate
  <2>1. /\ call.do = "start" /\ call.em.kind \in {"just", "nomem", "ramp"} /\ phase' = phase
        /\ owner' = owner /\ call' = Complete(i + 1, call.res)
    BY <1>5 DEF StartImmediate
  <2>2. call'.do = "complete"
    BY <2>1 DEF Complete
  <2>3. ~DetachStarting
    BY <1>3, <1>4, <2>1 DEF DetachStarting, Starting
  <2>4. ~DetachStarting'
    BY <2>2 DEF DetachStarting
  <2>5. Lesser(owner, owner', stages)
    BY <2>1 DEF Lesser
  <2> QED BY <1>0, <2>1, <2>3, <2>4, <2>5, LesserReleases
<1>6. CASE StartLater
  <2>1. /\ call.do = "start" /\ phase' = phase /\ call' = NULL
        /\ owner' = [owner EXCEPT ![Hnd(i + 1)] = LOOP]
    BY <1>6 DEF StartLater
  <2>2. ~DetachStarting'
    BY <2>1 DEF DetachStarting
  <2>3. i \in 0..n /\ i + 1 \in Levels
    <3>1. i \in 0..n
      BY <1>1, <1>2, <2>1 DEF CallMeans
    <3>2. i + 1 \in 0..(n + 1)
      BY <1>2, <3>1
    <3> QED BY <1>2, <3>1, <3>2
  <2>4. Hnd(i + 1) \in Objs /\ Hnd(i + 1)[1] = "hnd"
    BY <2>3, Names DEF Hnd
  <2>5. owner'[Hnd(i + 1)] = LOOP /\ \A x \in Objs : x # Hnd(i + 1) => owner'[x] = owner[x]
    BY <1>0, <2>1, <2>4
  <2>6. Lesser(owner, owner', stages)
    BY <2>4, <2>5 DEF Lesser
  <2>7. CASE ~DetachStarting
    BY <1>0, <2>1, <2>2, <2>6, <2>7, LesserReleases
  <2>8. CASE DetachStarting
    <3>1. phase = "detached" /\ i = 0 /\ Knot(owner, n) /\ src.kind = "later"
      BY <1>1, <1>3, <2>8 DEF DetachStarting, ReleaseInv
    <3> HIDE DEF i, n
    <3>2. Owned(owner', n, phase) /\ LostWasLossy(owner', stages)
      BY <1>3, <2>6, LesserKeeps
    <3>3. owner'[Hnd(1)] = LOOP /\ \A x \in Objs : x # Hnd(1) => owner'[x] = owner[x]
      <4>1. i + 1 = 1
        BY <3>1
      <4> QED BY <2>5, <4>1
    <3>4. n + 1 \in Levels /\ Below \in Tops
      BY <1>2 DEF Tops
    <3>5. Rank(Hnd(n + 1), Below) = 4 * (n + 1) /\ Rank(Op(0), Below) = Below
      BY <3>4, RankFacts
    <3>6. Rank(Hnd(n + 1), Below) < Rank(Op(0), Below)
      BY <1>2, <3>5 DEF Below
    <3>7. Ranked(owner', Below)
      <4> SUFFICES ASSUME NEW x \in Objs, owner'[x] \in Objs
                   PROVE  Rank(owner'[x], Below) < Rank(x, Below)
        BY DEF Ranked
      <4>1. x # Hnd(1) /\ owner'[x] = owner[x]
        BY <3>3, Names
      <4>2. CASE x = Op(0)
        BY <3>1, <3>6, <4>1, <4>2 DEF Knot
      <4>3. CASE x # Op(0)
        BY <3>1, <4>1, <4>3 DEF Knot
      <4> QED BY <4>2, <4>3
    <3>8. TopOf(phase') = Below
      BY <2>1, <3>1, TopFacts
    <3> QED BY <1>0, <2>1, <2>2, <3>1, <3>2, <3>7, <3>8 DEF ReleaseInv, n
  <2> QED BY <2>7, <2>8
<1>7. CASE StartCoroutine
  <2>1. call.do = "start" /\ phase' = phase /\ call' = NULL /\ call.em.kind \in {"awaits", "nested"}
    BY <1>7 DEF StartCoroutine
  <2>2. i = 0 /\ call.em = src
    BY <1>4, <2>1 DEF Starting
  <2>3. phase = "started" /\ ~DetachStarting /\ ~DetachStarting'
    BY <1>1, <1>3, <2>1, <2>2 DEF DetachStarting
  <2>4. Suspended(owner, owner')
    BY <1>0, <1>2, <1>7, <2>2, CoroutineEffect
  <2>5. TopOf(phase) = 1 /\ TopOf(phase') = 1 /\ 1 \in Tops /\ Ranked(owner, 1)
    <3>1. TopOf(phase) = 1 /\ TopOf(phase') = 1 /\ 1 \in Tops
      BY <2>1, <2>3, TopFacts DEF Tops
    <3> QED BY <2>3, <3>1 DEF ReleaseInv
  <2>6. /\ Hnd(1) \in Objs /\ Frame(0) \in Objs /\ Task(0) \in Objs /\ Rcv(0) \in Objs
        /\ Hnd(1)[1] = "hnd" /\ Task(0)[1] = "task" /\ Rcv(0)[1] = "rcv"
    BY <1>2, Names DEF Hnd, Task, Rcv
  <2>7. \A x \in Objs : \/ owner'[x] \in {owner[x], LOOP}
                        \/ x \in {Hnd(1), Task(0)} /\ owner'[x] = Frame(0)
    BY <2>4 DEF Suspended
  <2>8. Ranked(owner', 1)
    <3> SUFFICES ASSUME NEW x \in Objs, owner'[x] \in Objs PROVE Rank(owner'[x], 1) < Rank(x, 1)
      BY DEF Ranked
    <3>1. CASE owner'[x] = owner[x]
      BY <2>5, <3>1 DEF Ranked
    <3>2. CASE x \in {Hnd(1), Task(0)} /\ owner'[x] = Frame(0)
      <4>1. Rank(Hnd(1), 1) = 4 * 1 /\ Rank(Frame(0), 1) = 4 * 0 + 2 /\ Rank(Task(0), 1) = 4 * 0 + 3
        BY <1>2, <2>5, RankFacts
      <4> QED BY <3>2, <4>1
    <3> QED BY <2>7, <3>1, <3>2, Names
  <2>9. Owned(owner', n, phase)
    <3>1. \A x \in Objs : x[1] = "em" => owner'[x] = GONE
      <4>1. \A x \in Objs : x[1] = "em" => owner'[x] = owner[x]
        BY <2>4, <2>6 DEF Suspended
      <4> QED BY <1>3, <2>6, <2>7, <4>1, Names DEF Owned
    <3>2. ASSUME NEW j \in Levels, Live(owner', Ud(j)) PROVE j \in 1..n
      <4>1. Ud(j) \in Objs /\ Ud(j) # Hnd(1) /\ Ud(j) # Task(0) /\ Ud(j) # Rcv(0)
        <5>1. Ud(j) # Hnd(1) /\ Ud(j) # Task(0) /\ Ud(j) # Rcv(0)
          BY DEF Ud, Hnd, Task, Rcv
        <5> QED BY <5>1, Names
      <4>2. Live(owner, Ud(j))
        BY <2>4, <3>2, <4>1 DEF Suspended, Live
      <4> QED BY <1>3, <4>2 DEF Owned
    <3>3. \A x \in Objs : owner'[x] = USER => owner[x] = USER
      BY <2>6, <2>7, Names
    <3> QED BY <1>3, <3>1, <3>2, <3>3 DEF Owned
  <2>10. LostWasLossy(owner', stages)
    BY <1>3, <2>6, <2>7, Names DEF LostWasLossy
  <2> QED BY <1>0, <2>1, <2>3, <2>5, <2>8, <2>9, <2>10 DEF ReleaseInv
<1>8. CASE RunThen
  <2>1. /\ call.do = "complete" /\ phase' = phase /\ call' = Complete(i + 1, ThenResult(i, call.res))
        /\ owner' = [owner EXCEPT ![Ud(i)] = UserdataAfter(i, call.res)]
    BY <1>8 DEF RunThen
  <2>2. call'.do = "complete"
    BY <2>1 DEF Complete
  <2>3. ~DetachStarting /\ ~DetachStarting'
    BY <2>1, <2>2 DEF DetachStarting
  <2>4. \/ UserdataAfter(i, call.res) \in {owner[Ud(i)], GONE}
        \/ UserdataAfter(i, call.res) = LOST /\ Lossy(stages, Ud(i))
    <3>1. Ud(i)[1] = "ud" /\ Ud(i)[2] = i
      BY DEF Ud
    <3> QED BY <3>1 DEF UserdataAfter, Lossy
  <2>5. Lesser(owner, owner', stages)
    BY <1>0, <2>1, <2>4 DEF Lesser
  <2> QED BY <1>0, <2>1, <2>3, <2>5, LesserReleases
<1>9. CASE RunLet
  <2> DEFINE c == NextOf(i, call.res)
             f == IF IsCoroutine(c.em) THEN Op(i) ELSE GONE
             u == UserdataAfter(i, call.res)
  <2>1. /\ call.do = "complete" /\ i \in 1..n /\ call' = c /\ phase' = phase
        /\ owner' = [owner EXCEPT ![Op(i)] = Hnd(i), ![Hnd(i + 1)] = Op(i), ![Frame(i)] = f, ![Ud(i)] = u]
    BY <1>9 DEF RunLet
  <2>2. c.lvl = i /\ f \in {Op(i), GONE} /\ (u \in {owner[Ud(i)], GONE} \/ (u = LOST /\ Lossy(stages, Ud(i))))
    <3>1. Ud(i)[1] = "ud" /\ Ud(i)[2] = i
      BY DEF Ud
    <3>2. c.lvl = i /\ f \in {Op(i), GONE}
      BY DEF NextOf, StartOf
    <3> QED BY <3>1, <3>2 DEF UserdataAfter, Lossy
  <2>3. i # 0 /\ i \in Levels /\ i + 1 \in Levels
    <3>1. i # 0 /\ i \in 0..(n + 1) /\ i + 1 \in 0..(n + 1)
      BY <1>2, <2>1
    <3> QED BY <1>2, <3>1
  <2> HIDE DEF i, n, c, f, u
  <2>4. ~DetachStarting /\ ~DetachStarting'
    BY <2>1, <2>2, <2>3 DEF DetachStarting
  <2>5. /\ Op(i) \in Objs /\ Hnd(i) \in Objs /\ Hnd(i + 1) \in Objs /\ Frame(i) \in Objs /\ Ud(i) \in Objs
        /\ Op(i)[1] = "op" /\ Hnd(i + 1)[1] = "hnd" /\ Frame(i)[1] = "frame" /\ Ud(i)[1] = "ud"
    <3>1. Op(i)[1] = "op" /\ Hnd(i + 1)[1] = "hnd" /\ Frame(i)[1] = "frame" /\ Ud(i)[1] = "ud"
      BY DEF Op, Hnd, Frame, Ud
    <3> QED BY <2>3, <3>1, Names
  <2>6. ASSUME NEW x \in Objs
        PROVE  \/ owner'[x] \in {owner[x], GONE}
               \/ x = Ud(i) /\ owner'[x] = LOST /\ Lossy(stages, x)
               \/ x = Op(i) /\ owner'[x] = Hnd(i)
               \/ x \in {Hnd(i + 1), Frame(i)} /\ owner'[x] = Op(i)
    BY <1>0, <2>1, <2>2, <2>5
  <2>7. \A x \in Objs : /\ x[1] \in {"em", "ud"} => owner'[x] \in {owner[x], GONE, LOST}
                        /\ x[1] = "em" => owner'[x] \in {owner[x], GONE}
                        /\ owner'[x] = USER => owner'[x] = owner[x]
                        /\ owner'[x] = LOST => owner'[x] = owner[x] \/ Lossy(stages, x)
    BY <2>5, <2>6, Names
  <2>8. Owned(owner', n, phase)
    <3>1. \A x \in Objs : x[1] = "em" => owner'[x] = GONE
      BY <1>3, <2>7 DEF Owned
    <3>2. ASSUME NEW j \in Levels, Live(owner', Ud(j)) PROVE j \in 1..n
      <4>1. Ud(j) \in Objs /\ Ud(j)[1] = "ud"
        BY Names DEF Ud
      <4>2. Live(owner, Ud(j))
        BY <2>7, <3>2, <4>1 DEF Live
      <4> QED BY <1>3, <4>2 DEF Owned
    <3>3. \A x \in Objs : owner'[x] = USER => owner[x] = USER
      BY <2>7
    <3> QED BY <1>3, <3>1, <3>2, <3>3 DEF Owned
  <2> DEFINE top == TopOf(phase)
  <2>9. top \in Tops /\ Ranked(owner, top)
    BY <1>1, <2>4, TopFacts DEF ReleaseInv
  <2> HIDE DEF top
  <2>8a. LostWasLossy(owner', stages)
    BY <1>3, <2>7 DEF LostWasLossy
  <2>10. Ranked(owner', top)
    <3> SUFFICES ASSUME NEW x \in Objs, owner'[x] \in Objs PROVE Rank(owner'[x], top) < Rank(x, top)
      BY DEF Ranked
    <3>0. /\ Rank(Hnd(i), top) = 4 * i /\ Rank(Op(i), top) = 4 * i + 1
          /\ Rank(Frame(i), top) = 4 * i + 2 /\ Rank(Hnd(i + 1), top) = 4 * (i + 1) /\ i \in Nat
      <4>1. i \in Nat
        BY <1>2, <2>1
      <4> QED BY <2>3, <2>9, <4>1, RankFacts
    <3>1. CASE owner'[x] = owner[x]
      BY <2>9, <3>1 DEF Ranked
    <3>2. CASE x = Op(i) /\ owner'[x] = Hnd(i)
      BY <3>0, <3>2
    <3>3. CASE x \in {Hnd(i + 1), Frame(i)} /\ owner'[x] = Op(i)
      BY <3>0, <3>3
    <3> QED BY <2>6, <3>1, <3>2, <3>3, Names
  <2> QED BY <1>0, <1>1, <1>3, <2>1, <2>4, <2>8, <2>8a, <2>10 DEF ReleaseInv, n, top
<1>10. CASE RunUser
  <2>1. call.do = "complete" /\ call' = NULL
    BY <1>10 DEF RunUser
  <2>2. ~DetachStarting /\ ~DetachStarting'
    BY <2>1 DEF DetachStarting
  <2>3. CASE phase = "detached"
    <3>1. owner' = owner /\ phase' = phase
      BY <1>10, <2>3 DEF RunUser
    <3>2. Lesser(owner, owner', stages)
      BY <3>1 DEF Lesser
    <3> QED BY <1>0, <2>2, <3>1, <3>2, LesserReleases
  <2>4. CASE phase = "started" /\ phase' = "completed" /\ owner' = owner
    <3>1. TopOf(phase) = 1 /\ TopOf(phase') = 1
      BY <2>4, TopFacts
    <3>2. Ranked(owner, 1) /\ Owned(owner, n, "started")
      BY <1>3, <2>2, <2>4, <3>1 DEF ReleaseInv
    <3>3. Owned(owner, n, "completed")
      BY <3>2 DEF Owned
    <3> QED BY <1>0, <2>2, <2>4, <3>1, <3>2, <3>3 DEF ReleaseInv
  <2>5. CASE phase = "started" /\ phase' = "released" /\ owner' = Destroy(owner, {Op(0)})
    BY <1>0, <2>5, OperationReleases
  <2> QED BY <1>1, <1>10, <2>3, <2>4, <2>5 DEF RunUser
<1> QED BY <1>5, <1>6, <1>7, <1>8, <1>9, <1>10 DEF Run

\* A timer fires, or a dispatch returns.
LEMMA LoopReleases ==
    ASSUME CompletionInv, ReleaseInv, Fire \/ Return
    PROVE  ReleaseInv'
<1>0. TypeInv /\ UNCHANGED <<src, stages, phase>> /\ call = NULL /\ owner \in [Objs -> Owners]
  BY DEF CompletionInv, TypeInv, Fire, FireLater, FireAwaited, Return, Idle
<1>1. ~DetachStarting
  BY <1>0 DEF DetachStarting
<1>2. CASE \E i \in Levels : FireLater(i)
  <2>1. PICK i \in Levels : FireLater(i)
    BY <1>2
  <2>2. owner' = [owner EXCEPT ![Hnd(i)] = STACK] /\ call' = Complete(i, Nil("ok"))
    BY <2>1 DEF FireLater
  <2>3. call'.do = "complete" /\ Hnd(i)[1] = "hnd"
    BY <2>2 DEF Complete, Hnd
  <2>4. Lesser(owner, owner', stages)
    BY <1>0, <2>2, <2>3 DEF Lesser
  <2>5. ~DetachStarting'
    BY <2>3 DEF DetachStarting
  <2> QED BY <1>0, <1>1, <2>4, <2>5, LesserReleases
<1>3. CASE \E i \in Levels : FireAwaited(i)
  <2>1. PICK i \in Levels : FireAwaited(i)
    BY <1>3
  <2>2. /\ owner' = [[owner EXCEPT ![Rcv(i)] = STACK] EXCEPT ![Task(i)] = GONE]
        /\ call' = Complete(i + 1, EmitterResult(EmitterOf(i), i))
    BY <2>1 DEF FireAwaited, HandOff
  <2>3. call'.do = "complete" /\ Rcv(i)[1] = "rcv"
    BY <2>2 DEF Complete, Rcv
  <2>4. Lesser(owner, owner', stages)
    BY <1>0, <2>2, <2>3 DEF Lesser
  <2>5. ~DetachStarting'
    BY <2>3 DEF DetachStarting
  <2> QED BY <1>0, <1>1, <2>4, <2>5, LesserReleases
<1>4. CASE Return
  <2>1. PICK x \in Objs : owner' = Destroy(owner, {x})
    BY <1>4 DEF Return
  <2>2. call' = NULL
    BY <1>0, <1>4 DEF Return
  <2>3. ~DetachStarting'
    BY <2>2 DEF DetachStarting
  <2>4. CASE ~Releasable
    BY <1>0, <2>4 DEF ReleaseInv, Releasable
  <2>5. CASE Releasable
    <3>1. Owned(owner, N, phase) /\ Ranked(owner, TopOf(phase)) /\ TopOf(phase) \in Tops
      BY <1>1, <2>5, TopFacts DEF ReleaseInv
    <3>2. {x} \in SUBSET Objs
      OBVIOUS
    <3>3. Lesser(owner, Destroy(owner, {x}), stages)
      BY <1>0, <3>1, <3>2, DestroyReaches
    <3> QED BY <1>0, <1>1, <2>1, <2>3, <3>3, LesserReleases
  <2> QED BY <2>4, <2>5
<1> QED BY <1>2, <1>3, <1>4 DEF Fire

\* With ranks, and roots only in the loop, on the stack and with the user, there
\* is nothing without a root.
LEMMA RootsOwnAll ==
    ASSUME NEW o, NEW top \in Tops, Ranked(o, top), Tree(o), NEW sg, LostWasLossy(o, sg),
           \A x \in Objs : o[x] \in Objs \cup {GONE, LOST}
    PROVE  \A x \in Objs : o[x] \in {GONE, LOST}
<1> DEFINE T == {k \in Nat : \E x \in Objs : o[x] \in Objs /\ Rank(x, top) = k}
<1>0. \A x \in Objs : Rank(x, top) \in Nat
  BY RankFacts
<1>1. T = {}
  <2> SUFFICES ASSUME T # {} PROVE FALSE
    OBVIOUS
  <2>1. PICK m \in T : \A k \in T : m <= k
    BY LeastNatural
  <2>2. PICK x \in Objs : o[x] \in Objs /\ Rank(x, top) = m
    BY <2>1
  <2>3. o[o[x]] # GONE /\ o[x][1] # "ud" /\ Rank(o[x], top) < m
    BY <2>2 DEF Tree, Ranked
  <2>4. o[o[x]] \in Objs
    BY <2>2, <2>3 DEF LostWasLossy, Lossy
  <2>5. Rank(o[x], top) \in T
    BY <1>0, <2>2, <2>4
  <2>6. Rank(o[x], top) \in Nat /\ m \in Nat
    BY <1>0, <2>2
  <2> QED BY <2>1, <2>3, <2>5, <2>6
<1> HIDE DEF T
<1>2. ASSUME NEW x \in Objs, o[x] \in Objs PROVE FALSE
  BY <1>0, <1>1, <1>2 DEF T
<1> QED BY <1>2

(* For expressions of any length and any userdata, where let stages do not  *)
(* return coroutines that wait (let_coroutine): once the user has released  *)
(* an operation, or detached one around a timer, nothing is under way and   *)
(* the loop owes nothing, every operation, handler and coroutine frame of   *)
(* it has been destroyed, and so has the userdata, but for what was in a    *)
(* dynamic box and is lost.                                                 *)
THEOREM AllIsReleased ==
    ASSUME LetsDoNotWait PROVE Spec => []ConnectedIsReleased
<1>1. Init => ReleaseInv
  BY DEF Init, ReleaseInv, Releasable
<1>2. CompletionInv /\ OwnerInv /\ ReleaseInv /\ [Next]_vars => ReleaseInv'
  <2> SUFFICES ASSUME CompletionInv, OwnerInv, ReleaseInv, [Next]_vars PROVE ReleaseInv'
    OBVIOUS
  <2>1. CASE UNCHANGED vars
    BY <2>1 DEF vars, ReleaseInv, Releasable, DetachStarting, N
  <2>2. CASE Next
    <3>1. Run /\ ~Releasable => ~Releasable'
      BY DEF CompletionInv, OneCompletion, Releasable, Run, StartImmediate, StartLater,
             StartCoroutine, RunThen, RunLet, RunUser
    <3>2. Run => ReleaseInv'
      BY <3>1, RunReleases DEF ReleaseInv
    <3> QED BY <2>2, <3>2, UserReleases, LoopReleases DEF Next, LoopThread
  <2> QED BY <2>1, <2>2
<1>3. CompletionInv /\ OwnerInv /\ ReleaseInv => ConnectedIsReleased
  <2> SUFFICES ASSUME CompletionInv, OwnerInv, ReleaseInv, AllOver,
                      phase = "released" \/ (phase = "detached" /\ src.kind = "later")
               PROVE  \A x \in Objs : owner[x] = GONE \/ (x[1] = "ud" /\ owner[x] = LOST /\ Loses(x))
    BY DEF ConnectedIsReleased
  <2>1. call = NULL /\ \A x \in Objs : owner[x] # STACK /\ owner[x] # LOOP
    BY DEF AllOver, Idle
  <2>2. ~DetachStarting
    BY <2>1 DEF DetachStarting
  <2>3. /\ Ranked(owner, TopOf(phase)) /\ TopOf(phase) \in Tops /\ Tree(owner)
        /\ Owned(owner, N, phase) /\ LostWasLossy(owner, stages)
    BY <2>1, <2>2, TopFacts DEF ReleaseInv, Releasable, OwnerInv
  <2>4. \A x \in Objs : owner[x] # USER
    BY <2>3 DEF Owned
  <2>5. \A x \in Objs : owner[x] \in Objs \cup {GONE, LOST}
    BY <2>1, <2>4 DEF CompletionInv, TypeInv, Owners
  <2>6. \A x \in Objs : owner[x] \in {GONE, LOST}
    BY <2>3, <2>5, RootsOwnAll
  <2>7. \A x \in Objs : owner[x] = LOST => x[1] = "ud" /\ Loses(x)
    BY <2>3 DEF LostWasLossy, Lossy, Loses
  <2> QED BY <2>6, <2>7
<1> QED BY <1>1, <1>2, <1>3, CompletionInvariant, OwnerInvariant, PTL DEF Spec
=============================================================================
