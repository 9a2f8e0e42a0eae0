----------------------------- MODULE UriProofs ------------------------------
(***************************************************************************)
(* The event emitter and the connection string parser, for any number of   *)
(* listeners, parameters and values: the intrusive list stays intact under *)
(* re-entrant callbacks, the last usable value of a parameter wins, and    *)
(* the warnings are exactly those that the parameters give rise to.        *)
(***************************************************************************)
EXTENDS Uri, FiniteSetTheorems, TLAPS

-----------------------------------------------------------------------------
(* The list.  Its invariant says that next and prev are the pointers of a  *)
(* doubly linked list over the sequence s.                                 *)

Ends == Listeners \cup {NULL}

At(s, i) == IF i \in 1..Len(s) THEN s[i] ELSE NULL

Distinct(s) == \A i, j \in 1..Len(s) : s[i] = s[j] => i = j

Chain(nx, pv, s) ==
    /\ s \in Seq(Listeners) /\ Distinct(s)
    /\ nx \in [Ends -> Ends] /\ pv \in [Listeners -> Ends]
    /\ \A i \in 0..Len(s) : nx[At(s, i)] = At(s, i + 1)
    /\ \A i \in 1..Len(s) : pv[At(s, i)] = At(s, i - 1)

\* The places of a sequence with a new first element.
LEMMA PushFront ==
    ASSUME NEW S, NEW s \in Seq(S), NEW l \in S
    PROVE  /\ <<l>> \o s \in Seq(S) /\ Len(<<l>> \o s) = Len(s) + 1
           /\ (<<l>> \o s)[1] = l
           /\ \A i \in 2..Len(s) + 1 : (<<l>> \o s)[i] = s[i - 1]
OBVIOUS

\* A new listener at the head of the list.
LEMMA LinkKeepsChain ==
    ASSUME NEW nx, NEW pv, NEW s, Chain(nx, pv, s), NEW l \in Listeners,
           \A i \in 1..Len(s) : s[i] # l
    PROVE  Chain([nx EXCEPT ![l] = nx[NULL], ![NULL] = l],
                 [k \in Listeners |-> IF k = l THEN NULL ELSE IF k = nx[NULL] THEN l ELSE pv[k]],
                 <<l>> \o s)
<1> DEFINE t == <<l>> \o s
           mx == [nx EXCEPT ![l] = nx[NULL], ![NULL] = l]
           qv == [k \in Listeners |-> IF k = l THEN NULL ELSE IF k = nx[NULL] THEN l ELSE pv[k]]
<1>0. /\ s \in Seq(Listeners) /\ Distinct(s) /\ Len(s) \in Nat
      /\ nx \in [Ends -> Ends] /\ pv \in [Listeners -> Ends]
      /\ l # NULL /\ NULL \in Ends /\ l \in Ends
      /\ \A i \in 1..Len(s) : s[i] \in Listeners /\ s[i] # NULL /\ s[i] # l
  BY NullAssumption DEF Chain, Ends
<1>1. /\ t \in Seq(Listeners) /\ Len(t) = Len(s) + 1 /\ t[1] = l
      /\ \A i \in 2..Len(s) + 1 : t[i] = s[i - 1]
  BY <1>0, PushFront
<1>2. /\ mx \in [Ends -> Ends] /\ qv \in [Listeners -> Ends]
      /\ mx[NULL] = l /\ mx[l] = nx[NULL] /\ qv[l] = NULL
      /\ \A k \in Listeners : k # l => mx[k] = nx[k]
      /\ \A k \in Listeners : k # l => qv[k] = IF k = nx[NULL] THEN l ELSE pv[k]
  <2>1. mx \in [Ends -> Ends] /\ qv \in [Listeners -> Ends]
    BY <1>0 DEF Ends
  <2>2. mx[NULL] = l /\ mx[l] = nx[NULL] /\ qv[l] = NULL
    BY <1>0
  <2>3. \A k \in Listeners : k # l => mx[k] = nx[k]
    BY <1>0, NullAssumption DEF Ends
  <2>4. \A k \in Listeners : k # l => qv[k] = IF k = nx[NULL] THEN l ELSE pv[k]
    BY Zenon
  <2> QED BY <2>1, <2>2, <2>3, <2>4
<1> HIDE DEF t, mx, qv
<1>3. \A i \in 1..Len(t) : i = 1 \/ (i \in 2..Len(s) + 1 /\ i - 1 \in 1..Len(s))
  BY <1>0, <1>1
<1>4. Distinct(t)
  <2> SUFFICES ASSUME NEW i \in 1..Len(t), NEW j \in 1..Len(t), t[i] = t[j] PROVE i = j
    BY DEF Distinct
  <2>1. CASE i = 1 \/ j = 1
    BY <1>0, <1>1, <1>3, <2>1
  <2>2. CASE i # 1 /\ j # 1
    <3>1. i - 1 = j - 1
      BY <1>0, <1>1, <1>3, <2>2 DEF Distinct
    <3> QED BY <1>0, <1>1, <3>1
  <2> QED BY <2>1, <2>2
<1>5. /\ At(t, 0) = NULL /\ At(t, 1) = l
      /\ \A i \in Nat : i >= 2 => At(t, i) = At(s, i - 1)
  BY <1>0, <1>1 DEF At
<1>6. nx[NULL] = At(s, 1)
  <2>1. At(s, 0) = NULL /\ 0 \in 0..Len(s) /\ 0 + 1 = 1
    BY <1>0 DEF At
  <2> QED BY <2>1 DEF Chain
<1>7. ASSUME NEW i \in 0..Len(t) PROVE mx[At(t, i)] = At(t, i + 1)
  <2>1. CASE i = 0
    BY <1>2, <1>5, <2>1
  <2>2. CASE i = 1
    BY <1>2, <1>5, <1>6, <2>2
  <2>3. CASE i >= 2
    <3>1. i - 1 \in 1..Len(s) /\ i - 1 \in 0..Len(s) /\ i \in Nat /\ i + 1 \in Nat /\ i + 1 >= 2
      BY <1>0, <1>1, <2>3
    <3>2. At(t, i) = s[i - 1] /\ At(s, i - 1) = s[i - 1]
      BY <1>5, <2>3, <3>1 DEF At
    <3>3. nx[At(s, i - 1)] = At(s, (i - 1) + 1) /\ (i - 1) + 1 = i /\ (i + 1) - 1 = i
      BY <3>1 DEF Chain
    <3>4. At(t, i + 1) = At(s, i)
      BY <1>5, <3>1, <3>3
    <3> QED BY <1>0, <1>2, <3>1, <3>2, <3>3, <3>4
  <2> QED BY <1>1, <2>1, <2>2, <2>3
<1>8. ASSUME NEW i \in 1..Len(t) PROVE qv[At(t, i)] = At(t, i - 1)
  <2>1. CASE i = 1
    BY <1>2, <1>5, <2>1
  <2>2. CASE i = 2
    <3>1. 1 \in 1..Len(s) /\ At(t, 2) = s[1] /\ nx[NULL] = s[1]
      BY <1>0, <1>1, <1>5, <1>6, <2>2 DEF At
    <3> QED BY <1>0, <1>2, <1>5, <2>2, <3>1
  <2>3. CASE i >= 3
    <3>1. i - 1 \in 1..Len(s) /\ i - 2 \in 1..Len(s) /\ 1 \in 1..Len(s) /\ i \in Nat
          /\ i - 1 \in Nat /\ i - 1 >= 2 /\ (i - 1) - 1 = i - 2
      BY <1>0, <1>1, <2>3
    <3>2. At(t, i) = s[i - 1] /\ At(s, i - 1) = s[i - 1] /\ At(t, i - 1) = At(s, i - 2)
      BY <1>5, <2>3, <3>1 DEF At
    <3>3. s[i - 1] # nx[NULL]
      <4>1. nx[NULL] = s[1] /\ i - 1 # 1
        BY <1>6, <3>1 DEF At
      <4> QED BY <1>0, <3>1, <4>1 DEF Distinct
    <3>4. pv[At(s, i - 1)] = At(s, (i - 1) - 1)
      BY <3>1 DEF Chain
    <3> QED BY <1>0, <1>2, <3>1, <3>2, <3>3, <3>4
  <2> QED BY <1>1, <2>1, <2>2, <2>3
<1> QED BY <1>1, <1>2, <1>4, <1>7, <1>8 DEF Chain, t, mx, qv

\* The places of a concatenation.
LEMMA ConcatPlaces ==
    ASSUME NEW S, NEW s \in Seq(S), NEW t \in Seq(S)
    PROVE  /\ s \o t \in Seq(S) /\ Len(s \o t) = Len(s) + Len(t)
           /\ \A i \in 1..Len(s) : (s \o t)[i] = s[i]
           /\ \A i \in 1..Len(t) : (s \o t)[Len(s) + i] = t[i]
OBVIOUS

\* The places of a sequence without the element at place k.
LEMMA RemoveAtFacts ==
    ASSUME NEW S, NEW s \in Seq(S), NEW k \in 1..Len(s)
    PROVE  /\ RemoveAt(s, k) \in Seq(S) /\ Len(RemoveAt(s, k)) = Len(s) - 1
           /\ \A i \in 1..(k - 1) : RemoveAt(s, k)[i] = s[i]
           /\ \A i \in k..(Len(s) - 1) : RemoveAt(s, k)[i] = s[i + 1]
<1> DEFINE a == SubSeq(s, 1, k - 1)  b == SubSeq(s, k + 1, Len(s))
<1>1. Len(s) \in Nat /\ k \in Nat /\ k >= 1 /\ k <= Len(s)
  OBVIOUS
<1>2. /\ a \in Seq(S) /\ Len(a) = k - 1 /\ \A i \in 1..(k - 1) : a[i] = s[i]
  BY <1>1
<1>3. /\ b \in Seq(S) /\ Len(b) = Len(s) - k /\ \A i \in 1..(Len(s) - k) : b[i] = s[k + i]
  BY <1>1
<1>4. RemoveAt(s, k) = a \o b
  BY DEF RemoveAt
<1> HIDE DEF a, b
<1> DEFINE c == a \o b
<1>5. /\ c \in Seq(S) /\ Len(c) = Len(a) + Len(b)
      /\ \A i \in 1..Len(a) : c[i] = a[i]
      /\ \A i \in 1..Len(b) : c[Len(a) + i] = b[i]
  <2>1. a \in Seq(S) /\ b \in Seq(S)
    BY <1>2, <1>3
  <2> QED BY <2>1, ConcatPlaces
<1> HIDE DEF c
<1>6. ASSUME NEW i \in k..(Len(s) - 1) PROVE c[i] = s[i + 1]
  <2>1. i - (k - 1) \in 1..(Len(s) - k) /\ (k - 1) + (i - (k - 1)) = i /\ k + (i - (k - 1)) = i + 1
    BY <1>1
  <2> DEFINE j == i - (k - 1)
  <2>2. j \in 1..Len(b) /\ Len(a) + j = i /\ k + j = i + 1
    BY <1>1, <1>2, <1>3, <2>1
  <2> HIDE DEF j
  <2>3. c[Len(a) + j] = b[j] /\ b[j] = s[k + j]
    BY <1>3, <1>5, <2>2
  <2> QED BY <2>2, <2>3
<1>7. \A i \in 1..(k - 1) : c[i] = s[i]
  BY <1>1, <1>2, <1>5
<1>8. Len(c) = Len(s) - 1
  BY <1>1, <1>2, <1>3, <1>5
<1> QED BY <1>4, <1>5, <1>6, <1>7, <1>8 DEF c

\* Dropping an element that is there once, and one that is not there.
LEMMA DroppedFacts ==
    ASSUME NEW s, NEW l
    PROVE  /\ (\A i \in 1..Len(s) : s[i] # l) => Dropped(s, l) = s
           /\ \A k \in 1..Len(s) :
                 s[k] = l /\ (\A i \in 1..Len(s) : s[i] = l => i = k) =>
                    Dropped(s, l) = RemoveAt(s, k)
<1>1. ASSUME \A i \in 1..Len(s) : s[i] # l PROVE Dropped(s, l) = s
  BY <1>1, Zenon DEF Dropped
<1>2. ASSUME NEW k \in 1..Len(s), s[k] = l, \A i \in 1..Len(s) : s[i] = l => i = k
      PROVE  Dropped(s, l) = RemoveAt(s, k)
  <2> DEFINE c == CHOOSE i \in 1..Len(s) : s[i] = l
  <2>1. c \in 1..Len(s) /\ s[c] = l
    BY <1>2, Zenon
  <2>2. c = k
    BY <1>2, <2>1, Zenon
  <2>3. Dropped(s, l) = RemoveAt(s, c)
    BY <1>2, Zenon DEF Dropped
  <2> HIDE DEF c
  <2> QED BY <2>2, <2>3
<1> QED BY <1>1, <1>2, Zenon

\* The listener at place k splices itself out.
LEMMA UnlinkKeepsChain ==
    ASSUME NEW nx, NEW pv, NEW s, Chain(nx, pv, s), NEW k \in 1..Len(s), NEW l, l = s[k]
    PROVE  Chain([nx EXCEPT ![pv[l]] = nx[l], ![l] = NULL],
                 [m \in Listeners |-> IF m = l THEN NULL ELSE IF m = nx[l] THEN pv[l] ELSE pv[m]],
                 RemoveAt(s, k))
<1> DEFINE t == RemoveAt(s, k)
           mx == [nx EXCEPT ![pv[l]] = nx[l], ![l] = NULL]
           qv == [m \in Listeners |-> IF m = l THEN NULL ELSE IF m = nx[l] THEN pv[l] ELSE pv[m]]
<1>0. /\ s \in Seq(Listeners) /\ Distinct(s) /\ Len(s) \in Nat /\ k \in Nat /\ 1 <= k /\ k <= Len(s)
      /\ nx \in [Ends -> Ends] /\ pv \in [Listeners -> Ends]
      /\ \A i \in 1..Len(s) : s[i] \in Listeners /\ s[i] # NULL
      /\ l \in Listeners
  BY NullAssumption DEF Chain, Ends
<1>1. /\ t \in Seq(Listeners) /\ Len(t) = Len(s) - 1
      /\ \A i \in 1..(k - 1) : t[i] = s[i]
      /\ \A i \in k..(Len(s) - 1) : t[i] = s[i + 1]
  BY <1>0, RemoveAtFacts
<1>2. At(s, k) = l
  BY DEF At
<1>3. nx[l] = At(s, k + 1) /\ pv[l] = At(s, k - 1)
  <2>1. k \in 0..Len(s)
    BY <1>0
  <2> QED BY <1>2, <2>1 DEF Chain
<1>4. \A i \in Int : At(s, i) \in Ends
  BY <1>0 DEF At, Ends
<1>5. ASSUME NEW i \in 0..Len(s), NEW j \in 0..Len(s), At(s, i) = At(s, j)
      PROVE  i = j
  <2>1. CASE i = 0 \/ j = 0
    BY <1>0, <1>5, <2>1 DEF At
  <2>2. CASE i # 0 /\ j # 0
    <3>1. i \in 1..Len(s) /\ j \in 1..Len(s)
      BY <1>0, <2>2
    <3> QED BY <1>0, <1>5, <3>1 DEF At, Distinct
  <2> QED BY <2>1, <2>2
<1>6. ASSUME NEW i \in 1..(Len(s) + 1), NEW j \in 1..(Len(s) + 1), At(s, i) = At(s, j)
      PROVE  i = j
  <2>1. CASE i = Len(s) + 1 \/ j = Len(s) + 1
    BY <1>0, <1>6, <2>1 DEF At
  <2>2. CASE i # Len(s) + 1 /\ j # Len(s) + 1
    <3>1. i \in 1..Len(s) /\ j \in 1..Len(s)
      BY <1>0, <2>2
    <3> QED BY <1>0, <1>6, <3>1 DEF At, Distinct
  <2> QED BY <2>1, <2>2
<1>7. /\ mx \in [Ends -> Ends] /\ mx[At(s, k - 1)] = At(s, k + 1)
      /\ \A e \in Ends : e # At(s, k - 1) /\ e # At(s, k) => mx[e] = nx[e]
  <2>1. k \in 0..Len(s) /\ k - 1 \in 0..Len(s) /\ k - 1 # k /\ k - 1 \in Int /\ k + 1 \in Int
    BY <1>0
  <2>2. At(s, k - 1) # l
    BY <1>2, <1>5, <2>1
  <2>3. At(s, k - 1) \in Ends /\ At(s, k + 1) \in Ends /\ NULL \in Ends /\ l \in Ends
    BY <1>0, <1>4, <2>1 DEF Ends
  <2> QED BY <1>0, <1>2, <1>3, <2>2, <2>3
<1>8. /\ qv \in [Listeners -> Ends]
      /\ \A m \in Listeners : m # At(s, k) =>
            qv[m] = IF m = At(s, k + 1) THEN At(s, k - 1) ELSE pv[m]
  <2>1. NULL \in Ends /\ pv[l] \in Ends
    BY <1>0 DEF Ends
  <2> QED BY <1>0, <1>2, <1>3, <2>1
<1> HIDE DEF t, mx, qv
<1>9. /\ \A i \in 0..(k - 1) : At(t, i) = At(s, i)
      /\ \A i \in k..Len(s) : At(t, i) = At(s, i + 1)
  BY <1>0, <1>1 DEF At
<1>10. Distinct(t)
  <2> SUFFICES ASSUME NEW i \in 1..Len(t), NEW j \in 1..Len(t), t[i] = t[j] PROVE i = j
    BY DEF Distinct
  <2> DEFINE I == IF i < k THEN i ELSE i + 1
             J == IF j < k THEN j ELSE j + 1
  <2>1. I \in 1..Len(s) /\ J \in 1..Len(s) /\ t[i] = s[I] /\ t[j] = s[J]
    BY <1>0, <1>1
  <2>2. I = J
    BY <1>0, <2>1 DEF Distinct
  <2> QED BY <1>0, <1>1, <2>2
<1>11. ASSUME NEW i \in 0..Len(t) PROVE mx[At(t, i)] = At(t, i + 1)
  <2>0. Len(t) = Len(s) - 1
    BY <1>1
  <2>1. CASE i < k - 1
    <3>1. At(t, i) = At(s, i) /\ At(t, i + 1) = At(s, i + 1) /\ i \in 0..Len(s) /\ k - 1 \in 0..Len(s)
      BY <1>0, <1>9, <2>0, <2>1
    <3>2. At(s, i) # At(s, k - 1) /\ At(s, i) # At(s, k) /\ nx[At(s, i)] = At(s, i + 1)
      BY <1>0, <1>5, <2>1, <3>1 DEF Chain
    <3> QED BY <1>4, <1>7, <3>1, <3>2
  <2>2. CASE i = k - 1
    <3>1. At(t, i) = At(s, k - 1) /\ At(t, i + 1) = At(s, k + 1)
      BY <1>0, <1>9, <2>0, <2>2
    <3> QED BY <1>7, <3>1
  <2>3. CASE i >= k
    <3>1. /\ At(t, i) = At(s, i + 1) /\ At(t, i + 1) = At(s, i + 2)
          /\ i + 1 \in 0..Len(s) /\ k - 1 \in 0..Len(s) /\ (i + 1) + 1 = i + 2
      BY <1>0, <1>9, <2>0, <2>3
    <3>2. At(s, i + 1) # At(s, k - 1) /\ At(s, i + 1) # At(s, k)
      BY <1>0, <1>5, <2>3, <3>1
    <3>3. nx[At(s, i + 1)] = At(s, (i + 1) + 1)
      BY <3>1 DEF Chain
    <3> QED BY <1>4, <1>7, <3>1, <3>2, <3>3
  <2> QED BY <1>0, <2>1, <2>2, <2>3
<1>12. ASSUME NEW i \in 1..Len(t) PROVE qv[At(t, i)] = At(t, i - 1)
  <2>0. Len(t) = Len(s) - 1
    BY <1>1
  <2>1. CASE i < k
    <3>1. /\ At(t, i) = At(s, i) /\ At(t, i - 1) = At(s, i - 1) /\ i \in 1..Len(s)
          /\ i \in 1..(Len(s) + 1) /\ k + 1 \in 1..(Len(s) + 1) /\ At(s, i) = s[i]
      BY <1>0, <1>9, <2>0, <2>1 DEF At
    <3>2. At(s, i) # At(s, k + 1) /\ At(s, i) # At(s, k)
      BY <1>0, <1>5, <1>6, <2>1, <3>1
    <3>3. pv[At(s, i)] = At(s, i - 1)
      BY <3>1 DEF Chain
    <3> QED BY <1>0, <1>8, <3>1, <3>2, <3>3
  <2>2. CASE i = k
    <3>1. /\ At(t, i) = At(s, k + 1) /\ At(t, i - 1) = At(s, k - 1)
          /\ k + 1 \in 1..Len(s) /\ At(s, k + 1) = s[k + 1]
      BY <1>0, <1>9, <2>0, <2>2 DEF At
    <3>2. At(s, k + 1) # At(s, k)
      BY <1>0, <1>5, <3>1
    <3> QED BY <1>0, <1>8, <3>1, <3>2
  <2>3. CASE i > k
    <3>1. /\ At(t, i) = At(s, i + 1) /\ At(t, i - 1) = At(s, i) /\ i + 1 \in 1..Len(s)
          /\ i + 1 \in 1..(Len(s) + 1) /\ k + 1 \in 1..(Len(s) + 1) /\ At(s, i + 1) = s[i + 1]
          /\ (i + 1) - 1 = i
      <4>1. /\ i \in k..Len(s) /\ i - 1 \in k..Len(s) /\ (i - 1) + 1 = i /\ (i + 1) - 1 = i
            /\ i + 1 \in 1..Len(s) /\ i + 1 \in 1..(Len(s) + 1) /\ k + 1 \in 1..(Len(s) + 1)
        BY <1>0, <2>0, <2>3
      <4>2. At(t, i) = At(s, i + 1) /\ At(t, i - 1) = At(s, (i - 1) + 1)
        BY <1>9, <4>1
      <4> QED BY <4>1, <4>2 DEF At
    <3>2. At(s, i + 1) # At(s, k + 1) /\ At(s, i + 1) # At(s, k)
      BY <1>0, <1>5, <1>6, <2>3, <3>1
    <3>3. pv[At(s, i + 1)] = At(s, (i + 1) - 1)
      BY <3>1 DEF Chain
    <3> QED BY <1>0, <1>8, <3>1, <3>2, <3>3
  <2> QED BY <1>0, <2>1, <2>2, <2>3
<1> QED BY <1>1, <1>7, <1>8, <1>10, <1>11, <1>12 DEF Chain, t, mx, qv

\* fire() is at place p of the list: the listeners after it are those that are
\* still to hear the event.
FiringAt(p, ord, c, d) ==
    /\ Len(d) = Len(c) + (Len(ord) - p)
    /\ \A i \in 1..Len(c) : d[i] = c[i]
    /\ \A i \in (p + 1)..Len(ord) : d[Len(c) + (i - p)] = ord[i]
    /\ \A i \in (p + 1)..Len(ord), j \in 1..Len(c) : c[j] # ord[i]

\* The list, whatever has been destroyed.
ListInv ==
    /\ Chain(next, prev, order)
    /\ alive = {order[i] : i \in 1..Len(order)}

\* The walk, as long as no callback has destroyed its own listener.
WalkInv ==
    /\ called \in Seq(Listeners) /\ due \in Seq(Listeners)
    /\ firing \in BOOLEAN
    /\ firing => \E p \in 1..Len(order) : walk = order[p] /\ FiringAt(p, order, called, due)
    /\ ~firing => called = due

EmitterInv == ListInv /\ (self = "alive" => WalkInv)

\* A listener is created.
LEMMA ListenStep == ASSUME EmitterInv, NEW l \in Listeners, Listen(l) PROVE EmitterInv'
<1>0. /\ order \in Seq(Listeners) /\ Len(order) \in Nat
      /\ Chain(next, prev, order)
  BY DEF EmitterInv, ListInv, Chain
<1>1. /\ next' = [next EXCEPT ![l] = next[NULL], ![NULL] = l]
      /\ prev' = [k \in Listeners |-> IF k = l THEN NULL ELSE IF k = next[NULL] THEN l ELSE prev[k]]
      /\ alive' = alive \cup {l} /\ order' = <<l>> \o order
      /\ l \notin alive /\ UNCHANGED <<walk, firing, self, due, called>>
  BY DEF Listen, Link, head
<1>2. \A i \in 1..Len(order) : order[i] # l
  BY <1>1 DEF EmitterInv, ListInv
<1>3. Chain(next', prev', order')
  BY <1>0, <1>1, <1>2, LinkKeepsChain
<1>4. /\ order' \in Seq(Listeners) /\ Len(order') = Len(order) + 1 /\ order'[1] = l
      /\ \A i \in 2..Len(order) + 1 : order'[i] = order[i - 1]
  BY <1>0, <1>1, PushFront
<1>5. alive' = {order'[i] : i \in 1..Len(order')}
  <2>1. \A i \in 1..Len(order') : i = 1 \/ (i \in 2..Len(order) + 1 /\ i - 1 \in 1..Len(order))
    BY <1>0, <1>4
  <2>2. ASSUME NEW i \in 1..Len(order)
        PROVE  i + 1 \in 1..Len(order') /\ order'[i + 1] = order[i]
    <3>1. i + 1 \in 2..Len(order) + 1 /\ (i + 1) - 1 = i /\ i + 1 \in 1..Len(order')
      BY <1>0, <1>4
    <3> QED BY <1>4, <3>1
  <2>3. 1 \in 1..Len(order')
    BY <1>0, <1>4
  <2>4. alive = {order[i] : i \in 1..Len(order)}
    BY DEF EmitterInv, ListInv
  <2>5. ASSUME NEW x \in alive' PROVE x \in {order'[i] : i \in 1..Len(order')}
    BY <1>1, <1>4, <2>2, <2>3, <2>4
  <2>6. ASSUME NEW i \in 1..Len(order') PROVE order'[i] \in alive'
    BY <1>1, <1>4, <2>1, <2>4
  <2> QED BY <2>5, <2>6
<1>6. ASSUME WalkInv, firing
      PROVE  \E p \in 1..Len(order') : walk = order'[p] /\ FiringAt(p, order', called, due)
  <2>0. Len(called) \in Nat /\ Len(due) \in Nat
    BY <1>6 DEF WalkInv
  <2>1. PICK p \in 1..Len(order) : walk = order[p] /\ FiringAt(p, order, called, due)
    BY <1>6 DEF WalkInv
  <2>2. p + 1 \in 1..Len(order') /\ order'[p + 1] = order[p]
    <3>1. p + 1 \in 2..Len(order) + 1 /\ (p + 1) - 1 = p /\ p + 1 \in 1..Len(order')
      BY <1>0, <1>4
    <3> QED BY <1>4, <3>1
  <2>3. Len(due) = Len(called) + (Len(order') - (p + 1))
    BY <1>0, <1>4, <2>0, <2>1 DEF FiringAt
  <2>4. ASSUME NEW i \in ((p + 1) + 1)..Len(order')
        PROVE  /\ due[Len(called) + (i - (p + 1))] = order'[i]
               /\ \A j \in 1..Len(called) : called[j] # order'[i]
    <3>1. /\ i - 1 \in (p + 1)..Len(order) /\ i \in 2..Len(order) + 1
          /\ (i - 1) - p = i - (p + 1)
      BY <1>0, <1>4, <2>0
    <3>2. order'[i] = order[i - 1] /\ due[Len(called) + ((i - 1) - p)] = order[i - 1]
      BY <1>4, <2>1, <3>1 DEF FiringAt
    <3> QED BY <2>1, <3>1, <3>2 DEF FiringAt
  <2>5. \A i \in 1..Len(called) : due[i] = called[i]
    BY <2>1 DEF FiringAt
  <2>6. FiringAt(p + 1, order', called, due)
    BY <2>3, <2>4, <2>5 DEF FiringAt
  <2> QED BY <2>1, <2>2, <2>6
<1>7. ASSUME WalkInv PROVE WalkInv'
  BY <1>1, <1>6, <1>7 DEF WalkInv
<1> QED BY <1>1, <1>3, <1>5, <1>7 DEF EmitterInv, ListInv

\* A listener is destroyed.
LEMMA DestroyStep ==
    ASSUME EmitterInv, NEW l \in Listeners, Destroy(l)
    PROVE  EmitterInv'
<1>0. /\ order \in Seq(Listeners) /\ Len(order) \in Nat
      /\ Chain(next, prev, order) /\ Distinct(order)
      /\ alive = {order[i] : i \in 1..Len(order)}
  BY DEF EmitterInv, ListInv, Chain
<1>1. /\ next' = [next EXCEPT ![prev[l]] = next[l], ![l] = NULL]
      /\ prev' = [k \in Listeners |-> IF k = l THEN NULL
                                      ELSE IF k = next[l] THEN prev[l] ELSE prev[k]]
      /\ alive' = alive \ {l} /\ order' = Dropped(order, l)
      /\ l \in alive /\ UNCHANGED <<walk, firing, called>>
      /\ self' = IF firing /\ l = walk /\ self = "alive" THEN "destroyed" ELSE self
      /\ due' = IF l \in ToSet(called) THEN due ELSE Dropped(due, l)
  BY DEF Destroy, Unlink
<1>2. PICK k \in 1..Len(order) : order[k] = l
  BY <1>0, <1>1
<1>3. /\ \A i \in 1..Len(order) : order[i] = l => i = k
      /\ order' = RemoveAt(order, k)
  <2>1. \A i \in 1..Len(order) : order[i] = l => i = k
    BY <1>0, <1>2 DEF Distinct
  <2> QED BY <1>1, <1>2, <2>1, DroppedFacts, Zenon
<1>4. Chain(next', prev', order')
  <2>1. Chain(next, prev, order) /\ k \in 1..Len(order) /\ l = order[k]
    BY <1>0, <1>2
  <2>2. Chain([next EXCEPT ![prev[l]] = next[l], ![l] = NULL],
              [m \in Listeners |-> IF m = l THEN NULL
                                   ELSE IF m = next[l] THEN prev[l] ELSE prev[m]],
              RemoveAt(order, k))
    BY <2>1, UnlinkKeepsChain
  <2> QED BY <1>1, <1>3, <2>2, Zenon
<1>5. /\ order' \in Seq(Listeners) /\ Len(order') = Len(order) - 1
      /\ \A i \in 1..(k - 1) : order'[i] = order[i]
      /\ \A i \in k..(Len(order) - 1) : order'[i] = order[i + 1]
  <2>1. order \in Seq(Listeners) /\ k \in 1..Len(order)
    BY <1>0
  <2>2. order' = RemoveAt(order, k)
    BY <1>3
  <2>3. /\ RemoveAt(order, k) \in Seq(Listeners) /\ Len(RemoveAt(order, k)) = Len(order) - 1
        /\ \A i \in 1..(k - 1) : RemoveAt(order, k)[i] = order[i]
        /\ \A i \in k..(Len(order) - 1) : RemoveAt(order, k)[i] = order[i + 1]
    BY <2>1, RemoveAtFacts, Zenon
  <2> QED BY <2>2, <2>3, Zenon
<1>6. alive' = {order'[i] : i \in 1..Len(order')}
  <2>1. ASSUME NEW i \in 1..Len(order')
        PROVE  \E j \in 1..Len(order) : j # k /\ order'[i] = order[j]
    <3>1. CASE i < k
      <4>1. i \in 1..(k - 1) /\ i \in 1..Len(order)
        BY <1>0, <1>5, <3>1
      <4> QED BY <1>5, <3>1, <4>1
    <3>2. CASE ~(i < k)
      <4>1. i \in k..(Len(order) - 1) /\ i + 1 \in 1..Len(order) /\ i + 1 # k
        BY <1>0, <1>5, <3>2
      <4> QED BY <1>5, <4>1
    <3> QED BY <3>1, <3>2
  <2>2. ASSUME NEW j \in 1..Len(order), j # k
        PROVE  \E i \in 1..Len(order') : order'[i] = order[j]
    <3>1. CASE j < k
      <4>1. j \in 1..(k - 1) /\ j \in 1..Len(order')
        BY <1>0, <1>5, <3>1
      <4> QED BY <1>5, <4>1
    <3>2. CASE j > k
      <4>1. j - 1 \in k..(Len(order) - 1) /\ j - 1 \in 1..Len(order') /\ (j - 1) + 1 = j
        BY <1>0, <1>5, <3>2
      <4>2. order'[j - 1] = order[(j - 1) + 1]
        BY <1>5, <4>1
      <4> QED BY <4>1, <4>2
    <3> QED BY <1>0, <2>2, <3>1, <3>2
  <2>3. \A x : x \in alive' <=> \E j \in 1..Len(order) : j # k /\ x = order[j]
    BY <1>0, <1>1, <1>2, <1>3
  <2>4. \A x \in alive' : x \in {order'[i] : i \in 1..Len(order')}
    <3> SUFFICES ASSUME NEW x \in alive' PROVE \E i \in 1..Len(order') : x = order'[i]
      OBVIOUS
    <3>1. PICK j \in 1..Len(order) : j # k /\ x = order[j]
      BY <2>3
    <3>2. PICK i \in 1..Len(order') : order'[i] = order[j]
      BY <2>2, <3>1
    <3> QED BY <3>1, <3>2
  <2>5. \A i \in 1..Len(order') : order'[i] \in alive'
    BY <2>1, <2>3, Zenon
  <2> QED BY <2>4, <2>5, Zenon
<1>7. ListInv'
  BY <1>4, <1>6 DEF ListInv
<1> SUFFICES ASSUME self' = "alive" PROVE WalkInv'
  BY <1>7 DEF EmitterInv
<1>8. /\ WalkInv /\ (firing => l # walk) /\ Len(called) \in Nat /\ Len(due) \in Nat
      /\ called \in Seq(Listeners) /\ due \in Seq(Listeners)
  BY <1>1 DEF EmitterInv, WalkInv
<1>9. ToSet(called) = {called[j] : j \in 1..Len(called)}
  BY <1>8 DEF ToSet
<1>10. CASE ~firing
  <2>1. called = due
    BY <1>8, <1>10 DEF WalkInv
  <2>2. due' = due
    <3>1. CASE l \in ToSet(called)
      BY <1>1, <3>1
    <3>2. CASE l \notin ToSet(called)
      <4>1. \A i \in 1..Len(due) : due[i] # l
        BY <1>9, <2>1, <3>2
      <4>2. Dropped(due, l) = due
        BY <4>1, DroppedFacts
      <4> QED BY <1>1, <3>2, <4>2
    <3> QED BY <3>1, <3>2
  <2> QED BY <1>1, <1>8, <1>10, <2>1, <2>2 DEF WalkInv
<1>11. CASE firing
  <2>1. PICK p \in 1..Len(order) : walk = order[p] /\ FiringAt(p, order, called, due)
    BY <1>8, <1>11 DEF WalkInv
  <2>2. p # k
    BY <1>2, <1>8, <1>11, <2>1
  <2>3. CASE k < p
    <3>1. p - 1 \in 1..Len(order') /\ order'[p - 1] = order[p]
      <4>1. p - 1 \in k..(Len(order) - 1) /\ (p - 1) + 1 = p /\ p - 1 \in 1..Len(order')
        BY <1>0, <1>8, <1>5, <2>3
      <4> QED BY <1>5, <4>1
    <3>2. due' = due
      <4>1. CASE l \in ToSet(called)
        BY <1>1, <4>1
      <4>2. CASE l \notin ToSet(called)
        <5>1. ASSUME NEW i \in 1..Len(due) PROVE due[i] # l
          <6>1. CASE i <= Len(called)
            <7>1. i \in 1..Len(called)
              BY <1>0, <1>8, <6>1
            <7> QED BY <2>1, <1>9, <4>2, <7>1 DEF FiringAt
          <6>2. CASE i > Len(called)
            <7> DEFINE m == p + (i - Len(called))
            <7>1. /\ m \in (p + 1)..Len(order) /\ m \in 1..Len(order)
                  /\ Len(called) + (m - p) = i /\ m # k
              BY <1>0, <1>8, <2>1, <2>3, <6>2 DEF FiringAt
            <7> HIDE DEF m
            <7>2. due[Len(called) + (m - p)] = order[m]
              BY <2>1, <7>1 DEF FiringAt
            <7> QED BY <1>3, <7>1, <7>2
          <6> QED BY <1>0, <1>8, <6>1, <6>2
        <5>2. Dropped(due, l) = due
          BY <5>1, DroppedFacts
        <5> QED BY <1>1, <4>2, <5>2
      <4> QED BY <4>1, <4>2
    <3>3. Len(due) = Len(called) + (Len(order') - (p - 1))
      BY <1>0, <1>8, <1>5, <2>1 DEF FiringAt
    <3>4. ASSUME NEW i \in ((p - 1) + 1)..Len(order')
          PROVE  /\ due[Len(called) + (i - (p - 1))] = order'[i]
                 /\ \A j \in 1..Len(called) : called[j] # order'[i]
      <4>1. /\ i + 1 \in (p + 1)..Len(order) /\ i \in k..(Len(order) - 1)
            /\ (i + 1) - p = i - (p - 1)
        BY <1>0, <1>8, <1>5, <2>3
      <4>2. order'[i] = order[i + 1] /\ due[Len(called) + ((i + 1) - p)] = order[i + 1]
        BY <1>5, <2>1, <4>1 DEF FiringAt
      <4> QED BY <2>1, <4>1, <4>2 DEF FiringAt
    <3>5. \A i \in 1..Len(called) : due[i] = called[i]
      BY <2>1 DEF FiringAt
    <3>6. FiringAt(p - 1, order', called, due)
      BY <3>3, <3>4, <3>5 DEF FiringAt
    <3> QED BY <1>0, <1>8, <1>1, <1>4, <1>6, <2>1, <3>1, <3>2, <3>6 DEF WalkInv
  <2>4. CASE p < k
    <3> DEFINE n == Len(called) + (k - p)
    <3>1. n \in 1..Len(due) /\ k \in (p + 1)..Len(order) /\ due[n] = l
      <4>1. n \in 1..Len(due) /\ k \in (p + 1)..Len(order)
        BY <1>0, <1>8, <2>1, <2>4 DEF FiringAt
      <4> QED BY <1>2, <2>1, <4>1 DEF FiringAt
    <3>2. \A j \in 1..Len(called) : called[j] # l
      BY <1>2, <2>1, <3>1 DEF FiringAt
    <3>3. ASSUME NEW i \in 1..Len(due), due[i] = l PROVE i = n
      <4>1. CASE i <= Len(called)
        <5>1. i \in 1..Len(called)
          BY <1>0, <1>8, <4>1
        <5> QED BY <2>1, <3>2, <3>3, <5>1 DEF FiringAt
      <4>2. CASE i > Len(called)
        <5> DEFINE m == p + (i - Len(called))
        <5>0. Len(due) = Len(called) + (Len(order) - p) /\ i \in Nat /\ i <= Len(due)
          BY <1>0, <1>8, <2>1, <3>3 DEF FiringAt
        <5>1. /\ m \in (p + 1)..Len(order) /\ m \in 1..Len(order)
              /\ Len(called) + (m - p) = i
          BY <1>0, <1>8, <4>2, <5>0
        <5> HIDE DEF m
        <5>2. due[Len(called) + (m - p)] = order[m]
          BY <2>1, <5>1 DEF FiringAt
        <5>3. m = k
          BY <1>3, <3>3, <5>1, <5>2
        <5> QED BY <5>1, <5>3
      <4> QED BY <1>0, <1>8, <4>1, <4>2
    <3>4. n \in Nat /\ n > Len(called) /\ n - Len(called) = k - p
      BY <1>0, <1>8, <2>4
    <3> HIDE DEF n
    <3>5. due' = RemoveAt(due, n)
      <4>1. l \notin ToSet(called)
        BY <1>9, <3>2
      <4>2. Dropped(due, l) = RemoveAt(due, n)
        BY <3>1, <3>3, DroppedFacts, Zenon
      <4> QED BY <1>1, <4>1, <4>2
    <3>6. /\ due' \in Seq(Listeners) /\ Len(due') = Len(due) - 1
          /\ \A i \in 1..(n - 1) : due'[i] = due[i]
          /\ \A i \in n..(Len(due) - 1) : due'[i] = due[i + 1]
      BY <1>0, <1>8, <3>1, <3>5, RemoveAtFacts
    <3>7. p \in 1..Len(order') /\ order'[p] = order[p]
      <4>1. p \in 1..(k - 1) /\ p \in 1..Len(order')
        BY <1>0, <1>8, <1>5, <2>4
      <4> QED BY <1>5, <4>1
    <3>8. Len(due') = Len(called) + (Len(order') - p)
      BY <1>0, <1>8, <1>5, <2>1, <3>6 DEF FiringAt
    <3>9. \A i \in 1..Len(called) : due'[i] = called[i]
      BY <1>0, <1>8, <2>1, <3>4, <3>6 DEF FiringAt
    <3>10. ASSUME NEW i \in (p + 1)..Len(order')
           PROVE  /\ due'[Len(called) + (i - p)] = order'[i]
                  /\ \A j \in 1..Len(called) : called[j] # order'[i]
      <4>0. Len(order') = Len(order) - 1
        BY <1>5
      <4>1. CASE i < k
        <5>1. /\ i \in (p + 1)..Len(order) /\ i \in 1..(k - 1)
              /\ Len(called) + (i - p) \in 1..(n - 1)
          BY <1>0, <1>8, <3>4, <4>0, <4>1
        <5>2. order'[i] = order[i] /\ due'[Len(called) + (i - p)] = due[Len(called) + (i - p)]
          BY <1>5, <3>6, <5>1
        <5> QED BY <2>1, <5>1, <5>2 DEF FiringAt
      <4>2. CASE i >= k
        <5>1. /\ i + 1 \in (p + 1)..Len(order) /\ i \in k..(Len(order) - 1)
              /\ Len(called) + (i - p) \in n..(Len(due) - 1)
              /\ (Len(called) + (i - p)) + 1 = Len(called) + ((i + 1) - p)
          BY <1>0, <1>8, <2>1, <3>4, <4>0, <4>2 DEF FiringAt
        <5>2. /\ order'[i] = order[i + 1]
              /\ due'[Len(called) + (i - p)] = due[(Len(called) + (i - p)) + 1]
          BY <1>5, <3>6, <5>1
        <5> QED BY <2>1, <5>1, <5>2 DEF FiringAt
      <4> QED BY <1>0, <1>8, <4>0, <4>1, <4>2
    <3>11. FiringAt(p, order', called, due')
      BY <3>8, <3>9, <3>10 DEF FiringAt
    <3>12. \E q \in 1..Len(order') : walk' = order'[q] /\ FiringAt(q, order', called', due')
      BY <1>1, <2>1, <3>7, <3>11
    <3> QED BY <1>1, <1>8, <1>11, <3>6, <3>12 DEF WalkInv
  <2> QED BY <1>0, <2>2, <2>3, <2>4
<1> QED BY <1>10, <1>11

\* fire() calls the first listener, if there is one.
LEMMA FireStep == ASSUME EmitterInv, Fire PROVE EmitterInv'
<1>0. /\ order \in Seq(Listeners) /\ Len(order) \in Nat
      /\ Chain(next, prev, order) /\ alive = {order[i] : i \in 1..Len(order)}
      /\ NULL \notin Listeners /\ \A i \in 1..Len(order) : order[i] \in Listeners
  BY NullAssumption DEF EmitterInv, ListInv, Chain
<1>1. /\ firing' = (head # NULL) /\ walk' = head /\ due' = order
      /\ called' = IF head = NULL THEN << >> ELSE <<head>>
      /\ UNCHANGED <<next, prev, alive, order, self>>
  BY DEF Fire
<1> SUFFICES WalkInv'
  BY <1>1 DEF EmitterInv, ListInv
<1>2. head = At(order, 1)
  <2>1. At(order, 0) = NULL /\ 0 \in 0..Len(order) /\ 0 + 1 = 1
    BY <1>0 DEF At
  <2> QED BY <1>0, <2>1 DEF Chain, head
<1>3. CASE Len(order) = 0
  <2>1. head = NULL /\ order = << >>
    BY <1>0, <1>2, <1>3 DEF At
  <2>2. firing' = FALSE /\ called' = << >> /\ due' = << >>
    BY <1>1, <2>1
  <2> QED BY <1>0, <1>1, <2>2 DEF WalkInv
<1>4. CASE Len(order) > 0
  <2>1. 1 \in 1..Len(order) /\ head = order[1] /\ head # NULL /\ head \in Listeners
    BY <1>0, <1>2, <1>4 DEF At
  <2>2. firing' = TRUE /\ called' = <<head>> /\ due' = order
    BY <1>1, <2>1
  <2>3. /\ called' \in Seq(Listeners) /\ Len(called') = 1 /\ called'[1] = order[1]
    BY <2>1, <2>2
  <2>4. FiringAt(1, order, called', due')
    <3>1. \A i \in 1..Len(called') : i = 1
      BY <2>3
    <3>2. ASSUME NEW i \in 2..Len(order) PROVE order[i] # order[1] /\ 1 + (i - 1) = i
      BY <1>0, <2>1 DEF Chain, Distinct
    <3> QED BY <1>0, <2>2, <2>3, <3>1, <3>2 DEF FiringAt
  <2> QED BY <1>0, <1>1, <2>1, <2>2, <2>3, <2>4 DEF WalkInv
<1> QED BY <1>0, <1>3, <1>4

\* The places of a sequence with a new last element.
LEMMA AppendPlaces ==
    ASSUME NEW S, NEW s \in Seq(S), NEW x \in S
    PROVE  /\ Append(s, x) \in Seq(S) /\ Len(Append(s, x)) = Len(s) + 1
           /\ Append(s, x)[Len(s) + 1] = x
           /\ \A i \in 1..Len(s) : Append(s, x)[i] = s[i]
OBVIOUS

\* Two sequences with the same elements at the same places.
LEMMA SameSequence ==
    ASSUME NEW S, NEW s \in Seq(S), NEW t \in Seq(S), Len(s) = Len(t),
           \A i \in 1..Len(s) : s[i] = t[i]
    PROVE  s = t
OBVIOUS

\* The callback returns and the loop follows the pointer of its listener.
LEMMA CallNextStep == ASSUME EmitterInv, self = "alive", CallNext PROVE EmitterInv'
<1>0. /\ order \in Seq(Listeners) /\ Len(order) \in Nat /\ called \in Seq(Listeners)
      /\ due \in Seq(Listeners) /\ Len(called) \in Nat /\ Len(due) \in Nat
      /\ Chain(next, prev, order) /\ alive = {order[i] : i \in 1..Len(order)} /\ Distinct(order)
      /\ NULL \notin Listeners /\ \A i \in 1..Len(order) : order[i] \in Listeners
  BY NullAssumption DEF EmitterInv, ListInv, WalkInv, Chain
<1>1. /\ firing' = (next[walk] # NULL) /\ walk' = next[walk]
      /\ called' = IF next[walk] = NULL THEN called ELSE Append(called, next[walk])
      /\ UNCHANGED <<next, prev, alive, order, due>>
  BY DEF CallNext, GoTo
<1> SUFFICES WalkInv'
  BY <1>1 DEF EmitterInv, ListInv
<1>2. PICK p \in 1..Len(order) : walk = order[p] /\ FiringAt(p, order, called, due)
  BY DEF EmitterInv, WalkInv, CallNext
<1>3. next[walk] = At(order, p + 1)
  <2>1. At(order, p) = walk /\ p \in 0..Len(order)
    BY <1>0, <1>2 DEF At
  <2> QED BY <1>0, <2>1 DEF Chain
<1>4. CASE p = Len(order)
  <2>1. next[walk] = NULL
    BY <1>0, <1>3, <1>4 DEF At
  <2>2. called = due
    <3>1. Len(called) = Len(due) /\ \A i \in 1..Len(called) : called[i] = due[i]
      BY <1>0, <1>2, <1>4 DEF FiringAt
    <3> QED BY <1>0, <3>1, SameSequence
  <2>3. firing' = FALSE /\ called' = called
    BY <1>1, <2>1
  <2> QED BY <1>0, <1>1, <2>2, <2>3 DEF WalkInv
<1>5. CASE p < Len(order)
  <2>1. p + 1 \in 1..Len(order) /\ next[walk] = order[p + 1] /\ p + 1 \in (p + 1)..Len(order)
    BY <1>0, <1>3, <1>5 DEF At
  <2> DEFINE x == order[p + 1]
  <2>2. x \in Listeners /\ x # NULL
    BY <1>0, <2>1
  <2>3. firing' = TRUE /\ walk' = x /\ called' = Append(called, x)
    BY <1>1, <2>1, <2>2
  <2>4. /\ called' \in Seq(Listeners) /\ Len(called') = Len(called) + 1
        /\ called'[Len(called) + 1] = x
        /\ \A i \in 1..Len(called) : called'[i] = called[i]
    BY <1>0, <2>2, <2>3, AppendPlaces
  <2>5. due[Len(called) + 1] = x
    <3>1. (p + 1) - p = 1
      BY <1>0
    <3>2. due[Len(called) + ((p + 1) - p)] = order[p + 1]
      BY <1>2, <2>1 DEF FiringAt
    <3> QED BY <3>1, <3>2
  <2>6. \A i \in 1..Len(called') : i \in 1..Len(called) \/ i = Len(called) + 1
    BY <1>0, <2>4
  <2>7. Len(due) = Len(called') + (Len(order) - (p + 1))
    BY <1>0, <1>2, <2>4 DEF FiringAt
  <2>8. \A i \in 1..Len(called') : due[i] = called'[i]
    BY <1>2, <2>4, <2>5, <2>6 DEF FiringAt
  <2>9. ASSUME NEW i \in ((p + 1) + 1)..Len(order)
        PROVE  /\ due[Len(called') + (i - (p + 1))] = order[i]
               /\ \A j \in 1..Len(called') : called'[j] # order[i]
    <3>1. /\ i \in (p + 1)..Len(order) /\ i \in 1..Len(order) /\ i # p + 1
          /\ Len(called') + (i - (p + 1)) = Len(called) + (i - p)
      <4>1. Len(called') = Len(called) + 1
        BY <2>4
      <4>2. p \in Nat /\ i \in Nat /\ i >= p + 2 /\ i <= Len(order) /\ p >= 1
        BY <1>0
      <4> HIDE DEF x
      <4> QED BY <1>0, <4>1, <4>2
    <3>2. due[Len(called) + (i - p)] = order[i] /\ \A j \in 1..Len(called) : called[j] # order[i]
      BY <1>2, <3>1 DEF FiringAt
    <3>3. x # order[i]
      BY <1>0, <2>1, <3>1 DEF Distinct
    <3> QED BY <2>4, <2>6, <3>1, <3>2, <3>3
  <2>10. FiringAt(p + 1, order, called', due)
    BY <2>7, <2>8, <2>9 DEF FiringAt
  <2> HIDE DEF x
  <2>11. \E q \in 1..Len(order') : walk' = order'[q] /\ FiringAt(q, order', called', due')
    BY <1>1, <2>1, <2>3, <2>10 DEF x
  <2> QED BY <1>0, <1>1, <2>3, <2>4, <2>11 DEF WalkInv
<1> QED BY <1>0, <1>4, <1>5

\* A walk that reads a destroyed listener leaves the list alone.
LEMMA CallAstrayStep ==
    ASSUME EmitterInv, CallNext \/ CallAstray, self # "alive" \/ CallAstray
    PROVE  EmitterInv'
<1>1. self # "alive"
  <2> SUFFICES ASSUME self = "alive" PROVE FALSE
    OBVIOUS
  <2>1. WalkInv /\ firing /\ walk \notin alive
    BY DEF EmitterInv, CallAstray
  <2>2. \A i \in 1..Len(order) : order[i] \in alive
    BY DEF EmitterInv, ListInv
  <2> QED BY <2>1, <2>2 DEF WalkInv
<1>2. UNCHANGED <<next, prev, alive, order>> /\ self' = "read"
  BY <1>1 DEF CallNext, CallAstray, GoTo
<1> QED BY <1>2 DEF EmitterInv, ListInv

\* A callback has destroyed its own listener, and fire() is still to read it.
SelfInv == self = "destroyed" => firing

\* What the invariants are for.
LEMMA EmitterInvHeard == ASSUME EmitterInv, SelfInv PROVE HeardInOrder
<1>0. /\ order \in Seq(Listeners) /\ Len(order) \in Nat
      /\ Chain(next, prev, order) /\ alive = {order[i] : i \in 1..Len(order)}
  BY DEF EmitterInv, ListInv, Chain
<1>1. \A i \in 0..Len(order) : next[Nth(i)] = Nth(i + 1)
  BY <1>0 DEF Chain, Nth, At
<1>2. ToSet(order) = alive
  BY <1>0 DEF ToSet
<1>3. ASSUME WalkInv
      PROVE  IsPrefix(called, due) /\ (firing => walk \in alive) /\ (~firing => called = due)
  <2>0. /\ called \in Seq(Listeners) /\ due \in Seq(Listeners)
        /\ Len(called) \in Nat /\ Len(due) \in Nat
    BY <1>3 DEF WalkInv
  <2>1. (firing => walk \in alive) /\ (~firing => called = due)
    BY <1>0, <1>3 DEF WalkInv
  <2>2. Len(called) <= Len(due) /\ \A i \in 1..Len(called) : due[i] = called[i]
    <3>1. CASE firing
      <4>1. PICK p \in 1..Len(order) : FiringAt(p, order, called, due)
        BY <1>3, <3>1 DEF WalkInv
      <4> QED BY <1>0, <2>0, <4>1 DEF FiringAt
    <3> QED BY <2>0, <2>1, <3>1
  <2>3. SubSeq(called, 1, Len(called)) = SubSeq(due, 1, Len(called))
    BY <2>0, <2>2
  <2> QED BY <2>1, <2>2, <2>3 DEF IsPrefix
<1> QED BY <1>1, <1>2, <1>3 DEF HeardInOrder, EmitterInv, SelfInv

\* The list is intact and the walk is where it has to be, at every step.
LEMMA EmitterInvariant == Spec => []EmitterInv
<1>1. Init => EmitterInv
  <2> SUFFICES ASSUME EmitterInit PROVE EmitterInv
    BY DEF Init
  <2>1. order = << >> /\ called = << >> /\ due = << >> /\ firing = FALSE /\ alive = {}
    BY DEF EmitterInit
  <2>2. next \in [Ends -> Ends] /\ prev \in [Listeners -> Ends] /\ next[NULL] = NULL
    BY DEF EmitterInit, Ends
  <2>3. Chain(next, prev, << >>)
    BY <2>2 DEF Chain, Distinct, At
  <2>4. {order[i] : i \in 1..Len(order)} = {} /\ << >> \in Seq(Listeners)
    BY <2>1
  <2> QED BY <2>1, <2>3, <2>4 DEF EmitterInv, ListInv, WalkInv
<1>2. EmitterInv /\ [Next]_vars => EmitterInv'
  <2> SUFFICES ASSUME EmitterInv, [Next]_vars PROVE EmitterInv'
    OBVIOUS
  <2>1. CASE UNCHANGED emitterVars
    BY <2>1 DEF EmitterInv, ListInv, WalkInv, emitterVars, Chain, FiringAt, At, Distinct
  <2>2. CASE Subscribe
    BY <2>2, ListenStep, DestroyStep DEF Subscribe
  <2>3. CASE Warn
    BY <2>3, FireStep DEF Warn
  <2>4. CASE Callback
    BY <2>4, ListenStep, DestroyStep DEF Callback
  <2>5. CASE CallbackReturns
    BY <2>5, CallNextStep, CallAstrayStep DEF CallbackReturns
  <2>6. Subscribe \/ Warn \/ Callback \/ CallbackReturns \/ UNCHANGED emitterVars
    BY DEF Next, vars, CheckUrl, Param, UnknownParam, Finish
  <2> QED BY <2>1, <2>2, <2>3, <2>4, <2>5, <2>6
<1> QED BY <1>1, <1>2, PTL DEF Spec

\* fire() does not return from a walk over a listener that destroyed itself
\* without having read it.
LEMMA SelfInvariant == Spec => []SelfInv
<1>1. Init => SelfInv
  BY DEF Init, EmitterInit, SelfInv
<1>2. SelfInv /\ [Next]_vars => SelfInv'
  <2> SUFFICES ASSUME SelfInv, [Next]_vars PROVE SelfInv'
    OBVIOUS
  <2>1. CASE UNCHANGED emitterVars
    BY <2>1 DEF SelfInv, emitterVars
  <2>2. CASE Subscribe
    BY <2>2 DEF Subscribe, SelfInv, Listen, Destroy
  <2>3. CASE Warn
    BY <2>3 DEF Warn, SelfInv, Fire
  <2>4. CASE Callback
    BY <2>4 DEF Callback, SelfInv, Listen, Destroy
  <2>5. CASE CallbackReturns
    BY <2>5 DEF CallbackReturns, SelfInv, CallNext, CallAstray, GoTo
  <2>6. Subscribe \/ Warn \/ Callback \/ CallbackReturns \/ UNCHANGED emitterVars
    BY DEF Next, vars, CheckUrl, Param, UnknownParam, Finish
  <2> QED BY <2>1, <2>2, <2>3, <2>4, <2>5, <2>6
<1> QED BY <1>1, <1>2, PTL DEF Spec

(* For any number of listeners the pointers of event_emitter hold exactly  *)
(* those that exist; and until a callback destroys the listener that runs  *)
(* it, fire() follows only live pointers and calls, in order and once, the *)
(* listeners that were registered when the event was fired and not         *)
(* destroyed before their turn, whatever else the callbacks do.  Once one  *)
(* does destroy its own, fire() does not return without having read it.    *)
THEOREM ListenersHear == Spec => []HeardInOrder
BY EmitterInvariant, SelfInvariant, EmitterInvHeard, PTL

-----------------------------------------------------------------------------
(* The parameters.  What the model says of seen is said here of any        *)
(* sequence of parameters sn, so that it can be compared before and after. *)

Out == Int \cup Mixed \cup {Bad}
Reasons == {"unknown", "invalid", "range", "multiple"}
Entry == [slot : Slots \cup {"unknown"}, val : Values]

ForOf(sn, slot)    == {k \in 1..Len(sn) : sn[k].slot = slot}
ValueOf(e)         == Convert(e.slot, e.val).val
UsableOf(sn, slot) == {k \in ForOf(sn, slot) : ValueOf(sn[k]) # << >>}
LastAmong(sn, ks, val) ==
    IF ks = {} THEN val = << >>
    ELSE \E k \in ks : val = ValueOf(sn[k]) /\ \A j \in ks : j <= k
TagsOf(sn, k) == Cardinality({j \in 1..k : sn[j].slot = "tags"})
RepeatsOf(sn, k) ==
    ValueOf(sn[k]) # << >> /\ \E j \in UsableOf(sn, sn[k].slot) : j < k
WarningsOf(sn, k) ==
    IF sn[k].slot = "unknown" THEN {"unknown"}
    ELSE {r \in {"invalid", "range", "multiple"} :
            \/ r = "invalid" /\ ValueOf(sn[k]) = << >>
            \/ r = "range" /\ Moved(sn[k].slot, sn[k].val)
            \/ /\ r = "multiple" /\ RepeatsOf(sn, k)
               /\ sn[k].slot \notin Assigned \cup {"tags", "tls"}}

\* The warning r is among those of the list w.
In(r, w) == \E i \in 1..Len(w) : w[i] = r

\* The slots by name.
LEMMA SlotNames ==
    /\ Slots = {"appname", "journal", "zlib", "heartbeat", "connectTimeout", "tlsInsecure",
                "compressors", "tags", "tls", "wTimeout", "maxPoolSize"}
    /\ \A key \in Keys : Slot[key] \in Slots
<1>1. Keys = {"appname", "journal", "zlibCompressionLevel", "heartbeatFrequencyMS",
              "connectTimeoutMS", "tlsInsecure", "compressors", "readPreferenceTags", "tls",
              "ssl", "wTimeout", "wTimeoutMS", "maxPoolSize"}
  BY DEF Keys, Slot
<1>2. /\ Slot["appname"] = "appname" /\ Slot["journal"] = "journal"
      /\ Slot["zlibCompressionLevel"] = "zlib" /\ Slot["heartbeatFrequencyMS"] = "heartbeat"
      /\ Slot["connectTimeoutMS"] = "connectTimeout" /\ Slot["tlsInsecure"] = "tlsInsecure"
      /\ Slot["compressors"] = "compressors" /\ Slot["readPreferenceTags"] = "tags"
      /\ Slot["tls"] = "tls" /\ Slot["ssl"] = "tls" /\ Slot["wTimeout"] = "wTimeout"
      /\ Slot["wTimeoutMS"] = "wTimeout" /\ Slot["maxPoolSize"] = "maxPoolSize"
  BY DEF Slot
<1> QED BY <1>1, <1>2 DEF Slots

\* The warnings of two lists, and those of a list without its first.
LEMMA InConcat ==
    ASSUME NEW w \in Seq(Reasons), NEW u \in Seq(Reasons), NEW r
    PROVE  w \o u \in Seq(Reasons) /\ (In(r, w \o u) <=> In(r, w) \/ In(r, u))
<1> DEFINE x == w \o u
<1>1. /\ x \in Seq(Reasons) /\ Len(x) = Len(w) + Len(u) /\ Len(w) \in Nat /\ Len(u) \in Nat
      /\ \A i \in 1..Len(w) : x[i] = w[i]
      /\ \A i \in 1..Len(u) : x[Len(w) + i] = u[i]
  BY ConcatPlaces
<1> HIDE DEF x
<1>2. ASSUME In(r, x) PROVE In(r, w) \/ In(r, u)
  <2>1. PICK i \in 1..Len(x) : x[i] = r
    BY <1>2 DEF In
  <2>2. CASE i <= Len(w)
    <3>1. i \in 1..Len(w)
      BY <1>1, <2>2
    <3> QED BY <1>1, <2>1, <3>1 DEF In
  <2>3. CASE i > Len(w)
    <3> DEFINE j == i - Len(w)
    <3>1. j \in 1..Len(u) /\ Len(w) + j = i
      BY <1>1, <2>3
    <3> HIDE DEF j
    <3> QED BY <1>1, <2>1, <3>1 DEF In
  <2> QED BY <1>1, <2>2, <2>3
<1>3. ASSUME In(r, w) PROVE In(r, x)
  <2>1. PICK i \in 1..Len(w) : w[i] = r
    BY <1>3 DEF In
  <2>2. i \in 1..Len(x)
    BY <1>1
  <2> QED BY <1>1, <2>1, <2>2 DEF In
<1>4. ASSUME In(r, u) PROVE In(r, x)
  <2>1. PICK i \in 1..Len(u) : u[i] = r
    BY <1>4 DEF In
  <2>2. Len(w) + i \in 1..Len(x)
    BY <1>1
  <2> QED BY <1>1, <2>1, <2>2 DEF In
<1> QED BY <1>1, <1>2, <1>3, <1>4 DEF x

LEMMA InHeadTail ==
    ASSUME NEW w \in Seq(Reasons), w # << >>, NEW r
    PROVE  /\ Tail(w) \in Seq(Reasons) /\ Head(w) \in Reasons
           /\ In(r, w) <=> r = Head(w) \/ In(r, Tail(w))
<1>1. /\ Len(w) \in Nat /\ Len(w) >= 1 /\ Head(w) = w[1] /\ Head(w) \in Reasons
      /\ Tail(w) \in Seq(Reasons) /\ Len(Tail(w)) = Len(w) - 1
      /\ \A i \in 1..(Len(w) - 1) : Tail(w)[i] = w[i + 1]
  OBVIOUS
<1> DEFINE t == Tail(w)
<1> HIDE DEF t
<1>2. /\ Len(t) = Len(w) - 1 /\ \A i \in 1..(Len(w) - 1) : t[i] = w[i + 1]
  BY <1>1 DEF t
<1>3. ASSUME In(r, w) PROVE r = Head(w) \/ In(r, t)
  <2>1. PICK i \in 1..Len(w) : w[i] = r
    BY <1>3 DEF In
  <2>2. CASE i # 1
    <3>1. i - 1 \in 1..(Len(w) - 1) /\ (i - 1) + 1 = i /\ i - 1 \in 1..Len(t)
      BY <1>1, <1>2, <2>2
    <3>2. t[i - 1] = w[(i - 1) + 1]
      BY <1>2, <3>1
    <3> QED BY <2>1, <3>1, <3>2 DEF In
  <2> QED BY <1>1, <2>1, <2>2
<1>4. ASSUME r = Head(w) PROVE In(r, w)
  <2>1. 1 \in 1..Len(w)
    BY <1>1
  <2> QED BY <1>1, <1>4, <2>1 DEF In
<1>5. ASSUME In(r, t) PROVE In(r, w)
  <2>1. PICK i \in 1..Len(t) : t[i] = r
    BY <1>5 DEF In
  <2>2. i \in 1..(Len(w) - 1) /\ i + 1 \in 1..Len(w)
    BY <1>1, <1>2
  <2> QED BY <1>2, <2>1, <2>2 DEF In
<1> QED BY <1>1, <1>3, <1>4, <1>5 DEF t

\* The lists of no warning and of one.
LEMMA InFew ==
    /\ << >> \in Seq(Reasons) /\ \A r : ~In(r, << >>)
    /\ \A x \in Reasons : <<x>> \in Seq(Reasons) /\ \A r : In(r, <<x>>) <=> r = x
<1>1. << >> \in Seq(Reasons) /\ \A r : ~In(r, << >>)
  BY DEF In
<1>2. ASSUME NEW x \in Reasons, NEW r PROVE <<x>> \in Seq(Reasons) /\ (In(r, <<x>>) <=> r = x)
  <2>1. <<x>> \in Seq(Reasons) /\ Len(<<x>>) = 1 /\ <<x>>[1] = x
    OBVIOUS
  <2>2. \A i \in 1..1 : i = 1
    OBVIOUS
  <2>3. 1 \in 1..1
    OBVIOUS
  <2> QED BY <2>1, <2>2, <2>3 DEF In
<1> QED BY <1>1, <1>2

\* The value of a conversion c of the text v for a slot, and its warnings.
Converts(slot, v, c) ==
    /\ c = [val |-> c.val, warns |-> c.warns] /\ c.warns \in Seq(Reasons)
    /\ c.val = << >> \/ \E x \in Out : c.val = <<x>>
    /\ In("invalid", c.warns) <=> c.val = << >>
    /\ In("range", c.warns) <=> Moved(slot, v)
    /\ ~In("multiple", c.warns) /\ ~In("unknown", c.warns)

\* What clamp_and_warn() makes of the number x and the warnings w so far.
Clamped(x, w, min, max, d) ==
    LET y == Clamp(x, min, max)
    IN  /\ d = [val |-> <<y>>, warns |-> d.warns] /\ d.warns \in Seq(Reasons)
        /\ y \in min..max /\ (x \in min..max <=> y = x)
        /\ \A r : In(r, d.warns) <=> In(r, w) \/ (r = "range" /\ y # x)

\* It warns just when it moves the value.
LEMMA Clamps ==
    ASSUME NEW x \in Int, NEW w \in Seq(Reasons), NEW min \in Int, NEW max \in Int, min <= max
    PROVE  Clamped(x, w, min, max, clamp_and_warn([val |-> <<x>>, warns |-> w], min, max))
<1> DEFINE c == [val |-> <<x>>, warns |-> w]
           d == clamp_and_warn(c, min, max)
           o == Outside(x, min, max)
<1>1. c.val = <<x>> /\ c.val # << >> /\ c.val[1] = x /\ c.warns = w
  OBVIOUS
<1>2. d = [val |-> <<Clamp(x, min, max)>>, warns |-> w \o o]
  BY <1>1 DEF clamp_and_warn, Converted
<1>3. Clamp(x, min, max) \in min..max /\ (x \in min..max <=> Clamp(x, min, max) = x)
  BY DEF Clamp
<1>4. o = IF Clamp(x, min, max) # x THEN <<"range">> ELSE << >>
  BY DEF Clamp, Outside
<1>5. o \in Seq(Reasons) /\ \A r : In(r, o) <=> r = "range" /\ Clamp(x, min, max) # x
  <2>1. "range" \in Reasons
    BY DEF Reasons
  <2> QED BY <1>4, <2>1, InFew
<1> HIDE DEF o
<1>6. w \o o \in Seq(Reasons) /\ \A r : In(r, w \o o) <=> In(r, w) \/ In(r, o)
  BY <1>5, InConcat
<1>7. d.warns = w \o o
  BY <1>2
<1> HIDE DEF d
<1> QED BY <1>2, <1>3, <1>5, <1>6, <1>7 DEF Clamped, d, c

\* Every parameter's conversion.
LEMMA ConvertFacts ==
    ASSUME NEW slot \in Slots, NEW v \in Values
    PROVE  /\ Converts(slot, v, Convert(slot, v))
           /\ slot = "tags" => Convert(slot, v).val = <<v>>
<1> DEFINE c == Convert(slot, v)
           numeric == {"maxPoolSize", "zlib", "heartbeat", "connectTimeout", "wTimeout"}
<1>0. v \in Out /\ "invalid" \in Reasons
  BY UriConstants DEF Values, Out, Reasons
<1>1. CASE slot \in {"appname", "compressors", "tags"}
  <2>1. c = [val |-> <<v>>, warns |-> << >>] /\ ~Moved(slot, v)
    BY <1>1 DEF Convert, Keep, Converted, Moved
  <2> QED BY <1>0, <2>1, InFew DEF Converts
<1>2. CASE slot \in {"journal", "tlsInsecure", "tls"}
  <2>1. c = try_parse_bool(v) /\ slot # "tags" /\ ~Moved(slot, v)
    BY <1>2 DEF Convert, Moved
  <2>2. CASE v = 1 \/ v = 0 \/ v = -1
    <3>1. PICK x \in Int : c = [val |-> <<x>>, warns |-> << >>]
      BY <2>1, <2>2 DEF try_parse_bool, Keep, Converted
    <3>2. x \in Out
      BY DEF Out
    <3> QED BY <2>1, <3>1, <3>2, InFew DEF Converts
  <2>3. CASE v # 1 /\ v # 0 /\ v # -1
    <3>1. c = [val |-> << >>, warns |-> <<"invalid">>]
      BY <2>1, <2>3 DEF try_parse_bool, Converted
    <3> QED BY <1>0, <2>1, <3>1, InFew DEF Converts
  <2> QED BY <2>2, <2>3
<1>3. CASE slot \in numeric /\ v = Bad
  <2>1. try_parse_int(v) = [val |-> << >>, warns |-> <<"invalid">>]
    BY <1>3 DEF try_parse_int, Converted
  <2>2. c = try_parse_int(v) /\ slot # "tags"
    BY <1>3, <2>1 DEF Convert, try_parse_duration_ms, clamp_and_warn
  <2>3. ~Moved(slot, v)
    BY <2>1, <2>2 DEF Moved
  <2> QED BY <1>0, <2>1, <2>2, <2>3, InFew DEF Converts
<1>4. CASE slot \in numeric /\ v # Bad
  <2> DEFINE x == from_chars(v)
             i == [val |-> <<x>>, warns |-> << >>]
             ms == clamp_and_warn(i, 0, MaxDuration)
  <2>1. x \in Int /\ try_parse_int(v) = i /\ slot # "tags"
    BY <1>4, UriConstants DEF from_chars, try_parse_int, Keep, Converted, Values
  <2>2. /\ 0 \in Int /\ MaxDuration \in Int /\ 0 <= MaxDuration /\ -1 \in Int /\ MaxLevel \in Int
        /\ -1 <= MaxLevel /\ MinHeartbeat \in Int /\ MinHeartbeat <= MaxDuration
        /\ 0 <= MinHeartbeat
    BY UriConstants DEF MaxDuration
  <2> HIDE DEF x
  <2>3. \A y \in Int : y \in Out
    BY DEF Out
  <2>4. Moved(slot, v) <=> c.val \notin {<< >>, <<x>>}
    BY <1>4 DEF Moved, x
  <2>5. ASSUME NEW y \in Int, NEW w \in Seq(Reasons), c = [val |-> <<y>>, warns |-> w],
               \A r : In(r, w) <=> r = "range" /\ y # x
        PROVE  Converts(slot, v, c)
    <3>1. c.val = <<y>> /\ c.warns = w /\ c.val # << >>
      BY <2>5
    <3>2. c.val = <<x>> <=> y = x
      BY <3>1
    <3>3. Moved(slot, v) <=> y # x
      BY <2>4, <3>1, <3>2
    <3> QED BY <2>3, <2>5, <3>1, <3>3 DEF Converts
  <2>6. CASE slot = "maxPoolSize"
    <3>1. c = i
      BY <2>1, <2>6 DEF Convert
    <3> QED BY <2>1, <2>5, <3>1, InFew
  <2>7. << >> \in Seq(Reasons) /\ \A r : ~In(r, << >>)
    BY InFew
  <2> DEFINE y == Clamp(x, 0, MaxDuration)
  <2>8. Clamped(x, << >>, 0, MaxDuration, ms)
    BY <2>1, <2>2, <2>7, Clamps, Zenon
  <2> HIDE DEF ms
  <2>9. /\ ms = [val |-> <<y>>, warns |-> ms.warns] /\ ms.warns \in Seq(Reasons)
        /\ y \in 0..MaxDuration /\ (x \in 0..MaxDuration <=> y = x)
        /\ \A r : In(r, ms.warns) <=> r = "range" /\ y # x
    BY <2>7, <2>8 DEF Clamped
  <2> HIDE DEF y
  <2>10. y \in Int
    BY <2>2, <2>9
  <2>11. CASE slot \in {"connectTimeout", "wTimeout"}
    <3>1. c = ms
      BY <2>1, <2>11 DEF Convert, try_parse_duration_ms, ms
    <3>2. c = [val |-> <<y>>, warns |-> ms.warns]
      BY <2>9, <3>1
    <3> QED BY <2>1, <2>5, <2>9, <2>10, <3>2, Zenon
  <2>12. CASE slot = "heartbeat"
    <3> DEFINE m == [val |-> <<y>>, warns |-> ms.warns]
               hb == clamp_and_warn(m, MinHeartbeat, MaxDuration)
               z == Clamp(y, MinHeartbeat, MaxDuration)
    <3>1. c = hb
      BY <2>1, <2>9, <2>12 DEF Convert, try_parse_duration_ms, ms
    <3>2. Clamped(y, ms.warns, MinHeartbeat, MaxDuration, hb)
      BY <2>2, <2>9, <2>10, Clamps, Zenon
    <3> HIDE DEF hb
    <3>3. /\ hb = [val |-> <<z>>, warns |-> hb.warns] /\ hb.warns \in Seq(Reasons)
          /\ z \in MinHeartbeat..MaxDuration
          /\ \A r : In(r, hb.warns) <=> In(r, ms.warns) \/ (r = "range" /\ z # y)
      BY <3>2 DEF Clamped
    <3> HIDE DEF z
    <3>4. (y # x \/ z # y) <=> z # x
      BY <2>1, <2>2, <2>9, <2>10, <3>3
    <3>5. \A r : In(r, hb.warns) <=> r = "range" /\ z # x
      <4> SUFFICES ASSUME NEW r PROVE In(r, hb.warns) <=> r = "range" /\ z # x
        OBVIOUS
      <4>1. In(r, hb.warns) <=> In(r, ms.warns) \/ (r = "range" /\ z # y)
        BY <3>3
      <4>2. In(r, ms.warns) <=> r = "range" /\ y # x
        BY <2>9
      <4> QED BY <3>4, <4>1, <4>2
    <3>6. z \in Int
      BY <2>2, <3>3
    <3>7. c = [val |-> <<z>>, warns |-> hb.warns]
      BY <3>1, <3>3
    <3> QED BY <2>1, <2>5, <3>3, <3>5, <3>6, <3>7, Zenon
  <2>13. CASE slot = "zlib"
    <3> DEFINE z == Clamp(x, -1, MaxLevel)
               zc == clamp_and_warn(i, -1, MaxLevel)
    <3>1. c = zc
      BY <2>1, <2>13 DEF Convert
    <3>2. Clamped(x, << >>, -1, MaxLevel, zc)
      BY <2>1, <2>2, <2>7, Clamps, Zenon
    <3> HIDE DEF zc
    <3>3. /\ zc = [val |-> <<z>>, warns |-> zc.warns] /\ zc.warns \in Seq(Reasons)
          /\ z \in -1..MaxLevel
          /\ \A r : In(r, zc.warns) <=> r = "range" /\ z # x
      BY <2>7, <3>2 DEF Clamped
    <3> HIDE DEF z
    <3>4. z \in Int
      BY <2>2, <3>3
    <3>5. c = [val |-> <<z>>, warns |-> zc.warns]
      BY <3>1, <3>3
    <3> QED BY <2>1, <2>5, <3>3, <3>4, <3>5, Zenon
  <2> QED BY <1>4, <2>6, <2>11, <2>12, <2>13
<1> QED BY <1>1, <1>2, <1>3, <1>4, SlotNames

\* t is sn with the parameter e at its end.
Grown(sn, t, e) ==
    /\ sn \in Seq(Entry) /\ t \in Seq(Entry) /\ e \in Entry /\ Len(sn) \in Nat
    /\ Len(t) = Len(sn) + 1 /\ t[Len(sn) + 1] = e
    /\ \A i \in 1..Len(sn) : t[i] = sn[i]

\* A parameter is handled.
LEMMA Grows ==
    ASSUME NEW sn \in Seq(Entry), NEW e \in Entry
    PROVE  Grown(sn, Append(sn, e), e)
BY AppendPlaces DEF Grown

\* The parameters of a slot after one more.
LEMMA ForGrows ==
    ASSUME NEW sn, NEW t, NEW e, Grown(sn, t, e), NEW s
    PROVE  /\ e.slot = s => ForOf(t, s) = ForOf(sn, s) \cup {Len(sn) + 1}
           /\ e.slot # s => ForOf(t, s) = ForOf(sn, s)
<1>0. Len(sn) \in Nat /\ 1..Len(t) = 1..Len(sn) \cup {Len(sn) + 1}
  BY DEF Grown
<1>1. \A k : k \in ForOf(t, s) <=> k \in ForOf(sn, s) \/ (k = Len(sn) + 1 /\ e.slot = s)
  <2>1. \A k \in 1..Len(sn) : k \in ForOf(t, s) <=> k \in ForOf(sn, s)
    BY <1>0 DEF ForOf, Grown
  <2>2. Len(sn) + 1 \in ForOf(t, s) <=> e.slot = s
    BY <1>0 DEF ForOf, Grown
  <2>3. \A k \in ForOf(sn, s) : k \in 1..Len(sn)
    BY DEF ForOf
  <2>4. \A k \in ForOf(t, s) : k \in 1..Len(sn) \/ k = Len(sn) + 1
    BY <1>0 DEF ForOf
  <2>5. Len(sn) + 1 \notin 1..Len(sn)
    BY <1>0
  <2> QED BY <2>1, <2>2, <2>3, <2>4, <2>5
<1>2. ASSUME e.slot = s PROVE ForOf(t, s) = ForOf(sn, s) \cup {Len(sn) + 1}
  BY <1>1, <1>2
<1>3. ASSUME e.slot # s PROVE ForOf(t, s) = ForOf(sn, s)
  BY <1>1, <1>3
<1> QED BY <1>2, <1>3

\* The usable parameters of a slot after one more.
LEMMA UsableGrows ==
    ASSUME NEW sn, NEW t, NEW e, Grown(sn, t, e), NEW s
    PROVE  /\ e.slot = s /\ ValueOf(e) # << >> =>
                UsableOf(t, s) = UsableOf(sn, s) \cup {Len(sn) + 1}
           /\ e.slot # s \/ ValueOf(e) = << >> => UsableOf(t, s) = UsableOf(sn, s)
<1>0. /\ Len(sn) \in Nat /\ t[Len(sn) + 1] = e /\ Len(sn) + 1 \notin 1..Len(sn)
      /\ \A k \in ForOf(sn, s) : t[k] = sn[k] /\ k # Len(sn) + 1
  BY DEF Grown, ForOf
<1>1. CASE e.slot = s
  <2>1. ForOf(t, s) = ForOf(sn, s) \cup {Len(sn) + 1}
    BY <1>1, ForGrows
  <2>2. \A k : k \in UsableOf(t, s) <=>
                  k \in UsableOf(sn, s) \/ (k = Len(sn) + 1 /\ ValueOf(e) # << >>)
    BY <1>0, <2>1 DEF UsableOf
  <2>3. ASSUME ValueOf(e) # << >> PROVE UsableOf(t, s) = UsableOf(sn, s) \cup {Len(sn) + 1}
    BY <2>2, <2>3
  <2>4. ASSUME ValueOf(e) = << >> PROVE UsableOf(t, s) = UsableOf(sn, s)
    BY <2>2, <2>4
  <2> QED BY <1>1, <2>3, <2>4
<1>2. CASE e.slot # s
  <2>1. ForOf(t, s) = ForOf(sn, s)
    BY <1>2, ForGrows
  <2>2. UsableOf(t, s) = UsableOf(sn, s)
    BY <1>0, <2>1 DEF UsableOf
  <2> QED BY <1>2, <2>2
<1> QED BY <1>1, <1>2

\* The value that wins, when the new parameter is among those that count.
LEMMA LastGrows ==
    ASSUME NEW sn, NEW t, NEW e, Grown(sn, t, e), NEW ks \in SUBSET (1..Len(sn))
    PROVE  LastAmong(t, ks \cup {Len(sn) + 1}, ValueOf(e))
<1>1. /\ Len(sn) \in Nat /\ t[Len(sn) + 1] = e
  BY DEF Grown
<1>2. \A j \in ks \cup {Len(sn) + 1} : j <= Len(sn) + 1
  BY <1>1
<1> QED BY <1>1, <1>2 DEF LastAmong

\* And when it is not.
LEMMA LastStays ==
    ASSUME NEW sn, NEW t, NEW e, Grown(sn, t, e), NEW ks \in SUBSET (1..Len(sn)),
           NEW val, LastAmong(sn, ks, val)
    PROVE  LastAmong(t, ks, val)
<1>1. \A k \in ks : t[k] = sn[k]
  BY DEF Grown
<1>2. CASE ks = {}
  BY <1>2 DEF LastAmong
<1>3. CASE ks # {}
  <2>1. PICK k \in ks : val = ValueOf(sn[k]) /\ \A j \in ks : j <= k
    BY <1>3 DEF LastAmong
  <2>2. val = ValueOf(t[k])
    BY <1>1, <2>1
  <2> QED BY <1>3, <2>1, <2>2 DEF LastAmong
<1> QED BY <1>2, <1>3

\* The number of tags among the first parameters.
LEMMA TagsGrow ==
    ASSUME NEW sn, NEW t, NEW e, Grown(sn, t, e)
    PROVE  /\ \A k \in 0..Len(sn) : TagsOf(t, k) = TagsOf(sn, k)
           /\ e.slot # "tags" => TagsOf(t, Len(t)) = TagsOf(sn, Len(sn))
           /\ e.slot = "tags" => TagsOf(t, Len(t)) = TagsOf(sn, Len(sn)) + 1
<1>0. Len(sn) \in Nat /\ Len(t) = Len(sn) + 1 /\ Len(sn) \in 0..Len(sn) /\ t[Len(sn) + 1] = e
  BY DEF Grown
<1>1. ASSUME NEW k \in 0..Len(sn) PROVE TagsOf(t, k) = TagsOf(sn, k)
  <2>1. \A j \in 1..k : t[j] = sn[j]
    BY <1>0 DEF Grown
  <2>2. {j \in 1..k : t[j].slot = "tags"} = {j \in 1..k : sn[j].slot = "tags"}
    BY <2>1
  <2> QED BY <2>2 DEF TagsOf
<1> DEFINE A == {j \in 1..Len(sn) : t[j].slot = "tags"}
           B == {j \in 1..Len(t) : t[j].slot = "tags"}
<1>2. IsFiniteSet(A) /\ Len(sn) + 1 \notin A
  <2>1. IsFiniteSet(1..Len(sn)) /\ A \in SUBSET (1..Len(sn))
    BY <1>0, FS_Interval
  <2>2. IsFiniteSet(A)
    BY <2>1, FS_Subset
  <2> QED BY <1>0, <2>2
<1>3. 1..Len(t) = 1..Len(sn) \cup {Len(sn) + 1}
  BY <1>0
<1>4. TagsOf(sn, Len(sn)) = Cardinality(A) /\ TagsOf(t, Len(t)) = Cardinality(B)
  BY <1>0, <1>1 DEF TagsOf
<1>5. CASE e.slot = "tags"
  <2>1. B = A \cup {Len(sn) + 1}
    BY <1>0, <1>3, <1>5
  <2> HIDE DEF A, B
  <2> QED BY <1>1, <1>2, <1>4, <1>5, <2>1, FS_AddElement
<1>6. CASE e.slot # "tags"
  <2>1. B = A
    BY <1>0, <1>3, <1>6
  <2> QED BY <1>1, <1>4, <1>6, <2>1
<1> QED BY <1>5, <1>6

\* A tag has a place among the tags.
LEMMA TagPlace ==
    ASSUME NEW sn \in Seq(Entry), NEW k \in ForOf(sn, "tags")
    PROVE  TagsOf(sn, k) \in 1..TagsOf(sn, Len(sn))
<1> DEFINE A == {j \in 1..k : sn[j].slot = "tags"}
           B == {j \in 1..Len(sn) : sn[j].slot = "tags"}
<1>0. Len(sn) \in Nat /\ k \in 1..Len(sn) /\ k \in 1..k /\ k \in A /\ A \in SUBSET B
  BY DEF ForOf
<1>1. IsFiniteSet(B)
  <2>1. IsFiniteSet(1..Len(sn)) /\ B \in SUBSET (1..Len(sn))
    BY <1>0, FS_Interval
  <2> QED BY <2>1, FS_Subset
<1> HIDE DEF A, B
<1>2. IsFiniteSet(A) /\ Cardinality(A) <= Cardinality(B)
  BY <1>0, <1>1, FS_Subset
<1>3. Cardinality(A) \in Nat /\ Cardinality(B) \in Nat /\ Cardinality(A) # 0
  BY <1>0, <1>1, <1>2, FS_CardinalityType, FS_EmptySet
<1> QED BY <1>2, <1>3 DEF TagsOf, A, B

\* What there is to say of the parameters before stays as it was.
LEMMA WarningsStay ==
    ASSUME NEW sn, NEW t, NEW e, Grown(sn, t, e), NEW k \in 1..Len(sn)
    PROVE  WarningsOf(t, k) = WarningsOf(sn, k)
<1> DEFINE s == sn[k].slot
<1>1. \/ UsableOf(t, s) = UsableOf(sn, s)
      \/ UsableOf(t, s) = UsableOf(sn, s) \cup {Len(sn) + 1}
  BY UsableGrows
<1>2. ~(Len(sn) + 1 < k) /\ t[k] = sn[k]
  BY DEF Grown
<1>3. (\E j \in UsableOf(t, s) : j < k) <=> (\E j \in UsableOf(sn, s) : j < k)
  BY <1>1, <1>2
<1>4. RepeatsOf(t, k) <=> RepeatsOf(sn, k)
  BY <1>2, <1>3 DEF RepeatsOf
<1> QED BY <1>2, <1>4 DEF WarningsOf

-----------------------------------------------------------------------------
(* The invariant of the parse.                                             *)

UriType ==
    /\ seen \in Seq(Entry) /\ params \in [Slots -> Seq(Out)]
    /\ pending \in Seq(Reasons) /\ warned \subseteq Nat \X Reasons

\* The value of a slot is what the last parameter that counts gave.
Winners(sn, ps) ==
    /\ \A s \in Slots \ (Assigned \cup {"tags"}) : LastAmong(sn, UsableOf(sn, s), ps[s])
    /\ \A s \in Assigned : LastAmong(sn, ForOf(sn, s), ps[s])

\* The tags add up in order.
TagsInOrder(sn, tags) ==
    /\ Len(tags) = TagsOf(sn, Len(sn))
    /\ \A k \in ForOf(sn, "tags") : tags[TagsOf(sn, k)] = sn[k].val

\* Nothing that the parse has let pass contradicts itself on TLS.
Agree(sn) == \A j, k \in UsableOf(sn, "tls") : ValueOf(sn[j]) = ValueOf(sn[k])

\* Each warning has been fired or is about to be, and no other.
WarnInv ==
    /\ \A k \in Nat, r \in Reasons :
          <<k, r>> \in warned \/ (k = Len(seen) /\ In(r, pending)) <=>
              k \in 1..Len(seen) /\ r \in WarningsOf(seen, k)
    /\ pc \in {"start", "accepted"} => pending = << >>

UriInv ==
    /\ UriType
    /\ Winners(seen, params)
    /\ TagsInOrder(seen, params["tags"])
    /\ pc \in {"start", "params", "accepted"} => Agree(seen)
    /\ WarnInv

\* Of no parameters.
LEMMA ParseStarts == ASSUME Init PROVE UriInv
<1>1. /\ seen = << >> /\ params = [s \in Slots |-> << >>] /\ pending = << >> /\ warned = {}
  BY DEF Init
<1>2. /\ 1..Len(seen) = {} /\ 1..0 = {} /\ Len(seen) = 0 /\ << >> \in Seq(Entry)
      /\ << >> \in Seq(Out) /\ "tags" \in Slots /\ Assigned \subseteq Slots
  BY <1>1, SlotNames DEF Assigned
<1>3. UriType
  BY <1>1, <1>2, InFew DEF UriType
<1>4. \A s : ForOf(seen, s) = {} /\ UsableOf(seen, s) = {}
  BY <1>2 DEF ForOf, UsableOf
<1>5. \A s \in Slots : params[s] = << >>
  BY <1>1
<1>6. Winners(seen, params)
  BY <1>2, <1>4, <1>5 DEF Winners, LastAmong
<1>7. TagsInOrder(seen, params["tags"])
  <2>1. {j \in 1..0 : seen[j].slot = "tags"} = {}
    BY <1>2
  <2>2. TagsOf(seen, Len(seen)) = 0
    BY <1>2, <2>1, FS_EmptySet DEF TagsOf
  <2> QED BY <1>2, <1>4, <1>5, <2>2 DEF TagsInOrder
<1>8. Agree(seen)
  BY <1>4 DEF Agree
<1>9. WarnInv
  BY <1>1, <1>2, InFew DEF WarnInv
<1> QED BY <1>3, <1>6, <1>7, <1>8, <1>9 DEF UriInv

\* What handle_param() makes of the slot of its key, and the warnings it fires.
Handled(slot, c, old, new, warns) ==
    /\ slot \in Assigned => new = c.val
    /\ slot = "tags" => new = Append(old, c.val[1])
    /\ slot \notin Assigned \cup {"tags"} =>
          /\ c.val = << >> => new = old
          /\ c.val # << >> => new = c.val
    /\ warns \in Seq(Reasons) /\ new \in Seq(Out)
    /\ \A r \in Reasons \ {"multiple"} : In(r, warns) <=> In(r, c.warns)
    /\ In("multiple", warns) <=>
          slot \notin Assigned \cup {"tags", "tls"} /\ old # << >> /\ c.val # << >>

\* Handle() does what the invariant needs of it.
LEMMA HandleFacts ==
    ASSUME UriType, NEW slot \in Slots, NEW v \in Values
    PROVE  LET c == Convert(slot, v)
               h == Handle(slot, c)
           IN  Handled(slot, c, params[slot], h.val, h.warns)
<1> DEFINE c == Convert(slot, v)
           h == Handle(slot, c)
           old == params[slot]
<1>1. /\ c.warns \in Seq(Reasons) /\ (c.val = << >> \/ \E x \in Out : c.val = <<x>>)
      /\ ~In("multiple", c.warns)
      /\ slot = "tags" => \A r \in Reasons : ~In(r, c.warns)
  <2>1. Converts(slot, v, c) /\ (slot = "tags" => c.val = <<v>>)
    BY ConvertFacts
  <2>2. slot = "tags" => ~Moved(slot, v)
    BY DEF Moved
  <2> HIDE DEF c
  <2>3. slot = "tags" => c.val # << >>
    BY <2>1
  <2> QED BY <2>1, <2>2, <2>3 DEF Converts, Reasons
<1>2. c.val \in Seq(Out) /\ old \in Seq(Out) /\ v \in Out
  <2>1. old \in Seq(Out) /\ v \in Out
    BY UriConstants DEF UriType, Out, Values
  <2> HIDE DEF c
  <2>2. CASE c.val = << >>
    BY <2>1, <2>2
  <2>3. CASE c.val # << >>
    <3>1. PICK x \in Out : c.val = <<x>>
      BY <1>1, <2>3
    <3>2. <<x>> \in Seq(Out)
      OBVIOUS
    <3> QED BY <2>1, <3>1, <3>2
  <2> QED BY <2>2, <2>3
<1>3. slot = "tags" => c.val[1] = v
  <2>1. slot = "tags" => c.val = <<v>>
    BY ConvertFacts, Zenon
  <2> HIDE DEF c
  <2> QED BY <2>1
<1>4. Assigned \cap {"tags", "tls"} = {}
  BY DEF Assigned
<1> HIDE DEF c, old
<1>5. CASE slot \in Assigned
  <2>1. h = [val |-> c.val, warns |-> c.warns] /\ slot # "tags"
    BY <1>4, <1>5 DEF Handle, Converted, assign
  <2> QED BY <1>1, <1>2, <1>5, <2>1 DEF Handled, c, old
<1>6. CASE slot = "tags"
  <2>1. h = [val |-> Append(old, c.val[1]), warns |-> << >>] /\ slot \notin Assigned
    BY <1>4, <1>6 DEF Handle, Converted, old
  <2>2. Append(old, c.val[1]) \in Seq(Out)
    BY <1>2, <1>3, <1>6
  <2>3. h.val = Append(old, c.val[1]) /\ h.warns = << >>
    BY <2>1
  <2>4. << >> \in Seq(Reasons) /\ \A r : ~In(r, << >>)
    BY InFew
  <2> HIDE DEF h
  <2>5. \A r \in Reasons : ~In(r, c.warns)
    BY <1>1, <1>6
  <2>6. Handled(slot, c, old, h.val, h.warns)
    BY <1>6, <2>1, <2>2, <2>3, <2>4, <2>5 DEF Handled
  <2> QED BY <2>6 DEF c, old, h
<1>7. CASE slot = "tls"
  <2>1. h = [val |-> opt_assign(old, c), warns |-> c.warns] /\ slot # "tags"
    BY <1>4, <1>7 DEF Handle, Converted, old
  <2>2. /\ c.val = << >> => opt_assign(old, c) = old
        /\ c.val # << >> => opt_assign(old, c) = c.val
    BY DEF opt_assign
  <2> QED BY <1>1, <1>2, <1>4, <1>7, <2>1, <2>2 DEF Handled, c, old
<1>8. CASE slot \notin Assigned \cup {"tags", "tls"}
  <2> DEFINE a == AssignWarns(old, c)
  <2>1. h = [val |-> opt_assign(old, c), warns |-> c.warns \o a] /\ slot # "tags"
    BY <1>8 DEF Handle, Converted, old
  <2>2. /\ c.val = << >> => opt_assign(old, c) = old
        /\ c.val # << >> => opt_assign(old, c) = c.val
        /\ a = IF old # << >> /\ c.val # << >> THEN <<"multiple">> ELSE << >>
    BY DEF opt_assign, AssignWarns
  <2>3. /\ a \in Seq(Reasons)
        /\ \A r : In(r, a) <=> r = "multiple" /\ old # << >> /\ c.val # << >>
    <3>1. "multiple" \in Reasons
      BY DEF Reasons
    <3> QED BY <2>2, <3>1, InFew
  <2> HIDE DEF a
  <2>4. c.warns \o a \in Seq(Reasons) /\ \A r : In(r, c.warns \o a) <=> In(r, c.warns) \/ In(r, a)
    BY <1>1, <2>3, InConcat
  <2>5. h.val = opt_assign(old, c) /\ h.warns = c.warns \o a
    BY <2>1
  <2>6. h.val \in Seq(Out)
    BY <1>2, <2>2, <2>5
  <2> HIDE DEF h
  <2>7. /\ \A r \in Reasons \ {"multiple"} : In(r, h.warns) <=> In(r, c.warns)
        /\ In("multiple", h.warns) <=> old # << >> /\ c.val # << >>
        /\ h.warns \in Seq(Reasons)
    BY <1>1, <2>3, <2>4, <2>5
  <2>8. Handled(slot, c, old, h.val, h.warns)
    BY <1>8, <2>2, <2>5, <2>6, <2>7 DEF Handled
  <2> QED BY <2>8 DEF c, old, h
<1> QED BY <1>5, <1>6, <1>7, <1>8

\* The slot of the key gets its value; the other slots keep theirs.
Stored(ps, qs, slot, new) ==
    qs[slot] = new /\ \A s \in Slots : s # slot => qs[s] = ps[s]

\* The parameter e takes its place in the slots.
LEMMA WinnersStep ==
    ASSUME NEW sn, NEW t, NEW e, NEW ps, NEW qs, NEW warns, NEW c,
           Grown(sn, t, e), Winners(sn, ps), e.slot \in Slots, c.val = ValueOf(e),
           Stored(ps, qs, e.slot, qs[e.slot]), Handled(e.slot, c, ps[e.slot], qs[e.slot], warns)
    PROVE  Winners(t, qs)
<1>0. \A s : ForOf(sn, s) \in SUBSET (1..Len(sn)) /\ UsableOf(sn, s) \in SUBSET (1..Len(sn))
  BY DEF ForOf, UsableOf
<1>1. ASSUME NEW s \in Slots \ (Assigned \cup {"tags"})
      PROVE  LastAmong(t, UsableOf(t, s), qs[s])
  <2>1. LastAmong(sn, UsableOf(sn, s), ps[s])
    BY DEF Winners
  <2>2. CASE e.slot = s /\ ValueOf(e) # << >>
    <3>1. qs[s] = ValueOf(e)
      BY <2>2 DEF Handled
    <3>2. UsableOf(t, s) = UsableOf(sn, s) \cup {Len(sn) + 1}
      BY <2>2, UsableGrows
    <3>3. LastAmong(t, UsableOf(sn, s) \cup {Len(sn) + 1}, ValueOf(e))
      BY <1>0, LastGrows
    <3> QED BY <3>1, <3>2, <3>3
  <2>3. CASE e.slot # s \/ ValueOf(e) = << >>
    <3>1. qs[s] = ps[s]
      BY <2>3 DEF Handled, Stored
    <3>2. UsableOf(t, s) = UsableOf(sn, s)
      BY <2>3, UsableGrows
    <3>3. LastAmong(t, UsableOf(sn, s), ps[s])
      BY <1>0, <2>1, LastStays
    <3> QED BY <3>1, <3>2, <3>3
  <2> QED BY <2>2, <2>3
<1>2. ASSUME NEW s \in Assigned
      PROVE  LastAmong(t, ForOf(t, s), qs[s])
  <2>0. s \in Slots
    BY SlotNames DEF Assigned
  <2>1. LastAmong(sn, ForOf(sn, s), ps[s])
    BY DEF Winners
  <2>2. CASE e.slot = s
    <3>1. qs[s] = ValueOf(e)
      BY <2>2 DEF Handled
    <3>2. ForOf(t, s) = ForOf(sn, s) \cup {Len(sn) + 1}
      BY <2>2, ForGrows
    <3>3. LastAmong(t, ForOf(sn, s) \cup {Len(sn) + 1}, ValueOf(e))
      BY <1>0, LastGrows
    <3> QED BY <3>1, <3>2, <3>3
  <2>3. CASE e.slot # s
    <3>1. qs[s] = ps[s]
      BY <2>0, <2>3 DEF Stored
    <3>2. ForOf(t, s) = ForOf(sn, s)
      BY <2>3, ForGrows
    <3>3. LastAmong(t, ForOf(sn, s), ps[s])
      BY <1>0, <2>1, LastStays
    <3> QED BY <3>1, <3>2, <3>3
  <2> QED BY <2>2, <2>3
<1> QED BY <1>1, <1>2 DEF Winners

\* A parameter that is not a tag leaves the tags alone.
LEMMA TagsStay ==
    ASSUME NEW sn, NEW t, NEW e, NEW tags, Grown(sn, t, e), TagsInOrder(sn, tags),
           e.slot # "tags"
    PROVE  TagsInOrder(t, tags)
<1>1. Len(tags) = TagsOf(t, Len(t))
  BY TagsGrow DEF TagsInOrder
<1>2. ForOf(t, "tags") = ForOf(sn, "tags")
  BY ForGrows
<1>3. ASSUME NEW k \in ForOf(sn, "tags") PROVE tags[TagsOf(t, k)] = t[k].val
  <2>1. k \in 1..Len(sn) /\ k \in 0..Len(sn) /\ t[k] = sn[k]
    BY DEF ForOf, Grown
  <2>2. TagsOf(t, k) = TagsOf(sn, k)
    BY <2>1, TagsGrow
  <2> QED BY <2>1, <2>2 DEF TagsInOrder
<1> QED BY <1>1, <1>2, <1>3 DEF TagsInOrder

\* A tag goes to the end of the tags.
LEMMA TagsStep ==
    ASSUME NEW sn, NEW t, NEW e, NEW tags \in Seq(Out), Grown(sn, t, e), TagsInOrder(sn, tags),
           e.slot = "tags", e.val \in Out
    PROVE  TagsInOrder(t, Append(tags, e.val))
<1> DEFINE more == Append(tags, e.val)
<1>0. /\ Len(tags) \in Nat /\ Len(more) = Len(tags) + 1 /\ more[Len(tags) + 1] = e.val
      /\ \A i \in 1..Len(tags) : more[i] = tags[i]
  BY AppendPlaces
<1> HIDE DEF more
<1>1. Len(tags) = TagsOf(sn, Len(sn)) /\ Len(more) = TagsOf(t, Len(t))
  BY <1>0, TagsGrow DEF TagsInOrder
<1>2. ForOf(t, "tags") = ForOf(sn, "tags") \cup {Len(sn) + 1}
  BY ForGrows
<1>3. ASSUME NEW k \in ForOf(sn, "tags") PROVE more[TagsOf(t, k)] = t[k].val
  <2>1. k \in 1..Len(sn) /\ k \in 0..Len(sn) /\ t[k] = sn[k] /\ sn \in Seq(Entry)
    BY DEF ForOf, Grown
  <2>2. TagsOf(t, k) = TagsOf(sn, k) /\ TagsOf(sn, k) \in 1..Len(tags)
    BY <1>1, <2>1, TagsGrow, TagPlace
  <2> QED BY <1>0, <2>1, <2>2 DEF TagsInOrder
<1>4. more[TagsOf(t, Len(sn) + 1)] = t[Len(sn) + 1].val
  BY <1>0, <1>1 DEF Grown
<1> QED BY <1>1, <1>2, <1>3, <1>4 DEF TagsInOrder, more

\* A value of tls or ssl that passes toggle_tls agrees with those before it.
LEMMA AgreeStep ==
    ASSUME NEW sn, NEW t, NEW e, NEW val, Grown(sn, t, e), Agree(sn),
           LastAmong(sn, UsableOf(sn, "tls"), val),
           e.slot = "tls" /\ ValueOf(e) # << >> /\ val # << >> => val = ValueOf(e)
    PROVE  Agree(t)
<1>0. /\ \A k \in UsableOf(sn, "tls") : t[k] = sn[k] /\ ValueOf(sn[k]) # << >>
      /\ t[Len(sn) + 1] = e
  BY DEF UsableOf, ForOf, Grown
<1>1. CASE e.slot = "tls" /\ ValueOf(e) # << >>
  <2>1. UsableOf(t, "tls") = UsableOf(sn, "tls") \cup {Len(sn) + 1}
    BY <1>1, UsableGrows
  <2>2. ASSUME NEW j \in UsableOf(sn, "tls") PROVE ValueOf(t[j]) = ValueOf(e)
    <3>1. PICK k \in UsableOf(sn, "tls") : val = ValueOf(sn[k])
      BY DEF LastAmong
    <3>2. val = ValueOf(e)
      BY <1>0, <1>1, <3>1
    <3> QED BY <1>0, <3>1, <3>2 DEF Agree
  <2> QED BY <1>0, <2>1, <2>2 DEF Agree
<1>2. CASE ~(e.slot = "tls" /\ ValueOf(e) # << >>)
  <2>1. UsableOf(t, "tls") = UsableOf(sn, "tls")
    BY <1>2, UsableGrows
  <2> QED BY <1>0, <2>1 DEF Agree
<1> QED BY <1>1, <1>2

\* The warnings of a parameter are those there is to say of it.
LEMMA WarnsExactly ==
    ASSUME NEW sn, NEW t, NEW e, NEW ps, NEW new, NEW warns, NEW c,
           Grown(sn, t, e), Winners(sn, ps), e.slot \in Slots, c = Convert(e.slot, e.val),
           Handled(e.slot, c, ps[e.slot], new, warns), NEW r \in Reasons
    PROVE  In(r, warns) <=> r \in WarningsOf(t, Len(sn) + 1)
<1> DEFINE s == e.slot
<1>0. /\ t[Len(sn) + 1] = e /\ Len(sn) \in Nat /\ s # "unknown" /\ c.val = ValueOf(e)
      /\ e.val \in Values
  BY SlotNames DEF Grown, ValueOf, Entry
<1>1. Converts(s, e.val, c)
  BY <1>0, ConvertFacts
<1>2. CASE r = "unknown"
  BY <1>0, <1>1, <1>2 DEF WarningsOf, Handled, Converts, Reasons
<1>3. CASE r = "invalid"
  BY <1>0, <1>1, <1>3 DEF WarningsOf, Handled, Converts, Reasons
<1>4. CASE r = "range"
  BY <1>0, <1>1, <1>4 DEF WarningsOf, Handled, Converts, Reasons
<1>5. CASE r = "multiple"
  <2>1. ASSUME s \notin Assigned \cup {"tags", "tls"}, c.val # << >>
        PROVE  ps[s] # << >> <=> \E j \in UsableOf(t, s) : j < Len(sn) + 1
    <3>1. UsableOf(t, s) = UsableOf(sn, s) \cup {Len(sn) + 1}
      BY <1>0, <2>1, UsableGrows
    <3>2. \A j \in UsableOf(sn, s) : j < Len(sn) + 1 /\ ValueOf(sn[j]) # << >>
      BY <1>0 DEF UsableOf, ForOf
    <3>3. (\E j \in UsableOf(t, s) : j < Len(sn) + 1) <=> UsableOf(sn, s) # {}
      BY <1>0, <3>1, <3>2
    <3>4. LastAmong(sn, UsableOf(sn, s), ps[s])
      BY <2>1 DEF Winners
    <3>5. ps[s] # << >> <=> UsableOf(sn, s) # {}
      BY <3>2, <3>4 DEF LastAmong
    <3> QED BY <3>3, <3>5
  <2>2. r \in WarningsOf(t, Len(sn) + 1) <=>
            /\ c.val # << >> /\ s \notin Assigned \cup {"tags", "tls"}
            /\ \E j \in UsableOf(t, s) : j < Len(sn) + 1
    BY <1>0, <1>5 DEF WarningsOf, RepeatsOf
  <2> QED BY <1>5, <2>1, <2>2 DEF Handled
<1> QED BY <1>2, <1>3, <1>4, <1>5 DEF Reasons

\* The warnings after one more parameter, when those before have been fired.
LEMMA WarningsGrow ==
    ASSUME NEW sn, NEW t, NEW e, NEW warns, NEW fired, Grown(sn, t, e),
           \A k \in Nat, r \in Reasons :
              <<k, r>> \in fired <=> k \in 1..Len(sn) /\ r \in WarningsOf(sn, k),
           \A r \in Reasons : In(r, warns) <=> r \in WarningsOf(t, Len(sn) + 1),
           NEW k \in Nat, NEW r \in Reasons
    PROVE  <<k, r>> \in fired \/ (k = Len(t) /\ In(r, warns)) <=>
               k \in 1..Len(t) /\ r \in WarningsOf(t, k)
<1>0. Len(sn) \in Nat /\ Len(t) = Len(sn) + 1
  BY DEF Grown
<1>1. CASE k \in 1..Len(sn)
  <2>1. WarningsOf(t, k) = WarningsOf(sn, k)
    BY <1>1, WarningsStay
  <2>2. k # Len(t) /\ k \in 1..Len(t)
    BY <1>0, <1>1
  <2> QED BY <1>1, <2>1, <2>2
<1>2. CASE k = Len(t)
  <2>1. k \notin 1..Len(sn) /\ k \in 1..Len(t) /\ k = Len(sn) + 1
    BY <1>0, <1>2
  <2> QED BY <1>2, <2>1
<1>3. CASE k \notin 1..Len(sn) /\ k # Len(t)
  <2>1. k \notin 1..Len(t)
    BY <1>0, <1>3
  <2> QED BY <1>3, <2>1
<1> QED BY <1>1, <1>2, <1>3

\* One parameter is handled.
LEMMA ParamStep ==
    ASSUME UriInv, NEW key \in Keys, NEW v \in Values, Param(key, v)
    PROVE  UriInv'
<1> DEFINE s0 == Slot[key]
           c == Convert(s0, v)
           h == Handle(s0, c)
           e == [slot |-> s0, val |-> v]
<1>0. /\ pc = "params" /\ pending = << >>
      /\ params' = [params EXCEPT ![s0] = h.val] /\ pending' = h.warns
      /\ pc' = IF Conflict(s0, c) THEN "einval" ELSE pc
      /\ seen' = Append(seen, e) /\ warned' = warned
  BY DEF Param, Ready
<1>1. s0 \in Slots /\ "tags" \in Slots /\ "tls" \in Slots /\ "tls" \notin Assigned
  BY SlotNames DEF Assigned
<1>2. e \in Entry /\ e.slot = s0 /\ e.val = v /\ ValueOf(e) = c.val /\ v \in Out
  BY <1>1, UriConstants DEF Entry, ValueOf, Out, Values
<1>3. Handled(s0, c, params[s0], h.val, h.warns)
  BY <1>1, HandleFacts DEF UriInv
<1>4. c = Convert(e.slot, e.val) /\ (s0 = "tags" => c.val = <<v>>)
  BY <1>1, <1>2, ConvertFacts
<1>5. Conflict(s0, c) <=> s0 = "tls" /\ c.val # << >> /\ params[s0] # << >> /\ params[s0] # c.val
  BY DEF Conflict
<1> HIDE DEF e, h, c, s0
<1>6. /\ Grown(seen, seen', e) /\ UriType /\ Winners(seen, params)
      /\ TagsInOrder(seen, params["tags"]) /\ Agree(seen) /\ WarnInv
  BY <1>0, <1>2, Grows DEF UriInv, UriType
<1>7. params'[s0] = h.val /\ \A s \in Slots : s # s0 => params'[s] = params[s]
  BY <1>0, <1>1, <1>6 DEF UriType
<1>8. UriType'
  <2>1. h.warns \in Seq(Reasons) /\ h.val \in Seq(Out)
    BY <1>3 DEF Handled
  <2>2. params' \in [Slots -> Seq(Out)]
    BY <1>0, <1>6, <2>1 DEF UriType
  <2> QED BY <1>0, <1>6, <2>1, <2>2 DEF UriType, Grown
<1>9. Winners(seen', params')
  <2>1. Stored(params, params', e.slot, params'[e.slot])
    BY <1>2, <1>7 DEF Stored
  <2>2. Handled(e.slot, c, params[e.slot], params'[e.slot], h.warns) /\ c.val = ValueOf(e)
        /\ e.slot \in Slots
    BY <1>1, <1>2, <1>3, <1>7
  <2> QED BY <1>6, <2>1, <2>2, WinnersStep
<1>10. TagsInOrder(seen', params'["tags"])
  <2>1. CASE s0 = "tags"
    <3>1. params'["tags"] = Append(params["tags"], e.val) /\ params["tags"] \in Seq(Out)
      BY <1>1, <1>2, <1>3, <1>4, <1>6, <1>7, <2>1 DEF Handled, UriType
    <3> QED BY <1>2, <1>6, <2>1, <3>1, TagsStep
  <2>2. CASE s0 # "tags"
    <3>1. params'["tags"] = params["tags"]
      BY <1>1, <1>7, <2>2
    <3> QED BY <1>2, <1>6, <2>2, <3>1, TagsStay
  <2> QED BY <2>1, <2>2
<1>11. pc' \in {"start", "params", "accepted"} => Agree(seen')
  <2> SUFFICES ASSUME pc' \in {"start", "params", "accepted"} PROVE Agree(seen')
    OBVIOUS
  <2>1. e.slot = "tls" /\ ValueOf(e) # << >> /\ params["tls"] # << >> =>
            params["tls"] = ValueOf(e)
    BY <1>0, <1>2, <1>5
  <2>2. LastAmong(seen, UsableOf(seen, "tls"), params["tls"])
    BY <1>1, <1>6 DEF Winners
  <2> QED BY <1>6, <2>1, <2>2, AgreeStep
<1>12. WarnInv'
  <2>1. \A r \in Reasons : In(r, h.warns) <=> r \in WarningsOf(seen', Len(seen) + 1)
    <3>1. e.slot \in Slots /\ c = Convert(e.slot, e.val)
          /\ Handled(e.slot, c, params[e.slot], h.val, h.warns)
      BY <1>1, <1>2, <1>3, <1>4
    <3> QED BY <1>6, <3>1, WarnsExactly
  <2>2. \A k \in Nat, r \in Reasons :
            <<k, r>> \in warned <=> k \in 1..Len(seen) /\ r \in WarningsOf(seen, k)
    BY <1>0, <1>6, InFew DEF WarnInv
  <2>3. \A k \in Nat, r \in Reasons :
            <<k, r>> \in warned \/ (k = Len(seen') /\ In(r, h.warns)) <=>
                k \in 1..Len(seen') /\ r \in WarningsOf(seen', k)
    <3> DEFINE w == h.warns
    <3>1. \A r \in Reasons : In(r, w) <=> r \in WarningsOf(seen', Len(seen) + 1)
      BY <2>1
    <3>2. Grown(seen, seen', e)
      BY <1>6
    <3> HIDE DEF w
    <3>3. \A k \in Nat, r \in Reasons :
              <<k, r>> \in warned \/ (k = Len(seen') /\ In(r, w)) <=>
                  k \in 1..Len(seen') /\ r \in WarningsOf(seen', k)
      BY <2>2, <3>1, <3>2, WarningsGrow
    <3> QED BY <3>3 DEF w
  <2>4. pc' \notin {"start", "accepted"}
    BY <1>0
  <2> QED BY <1>0, <2>3, <2>4 DEF WarnInv
<1> QED BY <1>8, <1>9, <1>10, <1>11, <1>12 DEF UriInv

\* A parameter with an unknown key counts for no slot and fires a warning.
LEMMA UnknownParamStep == ASSUME UriInv, UnknownParam PROVE UriInv'
<1> DEFINE e == [slot |-> "unknown", val |-> Bad]
<1>0. /\ pc = "params" /\ pending = << >> /\ pending' = <<"unknown">> /\ seen' = Append(seen, e)
      /\ pc' = pc /\ params' = params /\ warned' = warned
  BY DEF UnknownParam, Ready
<1>1. e \in Entry /\ e.slot = "unknown" /\ "unknown" \notin Slots /\ Assigned \subseteq Slots
      /\ e.slot # "tags" /\ e.slot # "tls"
  BY SlotNames DEF Entry, Values, Assigned
<1> HIDE DEF e
<1>2. /\ Grown(seen, seen', e) /\ UriType /\ Winners(seen, params)
      /\ TagsInOrder(seen, params["tags"]) /\ Agree(seen) /\ WarnInv
  BY <1>0, <1>1, Grows DEF UriInv, UriType
<1>3. UriType' /\ "unknown" \in Reasons
  <2>1. "unknown" \in Reasons
    BY DEF Reasons
  <2>2. <<"unknown">> \in Seq(Reasons)
    BY <2>1, InFew
  <2> QED BY <1>0, <1>2, <2>1, <2>2 DEF UriType, Grown
<1>4. Winners(seen', params')
  <2>0. \A s : ForOf(seen, s) \in SUBSET (1..Len(seen)) /\ UsableOf(seen, s) \in SUBSET (1..Len(seen))
    BY DEF ForOf, UsableOf
  <2>1. ASSUME NEW s \in Slots \ (Assigned \cup {"tags"})
        PROVE  LastAmong(seen', UsableOf(seen', s), params'[s])
    <3>1. UsableOf(seen', s) = UsableOf(seen, s)
      BY <1>1, <1>2, UsableGrows
    <3>2. LastAmong(seen, UsableOf(seen, s), params[s])
      BY <1>2 DEF Winners
    <3>3. LastAmong(seen', UsableOf(seen, s), params[s])
      BY <1>2, <2>0, <3>2, LastStays
    <3> QED BY <1>0, <3>1, <3>3
  <2>2. ASSUME NEW s \in Assigned
        PROVE  LastAmong(seen', ForOf(seen', s), params'[s])
    <3>1. ForOf(seen', s) = ForOf(seen, s)
      BY <1>1, <1>2, ForGrows
    <3>2. LastAmong(seen, ForOf(seen, s), params[s])
      BY <1>2 DEF Winners
    <3>3. LastAmong(seen', ForOf(seen, s), params[s])
      BY <1>2, <2>0, <3>2, LastStays
    <3> QED BY <1>0, <3>1, <3>3
  <2> QED BY <2>1, <2>2 DEF Winners
<1>5. TagsInOrder(seen', params'["tags"])
  BY <1>0, <1>1, <1>2, TagsStay
<1>6. Agree(seen')
  <2>1. LastAmong(seen, UsableOf(seen, "tls"), params["tls"])
    BY <1>2, SlotNames DEF Winners, Assigned
  <2> QED BY <1>1, <1>2, <2>1, AgreeStep
<1>7. WarnInv'
  <2>1. \A r \in Reasons : In(r, pending') <=> r \in WarningsOf(seen', Len(seen) + 1)
    <3>1. seen'[Len(seen) + 1].slot = "unknown"
      BY <1>1, <1>2 DEF Grown
    <3>2. WarningsOf(seen', Len(seen) + 1) = {"unknown"}
      BY <3>1 DEF WarningsOf
    <3> QED BY <1>0, <1>3, <3>2, InFew
  <2>2. \A k \in Nat, r \in Reasons :
            <<k, r>> \in warned <=> k \in 1..Len(seen) /\ r \in WarningsOf(seen, k)
    BY <1>0, <1>2, InFew DEF WarnInv
  <2>3. \A k \in Nat, r \in Reasons :
            <<k, r>> \in warned \/ (k = Len(seen') /\ In(r, pending')) <=>
                k \in 1..Len(seen') /\ r \in WarningsOf(seen', k)
    BY <1>2, <2>1, <2>2, WarningsGrow
  <2>4. pc' \notin {"start", "accepted"}
    BY <1>0
  <2> QED BY <1>0, <2>3, <2>4 DEF WarnInv
<1> QED BY <1>3, <1>4, <1>5, <1>6, <1>7 DEF UriInv

\* The other steps hand nothing out and take nothing in; warnings are fired one at a time.
LEMMA ParseInvariant == Spec => []UriInv
<1>1. Init => UriInv
  BY ParseStarts
<1>2. UriInv /\ [Next]_vars => UriInv'
  <2> SUFFICES ASSUME UriInv, [Next]_vars PROVE UriInv'
    OBVIOUS
  <2>1. CASE CheckUrl \/ Finish
    <3>1. /\ UNCHANGED <<params, seen, pending, warned>>
          /\ pc \in {"start", "params"} /\ pending = << >>
      BY <2>1 DEF CheckUrl, Finish, Ready, UriInv, WarnInv
    <3> QED BY <3>1 DEF UriInv, UriType, WarnInv
  <2>2. CASE \E key \in Keys, v \in Values : Param(key, v)
    BY <2>2, ParamStep
  <2>3. CASE UnknownParam
    BY <2>3, UnknownParamStep
  <2>4. CASE Warn
    <3>1. /\ pending # << >> /\ pending' = Tail(pending)
          /\ warned' = warned \cup {<<Len(seen), Head(pending)>>}
          /\ UNCHANGED <<pc, params, seen>>
      BY <2>4 DEF Warn
    <3>2. /\ pending \in Seq(Reasons) /\ Len(seen) \in Nat /\ warned \subseteq Nat \X Reasons
      BY DEF UriInv, UriType
    <3>3. /\ Tail(pending) \in Seq(Reasons) /\ Head(pending) \in Reasons
          /\ \A r : In(r, pending) <=> r = Head(pending) \/ In(r, Tail(pending))
      BY <3>1, <3>2, InHeadTail
    <3>4. warned' \subseteq Nat \X Reasons
      BY <3>1, <3>2, <3>3
    <3>5. ASSUME NEW k \in Nat, NEW r \in Reasons
          PROVE  <<k, r>> \in warned' \/ (k = Len(seen) /\ In(r, pending')) <=>
                     <<k, r>> \in warned \/ (k = Len(seen) /\ In(r, pending))
      BY <3>1, <3>3
    <3>6. WarnInv'
      BY <3>1, <3>5 DEF UriInv, WarnInv
    <3> QED BY <3>1, <3>3, <3>4, <3>6 DEF UriInv, UriType
  <2>5. CASE UNCHANGED uriVars
    BY <2>5 DEF UriInv, UriType, WarnInv, uriVars
  <2>6. QED
    BY <2>1, <2>2, <2>3, <2>4, <2>5
       DEF Next, vars, Subscribe, Callback, CallbackReturns
<1> QED BY <1>1, <1>2, PTL DEF Spec

(* For any query string, handle_param() and its handlers leave in each     *)
(* slot the value of the last usable parameter, under either of its names; *)
(* the tags add up in order; and what was accepted of tls and ssl agrees.  *)
THEOREM LastWins == Spec => []LastValueWins
<1>1. UriInv => LastValueWins
  BY DEF UriInv, LastValueWins, Winners, TagsInOrder, Agree, LastOf, LastAmong, For, ForOf,
         Usable, UsableOf, Value, ValueOf, TagsUpTo, TagsOf
<1> QED BY <1>1, ParseInvariant, PTL

(* For any query string and any listeners, the uri warnings fired by the   *)
(* time the URI is accepted are, parameter by parameter, exactly those for *)
(* an unknown key, a value that cannot be used, a number moved into its    *)
(* range and a value replaced through opt_assign(), and no other.          *)
THEOREM ExactWarnings == Spec => []WarningsAreExact
<1>1. UriInv => WarningsAreExact
  <2> SUFFICES ASSUME UriInv, pc = "accepted"
               PROVE  warned = UNION {{<<k, r>> : r \in Warnings(k)} : k \in 1..Len(seen)}
    BY DEF WarningsAreExact
  <2>1. \A k : Warnings(k) = WarningsOf(seen, k) /\ Warnings(k) \subseteq Reasons
    BY DEF Warnings, WarningsOf, Repeats, RepeatsOf, Value, ValueOf, Usable, UsableOf, For, ForOf,
           Reasons
  <2>2. pending = << >> /\ warned \subseteq Nat \X Reasons /\ Len(seen) \in Nat
    BY DEF UriInv, UriType, WarnInv
  <2>3. \A k \in Nat, r \in Reasons :
            <<k, r>> \in warned <=> k \in 1..Len(seen) /\ r \in Warnings(k)
    BY <2>1, <2>2, InFew DEF UriInv, WarnInv
  <2>4. \A k \in 1..Len(seen) : k \in Nat
    BY <2>2
  <2>5. ASSUME NEW x \in warned
        PROVE  \E k \in 1..Len(seen) : \E r \in Warnings(k) : x = <<k, r>>
    <3>1. PICK k \in Nat, r \in Reasons : x = <<k, r>>
      BY <2>2
    <3> QED BY <2>3, <3>1
  <2>6. ASSUME NEW k \in 1..Len(seen), NEW r \in Warnings(k)
        PROVE  <<k, r>> \in warned
    BY <2>1, <2>3, <2>4
  <2> QED BY <2>5, <2>6
<1> QED BY <1>1, ParseInvariant, PTL

(* Both together: connection_uri::parse() reads any query string exactly.  *)
THEOREM ReadsExactly == Spec => []QueryIsReadExactly
<1>1. LastValueWins /\ WarningsAreExact => QueryIsReadExactly
  BY DEF QueryIsReadExactly
<1> QED BY <1>1, LastWins, ExactWarnings, PTL
=============================================================================
