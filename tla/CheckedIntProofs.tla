-------------------------- MODULE CheckedIntProofs --------------------------
(***************************************************************************)
(* Proofs about the checked arithmetic, for every width of the wide and of *)
(* the narrow integers.                                                    *)
(***************************************************************************)
EXTENDS CheckedInt, TLAPS

-----------------------------------------------------------------------------
(* The bounds of the wide type are ordered integers.                       *)
LEMMA Bounds ==
    /\ MAX \in Nat /\ MAX > 2 /\ MIN \in Int /\ MIN = -MAX - 1 /\ MIN < 0
    /\ NarrowMax \in Nat /\ NarrowMax > 0 /\ NarrowMax < MAX
BY BoundsAssumption DEF MIN

(* _mlib_i64_add_would_overflow() is true exactly when the sum has no      *)
(* representation.                                                         *)
LEMMA AddExact ==
    ASSUME NEW l \in Int64, NEW r \in Int64
    PROVE  add_would_overflow(l, r) <=> l + r \notin Int64
BY Bounds DEF add_would_overflow, Int64

(* _mlib_i64_sub_would_overflow() is true exactly when the difference has  *)
(* no representation, except that it overlooks INT64_MAX + 1.              *)
LEMMA SubExact ==
    ASSUME NEW l \in Int64, NEW r \in Int64
    PROVE  sub_would_overflow(l, r) <=> l - r \notin Int64 /\ l - r # MAX + 1
BY Bounds DEF sub_would_overflow, add_would_overflow, Int64

(* What the quotient of natural numbers bounds.                            *)
LEMMA DivBound ==
    ASSUME NEW n \in Nat, NEW d \in Nat \ {0}
    PROVE  /\ n \div d \in Nat
           /\ d * (n \div d) <= n
           /\ n \div d <= n
           /\ d > 1 => 2 * (n \div d) <= n
OBVIOUS

\* Multiplication by a natural keeps the order.
LEMMA TimesMonotone ==
    ASSUME NEW a \in Nat, NEW b \in Nat, NEW q \in Nat, a <= q
    PROVE  b * a <= b * q
OBVIOUS

\* A factor beyond the quotient has a product beyond the dividend.
LEMMA BeyondQuotient ==
    ASSUME NEW n \in Nat, NEW d \in Nat \ {0}, NEW a \in Nat, a > n \div d
    PROVE  d * a > n
<1> DEFINE q == n \div d
<1>1. q \in Nat /\ n < d * q + d
  OBVIOUS
<1> HIDE DEF q
<1>2. a > q
  BY DEF q
<1>3. d * (q + 1) <= d * a
  BY <1>1, <1>2, TimesMonotone
<1>4. d * (q + 1) = d * q + d /\ d * a \in Nat /\ d * q \in Nat
  BY <1>1
<1> QED BY <1>1, <1>3, <1>4

(* A quotient that C defines has a representation.                         *)
LEMMA QuotientInRange ==
    ASSUME NEW n \in Int64, NEW d \in Int64, d # 0, ~(n = MIN /\ d = -1)
    PROVE  Quotient(n, d) \in Int64
<1> DEFINE m == Magnitude(n)
           k == Magnitude(d)
<1>1. m \in Nat /\ k \in Nat \ {0} /\ m <= MAX + 1
  BY Bounds DEF Magnitude, Int64
<1>2. /\ m \div k \in Nat /\ m \div k <= m
      /\ k > 1 => 2 * (m \div k) <= m
  <2> HIDE DEF m, k
  <2> QED BY <1>1, DivBound
<1>3. CASE m <= MAX
  BY <1>1, <1>2, <1>3, Bounds DEF Quotient, Int64
<1>4. CASE m = MAX + 1
  <2>1. n = MIN
    BY <1>4, Bounds DEF Magnitude, Int64
  <2>2. CASE d > 0
    BY <1>1, <1>2, <1>4, <2>1, <2>2, Bounds DEF Quotient, Int64
  <2>3. CASE d < 0
    <3>1. k > 1
      BY <2>1, <2>3, Bounds DEF Magnitude, Int64
    <3> QED BY <1>1, <1>2, <1>4, <3>1, <2>1, <2>3, Bounds DEF Quotient, Int64
  <2> QED BY <2>2, <2>3, Bounds DEF Int64
<1> QED BY <1>1, <1>3, <1>4, Bounds

(* When _mlib_i64_mul_would_overflow() is false the product has a          *)
(* representation.                                                         *)
LEMMA MulSound ==
    ASSUME NEW l \in Int64, NEW r \in Int64, ~mul_would_overflow(l, r)
    PROVE  l * r \in Int64
<1>1. l \in Int /\ r \in Int
  BY Bounds DEF Int64
<1>2. CASE r = -1
  BY <1>1, <1>2, Bounds DEF mul_would_overflow, Int64
<1>3. CASE l = 0 \/ r = 0
  BY <1>1, <1>3, Bounds DEF Int64
<1>4. CASE l > 0 /\ r > 0
  <2> DEFINE q == MAX \div r
  <2>1. l <= q
    BY <1>1, <1>4, Bounds DEF mul_would_overflow, Quotient, Magnitude
  <2>2. q \in Nat /\ r * q <= MAX
    BY <1>1, <1>4, Bounds, DivBound
  <2> HIDE DEF q
  <2>3. r * l <= r * q
    BY <1>1, <1>4, <2>1, <2>2, TimesMonotone
  <2>4. l * r >= 0 /\ l * r = r * l /\ l * r \in Int
    BY <1>1, <1>4
  <2> QED BY <1>1, <2>2, <2>3, <2>4, Bounds DEF Int64
<1>5. CASE l > 0 /\ r < 0 /\ r # -1
  <2> DEFINE s == -r
             q == (MAX + 1) \div l
  <2>1. s \in Nat /\ s <= q /\ q \in Nat /\ l * q <= MAX + 1
    <3>1. q \in Nat /\ l * q <= MAX + 1
      BY <1>1, <1>5, Bounds, DivBound
    <3>2. r >= -q
      BY <1>1, <1>5, <3>1, Bounds DEF mul_would_overflow, Quotient, Magnitude
    <3> QED BY <1>1, <1>5, <3>1, <3>2
  <2>2. l * s <= l * q
    <3> HIDE DEF s, q
    <3> QED BY <1>1, <1>5, <2>1, TimesMonotone
  <2>3. l * s = -(l * r) /\ l * r <= 0 /\ l * r \in Int
    BY <1>1, <1>5
  <2> HIDE DEF q, s
  <2> QED BY <1>1, <2>1, <2>2, <2>3, Bounds DEF Int64
<1>6. CASE l < 0 /\ r > 0
  <2> DEFINE s == -l
             q == (MAX + 1) \div r
  <2>1. s \in Nat /\ s <= q /\ q \in Nat /\ r * q <= MAX + 1
    <3>1. q \in Nat /\ r * q <= MAX + 1
      BY <1>1, <1>6, Bounds, DivBound
    <3>2. l >= -q
      BY <1>1, <1>6, <3>1, Bounds DEF mul_would_overflow, Quotient, Magnitude
    <3> QED BY <1>1, <1>6, <3>1, <3>2
  <2>2. r * s <= r * q
    <3> HIDE DEF s, q
    <3> QED BY <1>1, <1>6, <2>1, TimesMonotone
  <2>3. r * s = -(l * r) /\ l * r <= 0 /\ l * r \in Int
    BY <1>1, <1>6
  <2> HIDE DEF q, s
  <2> QED BY <1>1, <2>1, <2>2, <2>3, Bounds DEF Int64
<1>7. CASE l < 0 /\ r < 0 /\ r # -1
  <2> DEFINE a == -l
             s == -r
             q == MAX \div a
  <2>1. a \in Nat \ {0} /\ s \in Nat /\ s <= q /\ q \in Nat /\ a * q <= MAX
    <3>1. a \in Nat \ {0} /\ s \in Nat
      BY <1>1, <1>7
    <3>2. q \in Nat /\ a * q <= MAX
      <4> HIDE DEF a
      <4> QED BY <3>1, Bounds, DivBound
    <3>3. r >= -q
      BY <1>1, <1>7, <3>1, <3>2, Bounds DEF mul_would_overflow, Quotient, Magnitude
    <3> QED BY <1>1, <1>7, <3>1, <3>2, <3>3
  <2>2. a * s <= a * q
    <3> HIDE DEF a, s, q
    <3> QED BY <2>1, TimesMonotone
  <2>3. a * s = l * r /\ l * r >= 0 /\ l * r \in Int
    BY <1>1, <1>7
  <2> HIDE DEF a, q, s
  <2> QED BY <2>1, <2>2, <2>3, Bounds DEF Int64
<1> QED BY <1>1, <1>2, <1>3, <1>4, <1>5, <1>6, <1>7

(* When _mlib_i64_mul_would_overflow() is true the product has none.       *)
LEMMA MulComplete ==
    ASSUME NEW l \in Int64, NEW r \in Int64, mul_would_overflow(l, r)
    PROVE  l * r \notin Int64
<1>1. l \in Int /\ r \in Int
  BY Bounds DEF Int64
<1>2. CASE r = -1
  BY <1>1, <1>2, Bounds DEF mul_would_overflow, Int64
<1>3. CASE l > 0 /\ r > 0
  <2> DEFINE q == MAX \div r
  <2>1. l > q
    BY <1>1, <1>3, Bounds DEF mul_would_overflow, Quotient, Magnitude
  <2> HIDE DEF q
  <2>2. r * l > MAX
    BY <1>1, <1>3, <2>1, Bounds, BeyondQuotient DEF q
  <2>3. l * r = r * l /\ l * r \in Int
    BY <1>1
  <2> QED BY <2>2, <2>3, Bounds DEF Int64
<1>4. CASE l > 0 /\ r < 0 /\ r # -1
  <2> DEFINE s == -r
             q == (MAX + 1) \div l
  <2>0. q \in Nat
    BY <1>1, <1>4, Bounds, DivBound
  <2>1. s \in Nat /\ s > q
    <3>1. r < -q
      BY <1>1, <1>4, <2>0, Bounds DEF mul_would_overflow, Quotient, Magnitude
    <3> QED BY <1>1, <1>4, <2>0, <3>1
  <2> HIDE DEF s, q
  <2>2. l * s > MAX + 1
    BY <1>1, <1>4, <2>1, Bounds, BeyondQuotient DEF q
  <2>3. l * s = -(l * r) /\ l * r \in Int
    BY <1>1 DEF s
  <2> QED BY <2>2, <2>3, Bounds DEF Int64
<1>5. CASE l <= 0 /\ r > 0
  <2> DEFINE s == -l
             q == (MAX + 1) \div r
  <2>0. q \in Nat
    <3>1. r \in Nat \ {0} /\ MAX + 1 \in Nat
      BY <1>1, <1>5, Bounds
    <3> QED BY <3>1, DivBound
  <2>1. s \in Nat /\ s > q
    <3>1. l < -q
      BY <1>1, <1>5, <2>0, Bounds DEF mul_would_overflow, Quotient, Magnitude
    <3> QED BY <1>1, <1>5, <2>0, <3>1
  <2> HIDE DEF s, q
  <2>2. r * s > MAX + 1
    BY <1>1, <1>5, <2>1, Bounds, BeyondQuotient DEF q
  <2>3. r * s = -(l * r) /\ l * r \in Int
    BY <1>1 DEF s
  <2> QED BY <2>2, <2>3, Bounds DEF Int64
<1>6. CASE l < 0 /\ r < 0 /\ r # -1
  <2> DEFINE a == -l
             s == -r
             q == MAX \div a
  <2>0. a \in Nat \ {0} /\ q \in Nat
    <3>1. a \in Nat \ {0}
      BY <1>1, <1>6
    <3> HIDE DEF a
    <3> QED BY <3>1, Bounds, DivBound
  <2>1. s \in Nat /\ s > q
    <3>1. r < -q
      BY <1>1, <1>6, <2>0, Bounds DEF mul_would_overflow, Quotient, Magnitude
    <3> QED BY <1>1, <1>6, <2>0, <3>1
  <2>2. a * s > MAX
    <3> HIDE DEF a, s, q
    <3> QED BY <2>0, <2>1, Bounds, BeyondQuotient DEF q
  <2>3. a * s = l * r /\ l * r \in Int
    BY <1>1
  <2> HIDE DEF a, s, q
  <2> QED BY <2>2, <2>3, Bounds DEF Int64
<1> QED BY <1>1, <1>2, <1>3, <1>4, <1>5, <1>6 DEF mul_would_overflow

(* What wraps lands in the wide type.                                      *)
LEMMA WrapInRange ==
    ASSUME NEW n \in Int
    PROVE  Wrap(n) \in Int64
<1>1. 2 * MAX + 2 \in Nat \ {0} /\ n - MIN \in Int
  BY Bounds
<1>2. (n - MIN) % (2 * MAX + 2) \in 0 .. (2 * MAX + 1)
  BY <1>1, Bounds
<1> QED BY <1>2, Bounds DEF Wrap, Int64

-----------------------------------------------------------------------------
(***************************************************************************)
(* The operations on mlib_integer.                                         *)
(***************************************************************************)
Values == [i64 : Int64, flags : SUBSET Flags]

\* The operands that the model enumerates are values.
LEMMA OperandValues == Operands \subseteq Values
BY Bounds DEF Operands, Values, Integer, from_i64, Flags, Int64

(* Every operation returns a value of the wide type and known flags.       *)
LEMMA OperationValues ==
    ASSUME NEW l \in Values, NEW r \in Values, NEW saturate \in BOOLEAN
    PROVE  /\ math_add(l, r, saturate) \in Values
           /\ math_sub(l, r) \in Values
           /\ math_mul(l, r, saturate) \in Values
           /\ math_div(l, r) \in Values
           /\ check_bounds(r, from_i64(MAX), l) \in Values
<1>1. /\ l.i64 \in Int64 /\ r.i64 \in Int64 /\ l.i64 \in Int /\ r.i64 \in Int
      /\ l.flags \subseteq Flags /\ r.flags \subseteq Flags
  BY Bounds DEF Values, Int64
<1>2. MIN \in Int64 /\ MAX \in Int64 /\ 0 \in Int64
  BY Bounds DEF Int64
<1>3. \A n \in Int : Wrap(n) \in Int64
  BY WrapInRange
<1>4. math_add(l, r, saturate) \in Values
  BY <1>1, <1>2, <1>3 DEF math_add, Integer, Saturated, Values, Flags
<1>5. math_sub(l, r) \in Values
  BY <1>1, <1>2, <1>3 DEF math_sub, Integer, Values, Flags
<1>6. math_mul(l, r, saturate) \in Values
  BY <1>1, <1>2, <1>3 DEF math_mul, Integer, Saturated, Values, Flags
<1>7. math_div(l, r) \in Values
  BY <1>1, <1>2, QuotientInRange DEF math_div, Integer, Values, Flags
<1>8. check_bounds(r, from_i64(MAX), l) \in Values
  BY <1>1, <1>2 DEF check_bounds, from_i64, Integer, set_flags, Values, Flags
<1> QED BY <1>4, <1>5, <1>6, <1>7, <1>8

(* A value has no flag exactly when its operands have none and it is       *)
(* exact, or is the difference that escapes.                               *)
LEMMA OperationExact ==
    ASSUME NEW l \in Values, NEW r \in Values, NEW saturate \in BOOLEAN
    PROVE  /\ math_add(l, r, saturate).flags = {} <=>
                l.flags = {} /\ r.flags = {} /\ l.i64 + r.i64 \in Int64
           /\ math_sub(l, r).flags = {} <=>
                l.flags = {} /\ r.flags = {}
                    /\ (l.i64 - r.i64 \in Int64 \/ l.i64 - r.i64 = MAX + 1)
           /\ math_mul(l, r, saturate).flags = {} <=>
                l.flags = {} /\ r.flags = {} /\ l.i64 * r.i64 \in Int64
           /\ math_div(l, r).flags = {} <=>
                l.flags = {} /\ r.flags = {} /\ r.i64 # 0
                    /\ Quotient(l.i64, r.i64) \in Int64
           /\ check_bounds(r, from_i64(MAX), l).flags = {} <=>
                l.flags = {} /\ r.flags = {} /\ l.i64 >= r.i64
<1>1. l.i64 \in Int64 /\ r.i64 \in Int64
  BY DEF Values
<1>2. l.i64 \in Int /\ r.i64 \in Int /\ l.i64 <= MAX
  BY <1>1, Bounds DEF Int64
<1>3. math_add(l, r, saturate).flags = {} <=>
        l.flags = {} /\ r.flags = {} /\ l.i64 + r.i64 \in Int64
  BY <1>1, AddExact DEF math_add, Integer, Values
<1>4. math_sub(l, r).flags = {} <=>
        l.flags = {} /\ r.flags = {} /\ (l.i64 - r.i64 \in Int64 \/ l.i64 - r.i64 = MAX + 1)
  BY <1>1, SubExact DEF math_sub, Integer, Values
<1>5. math_mul(l, r, saturate).flags = {} <=>
        l.flags = {} /\ r.flags = {} /\ l.i64 * r.i64 \in Int64
  BY <1>1, MulSound, MulComplete DEF math_mul, Integer, Values
<1>6. math_div(l, r).flags = {} <=>
        l.flags = {} /\ r.flags = {} /\ r.i64 # 0 /\ Quotient(l.i64, r.i64) \in Int64
  <2>1. CASE r.i64 = 0
    BY <2>1 DEF math_div, Integer, Values
  <2>2. CASE l.i64 = MIN /\ r.i64 = -1
    <3>1. Quotient(l.i64, r.i64) = MAX + 1
      BY <2>2, Bounds DEF Quotient, Magnitude
    <3> QED BY <2>2, <3>1, Bounds DEF math_div, Integer, Values, Int64
  <2>3. CASE r.i64 # 0 /\ ~(l.i64 = MIN /\ r.i64 = -1)
    BY <1>1, <2>3, QuotientInRange DEF math_div, Integer, Values
  <2> QED BY <2>1, <2>2, <2>3
<1>7. check_bounds(r, from_i64(MAX), l).flags = {} <=>
        l.flags = {} /\ r.flags = {} /\ l.i64 >= r.i64
  BY <1>2, Bounds DEF check_bounds, from_i64, Integer, set_flags, Values
<1> QED BY <1>3, <1>4, <1>5, <1>6, <1>7

(* A cast lets an unflagged value through only within its bounds.          *)
LEMMA CastExact ==
    ASSUME NEW v \in Values, NEW least \in Int
    PROVE  LET c == check_bounds(from_i64(least), from_i64(NarrowMax), v)
           IN /\ c.flags \subseteq Flags
              /\ c.flags = {} => v.flags = {} /\ v.i64 \in least .. NarrowMax
BY Bounds DEF check_bounds, from_i64, Integer, set_flags, Values, Flags, Int64

-----------------------------------------------------------------------------
(***************************************************************************)
(* The accumulator and the scope.                                          *)
(***************************************************************************)
IInv == TypeOK /\ OneOverflowEscapes /\ UncaughtIsExact

(* The boolean history variables, one by one.                              *)
LEMMA TypeParts ==
    TypeOK <=> /\ acc \in Values /\ info \subseteq Flags
               /\ sound \in BOOLEAN /\ escaped \in BOOLEAN
               /\ results \in BOOLEAN /\ hadEscape \in BOOLEAN
BY DEF TypeOK, Values

\* TypeOK after a step, part by part.
LEMMA TypePartsNext ==
    TypeOK' <=> /\ acc' \in Values /\ info' \subseteq Flags
                /\ sound' \in BOOLEAN /\ escaped' \in BOOLEAN
                /\ results' \in BOOLEAN /\ hadEscape' \in BOOLEAN
BY DEF TypeOK, Values, Int64, Flags, MIN

\* A fresh scope.
LEMMA InitInv == Init => IInv
<1> SUFFICES ASSUME Init PROVE IInv
  OBVIOUS
<1>1. acc \in Values
  BY Bounds DEF Init, Values, from_i64, Integer, Int64
<1>2. TypeOK
  BY <1>1, TypeParts DEF Init
<1>3. acc.flags = {}
  BY DEF Init, from_i64, Integer
<1> QED BY <1>2, <1>3 DEF IInv, Init, OneOverflowEscapes, UncaughtIsExact

(* A new expression: a conversion is unflagged exactly when it is exact.   *)
LEMMA LoadInv ==
    ASSUME IInv, NEW v \in Values, NEW exact \in BOOLEAN, v.flags = {} <=> exact,
           Load(v, exact), UNCHANGED <<info, results, hadEscape>>
    PROVE  IInv'
<1>1. TypeOK'
  BY TypeParts, TypePartsNext DEF IInv, Load
<1>2. OneOverflowEscapes'
  BY DEF Load, OneOverflowEscapes
<1>3. UncaughtIsExact'
  BY DEF IInv, UncaughtIsExact
<1> QED BY <1>1, <1>2, <1>3 DEF IInv

(* An operation: its result is unflagged exactly when the accumulator was  *)
(* and the result is exact or has escaped.                                 *)
LEMMA BecomesInv ==
    ASSUME IInv, NEW v \in Values, NEW exact \in BOOLEAN, NEW out \in BOOLEAN,
           v.flags = {} <=> acc.flags = {} /\ (exact \/ out),
           Becomes(v, exact, out), UNCHANGED <<info, results, hadEscape>>
    PROVE  IInv'
<1>1. TypeOK'
  BY TypeParts, TypePartsNext DEF IInv, Becomes
<1>2. OneOverflowEscapes'
  BY DEF IInv, Becomes, OneOverflowEscapes
<1>3. UncaughtIsExact'
  BY DEF IInv, UncaughtIsExact
<1> QED BY <1>1, <1>2, <1>3 DEF IInv

\* A new expression begins with an exact value.
LEMMA StartExpressionInv == IInv /\ StartExpression => IInv'
<1> SUFFICES ASSUME IInv, StartExpression PROVE IInv'
  OBVIOUS
<1>0. UNCHANGED <<info, results, hadEscape>>
  BY DEF StartExpression
<1>1. CASE \E n \in Int64 : Load(from_i64(n), TRUE)
  <2> PICK n \in Int64 : Load(from_i64(n), TRUE)
    BY <1>1
  <2>1. from_i64(n) \in Values /\ (from_i64(n).flags = {} <=> TRUE)
    BY DEF from_i64, Integer, Values
  <2> QED BY <1>0, <2>1, LoadInv
<1>2. CASE \E n \in 0 .. (2 * MAX + 1) : Load(from_u64(n), n <= MAX)
  <2> PICK n \in 0 .. (2 * MAX + 1) : Load(from_u64(n), n <= MAX)
    BY <1>2
  <2>1. n \in Int /\ Wrap(n) \in Int64
    BY Bounds, WrapInRange
  <2>2. from_u64(n) \in Values
    BY <2>1 DEF from_u64, Integer, Values, Flags
  <2>3. from_u64(n).flags = {} <=> n <= MAX
    BY <2>1, Bounds DEF from_u64, Integer
  <2> DEFINE v == from_u64(n)
             exact == n <= MAX
  <2>4. exact \in BOOLEAN /\ v \in Values /\ (v.flags = {} <=> exact) /\ Load(v, exact)
    BY <2>2, <2>3
  <2> HIDE DEF v, exact
  <2> QED BY <1>0, <2>4, LoadInv
<1>3. CASE \E length \in {0, 1, MAX}, m \in Operands :
             Load(math_strnlen(length, m), m.flags = {} /\ m.i64 >= 0)
  <2> PICK length \in {0, 1, MAX}, m \in Operands :
             Load(math_strnlen(length, m), m.flags = {} /\ m.i64 >= 0)
    BY <1>3
  <2>1. /\ length \in Int64 /\ length \in Int /\ 0 \in Int64
        /\ m.i64 \in Int64 /\ m.i64 \in Int /\ m.flags \subseteq Flags
    BY Bounds, OperandValues DEF Values, Int64
  <2>2. math_strnlen(length, m) \in Values
    BY <2>1 DEF math_strnlen, from_i64, Integer, Values, Flags
  <2>3. math_strnlen(length, m).flags = {} <=> m.flags = {} /\ m.i64 >= 0
    BY <2>1 DEF math_strnlen, from_i64, Integer
  <2> QED BY <1>0, <2>2, <2>3, LoadInv
<1> QED BY <1>1, <1>2, <1>3 DEF StartExpression

\* One more operator of mlibMath().
LEMMA OperateInv == IInv /\ Operate => IInv'
<1> SUFFICES ASSUME IInv, Operate PROVE IInv'
  OBVIOUS
<1> DEFINE Clean(r) == r.flags = {}
<1>0. UNCHANGED <<info, results, hadEscape>>
  BY DEF Operate
<1>1. acc \in Values
  BY TypeParts DEF IInv
<1>2. PICK r \in Operands :
        \/ \E saturate \in BOOLEAN :
             Becomes(math_add(acc, r, saturate), Clean(r) /\ acc.i64 + r.i64 \in Int64, FALSE)
        \/ Becomes(math_sub(acc, r), Clean(r) /\ acc.i64 - r.i64 \in Int64,
                   Clean(r) /\ acc.i64 - r.i64 = MAX + 1)
        \/ Becomes(math_sub(from_i64(0), acc), -acc.i64 \in Int64, -acc.i64 = MAX + 1)
        \/ \E saturate \in BOOLEAN :
             Becomes(math_mul(acc, r, saturate), Clean(r) /\ acc.i64 * r.i64 \in Int64, FALSE)
        \/ Becomes(math_div(acc, r),
                   Clean(r) /\ r.i64 # 0 /\ Quotient(acc.i64, r.i64) \in Int64, FALSE)
        \/ Becomes(check_bounds(r, from_i64(MAX), acc), Clean(r) /\ acc.i64 >= r.i64, FALSE)
  BY DEF Operate
<1>3. r \in Values
  BY OperandValues
<1>4. ASSUME NEW saturate \in BOOLEAN,
             Becomes(math_add(acc, r, saturate), Clean(r) /\ acc.i64 + r.i64 \in Int64, FALSE)
      PROVE  IInv'
  BY <1>0, <1>1, <1>3, <1>4, OperationValues, OperationExact, BecomesInv
<1>5. CASE Becomes(math_sub(acc, r), Clean(r) /\ acc.i64 - r.i64 \in Int64,
                   Clean(r) /\ acc.i64 - r.i64 = MAX + 1)
  BY <1>0, <1>1, <1>3, <1>5, OperationValues, OperationExact, BecomesInv
<1>6. CASE Becomes(math_sub(from_i64(0), acc), -acc.i64 \in Int64, -acc.i64 = MAX + 1)
  <2>1. /\ from_i64(0) \in Values /\ from_i64(0).i64 = 0 /\ from_i64(0).flags = {}
        /\ acc.i64 \in Int
    BY <1>1, Bounds DEF from_i64, Integer, Values, Int64
  <2>2. math_sub(from_i64(0), acc) \in Values
    BY <1>1, <2>1, OperationValues
  <2>3. math_sub(from_i64(0), acc).flags = {} <=>
          acc.flags = {} /\ (0 - acc.i64 \in Int64 \/ 0 - acc.i64 = MAX + 1)
    <3> DEFINE z == from_i64(0)
    <3>1. z \in Values /\ z.i64 = 0 /\ z.flags = {}
      BY <2>1
    <3> HIDE DEF z
    <3>2. math_sub(z, acc).flags = {} <=>
            z.flags = {} /\ acc.flags = {} /\ (z.i64 - acc.i64 \in Int64 \/ z.i64 - acc.i64 = MAX + 1)
      BY <1>1, <3>1, OperationExact
    <3>3. math_sub(z, acc).flags = {} <=>
            acc.flags = {} /\ (0 - acc.i64 \in Int64 \/ 0 - acc.i64 = MAX + 1)
      BY <3>1, <3>2
    <3> QED BY <3>3 DEF z
  <2>4. 0 - acc.i64 = -acc.i64
    BY <2>1
  <2> DEFINE v == math_sub(from_i64(0), acc)
             exact == -acc.i64 \in Int64
             out == -acc.i64 = MAX + 1
  <2>5. /\ v \in Values /\ exact \in BOOLEAN /\ out \in BOOLEAN
        /\ v.flags = {} <=> acc.flags = {} /\ (exact \/ out)
    BY <2>2, <2>3, <2>4
  <2>6. Becomes(v, exact, out)
    BY <1>6
  <2> HIDE DEF v, exact, out
  <2> QED BY <1>0, <2>5, <2>6, BecomesInv
<1>7. ASSUME NEW saturate \in BOOLEAN,
             Becomes(math_mul(acc, r, saturate), Clean(r) /\ acc.i64 * r.i64 \in Int64, FALSE)
      PROVE  IInv'
  BY <1>0, <1>1, <1>3, <1>7, OperationValues, OperationExact, BecomesInv
<1>8. CASE Becomes(math_div(acc, r),
                   Clean(r) /\ r.i64 # 0 /\ Quotient(acc.i64, r.i64) \in Int64, FALSE)
  BY <1>0, <1>1, <1>3, <1>8, OperationValues, OperationExact, BecomesInv
<1>9. CASE Becomes(check_bounds(r, from_i64(MAX), acc), Clean(r) /\ acc.i64 >= r.i64, FALSE)
  BY <1>0, <1>1, <1>3, <1>9, OperationValues, OperationExact, BecomesInv
<1> QED BY <1>2, <1>4, <1>5, <1>6, <1>7, <1>8, <1>9

(* A cast leaves the flags of a failure in the scope until the scope is    *)
(* entered anew.                                                           *)
LEMMA CastInv == IInv /\ Cast => IInv'
<1> SUFFICES ASSUME IInv, Cast PROVE IInv'
  OBVIOUS
<1> DEFINE C(least) == check_bounds(from_i64(least), from_i64(NarrowMax), acc)
<1>1. PICK least \in {-NarrowMax - 1, 0, 1} :
        /\ info' = FillFailureInfo(info, C(least))
        /\ results' = (results /\ sound /\ ~escaped /\ acc.i64 \in least .. NarrowMax)
        /\ hadEscape' = (hadEscape \/ escaped)
  BY DEF Cast
<1>2. acc \in Values /\ least \in Int
  BY TypeParts, Bounds DEF IInv
<1>3. /\ C(least).flags \subseteq Flags
      /\ C(least).flags = {} => acc.flags = {} /\ acc.i64 \in least .. NarrowMax
  BY <1>2, CastExact
<1> HIDE DEF C
<1>4. UNCHANGED <<acc, sound, escaped>>
  BY DEF Cast
<1>5. TypeOK'
  BY <1>1, <1>3, <1>4, TypeParts, TypePartsNext DEF IInv, FillFailureInfo
<1>6. OneOverflowEscapes'
  BY <1>4 DEF IInv, OneOverflowEscapes
<1>7. UncaughtIsExact'
  BY <1>1, <1>3, <1>4 DEF IInv, OneOverflowEscapes, UncaughtIsExact, FillFailureInfo
<1> QED BY <1>5, <1>6, <1>7 DEF IInv

\* mlib_math_try().
LEMMA TryInv == IInv /\ Try => IInv'
<1> SUFFICES ASSUME IInv, Try PROVE IInv'
  OBVIOUS
<1>1. TypeOK'
  BY TypeParts, TypePartsNext DEF IInv, Try
<1> QED BY <1>1 DEF IInv, Try, OneOverflowEscapes, UncaughtIsExact

(* Every reachable state satisfies the invariant.                          *)
LEMMA Inductive == Spec => []IInv
<1>1. Init => IInv
  BY InitInv
<1>2. IInv /\ [Next]_vars => IInv'
  <2> SUFFICES ASSUME IInv, [Next]_vars PROVE IInv'
    OBVIOUS
  <2>1. CASE UNCHANGED vars
    <3>1. TypeOK'
      BY <2>1, TypeParts, TypePartsNext DEF IInv, vars
    <3> QED BY <2>1, <3>1 DEF IInv, vars, OneOverflowEscapes, UncaughtIsExact
  <2> QED BY <2>1, StartExpressionInv, OperateInv, CastInv, TryInv DEF Next
<1> QED BY <1>1, <1>2, PTL DEF Spec

(* At every width, an mlibMath() expression is flagged exactly when one of *)
(* its operations had no exact result, but for differences of              *)
(* INT64_MAX + 1: the one overflow that goes without a flag is the only    *)
(* one, and nothing is flagged without cause.                              *)
THEOREM ExactUnlessEscaped == Spec => []OneOverflowEscapes
<1>1. IInv => OneOverflowEscapes
  BY DEF IInv
<1> QED BY <1>1, Inductive, PTL

(* At every width, a scope that mlib_math_catch() does not enter has seen  *)
(* only exact values within the bounds of their casts, or one of its       *)
(* expressions met that difference.                                        *)
THEOREM ScopesExact == Spec => []UncaughtIsExact
<1>1. IInv => UncaughtIsExact
  BY DEF IInv
<1> QED BY <1>1, Inductive, PTL
=============================================================================
