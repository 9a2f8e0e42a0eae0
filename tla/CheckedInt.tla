----------------------------- MODULE CheckedInt -----------------------------
(***************************************************************************)
(* Checked integer arithmetic, mlib/integer.h: mlibMath() evaluates an     *)
(* expression in a wide integer that wraps, collecting a flag for each     *)
(* operation that went wrong; a cast out of it narrows the value and       *)
(* leaves the flags in the enclosing mlib_math_try() scope, where          *)
(* mlib_math_catch() finds them after any number of further statements.    *)
(* The BSON code sizes every document with it.                             *)
(*                                                                         *)
(* One accumulator is driven through every operation.  `sound' remembers   *)
(* whether every operation so far had an exact result, but for differences *)
(* of INT64_MAX + 1, which `escaped' remembers.                            *)
(***************************************************************************)
EXTENDS Integers

CONSTANTS
    MAX,        \* INT64_MAX; INT64_MIN is -MAX - 1
    NarrowMax   \* INT32_MAX

ASSUME BoundsAssumption ==
    /\ MAX \in Nat /\ NarrowMax \in Nat \ {0}
    /\ 2 * NarrowMax + 1 < MAX

VARIABLES
    acc,      \* the mlib_integer: i64, flags
    sound,    \* history: each operation so far was exact or escaped
    escaped,  \* history: an exact difference was MAX + 1
    info,     \* the flags in the mlib_math_try() scope
    results,  \* history: every value cast in this scope was exact
    hadEscape \* history: some expression of this scope has escaped

vars == <<acc, sound, escaped, info, results, hadEscape>>

MIN == -MAX - 1
Int64 == MIN .. MAX
Int32 == (-NarrowMax - 1) .. NarrowMax

Flags == {"add_overflow", "sub_overflow", "mul_overflow", "div_overflow", "bounds", "zerodiv"}

\* Conversion of an exact result to the wide type, which wraps.
Wrap(n) == ((n - MIN) % (2 * MAX + 2)) + MIN

\* The quotient of C, which rounds towards zero.
Magnitude(n) == IF n < 0 THEN -n ELSE n
Quotient(n, d) ==
    LET q == Magnitude(n) \div Magnitude(d)
    IN IF (n < 0) = (d < 0) THEN q ELSE -q

-----------------------------------------------------------------------------
(***************************************************************************)
(* The overflow predicates: each decides without overflowing itself.       *)
(***************************************************************************)

\* Mutant: the room below is counted from -MAX.
AddSymmetric(left, right_) ==
    \/ right_ < 0 /\ left < -right_ - MAX - 2
    \/ right_ > 0 /\ left > MAX - right_

add_would_overflow(left, right_) ==
    \/ right_ < 0 /\ left < MIN - right_
    \/ right_ > 0 /\ left > MAX - right_

\* The difference of a positive and a negative is decided by its negation,
\* which has room for one more.
sub_would_overflow(left, right_) ==
    \/ right_ > 0 /\ add_would_overflow(left, -right_)
    \/ right_ < 0 /\ left > 0 /\ add_would_overflow(-left, right_)

mul_would_overflow(left, right_) ==
    IF right_ = -1 THEN left = MIN
    ELSE \/ left > 0 /\ right_ > 0 /\ left > Quotient(MAX, right_)
         \/ left > 0 /\ right_ < 0 /\ right_ < Quotient(MIN, left)
         \/ left <= 0 /\ right_ > 0 /\ left < Quotient(MIN, right_)
         \/ left < 0 /\ right_ < 0 /\ right_ < Quotient(MAX, left)

-----------------------------------------------------------------------------
(***************************************************************************)
(* The operations.  An operand is the value of a subexpression: exact, or  *)
(* already flagged.                                                        *)
(***************************************************************************)

Integer(i64, flags) == [i64 |-> i64, flags |-> flags]
from_i64(n) == Integer(n, {})
from_u64(n) == Integer(Wrap(n), IF n > MAX THEN {"bounds"} ELSE {})
set_flags(v, flags) == Integer(v.i64, v.flags \cup flags)

Saturated(negative) == IF negative THEN MIN ELSE MAX

math_add(l, r, saturate) ==
    LET over == add_would_overflow(l.i64, r.i64)
    IN Integer(IF over /\ saturate THEN Saturated(l.i64 <= 0) ELSE Wrap(l.i64 + r.i64),
               l.flags \cup r.flags \cup (IF over THEN {"add_overflow"} ELSE {}))

math_sub(l, r) ==
    LET over == sub_would_overflow(l.i64, r.i64)
    IN Integer(Wrap(l.i64 - r.i64),
               l.flags \cup r.flags \cup (IF over THEN {"sub_overflow"} ELSE {}))

math_mul(l, r, saturate) ==
    LET over == mul_would_overflow(l.i64, r.i64)
    IN Integer(IF over /\ saturate THEN Saturated(~(l.i64 < 0 <=> r.i64 < 0))
               ELSE Wrap(l.i64 * r.i64),
               l.flags \cup r.flags \cup (IF over THEN {"mul_overflow"} ELSE {}))

math_div(num, den) ==
    LET flags == num.flags \cup den.flags
    IN IF den.i64 = 0 THEN Integer(MAX, flags \cup {"zerodiv"})
       ELSE IF num.i64 = MIN /\ den.i64 = -1 THEN Integer(0, flags \cup {"div_overflow"})
       ELSE Integer(Quotient(num.i64, den.i64), flags)

check_bounds(min, max, value) ==
    LET v == set_flags(value, min.flags \cup max.flags)
    IN IF v.i64 < min.i64 THEN Integer(min.i64, v.flags \cup {"bounds"})
       ELSE IF v.i64 > max.i64 THEN Integer(max.i64, v.flags \cup {"bounds"})
       ELSE v

\* strnlen() of a string with the given length.
math_strnlen(length, maxlen) ==
    IF maxlen.flags # {} THEN Integer(0, maxlen.flags)
    ELSE IF maxlen.i64 < 0 THEN Integer(0, {"bounds"})
    ELSE from_i64(IF length < maxlen.i64 THEN length ELSE maxlen.i64)

\* Mutant: a cast that went well clears the scope.
LastCastOnly(scope, v) == v.flags

\* _mlibMathFillFailureInfo(): only a flagged value writes to the scope.
FillFailureInfo(scope, v) == IF v.flags # {} THEN v.flags ELSE scope

-----------------------------------------------------------------------------
(***************************************************************************)
(* The accumulator.                                                        *)
(***************************************************************************)

\* A flagged operand's value means nothing.
Operands == {from_i64(n) : n \in Int64} \cup {Integer(n, {"bounds"}) : n \in {MIN, 0, MAX}}

\* v replaces the accumulator; exact is whether the operation has unflagged
\* operands and a representable result, out that it is a difference of MAX + 1
\* of such operands.
Becomes(v, exact, out) ==
    /\ acc' = v
    /\ sound' = (sound /\ (exact \/ out))
    /\ escaped' = (escaped \/ out)

Load(v, exact) == acc' = v /\ sound' = exact /\ escaped' = FALSE

StartExpression ==
    /\ \/ \E n \in Int64 : Load(from_i64(n), TRUE)
       \/ \E n \in 0 .. (2 * MAX + 1) : Load(from_u64(n), n <= MAX)
       \/ \E length \in {0, 1, MAX}, m \in Operands :
            Load(math_strnlen(length, m), m.flags = {} /\ m.i64 >= 0)
    /\ UNCHANGED <<info, results, hadEscape>>

Operate ==
    /\ \E r \in Operands :
        LET clean == r.flags = {}
        IN \/ \E saturate \in BOOLEAN :
                Becomes(math_add(acc, r, saturate), clean /\ acc.i64 + r.i64 \in Int64, FALSE)
           \/ Becomes(math_sub(acc, r), clean /\ acc.i64 - r.i64 \in Int64,
                      clean /\ acc.i64 - r.i64 = MAX + 1)
           \/ Becomes(math_sub(from_i64(0), acc), -acc.i64 \in Int64, -acc.i64 = MAX + 1)
           \/ \E saturate \in BOOLEAN :
                Becomes(math_mul(acc, r, saturate), clean /\ acc.i64 * r.i64 \in Int64, FALSE)
           \/ Becomes(math_div(acc, r),
                      clean /\ r.i64 # 0 /\ Quotient(acc.i64, r.i64) \in Int64, FALSE)
           \/ Becomes(check_bounds(r, from_i64(MAX), acc), clean /\ acc.i64 >= r.i64, FALSE)
    /\ UNCHANGED <<info, results, hadEscape>>

\* mlibMathInt32(), mlibMathNonNegativeInt32(), mlibMathPositiveInt32(): the
\* value leaves the expression; what is wrong with it stays in the scope.
Cast ==
    /\ \E least \in {-NarrowMax - 1, 0, 1} :
        LET v == check_bounds(from_i64(least), from_i64(NarrowMax), acc)
        IN /\ info' = FillFailureInfo(info, v)
           /\ results' = (results /\ sound /\ ~escaped /\ acc.i64 \in least .. NarrowMax)
           /\ hadEscape' = (hadEscape \/ escaped)
    /\ UNCHANGED <<acc, sound, escaped>>

\* mlib_math_try()
Try ==
    /\ info' = {} /\ results' = TRUE /\ hadEscape' = FALSE
    /\ UNCHANGED <<acc, sound, escaped>>

Init ==
    /\ acc = from_i64(0) /\ sound = TRUE /\ escaped = FALSE
    /\ info = {} /\ results = TRUE /\ hadEscape = FALSE

Next == StartExpression \/ Operate \/ Cast \/ Try

Spec == Init /\ [][Next]_vars

-----------------------------------------------------------------------------
(***************************************************************************)
(* Properties.                                                             *)
(***************************************************************************)

TypeOK ==
    /\ acc \in [i64 : Int64, flags : SUBSET Flags]
    /\ info \subseteq Flags
    /\ {sound, escaped, results, hadEscape} \subseteq BOOLEAN

(* An expression is flagged exactly when one of its operations had no      *)
(* exact result, with one exception: a difference of INT64_MAX + 1 wraps   *)
(* to INT64_MIN and is not flagged, as _mlib_i64_sub_would_overflow()      *)
(* decides a difference by its negation, which has room for one more.      *)
(* integer.h says "Return 'true' iff (left - right) would overflow with    *)
(* int64" (363) and "Any operation that overflows will set a flag          *)
(* indicating the overflow" (390).                                         *)
OneOverflowEscapes == acc.flags = {} <=> sound

(* A scope that mlib_math_catch() does not enter has seen only exact       *)
(* values within the bounds of their casts, also when a cast that failed   *)
(* was followed by others that did not; unless one of its expressions met  *)
(* a difference of INT64_MAX + 1, whose missing flag no catch can find     *)
(* (hadEscape).                                                            *)
UncaughtIsExact == info = {} => results \/ hadEscape
=============================================================================
