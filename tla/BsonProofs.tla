----------------------------- MODULE BsonProofs -----------------------------
(***************************************************************************)
(* BSON documents, for every buffer, depth and sequence of edits: after    *)
(* any number of them, successful or not, the bytes read as the elements   *)
(* that the edits denote, the result is the iterator a walk would give,    *)
(* every mutator still points at its document, and the capacity is right.  *)
(*                                                                         *)
(* The argument: a document is a sequence of places of elements within its *)
(* bytes (IsLayout); it is valid when the documents nested in it are       *)
(* (Valid).  Walking and reading follow the places (WalkIs, DocumentIs);   *)
(* a splice keeps the bytes around it and moves those behind it, so the    *)
(* places of the edited document are the old ones, the new ones and the    *)
(* old ones moved (RangeEdited), and in every document around it one       *)
(* element has grown (AncestorEdited).  Recursive functions are unfolded   *)
(* by exhibiting the function they define and by the least number on which *)
(* two such functions would differ (LeastNatural).                         *)
(***************************************************************************)
EXTENDS Bson, WellFoundedInduction, TLAPS

-----------------------------------------------------------------------------
(* The naturals.                                                           *)

\* The well-ordering of the naturals.
LEMMA LeastNatural ==
    ASSUME NEW T \in SUBSET Nat, T # {}
    PROVE  \E m \in T : \A k \in T : m <= k
<1> DEFINE R == {ss \in Nat \X Nat : ss[1] < ss[2]}
<1>1. IsWellFoundedOn(R, Nat)
  BY NatLessThanWellFounded DEF OpToRel
<1>2. \E x \in T : \A y \in T : ~(<<y, x>> \in R)
  <2> HIDE DEF R
  <2> QED BY <1>1, WFMin
<1>3. \A x, y \in Nat : ~(<<y, x>> \in R) => x <= y
  OBVIOUS
<1> QED BY <1>2, <1>3

-----------------------------------------------------------------------------
(* Bytes.                                                                  *)

\* A buffer is a sequence of bytes.
Byte == 0 .. 255
Buffer == Seq(Byte)

\* The sizes of a 32-bit header that are not negative.
Word == {n \in Nat : n < 256 * (256 * (256 * 128))}

\* A little-endian size is four bytes that read as it.
LEMMA SizeBytes ==
    ASSUME NEW n \in Word
    PROVE  /\ u32le(n) \in Buffer /\ Len(u32le(n)) = 4
           /\ u32le(n)[1] + 256 * (u32le(n)[2] + 256 * (u32le(n)[3] + 256 * u32le(n)[4])) = n
<1> DEFINE q == n \div 256
           r == q \div 256
           t == r \div 256
           u == <<n % 256, q % 256, r % 256, t>>
<1>1. u = u32le(n)
  BY DEF u32le
<1>2. \A m \in Nat : m \div 256 \in Nat /\ m % 256 \in Byte /\ m = 256 * (m \div 256) + (m % 256)
  BY DEF Byte
<1>3. n \in Nat /\ q \in Nat /\ n % 256 \in Byte /\ n = 256 * q + (n % 256)
  BY <1>2 DEF Word
<1> HIDE DEF q
<1>4. r \in Nat /\ q % 256 \in Byte /\ q = 256 * r + (q % 256)
  BY <1>2, <1>3
<1> HIDE DEF r
<1>5. t \in Nat /\ r % 256 \in Byte /\ r = 256 * t + (r % 256)
  BY <1>2, <1>4
<1> HIDE DEF t
<1>6. t \in Byte
  BY <1>3, <1>4, <1>5 DEF Byte, Word
<1>7. u \in Buffer /\ Len(u) = 4 /\ u[1] = n % 256 /\ u[2] = q % 256 /\ u[3] = r % 256 /\ u[4] = t
  BY <1>3, <1>4, <1>5, <1>6 DEF Buffer
<1>8. (n % 256) + 256 * ((q % 256) + 256 * ((r % 256) + 256 * t)) = n
  BY <1>3, <1>4, <1>5 DEF Byte
<1> HIDE DEF u
<1> QED BY <1>1, <1>7, <1>8

\* A size that is read is a natural, and depends on its four bytes only.
LEMMA SizeRead ==
    ASSUME NEW b \in Buffer, NEW p \in Nat, p + 4 <= Len(b)
    PROVE  /\ read_u32le(b, p) \in Nat
           /\ Size(b, p) = read_u32le(b, p)
<1>1. b[p + 1] \in Byte /\ b[p + 2] \in Byte /\ b[p + 3] \in Byte /\ b[p + 4] \in Byte
  BY DEF Buffer
<1>2. \A x \in Byte : x \in Nat
  BY DEF Byte
<1> QED BY <1>1, <1>2, SMTT(30) DEF read_u32le, Size

\* Part of a buffer.
LEMMA BytesOf ==
    ASSUME NEW b \in Buffer, NEW p \in Nat, NEW n \in Nat, p + n <= Len(b)
    PROVE  /\ Bytes(b, p, n) \in Buffer /\ Len(Bytes(b, p, n)) = n
           /\ \A j \in 1 .. n : Bytes(b, p, n)[j] = b[p + j]
BY SMTT(30) DEF Bytes, Buffer

\* Three parts put together.
LEMMA ThreeParts ==
    ASSUME NEW x \in Buffer, NEW y \in Buffer, NEW z \in Buffer
    PROVE  /\ x \o y \o z \in Buffer /\ Len(x \o y \o z) = Len(x) + Len(y) + Len(z)
           /\ \A j \in 1 .. Len(x) : (x \o y \o z)[j] = x[j]
           /\ \A j \in 1 .. Len(y) : (x \o y \o z)[Len(x) + j] = y[j]
           /\ \A j \in 1 .. Len(z) : (x \o y \o z)[Len(x) + Len(y) + j] = z[j]
<1>1. x \o y \o z \in Buffer /\ Len(x \o y \o z) = Len(x) + Len(y) + Len(z)
  BY DEF Buffer
<1>2. \A j \in 1 .. Len(x) : (x \o y \o z)[j] = x[j]
  BY DEF Buffer
<1>3. \A j \in 1 .. Len(y) : (x \o y \o z)[Len(x) + j] = y[j]
  BY DEF Buffer
<1>4. \A j \in 1 .. Len(z) : (x \o y \o z)[Len(x) + Len(y) + j] = z[j]
  BY DEF Buffer
<1> QED BY <1>1, <1>2, <1>3, <1>4

\* Writing a size: the four bytes read as it, the others stay.
LEMMA HeaderWritten ==
    ASSUME NEW b \in Buffer, NEW p \in Nat, p + 4 <= Len(b), NEW n \in Word
    PROVE  LET c == write_u32le(b, p, n)
           IN /\ c \in Buffer /\ Len(c) = Len(b)
              /\ Size(c, p) = n
              /\ \A j \in 1 .. Len(b) : ~(p < j /\ j <= p + 4) => c[j] = b[j]
<1> DEFINE u == u32le(n)
           x == Bytes(b, 0, p)
           y == Bytes(b, p + 4, Len(b) - p - 4)
           c == x \o u \o y
<1>0. Len(b) \in Nat
  BY DEF Buffer
<1>1. u \in Buffer /\ Len(u) = 4 /\ u[1] + 256 * (u[2] + 256 * (u[3] + 256 * u[4])) = n
  BY SizeBytes
<1>2. x \in Buffer /\ Len(x) = p /\ \A j \in 1 .. p : x[j] = b[j]
  BY <1>0, BytesOf
<1>3. y \in Buffer /\ Len(y) = Len(b) - p - 4 /\ \A j \in 1 .. (Len(b) - p - 4) : y[j] = b[p + 4 + j]
  <2>1. p + 4 \in Nat /\ Len(b) - p - 4 \in Nat /\ (p + 4) + (Len(b) - p - 4) <= Len(b)
    BY <1>0
  <2> QED BY <2>1, BytesOf
<1>4. c = write_u32le(b, p, n)
  BY DEF write_u32le
<1> HIDE DEF u, x, y
<1>a. u \in Buffer /\ x \in Buffer /\ y \in Buffer
  BY <1>1, <1>2, <1>3
<1>b. /\ c \in Buffer /\ Len(c) = Len(x) + Len(u) + Len(y)
      /\ \A j \in 1 .. Len(x) : c[j] = x[j]
      /\ \A j \in 1 .. Len(u) : c[Len(x) + j] = u[j]
      /\ \A j \in 1 .. Len(y) : c[Len(x) + Len(u) + j] = y[j]
  BY <1>a, ThreeParts, ZenonT(40)
<1> HIDE DEF c
<1>5. c \in Buffer /\ Len(c) = Len(b)
  BY <1>b, <1>0, <1>1, <1>2, <1>3
<1>6. /\ \A j \in 1 .. p : c[j] = x[j]
      /\ \A j \in 1 .. 4 : c[p + j] = u[j]
      /\ \A j \in 1 .. (Len(b) - p - 4) : c[p + 4 + j] = y[j]
  BY <1>b, <1>1, <1>2, <1>3
<1>7. Size(c, p) = n
  BY <1>1, <1>6 DEF Size, read_u32le
<1>8. ASSUME NEW j \in 1 .. Len(b), ~(p < j /\ j <= p + 4) PROVE c[j] = b[j]
  <2>1. CASE j <= p
    BY <2>1, <1>6, <1>2
  <2>2. CASE j > p + 4
    <3>1. j - p - 4 \in 1 .. (Len(b) - p - 4) /\ p + 4 + (j - p - 4) = j
      BY <1>0, <2>2
    <3> QED BY <3>1, <1>6, <1>3, ZenonT(40)
  <2> QED BY <1>8, <1>0, <2>1, <2>2
<1> QED BY <1>4, <1>5, <1>7, <1>8

-----------------------------------------------------------------------------
(* Strings.                                                                *)

\* The C string at p has n bytes.
IsStr(b, p, n) ==
    /\ n \in Nat /\ p + n + 1 <= Len(b) /\ b[p + n + 1] = 0
    /\ \A k \in 0 .. (n - 1) : b[p + k + 1] # 0

\* strlen() finds the length of a string.
LEMMA StrlenIs ==
    ASSUME NEW b \in Buffer, NEW p \in Nat, NEW n, IsStr(b, p, n)
    PROVE  strlen(b, p) = n
<1> DEFINE P(m) == (m = Len(b) - p \/ b[p + m + 1] = 0) /\ \A k \in 0 .. (m - 1) : b[p + k + 1] # 0
<1>1. n \in 0 .. (Len(b) - p) /\ n # Len(b) - p /\ P(n) /\ b[p + n + 1] = 0
  BY DEF IsStr, Buffer
<1>2. ASSUME NEW m \in 0 .. (Len(b) - p), P(m) PROVE m = n
  <2>1. CASE m < n
    <3>1. m \in 0 .. (n - 1) /\ m # Len(b) - p
      BY <1>1, <2>1
    <3> QED BY <1>1, <1>2, <3>1
  <2>2. CASE n < m
    <3>1. n \in 0 .. (m - 1)
      BY <1>1, <2>2
    <3> QED BY <1>1, <1>2, <3>1
  <2>3. m \in Int /\ n \in Int
    BY <1>1
  <2> QED BY <2>1, <2>2, <2>3
<1>3. strlen(b, p) = CHOOSE m \in 0 .. (Len(b) - p) : P(m)
  BY DEF strlen
<1> HIDE DEF P
<1> QED BY <1>1, <1>2, <1>3

\* Where there is a NUL byte, there is a string.
LEMMA StrlenFinds ==
    ASSUME NEW b \in Buffer, NEW p \in Nat, NEW j \in Nat, p < j, j <= Len(b), b[j] = 0
    PROVE  IsStr(b, p, strlen(b, p)) /\ p + strlen(b, p) + 1 <= j
<1> DEFINE T == {m \in Nat : p + m + 1 <= j /\ b[p + m + 1] = 0}
<1>1. j - p - 1 \in T
  <2>1. j - p - 1 \in Nat /\ p + (j - p - 1) + 1 = j
    OBVIOUS
  <2> QED BY <2>1
<1>2. PICK m \in T : \A k \in T : m <= k
  BY <1>1, LeastNatural
<1>3. IsStr(b, p, m)
  <2>1. m \in Nat /\ p + m + 1 <= Len(b) /\ b[p + m + 1] = 0
    BY <1>2 DEF Buffer
  <2>2. ASSUME NEW k \in 0 .. (m - 1), b[p + k + 1] = 0 PROVE FALSE
    <3>1. k \in T
      BY <1>2, <2>2
    <3>2. m <= k
      BY <1>2, <3>1
    <3> QED BY <2>1, <3>2
  <2> QED BY <2>1, <2>2 DEF IsStr
<1>4. strlen(b, p) = m
  BY <1>3, StrlenIs
<1> QED BY <1>2, <1>3, <1>4

\* In any case strlen() finds a length.
LEMMA StrlenNat ==
    ASSUME NEW b \in Buffer, NEW p \in Nat, p <= Len(b)
    PROVE  strlen(b, p) \in Nat
<1> DEFINE l == Len(b) - p
           P(m) == (m = Len(b) - p \/ b[p + m + 1] = 0) /\ \A k \in 0 .. (m - 1) : b[p + k + 1] # 0
<1>1. CASE \E j \in 1 .. Len(b) : p < j /\ b[j] = 0
  <2>1. PICK j \in 1 .. Len(b) : p < j /\ b[j] = 0
    BY <1>1
  <2>2. IsStr(b, p, strlen(b, p))
    <3>1. j \in Nat /\ j <= Len(b)
      BY <2>1 DEF Buffer
    <3> QED BY <2>1, <3>1, StrlenFinds
  <2> QED BY <2>2 DEF IsStr
<1>2. CASE ~\E j \in 1 .. Len(b) : p < j /\ b[j] = 0
  <2>1. l \in Nat /\ l \in 0 .. l /\ Len(b) \in Nat
    BY DEF Buffer
  <2>2. ASSUME NEW k \in 0 .. (l - 1) PROVE b[p + k + 1] # 0
    <3>1. p + k + 1 \in 1 .. Len(b) /\ p < p + k + 1
      BY <2>1
    <3> QED BY <3>1, <1>2
  <2>3. l \in 0 .. (Len(b) - p) /\ P(l)
    BY <2>1, <2>2
  <2>4. strlen(b, p) = CHOOSE m \in 0 .. (Len(b) - p) : P(m)
    BY DEF strlen
  <2>5. \A m \in 0 .. (Len(b) - p) : m \in Nat
    BY <2>1
  <2> HIDE DEF P, l
  <2>6. strlen(b, p) \in 0 .. (Len(b) - p)
    BY <2>3, <2>4
  <2> QED BY <2>5, <2>6
<1> QED BY <1>1, <1>2

\* The same bytes elsewhere.
Same(b, x, c, z, n) == \A j \in 1 .. n : c[z + j] = b[x + j]

\* A string is a string wherever its bytes are.
LEMMA StrMoves ==
    ASSUME NEW b \in Buffer, NEW c \in Buffer, NEW x \in Nat, NEW z \in Nat, NEW n \in Nat,
           NEW o \in Nat, NEW m, Same(b, x, c, z, n), z + n <= Len(c),
           IsStr(b, x + o, m), o + m + 1 <= n
    PROVE  IsStr(c, z + o, m)
<1>1. m \in Nat /\ b[x + o + m + 1] = 0 /\ \A k \in 0 .. (m - 1) : b[x + o + k + 1] # 0
  BY DEF IsStr
<1>2. ASSUME NEW k \in 0 .. m PROVE c[z + o + k + 1] = b[x + o + k + 1]
  <2>1. o + k + 1 \in 1 .. n
    BY <1>1
  <2>2. c[z + (o + k + 1)] = b[x + (o + k + 1)]
    BY <2>1 DEF Same
  <2>3. z + (o + k + 1) = z + o + k + 1 /\ x + (o + k + 1) = x + o + k + 1
    OBVIOUS
  <2> QED BY <2>2, <2>3
<1>3. c[z + o + m + 1] = 0
  <2>1. m \in 0 .. m
    BY <1>1
  <2> QED BY <1>1, <1>2, <2>1
<1>4. ASSUME NEW k \in 0 .. (m - 1) PROVE c[z + o + k + 1] # 0
  <2>1. k \in 0 .. m
    BY <1>1
  <2> QED BY <1>1, <1>2, <2>1
<1> QED BY <1>1, <1>3, <1>4 DEF IsStr, Buffer

-----------------------------------------------------------------------------
(* Elements.                                                               *)

\* The length of the key, and where the value begins.
KeyLen(b, x) == strlen(b, x + 1)
ValueAt(b, x) == x + KeyLen(b, x) + 2

\* The length of the options of a regular expression at v, and of any value.
Options(b, v) == strlen(b, v + strlen(b, v) + 1)
ValueLen(b, t, v) ==
    IF t = regex THEN strlen(b, v) + Options(b, v) + 2
    ELSE ConstSize(t) + (IF HasVarsizePrefix(t) THEN read_u32le(b, v) ELSE 0)

\* A value of n bytes that can be read.
ValueOk(b, t, v, n) ==
    /\ t \notin {dbpointer, 15}
    /\ t = regex \/ ConstSize(t) # MaxInt
    /\ t = regex => IsStr(b, v, strlen(b, v)) /\ IsStr(b, v + strlen(b, v) + 1, Options(b, v))
    /\ HasVarsizePrefix(t) => n >= 4
    /\ t \in {utf8, 13, 14} => n >= 5
    /\ t \in {document, array} => n >= 5 /\ b[v + n] = 0

\* The bytes x .. y - 1 of b are an element.
Elem(b, x, y) ==
    /\ x \in Nat /\ y \in Nat /\ y <= Len(b)
    /\ IsStr(b, x + 1, KeyLen(b, x))
    /\ ValueAt(b, x) <= y
    /\ y = ValueAt(b, x) + ValueLen(b, b[x + 1], ValueAt(b, x))
    /\ ValueOk(b, b[x + 1], ValueAt(b, x), y - ValueAt(b, x))

\* The fixed part of the size of a value.
LEMMA ConstSizes ==
    ASSUME NEW t \in Byte
    PROVE  /\ ConstSize(t) \in Nat
           /\ ConstSize(t) # MaxInt => ConstSize(t) <= 16
           /\ t \notin {dbpointer, 15} /\ HasVarsizePrefix(t) => ConstSize(t) \in {0, 4, 5}
           /\ t \in {document, array} => ConstSize(t) = 0 /\ HasVarsizePrefix(t)
           /\ ConstSize(regex) = MaxInt /\ ~HasVarsizePrefix(regex)
<1>0. MaxInt \in Nat /\ MaxInt > 16
  BY SizesAssumption
<1>1. /\ ConstSize(t) \in Nat
      /\ ConstSize(t) # MaxInt => ConstSize(t) <= 16
  BY <1>0 DEF ConstSize, utf8, int32, binary, dbpointer, bool, eod, document, array, null
<1>2. t \notin {dbpointer, 15} /\ HasVarsizePrefix(t) => ConstSize(t) \in {0, 4, 5}
  BY DEF ConstSize, HasVarsizePrefix, utf8, int32, binary, dbpointer, bool, eod, document, array, null
<1>3. t \in {document, array} => ConstSize(t) = 0 /\ HasVarsizePrefix(t)
  BY DEF ConstSize, HasVarsizePrefix, utf8, int32, binary, dbpointer, bool, eod, document, array, null
<1>4. ConstSize(regex) = MaxInt /\ ~HasVarsizePrefix(regex)
  BY DEF ConstSize, HasVarsizePrefix, regex, utf8, int32, binary, dbpointer, bool, eod, document, array, null
<1> QED BY <1>1, <1>2, <1>3, <1>4

\* _bson_valsize() finds the length of a value that leaves some of maxlen.
LEMMA ValSizeIs ==
    ASSUME NEW b \in Buffer, NEW t \in Byte, NEW v \in Nat, NEW n \in Nat, NEW m \in Int,
           n = ValueLen(b, t, v), ValueOk(b, t, v, n), n < m, m <= MaxInt
    PROVE  _bson_valsize(b, t, v, m) = n
<1>0. MaxInt \in Nat /\ MaxInt > 16
  BY SizesAssumption
<1>1. ConstSize(t) \in Nat /\ (HasVarsizePrefix(t) => n >= 4)
  BY ConstSizes DEF ValueOk
<1>2. CASE t = regex
  <2> DEFINE r == strlen(b, v)
             o == Options(b, v)
  <2>1. n = r + o + 2 /\ r \in Nat /\ o \in Nat
    BY <1>2 DEF ValueLen, ValueOk, IsStr
  <2>2. strlen(b, v + (r + 1)) = o
    <3>1. v + (r + 1) = v + r + 1
      BY <2>1
    <3> QED BY <3>1 DEF Options
  <2>3. ConstSize(t) = MaxInt /\ ~HasVarsizePrefix(t)
    BY <1>2, ConstSizes
  <2> HIDE DEF r, o
  <2>4. _bson_value_re_len(b, v, m) = n
    <3>1. _bson_value_re_len(b, v, m) =
            IF r + 1 > m THEN invalid_length
            ELSE IF (m - (r + 1)) - o < 2 THEN short_read ELSE (r + 1) + o + 1
      BY <2>2 DEF _bson_value_re_len, r
    <3> QED BY <3>1, <2>1
  <2>5. _bson_valsize(b, t, v, m) = _bson_value_re_len(b, v, m)
    BY <1>0, <1>2, <2>3 DEF _bson_valsize
  <2> QED BY <2>4, <2>5
<1>3. CASE t # regex
  <2>1. n = ConstSize(t) + (IF HasVarsizePrefix(t) THEN read_u32le(b, v) ELSE 0)
    BY <1>3 DEF ValueLen
  <2> QED BY <1>1, <2>1 DEF _bson_valsize
<1> QED BY <1>2, <1>3

\* What an element is made of.
LEMMA ElemParts ==
    ASSUME NEW b \in Buffer, NEW x, NEW y, Elem(b, x, y)
    PROVE  /\ x \in Nat /\ y \in Nat /\ y <= Len(b) /\ Len(b) \in Nat
           /\ KeyLen(b, x) \in Nat /\ ValueAt(b, x) \in Nat
           /\ ValueAt(b, x) = x + KeyLen(b, x) + 2
           /\ x + 2 <= ValueAt(b, x) /\ ValueAt(b, x) <= y
           /\ y - ValueAt(b, x) \in Nat
           /\ y - ValueAt(b, x) = ValueLen(b, b[x + 1], ValueAt(b, x))
           /\ b[x + 1] \in Byte
<1>1. x \in Nat /\ y \in Nat /\ y <= Len(b) /\ Len(b) \in Nat /\ KeyLen(b, x) \in Nat
  BY DEF Elem, IsStr, Buffer
<1>2. ValueAt(b, x) \in Nat /\ ValueAt(b, x) = x + KeyLen(b, x) + 2 /\ x + 2 <= ValueAt(b, x)
  BY <1>1 DEF ValueAt
<1>3. ValueAt(b, x) <= y /\ y = ValueAt(b, x) + ValueLen(b, b[x + 1], ValueAt(b, x))
  BY DEF Elem
<1>4. x + 1 \in 1 .. Len(b)
  BY <1>1, <1>2, <1>3
<1>5. b[x + 1] \in Byte
  BY <1>4 DEF Buffer
<1>6. ConstSize(b[x + 1]) \in Nat
  BY <1>5, ConstSizes
<1>7. ValueLen(b, b[x + 1], ValueAt(b, x)) \in Nat
  <2> DEFINE v == ValueAt(b, x)
  <2>1. CASE b[x + 1] = regex
    <3>1. IsStr(b, v, strlen(b, v)) /\ IsStr(b, v + strlen(b, v) + 1, Options(b, v))
      BY <2>1 DEF Elem, ValueOk
    <3>2. strlen(b, v) \in Nat /\ Options(b, v) \in Nat
      BY <3>1 DEF IsStr
    <3> QED BY <2>1, <3>2 DEF ValueLen
  <2>2. CASE b[x + 1] # regex /\ ~HasVarsizePrefix(b[x + 1])
    BY <2>2, <1>6 DEF ValueLen
  <2>3. CASE b[x + 1] # regex /\ HasVarsizePrefix(b[x + 1])
    <3>1. y - v >= 4
      BY <2>3 DEF Elem, ValueOk
    <3>2. v + 4 <= Len(b)
      BY <3>1, <1>1, <1>2
    <3>3. read_u32le(b, v) \in Nat
      BY <3>2, <1>2, SizeRead
    <3> QED BY <2>3, <3>3, <1>6 DEF ValueLen
  <2> QED BY <2>1, <2>2, <2>3
<1> QED BY <1>1, <1>2, <1>3, <1>5, <1>7

\* The iterator at an element.
LEMMA IteratorAtElem ==
    ASSUME NEW b \in Buffer, NEW x, NEW y, Elem(b, x, y), NEW m \in Int, y - x < m, m <= MaxInt
    PROVE  _bson_iterator_at(b, x, m) = Iterator(x, KeyLen(b, x), m)
<1> DEFINE kl == KeyLen(b, x)
           v == ValueAt(b, x)
           n == y - v
           t == b[x + 1]
<1>1. /\ x \in Nat /\ y \in Nat /\ kl \in Nat /\ v \in Nat /\ n \in Nat /\ t \in Byte
      /\ v = x + kl + 2 /\ n = ValueLen(b, t, v) /\ ValueOk(b, t, v, n)
  BY ElemParts DEF Elem
<1>2. m - kl - 2 \in Int /\ n < m - kl - 2 /\ m - kl - 2 <= MaxInt
  BY <1>1, SizesAssumption
<1>3. strlen(b, x + 1) = kl
  BY DEF KeyLen
<1> HIDE DEF kl, v, n, t
<1>4. _bson_valsize(b, t, v, m - kl - 2) = n
  BY <1>1, <1>2, ValSizeIs
<1>5. t \in {document, array} => b[v + n] = 0
  BY <1>1 DEF ValueOk
<1>6. _bson_iterator_at(b, x, m) =
        IF m = 1 THEN Iterator(x, 0, 1)
        ELSE IF m - kl - 2 < 1 THEN _bson_iterator_error(short_read)
        ELSE IF n < 0 THEN _bson_iterator_error(n)
        ELSE IF t \in {document, array} /\ b[v + n] # 0 THEN _bson_iterator_error(invalid_document)
        ELSE Iterator(x, kl, m)
  <2>1. b[x + 1] = t
    BY DEF t
  <2> QED BY <1>1, <1>3, <1>4, <2>1 DEF _bson_iterator_at
<1>7. m # 1 /\ ~(m - kl - 2 < 1) /\ ~(n < 0)
  BY <1>1, <1>2
<1> QED BY <1>5, <1>6, <1>7 DEF kl

\* The iterator behind an element.
LEMMA IteratorAfterElem ==
    ASSUME NEW b \in Buffer, NEW x, NEW y, Elem(b, x, y), NEW m \in Int, y - x < MaxInt
    PROVE  /\ ValuePtr(Iterator(x, KeyLen(b, x), m)) = ValueAt(b, x)
           /\ bson_iterator_data_size(b, Iterator(x, KeyLen(b, x), m)) = y - x
           /\ bson_next(b, Iterator(x, KeyLen(b, x), m)) = _bson_iterator_at(b, y, m - (y - x))
<1> DEFINE kl == KeyLen(b, x)
           v == ValueAt(b, x)
           n == y - v
           t == b[x + 1]
           it == Iterator(x, kl, m)
<1>1. /\ x \in Nat /\ y \in Nat /\ kl \in Nat /\ v \in Nat /\ n \in Nat /\ t \in Byte
      /\ v = x + kl + 2 /\ n = ValueLen(b, t, v) /\ ValueOk(b, t, v, n)
  BY ElemParts DEF Elem
<1>2. MaxInt \in Int /\ n < MaxInt
  BY <1>1, SizesAssumption
<1>3. it.at = x /\ it.keylen = kl /\ it.rlen = m
  BY DEF Iterator
<1>4. b[it.at + 1] = t
  BY <1>3
<1>5. y = x + (kl + 2 + n)
  BY <1>1
<1> HIDE DEF it, n, v, t, kl
<1>6. _bson_valsize(b, t, v, MaxInt) = n
  BY <1>1, <1>2, ValSizeIs
<1>7. ValuePtr(it) = v
  BY <1>1, <1>3 DEF ValuePtr
<1>8. bson_iterator_data_size(b, it) = y - x
  <2>1. bson_iterator_data_size(b, it) = kl + 2 + n
    BY <1>3, <1>4, <1>6, <1>7 DEF bson_iterator_data_size
  <2> QED BY <2>1, <1>1, <1>5
<1>9. bson_next(b, it) = _bson_iterator_at(b, y, m - (y - x))
  <2>1. x + (y - x) = y
    BY <1>1
  <2> QED BY <1>3, <1>8, <2>1 DEF bson_next
<1> QED BY <1>7, <1>8, <1>9 DEF it, v, kl

\* The iterator at the end.
LEMMA IteratorAtEnd == \A b, z : _bson_iterator_at(b, z, 1) = Iterator(z, 0, 1)
BY DEF _bson_iterator_at

-----------------------------------------------------------------------------
(* Documents.                                                              *)

\* The document at p of b has its elements at a[1], a[2], ..., its end at the
\* last of them.
IsLayout(b, p, a) ==
    /\ p \in Nat /\ p + 5 <= Len(b)
    /\ a \in Seq(Nat) /\ Len(a) >= 1
    /\ a[1] = p + 4
    /\ a[Len(a)] = (p + Size(b, p)) - 1
    /\ p + Size(b, p) <= Len(b)
    /\ b[p + Size(b, p)] = 0
    /\ \A k \in 1 .. (Len(a) - 1) : Elem(b, a[k], a[k + 1])

\* The elements follow each other within the document.
LEMMA LayoutOrder ==
    ASSUME NEW b \in Buffer, NEW p, NEW a, IsLayout(b, p, a)
    PROVE  /\ p \in Nat /\ Len(b) \in Nat /\ Len(a) \in Nat /\ Len(a) >= 1 /\ Size(b, p) \in Nat
           /\ \A k \in 1 .. Len(a) : a[k] \in Nat
           /\ \A k \in 1 .. (Len(a) - 1) : k \in 1 .. Len(a) /\ k + 1 \in 1 .. Len(a) /\ a[k] + 2 <= a[k + 1]
           /\ \A j, k \in 1 .. Len(a) : j <= k => a[j] + 2 * (k - j) <= a[k]
           /\ \A k \in 1 .. Len(a) : p + 4 <= a[k] /\ a[k] <= (p + Size(b, p)) - 1
           /\ Size(b, p) >= 5 /\ Len(a) - 1 <= Len(b) \div 2
<1>1. p \in Nat /\ Len(b) \in Nat /\ Len(a) \in Nat /\ Len(a) >= 1 /\ \A k \in 1 .. Len(a) : a[k] \in Nat
  BY DEF IsLayout, Buffer
<1>2. Size(b, p) \in Nat
  BY <1>1, SizeRead DEF IsLayout
<1>3. ASSUME NEW k \in 1 .. (Len(a) - 1)
      PROVE  k \in 1 .. Len(a) /\ k + 1 \in 1 .. Len(a) /\ a[k] + 2 <= a[k + 1]
  <2>1. k \in 1 .. Len(a) /\ k + 1 \in 1 .. Len(a)
    BY <1>1
  <2>2. Elem(b, a[k], a[k + 1])
    BY DEF IsLayout
  <2>3. a[k] \in Nat /\ a[k + 1] \in Nat /\ ValueAt(b, a[k]) \in Nat
        /\ a[k] + 2 <= ValueAt(b, a[k]) /\ ValueAt(b, a[k]) <= a[k + 1]
    BY <2>2, ElemParts
  <2> QED BY <2>1, <2>3
<1>4. ASSUME NEW j \in 1 .. Len(a), NEW k \in 1 .. Len(a), j <= k
      PROVE  a[j] + 2 * (k - j) <= a[k]
  <2> DEFINE T == {i \in Nat : i \in j .. Len(a) /\ ~(a[j] + 2 * (i - j) <= a[i])}
  <2> SUFFICES ASSUME T # {} PROVE FALSE
    <3>1. k \in Nat /\ k \in j .. Len(a)
      BY <1>1, <1>4
    <3> QED BY <3>1
  <2>1. PICK i \in T : \A h \in T : i <= h
    <3>1. T \in SUBSET Nat
      OBVIOUS
    <3> HIDE DEF T
    <3> QED BY <3>1, LeastNatural
  <2>a. i \in Nat /\ i \in j .. Len(a) /\ ~(a[j] + 2 * (i - j) <= a[i]) /\ a[j] \in Nat /\ j \in Nat
    BY <1>1, <2>1
  <2>b. i # j
    BY <2>a
  <2>2. i \in 1 .. Len(a) /\ i # j /\ i - 1 \in 1 .. (Len(a) - 1) /\ i - 1 \in j .. Len(a) /\ i - 1 \in Nat
    BY <1>1, <2>a, <2>b
  <2>3. i - 1 \notin T
    BY <2>1, <2>2
  <2>4. a[j] + 2 * ((i - 1) - j) <= a[i - 1]
    BY <2>2, <2>3
  <2>5. a[i - 1] + 2 <= a[i]
    <3>1. a[i - 1] + 2 <= a[(i - 1) + 1]
      BY <1>3, <2>2
    <3>2. (i - 1) + 1 = i
      BY <2>2
    <3> QED BY <3>1, <3>2
  <2>6. a[i - 1] \in Nat /\ a[i] \in Nat /\ a[j] \in Nat
    BY <1>1, <2>2
  <2>7. a[j] + 2 * (i - j) <= a[i]
    <3> DEFINE u == 2 * ((i - 1) - j)
    <3>1. u \in Int /\ 2 * (i - j) = u + 2
      BY <2>a
    <3>2. a[j] + u <= a[i - 1]
      BY <2>4
    <3> HIDE DEF u
    <3>a. \A x, y, z, m \in Int : x + m <= y /\ y + 2 <= z => x + (m + 2) <= z
      OBVIOUS
    <3>3. a[j] + (u + 2) <= a[i]
      <4>1. a[j] \in Int /\ a[i - 1] \in Int /\ a[i] \in Int /\ u \in Int
        BY <3>1, <2>6, SMTT(30)
      <4> HIDE DEF T
      <4> QED BY <4>1, <3>a, <3>2, <2>5
    <3> QED BY <3>1, <3>3
  <2> QED BY <2>1, <2>7
<1>5. 1 \in 1 .. Len(a) /\ Len(a) \in 1 .. Len(a)
  BY <1>1
<1>6. a[1] = p + 4 /\ a[Len(a)] = (p + Size(b, p)) - 1 /\ p + Size(b, p) <= Len(b)
  BY DEF IsLayout
<1>7. ASSUME NEW k \in 1 .. Len(a) PROVE p + 4 <= a[k] /\ a[k] <= (p + Size(b, p)) - 1
  <2>1. a[1] + 2 * (k - 1) <= a[k] /\ a[k] + 2 * (Len(a) - k) <= a[Len(a)]
    BY <1>4, <1>5
  <2> QED BY <2>1, <1>1, <1>2, <1>6, SMTT(30)
<1>8. Size(b, p) >= 5 /\ Len(a) - 1 <= Len(b) \div 2
  <2>1. a[1] + 2 * (Len(a) - 1) <= a[Len(a)]
    BY <1>4, <1>5, <1>1
  <2>2. 2 * (Len(a) - 1) <= Len(b) /\ Size(b, p) >= 5
    BY <2>1, <1>1, <1>2, <1>6
  <2>3. \A m, n \in Nat : 2 * m <= n => m <= n \div 2
    OBVIOUS
  <2>4. Len(a) - 1 \in Nat
    BY <1>1
  <2> QED BY <2>2, <2>3, <2>4, <1>1
<1> QED BY <1>1, <1>2, <1>3, <1>4, <1>7, <1>8

-----------------------------------------------------------------------------
(* Iteration.                                                              *)

\* f is the function that foreach() defines, on 0 .. n.
Walks(f, b, p, n) ==
    f = [i \in 0 .. n |-> IF i = 0 THEN <<bson_begin(b, p)>> ELSE WalkOn(b, f[i - 1])]

\* The one it takes.
WalkOf(b, p) == CHOOSE f : Walks(f, b, p, Len(b) \div 2)

\* The walk is defined to any length.
LEMMA WalkExists ==
    ASSUME NEW b, NEW p, NEW n \in Nat
    PROVE  \E f : Walks(f, b, p, n)
<1> DEFINE T == {m \in Nat : ~ \E f : Walks(f, b, p, m)}
<1> SUFFICES ASSUME T # {} PROVE FALSE
  OBVIOUS
<1>1. PICK m \in T : \A k \in T : m <= k
  BY LeastNatural
<1>2. m # 0
  <2>1. Walks([i \in 0 .. 0 |-> <<bson_begin(b, p)>>], b, p, 0)
    BY DEF Walks
  <2> QED BY <2>1
<1>3. m - 1 \in Nat /\ m - 1 \notin T
  BY <1>1, <1>2
<1>4. PICK f : Walks(f, b, p, m - 1)
  BY <1>3
<1> DEFINE e == [i \in 0 .. m |-> IF i = m THEN WalkOn(b, f[m - 1]) ELSE f[i]]
<1>5. ASSUME NEW i \in 0 .. m
      PROVE  e[i] = IF i = 0 THEN <<bson_begin(b, p)>> ELSE WalkOn(b, e[i - 1])
  <2>1. CASE i = m
    <3>1. e[i] = WalkOn(b, f[m - 1]) /\ m - 1 \in 0 .. m /\ m - 1 # m
      BY <1>3, <2>1
    <3>2. e[m - 1] = f[m - 1]
      BY <3>1
    <3> QED BY <1>2, <2>1, <3>1, <3>2
  <2>2. CASE i # m
    <3>1. i \in 0 .. (m - 1) /\ e[i] = f[i]
      BY <1>3, <2>2
    <3>2. f[i] = IF i = 0 THEN <<bson_begin(b, p)>> ELSE WalkOn(b, f[i - 1])
      BY <1>4, <3>1 DEF Walks
    <3>3. i # 0 => i - 1 \in 0 .. m /\ i - 1 # m
      BY <3>1
    <3>4. i # 0 => e[i - 1] = f[i - 1]
      BY <3>3
    <3> QED BY <3>1, <3>2, <3>4
  <2> QED BY <2>1, <2>2
<1>6. Walks(e, b, p, m)
  BY <1>5 DEF Walks
<1> QED BY <1>6

\* The equations of the walk.
LEMMA WalkUnfolds ==
    ASSUME NEW b \in Buffer, NEW p
    PROVE  /\ Len(b) \div 2 \in Nat
           /\ WalkOf(b, p)[0] = <<bson_begin(b, p)>>
           /\ \A i \in 1 .. (Len(b) \div 2) : WalkOf(b, p)[i] = WalkOn(b, WalkOf(b, p)[i - 1])
           /\ foreach(b, p) = WalkOf(b, p)[Len(b) \div 2]
<1> DEFINE n == Len(b) \div 2
           f == WalkOf(b, p)
<1>0. n \in Nat
  <2>1. Len(b) \in Nat
    BY DEF Buffer
  <2> QED BY <2>1
<1>1. foreach(b, p) = f[n]
  BY DEF foreach, WalkOf, Walks
<1> HIDE DEF n
<1>2. Walks(f, b, p, n)
  BY <1>0, WalkExists DEF WalkOf, n
<1> HIDE DEF f
<1>3. \A i \in 0 .. n : f[i] = IF i = 0 THEN <<bson_begin(b, p)>> ELSE WalkOn(b, f[i - 1])
  BY <1>2 DEF Walks
<1>4. 0 \in 0 .. n /\ \A i \in 1 .. n : i \in 0 .. n /\ i # 0
  BY <1>0
<1>5. f[0] = <<bson_begin(b, p)>>
  BY <1>3, <1>4
<1>6. \A i \in 1 .. n : f[i] = WalkOn(b, f[i - 1])
  BY <1>3, <1>4
<1> QED BY <1>0, <1>1, <1>5, <1>6 DEF f, n

\* The iterators of a document.
IteratorOf(b, p, a, k) ==
    Iterator(a[k], IF k = Len(a) THEN 0 ELSE KeyLen(b, a[k]), (p + Size(b, p)) - a[k])
WalkOver(b, p, a) == [k \in 1 .. Len(a) |-> IteratorOf(b, p, a, k)]

\* Each is what _bson_iterator_at() makes, and leads to the next.
LEMMA IteratorsOf ==
    ASSUME NEW b \in Buffer, Len(b) <= MaxInt, NEW p, NEW a, IsLayout(b, p, a), NEW k \in 1 .. Len(a)
    PROVE  /\ _bson_iterator_at(b, a[k], (p + Size(b, p)) - a[k]) = IteratorOf(b, p, a, k)
           /\ bson_stop(IteratorOf(b, p, a, k)) <=> k = Len(a)
           /\ k # Len(a) => /\ ValuePtr(IteratorOf(b, p, a, k)) = ValueAt(b, a[k])
                            /\ bson_next(b, IteratorOf(b, p, a, k)) = IteratorOf(b, p, a, k + 1)
<1> DEFINE S == p + Size(b, p)
<1>0. /\ p \in Nat /\ Len(b) \in Nat /\ Len(a) \in Nat /\ Len(a) >= 1 /\ S \in Nat
      /\ \A i \in 1 .. Len(a) : a[i] \in Nat /\ a[i] <= S - 1
      /\ S <= Len(b) /\ a[Len(a)] = S - 1 /\ MaxInt \in Nat
  <2>1. /\ p \in Nat /\ Len(b) \in Nat /\ Len(a) \in Nat /\ Len(a) >= 1 /\ Size(b, p) \in Nat
        /\ \A i \in 1 .. Len(a) : a[i] \in Nat /\ a[i] <= (p + Size(b, p)) - 1
    BY LayoutOrder
  <2>2. p + Size(b, p) <= Len(b) /\ a[Len(a)] = (p + Size(b, p)) - 1
    BY DEF IsLayout
  <2>3. MaxInt \in Nat
    BY SizesAssumption
  <2> QED BY <2>1, <2>2, <2>3
<1>a. \A i : IteratorOf(b, p, a, i) = Iterator(a[i], IF i = Len(a) THEN 0 ELSE KeyLen(b, a[i]), S - a[i])
  BY Zenon DEF IteratorOf
<1> HIDE DEF S
<1>1. ASSUME NEW i \in 1 .. Len(a)
      PROVE  _bson_iterator_at(b, a[i], S - a[i]) = IteratorOf(b, p, a, i)
  <2>1. CASE i = Len(a)
    <3>1. S - a[i] = 1
      BY <2>1, <1>0
    <3>2. IteratorOf(b, p, a, i) = Iterator(a[i], 0, 1)
      BY <1>a, <2>1, <3>1
    <3> QED BY <3>1, <3>2, IteratorAtEnd
  <2>2. CASE i # Len(a)
    <3>1. i \in 1 .. (Len(a) - 1) /\ i + 1 \in 1 .. Len(a)
      BY <2>2, <1>0
    <3>2. Elem(b, a[i], a[i + 1])
      BY <3>1 DEF IsLayout
    <3>3. S - a[i] \in Int /\ a[i + 1] - a[i] < S - a[i] /\ S - a[i] <= MaxInt
      BY <3>1, <1>0, SMTT(30)
    <3>4. _bson_iterator_at(b, a[i], S - a[i]) = Iterator(a[i], KeyLen(b, a[i]), S - a[i])
      BY <3>2, <3>3, IteratorAtElem
    <3> QED BY <1>a, <2>2, <3>4
  <2> QED BY <2>1, <2>2
<1>2. bson_stop(IteratorOf(b, p, a, k)) <=> k = Len(a)
  <2>1. IteratorOf(b, p, a, k).rlen = S - a[k]
    BY <1>a DEF Iterator
  <2>2. CASE k = Len(a)
    BY <1>0, <2>1, <2>2 DEF bson_stop
  <2>3. CASE k # Len(a)
    <3>1. k \in 1 .. (Len(a) - 1)
      BY <2>3, <1>0
    <3>2. a[k] + 2 <= a[k + 1] /\ k + 1 \in 1 .. Len(a)
      BY <3>1, LayoutOrder
    <3>3. ~(S - a[k] <= 1)
      BY <3>2, <1>0, SMTT(30)
    <3> QED BY <2>1, <2>3, <3>3 DEF bson_stop
  <2> QED BY <2>2, <2>3
<1>3. ASSUME k # Len(a)
      PROVE  /\ ValuePtr(IteratorOf(b, p, a, k)) = ValueAt(b, a[k])
             /\ bson_next(b, IteratorOf(b, p, a, k)) = IteratorOf(b, p, a, k + 1)
  <2>1. k \in 1 .. (Len(a) - 1) /\ k + 1 \in 1 .. Len(a)
    BY <1>3, <1>0
  <2>2. Elem(b, a[k], a[k + 1])
    BY <2>1 DEF IsLayout
  <2>3. S - a[k] \in Int /\ a[k + 1] - a[k] < MaxInt /\ (S - a[k]) - (a[k + 1] - a[k]) = S - a[k + 1]
    BY <2>1, <1>0, SMTT(30)
  <2>4. IteratorOf(b, p, a, k) = Iterator(a[k], KeyLen(b, a[k]), S - a[k])
    BY <1>3, <1>a
  <2>5. /\ ValuePtr(IteratorOf(b, p, a, k)) = ValueAt(b, a[k])
        /\ bson_next(b, IteratorOf(b, p, a, k)) = _bson_iterator_at(b, a[k + 1], (S - a[k]) - (a[k + 1] - a[k]))
    BY <2>2, <2>3, <2>4, IteratorAfterElem
  <2> QED BY <1>1, <2>1, <2>3, <2>5
<1>4. _bson_iterator_at(b, a[k], (p + Size(b, p)) - a[k]) = IteratorOf(b, p, a, k)
  BY <1>1, Zenon DEF S
<1> QED BY <1>2, <1>3, <1>4

\* A sequence of one element.
LEMMA SingleElement ==
    ASSUME NEW S, NEW s \in Seq(S), Len(s) = 1
    PROVE  s = <<s[1]>>
OBVIOUS

\* A prefix and the element after it.
LEMMA PrefixGrows ==
    ASSUME NEW S, NEW s \in Seq(S), NEW n \in Nat, n < Len(s)
    PROVE  Append(SubSeq(s, 1, n), s[n + 1]) = SubSeq(s, 1, n + 1)
<1> DEFINE l == Append(SubSeq(s, 1, n), s[n + 1])
           r == SubSeq(s, 1, n + 1)
<1>1. SubSeq(s, 1, n) \in Seq(S) /\ s[n + 1] \in S /\ r \in Seq(S)
  OBVIOUS
<1>2. Len(SubSeq(s, 1, n)) = n /\ Len(r) = n + 1 /\ \A k \in 1 .. (n + 1) : r[k] = s[k]
  OBVIOUS
<1>3. l \in Seq(S) /\ Len(l) = n + 1
  BY <1>1, <1>2
<1>4. ASSUME NEW k \in 1 .. (n + 1) PROVE l[k] = s[k]
  <2>1. CASE k = n + 1
    BY <1>1, <1>2, <2>1
  <2>2. CASE k # n + 1
    <3>1. k \in 1 .. n
      BY <2>2
    <3>2. SubSeq(s, 1, n)[k] = s[k]
      BY <3>1
    <3> QED BY <3>1, <3>2, <1>1, <1>2
  <2> QED BY <2>1, <2>2
<1> HIDE DEF l, r
<1>5. l = r
  BY <1>1, <1>2, <1>3, <1>4
<1> QED BY <1>5 DEF l, r

\* Iterating over a document.
LEMMA WalkIs ==
    ASSUME NEW b \in Buffer, Len(b) <= MaxInt, NEW p, NEW a, IsLayout(b, p, a)
    PROVE  foreach(b, p) = WalkOver(b, p, a)
<1> DEFINE W == WalkOver(b, p, a)
           N == Len(a)
           f == WalkOf(b, p)
           M == Len(b) \div 2
           G(i) == SubSeq(W, 1, IF i + 1 <= N THEN i + 1 ELSE N)
           T == {i \in Nat : i <= M /\ f[i] # G(i)}
           Stops == {IteratorOf(b, p, a, k) : k \in 1 .. N}
<1>0. N \in Nat /\ N >= 1 /\ M \in Nat /\ N - 1 <= M
  BY LayoutOrder, WalkUnfolds
<1>1. f[0] = <<bson_begin(b, p)>> /\ (\A i \in 1 .. M : f[i] = WalkOn(b, f[i - 1])) /\ foreach(b, p) = f[M]
  BY WalkUnfolds
<1>2. /\ \A k \in 1 .. N : bson_stop(W[k]) <=> k = N
      /\ \A k \in 1 .. N : k # N => bson_next(b, W[k]) = W[k + 1]
  <2>1. ASSUME NEW k \in 1 .. N
        PROVE  (bson_stop(W[k]) <=> k = N) /\ (k # N => bson_next(b, W[k]) = W[k + 1])
    <3>1. W[k] = IteratorOf(b, p, a, k)
      BY DEF WalkOver
    <3>2. k # N => k + 1 \in 1 .. N
      BY <1>0
    <3>3. k # N => W[k + 1] = IteratorOf(b, p, a, k + 1)
      BY <3>2 DEF WalkOver
    <3> QED BY <3>1, <3>3, IteratorsOf
  <2> QED BY <2>1
<1>3. bson_begin(b, p) = W[1]
  <2>1. 1 \in 1 .. N
    BY <1>0
  <2>2. W[1] = _bson_iterator_at(b, a[1], (p + Size(b, p)) - a[1])
    BY <2>1, IteratorsOf DEF WalkOver
  <2>3. p \in Nat /\ Size(b, p) \in Nat /\ a[1] = p + 4
    BY LayoutOrder DEF IsLayout
  <2>4. (p + Size(b, p)) - a[1] = Size(b, p) - 4
    BY <2>3
  <2> QED BY <2>2, <2>3, <2>4 DEF bson_begin
<1>4. W \in Seq(Stops) /\ Len(W) = N
  <2>1. W \in [1 .. N -> Stops]
    BY DEF WalkOver
  <2> HIDE DEF W, Stops, N
  <2> QED BY <1>0, <2>1
<1> HIDE DEF W, N, f, M, Stops
<1>5. T = {}
  <2> SUFFICES ASSUME T # {} PROVE FALSE
    OBVIOUS
  <2>1. PICK i \in T : \A h \in T : i <= h
    <3>1. T \in SUBSET Nat
      OBVIOUS
    <3> HIDE DEF T
    <3> QED BY <3>1, LeastNatural
  <2>2. i \in Nat /\ i <= M /\ f[i] # G(i)
    BY <2>1
  <2>3. i # 0
    <3>1. G(0) = SubSeq(W, 1, 1)
      BY <1>0
    <3>2. SubSeq(W, 1, 1) = <<W[1]>>
      <4>1. Len(SubSeq(W, 1, 1)) = 1 /\ SubSeq(W, 1, 1)[1] = W[1] /\ SubSeq(W, 1, 1) \in Seq(Stops)
        BY <1>0, <1>4
      <4> QED BY <4>1, SingleElement, Zenon
    <3> QED BY <3>1, <3>2, <1>1, <1>3, <2>2
  <2>4. i - 1 \in Nat /\ i - 1 <= M /\ i - 1 \notin T /\ i \in 1 .. M
    BY <1>0, <2>1, <2>2, <2>3
  <2>5. f[i - 1] = G(i - 1)
    BY <2>4
  <2>6. f[i] = WalkOn(b, f[i - 1])
    BY <1>1, <2>4
  <2>7. CASE i < N
    <3>1. G(i - 1) = SubSeq(W, 1, i) /\ G(i) = SubSeq(W, 1, i + 1)
      BY <2>2, <2>3, <2>7, <1>0
    <3>2. Len(SubSeq(W, 1, i)) = i /\ SubSeq(W, 1, i)[i] = W[i] /\ i \in 1 .. N /\ i # N
      BY <2>2, <2>3, <2>7, <1>0, <1>4
    <3>3. Append(SubSeq(W, 1, i), W[i + 1]) = SubSeq(W, 1, i + 1)
      BY <2>2, <2>3, <2>7, <1>0, <1>4, PrefixGrows
    <3> QED BY <3>1, <3>2, <3>3, <2>5, <2>6, <2>2, <1>2 DEF WalkOn
  <2>8. CASE i >= N
    <3>1. G(i - 1) = SubSeq(W, 1, N) /\ G(i) = SubSeq(W, 1, N)
      BY <2>2, <2>3, <2>8, <1>0
    <3>2. Len(SubSeq(W, 1, N)) = N /\ SubSeq(W, 1, N)[N] = W[N] /\ N \in 1 .. N
      BY <1>0, <1>4
    <3> QED BY <3>1, <3>2, <2>5, <2>6, <2>2, <1>2 DEF WalkOn
  <2> QED BY <2>7, <2>8, <2>2, <1>0
<1>6. f[M] = G(M)
  BY <1>0, <1>5
<1>7. G(M) = SubSeq(W, 1, N)
  BY <1>0
<1>8. SubSeq(W, 1, N) = W
  BY <1>0, <1>4
<1> QED BY <1>1, <1>6, <1>7, <1>8 DEF W

-----------------------------------------------------------------------------
(* The same bytes elsewhere.                                               *)

\* A part of them.
LEMMA SameWithin ==
    ASSUME NEW b, NEW c, NEW x \in Nat, NEW z \in Nat, NEW n \in Nat, Same(b, x, c, z, n),
           NEW o \in Nat, NEW m \in Nat, o + m <= n
    PROVE  Same(b, x + o, c, z + o, m)
<1> SUFFICES ASSUME NEW j \in 1 .. m PROVE c[z + o + j] = b[x + o + j]
  BY DEF Same
<1>1. o + j \in 1 .. n /\ z + (o + j) = z + o + j /\ x + (o + j) = x + o + j
  OBVIOUS
<1>2. c[z + (o + j)] = b[x + (o + j)]
  BY <1>1 DEF Same
<1> QED BY <1>1, <1>2

\* A size reads the same.
LEMMA ReadMoves ==
    ASSUME NEW b, NEW c, NEW x \in Nat, NEW z \in Nat, NEW n \in Nat, Same(b, x, c, z, n), 4 <= n
    PROVE  read_u32le(c, z) = read_u32le(b, x) /\ Size(c, z) = Size(b, x)
<1>1. 1 \in 1 .. n /\ 2 \in 1 .. n /\ 3 \in 1 .. n /\ 4 \in 1 .. n
  OBVIOUS
<1>2. c[z + 1] = b[x + 1] /\ c[z + 2] = b[x + 2] /\ c[z + 3] = b[x + 3] /\ c[z + 4] = b[x + 4]
  BY <1>1 DEF Same
<1> QED BY <1>2, ZenonT(40) DEF read_u32le, Size

\* Bytes are the same sequence.
LEMMA BytesMove ==
    ASSUME NEW b \in Buffer, NEW c \in Buffer, NEW x \in Nat, NEW z \in Nat, NEW n \in Nat,
           Same(b, x, c, z, n), x + n <= Len(b), z + n <= Len(c)
    PROVE  Bytes(c, z, n) = Bytes(b, x, n)
<1> DEFINE l == Bytes(c, z, n)
           r == Bytes(b, x, n)
<1>1. l \in Buffer /\ Len(l) = n /\ \A j \in 1 .. n : l[j] = c[z + j]
  BY BytesOf
<1>2. r \in Buffer /\ Len(r) = n /\ \A j \in 1 .. n : r[j] = b[x + j]
  BY BytesOf
<1> HIDE DEF l, r
<1>3. \A j \in 1 .. n : l[j] = r[j]
  BY <1>1, <1>2 DEF Same
<1>4. l = r
  BY <1>1, <1>2, <1>3 DEF Buffer
<1> QED BY <1>4 DEF l, r

-----------------------------------------------------------------------------
(* Values.                                                                 *)

\* What a value of type t at v, not a document, reads as.
ScalarAt(b, t, v) ==
    CASE t \in {utf8, 13, 14} -> Bytes(b, v + 4, read_u32le(b, v) - 1)
      [] t = binary -> Bytes(b, v + 4, read_u32le(b, v) + 1)
      [] t = bool -> IF b[v + 1] # 0 THEN << 1 >> ELSE << 0 >>
      [] t = regex -> <<Bytes(b, v, strlen(b, v)),
                        Bytes(b, v + strlen(b, v) + 1, Options(b, v))>>
      [] OTHER -> Bytes(b, v, ConstSize(t))

\* The sizes of the types that are read in a way of their own.
LEMMA TagSizes ==
    ASSUME NEW t \in Byte
    PROVE  /\ t \in {utf8, 13, 14} => HasVarsizePrefix(t) /\ ConstSize(t) = 4
           /\ t = binary => HasVarsizePrefix(t) /\ ConstSize(t) = 5
           /\ t = bool => ~HasVarsizePrefix(t) /\ ConstSize(t) = 1
           /\ t \notin {utf8, 13, 14, binary, document, array, dbpointer, 15} => ~HasVarsizePrefix(t)
<1>1. t \in {utf8, 13, 14} => HasVarsizePrefix(t) /\ ConstSize(t) = 4
  BY DEF ConstSize, HasVarsizePrefix, utf8, int32, binary, dbpointer, bool, eod, document, array, null, regex
<1>2. t = binary => HasVarsizePrefix(t) /\ ConstSize(t) = 5
  BY DEF ConstSize, HasVarsizePrefix, utf8, int32, binary, dbpointer, bool, eod, document, array, null, regex
<1>3. t = bool => ~HasVarsizePrefix(t) /\ ConstSize(t) = 1
  BY DEF ConstSize, HasVarsizePrefix, utf8, int32, binary, dbpointer, bool, eod, document, array, null, regex
<1>4. t \notin {utf8, 13, 14, binary, document, array, dbpointer, 15} => ~HasVarsizePrefix(t)
  BY DEF HasVarsizePrefix
<1> QED BY <1>1, <1>2, <1>3, <1>4

\* The cases of a value that is not a document.
LEMMA ScalarCases ==
    ASSUME NEW b, NEW t \in Byte, NEW v
    PROVE  /\ t \in {utf8, 13, 14} => ScalarAt(b, t, v) = Bytes(b, v + 4, read_u32le(b, v) - 1)
           /\ t = binary => ScalarAt(b, t, v) = Bytes(b, v + 4, read_u32le(b, v) + 1)
           /\ t = bool => ScalarAt(b, t, v) = IF b[v + 1] # 0 THEN << 1 >> ELSE << 0 >>
           /\ t = regex => ScalarAt(b, t, v) =
                <<Bytes(b, v, strlen(b, v)), Bytes(b, v + strlen(b, v) + 1, Options(b, v))>>
           /\ t \notin {utf8, 13, 14, binary, bool, regex} => ScalarAt(b, t, v) = Bytes(b, v, ConstSize(t))
<1>1. t \in {utf8, 13, 14} => ScalarAt(b, t, v) = Bytes(b, v + 4, read_u32le(b, v) - 1)
  BY DEF ScalarAt, utf8, int32, binary, dbpointer, bool, eod, document, array, null, regex
<1>2. t = binary => ScalarAt(b, t, v) = Bytes(b, v + 4, read_u32le(b, v) + 1)
  BY DEF ScalarAt, utf8, int32, binary, dbpointer, bool, eod, document, array, null, regex
<1>3. t = bool => ScalarAt(b, t, v) = IF b[v + 1] # 0 THEN << 1 >> ELSE << 0 >>
  BY DEF ScalarAt, utf8, int32, binary, dbpointer, bool, eod, document, array, null, regex
<1>4. t = regex => ScalarAt(b, t, v) =
        <<Bytes(b, v, strlen(b, v)), Bytes(b, v + strlen(b, v) + 1, Options(b, v))>>
  BY DEF ScalarAt, utf8, int32, binary, dbpointer, bool, eod, document, array, null, regex
<1>5. t \notin {utf8, 13, 14, binary, bool, regex} => ScalarAt(b, t, v) = Bytes(b, v, ConstSize(t))
  BY DEF ScalarAt
<1> QED BY <1>1, <1>2, <1>3, <1>4, <1>5

\* A value is the same value wherever its bytes are.
LEMMA ValueMoves ==
    ASSUME NEW b \in Buffer, NEW c \in Buffer, NEW t \in Byte, NEW v \in Nat, NEW u \in Nat, NEW n \in Nat,
           n = ValueLen(b, t, v), ValueOk(b, t, v, n), Same(b, v, c, u, n),
           v + n <= Len(b), u + n <= Len(c)
    PROVE  /\ n = ValueLen(c, t, u) /\ ValueOk(c, t, u, n)
           /\ t \notin {document, array} => ScalarAt(c, t, u) = ScalarAt(b, t, v)
<1>0. Len(b) \in Nat /\ Len(c) \in Nat
  BY DEF Buffer
<1>1. CASE t = regex
  <2> DEFINE r == strlen(b, v)
             o == Options(b, v)
  <2>1. IsStr(b, v, r) /\ IsStr(b, v + r + 1, o)
    BY <1>1 DEF ValueOk
  <2>2. r \in Nat /\ o \in Nat /\ n = r + o + 2
    BY <1>1, <2>1 DEF ValueLen, IsStr
  <2>a. Options(b, v) = o /\ strlen(b, v) = r
    OBVIOUS
  <2> HIDE DEF r, o
  <2>3. IsStr(c, u, r)
    <3>1. IsStr(b, v + 0, r) /\ 0 + r + 1 <= n
      BY <2>1, <2>2
    <3>2. IsStr(c, u + 0, r)
      BY <3>1, StrMoves
    <3> QED BY <3>2
  <2>4. IsStr(c, u + r + 1, o)
    <3>1. v + (r + 1) = v + r + 1 /\ u + (r + 1) = u + r + 1 /\ r + 1 \in Nat /\ (r + 1) + o + 1 <= n
      BY <2>2
    <3>2. IsStr(b, v + (r + 1), o)
      BY <2>1, <3>1
    <3>3. IsStr(c, u + (r + 1), o)
      BY <3>1, <3>2, <2>2, StrMoves
    <3> QED BY <3>1, <3>3
  <2>5. strlen(c, u) = r
    BY <2>3, StrlenIs
  <2>6. Options(c, u) = o
    <3>1. strlen(c, u + r + 1) = o
      <4>1. u + r + 1 \in Nat
        BY <2>2
      <4> QED BY <4>1, <2>4, StrlenIs
    <3> QED BY <3>1, <2>5 DEF Options
  <2>7. n = ValueLen(c, t, u)
    BY <1>1, <2>2, <2>5, <2>6 DEF ValueLen
  <2>8. ~HasVarsizePrefix(t) /\ t \notin {document, array, utf8, 13, 14, dbpointer, 15, binary, bool}
    BY <1>1 DEF HasVarsizePrefix, document, array, regex, utf8, dbpointer, binary, bool
  <2>9. ValueOk(c, t, u, n)
    BY <1>1, <2>3, <2>4, <2>5, <2>6, <2>8 DEF ValueOk
  <2>10. Bytes(c, u, r) = Bytes(b, v, r)
    <3>1. 0 + r <= n /\ v + 0 = v /\ u + 0 = u /\ v + r <= Len(b) /\ u + r <= Len(c)
      BY <2>2, <1>0
    <3>2. Same(b, v + 0, c, u + 0, r)
      BY <3>1, <2>2, SameWithin
    <3> QED BY <3>1, <3>2, <2>2, BytesMove
  <2>11. Bytes(c, u + r + 1, o) = Bytes(b, v + r + 1, o)
    <3>1. /\ v + (r + 1) = v + r + 1 /\ u + (r + 1) = u + r + 1 /\ r + 1 \in Nat /\ (r + 1) + o <= n
          /\ v + r + 1 \in Nat /\ u + r + 1 \in Nat
          /\ (v + r + 1) + o <= Len(b) /\ (u + r + 1) + o <= Len(c)
      BY <2>2, <1>0
    <3>2. Same(b, v + (r + 1), c, u + (r + 1), o)
      BY <3>1, <2>2, SameWithin
    <3> QED BY <3>1, <3>2, <2>2, BytesMove
  <2>12. ScalarAt(c, t, u) = ScalarAt(b, t, v)
    <3>1. ScalarAt(c, t, u) = <<Bytes(c, u, strlen(c, u)), Bytes(c, u + strlen(c, u) + 1, Options(c, u))>>
      BY <1>1, ScalarCases, Zenon
    <3>2. ScalarAt(b, t, v) = <<Bytes(b, v, strlen(b, v)), Bytes(b, v + strlen(b, v) + 1, Options(b, v))>>
      BY <1>1, ScalarCases, Zenon
    <3> QED BY <3>1, <3>2, <2>a, <2>5, <2>6, <2>10, <2>11, Zenon
  <2> QED BY <2>7, <2>9, <2>12
<1>2. CASE t # regex
  <2>0. ConstSize(t) \in Nat
    BY ConstSizes
  <2>1. n = ConstSize(t) + (IF HasVarsizePrefix(t) THEN read_u32le(b, v) ELSE 0)
    BY <1>2 DEF ValueLen
  <2>2. HasVarsizePrefix(t) => read_u32le(c, u) = read_u32le(b, v) /\ 4 <= n /\ read_u32le(b, v) \in Nat
    <3> SUFFICES ASSUME HasVarsizePrefix(t)
                 PROVE  read_u32le(c, u) = read_u32le(b, v) /\ 4 <= n /\ read_u32le(b, v) \in Nat
      OBVIOUS
    <3>1. 4 <= n
      BY DEF ValueOk
    <3>2. v + 4 <= Len(b)
      BY <3>1, <1>0
    <3> QED BY <3>1, <3>2, ReadMoves, SizeRead
  <2>3. n = ValueLen(c, t, u)
    BY <1>2, <2>1, <2>2 DEF ValueLen
  <2>4. ValueOk(c, t, u, n)
    <3>1. t \in {document, array} => n >= 5 /\ c[u + n] = 0
      <4> SUFFICES ASSUME t \in {document, array} PROVE n >= 5 /\ c[u + n] = 0
        OBVIOUS
      <4>1. n >= 5 /\ b[v + n] = 0
        BY DEF ValueOk
      <4>2. n \in 1 .. n
        BY <4>1
      <4> QED BY <4>1, <4>2 DEF Same
    <3> QED BY <1>2, <3>1 DEF ValueOk
  <2>5. ASSUME t \notin {document, array} PROVE ScalarAt(c, t, u) = ScalarAt(b, t, v)
    <3> DEFINE k == read_u32le(b, v)
    <3>1. CASE t \in {utf8, 13, 14}
      <4>1. HasVarsizePrefix(t) /\ ConstSize(t) = 4 /\ n >= 5
        BY <3>1, TagSizes DEF ValueOk
      <4>2. n = 4 + k /\ k \in Nat /\ read_u32le(c, u) = k
        BY <4>1, <2>1, <2>2
      <4> HIDE DEF k
      <4>3. k - 1 \in Nat /\ 4 + (k - 1) <= n /\ v + 4 \in Nat /\ u + 4 \in Nat
            /\ (v + 4) + (k - 1) <= Len(b) /\ (u + 4) + (k - 1) <= Len(c)
        BY <4>1, <4>2, <1>0
      <4>4. Same(b, v + 4, c, u + 4, k - 1)
        BY <4>3, SameWithin
      <4>5. Bytes(c, u + 4, k - 1) = Bytes(b, v + 4, k - 1)
        BY <4>3, <4>4, BytesMove, SMTT(30)
      <4>6. ScalarAt(c, t, u) = Bytes(c, u + 4, read_u32le(c, u) - 1)
            /\ ScalarAt(b, t, v) = Bytes(b, v + 4, read_u32le(b, v) - 1)
        BY <3>1, ScalarCases
      <4> QED BY <4>2, <4>5, <4>6 DEF k
    <3>2. CASE t = binary
      <4>1. HasVarsizePrefix(t) /\ ConstSize(t) = 5
        BY <3>2, TagSizes
      <4>2. n = 5 + k /\ k \in Nat /\ read_u32le(c, u) = k
        BY <4>1, <2>1, <2>2
      <4> HIDE DEF k
      <4>3. k + 1 \in Nat /\ 4 + (k + 1) <= n /\ v + 4 \in Nat /\ u + 4 \in Nat
            /\ (v + 4) + (k + 1) <= Len(b) /\ (u + 4) + (k + 1) <= Len(c)
        BY <4>2, <1>0
      <4>4. Same(b, v + 4, c, u + 4, k + 1)
        BY <4>3, SameWithin
      <4>5. Bytes(c, u + 4, k + 1) = Bytes(b, v + 4, k + 1)
        BY <4>3, <4>4, BytesMove, SMTT(30)
      <4>6. ScalarAt(c, t, u) = Bytes(c, u + 4, read_u32le(c, u) + 1)
            /\ ScalarAt(b, t, v) = Bytes(b, v + 4, read_u32le(b, v) + 1)
        BY <3>2, ScalarCases
      <4> QED BY <4>2, <4>5, <4>6 DEF k
    <3>3. CASE t = bool
      <4>1. ~HasVarsizePrefix(t) /\ ConstSize(t) = 1
        BY <3>3, TagSizes
      <4>2. 1 \in 1 .. n
        BY <4>1, <2>1
      <4>3. c[u + 1] = b[v + 1]
        BY <4>2 DEF Same
      <4>4. /\ ScalarAt(c, t, u) = IF c[u + 1] # 0 THEN << 1 >> ELSE << 0 >>
            /\ ScalarAt(b, t, v) = IF b[v + 1] # 0 THEN << 1 >> ELSE << 0 >>
        BY <3>3, ScalarCases, Zenon
      <4> QED BY <4>3, <4>4
    <3>4. CASE t \notin {utf8, 13, 14, binary, bool}
      <4>1. ~HasVarsizePrefix(t)
        BY <3>4, <2>5, TagSizes DEF ValueOk
      <4>2. n = ConstSize(t)
        BY <4>1, <2>0, <2>1
      <4>3. Bytes(c, u, n) = Bytes(b, v, n)
        BY BytesMove
      <4>4. ScalarAt(c, t, u) = Bytes(c, u, ConstSize(t)) /\ ScalarAt(b, t, v) = Bytes(b, v, ConstSize(t))
        BY <1>2, <3>4, ScalarCases
      <4> QED BY <4>2, <4>3, <4>4, Zenon
    <3> QED BY <3>1, <3>2, <3>3, <3>4
  <2> QED BY <2>3, <2>4, <2>5
<1> QED BY <1>1, <1>2

\* A key and a value make an element.
LEMMA ElemMade ==
    ASSUME NEW b \in Buffer, NEW x \in Nat, NEW kl, NEW n \in Nat,
           IsStr(b, x + 1, kl), (x + kl + 2) + n <= Len(b),
           n = ValueLen(b, b[x + 1], x + kl + 2), ValueOk(b, b[x + 1], x + kl + 2, n)
    PROVE  /\ kl \in Nat /\ Elem(b, x, (x + kl + 2) + n)
           /\ KeyLen(b, x) = kl /\ ValueAt(b, x) = x + kl + 2
<1>1. kl \in Nat
  BY DEF IsStr
<1>2. KeyLen(b, x) = kl /\ ValueAt(b, x) = x + kl + 2
  <2>1. strlen(b, x + 1) = kl
    BY StrlenIs
  <2> QED BY <2>1 DEF KeyLen, ValueAt
<1> DEFINE v == x + kl + 2
           y == v + n
<1>3. v \in Nat /\ y \in Nat /\ y <= Len(b) /\ v <= y /\ y - v = n
  BY <1>1
<1>4. Elem(b, x, y)
  <2>1. ValueAt(b, x) = v
    BY <1>2
  <2>2. n = ValueLen(b, b[x + 1], v) /\ ValueOk(b, b[x + 1], v, n)
    OBVIOUS
  <2>3. y = v + n
    OBVIOUS
  <2> HIDE DEF v, y
  <2> QED BY <1>2, <1>3, <2>1, <2>2, <2>3 DEF Elem
<1> QED BY <1>1, <1>2, <1>4

\* An element is an element wherever its bytes are.
LEMMA ElemMoves ==
    ASSUME NEW b \in Buffer, NEW c \in Buffer, NEW x, NEW y, NEW z \in Nat,
           Elem(b, x, y), Same(b, x, c, z, y - x), z + (y - x) <= Len(c)
    PROVE  /\ Elem(c, z, z + (y - x))
           /\ c[z + 1] = b[x + 1] /\ KeyLen(c, z) = KeyLen(b, x)
           /\ ValueAt(c, z) = z + (ValueAt(b, x) - x)
           /\ Bytes(c, z + 1, KeyLen(b, x)) = Bytes(b, x + 1, KeyLen(b, x))
           /\ b[x + 1] \notin {document, array} =>
                ScalarAt(c, b[x + 1], ValueAt(c, z)) = ScalarAt(b, b[x + 1], ValueAt(b, x))
<1> DEFINE kl == KeyLen(b, x)
           v == ValueAt(b, x)
           u == z + kl + 2
           t == b[x + 1]
           n == y - v
<1>1. /\ x \in Nat /\ y \in Nat /\ y <= Len(b) /\ Len(b) \in Nat /\ Len(c) \in Nat
      /\ kl \in Nat /\ v \in Nat /\ v = x + kl + 2 /\ v <= y /\ n \in Nat
      /\ n = ValueLen(b, t, v) /\ t \in Byte /\ n = y - v /\ u = z + kl + 2
  BY ElemParts DEF Buffer
<1>2. IsStr(b, x + 1, kl) /\ ValueOk(b, t, v, n)
  BY DEF Elem
<1>a. KeyLen(b, x) = kl /\ ValueAt(b, x) = v /\ b[x + 1] = t
  OBVIOUS
<1> HIDE DEF kl, v, u, t, n
<1>3. IsStr(c, z + 1, kl)
  <2>1. 1 + kl + 1 <= y - x /\ y - x \in Nat
    BY <1>1
  <2> QED BY <1>1, <1>2, <2>1, StrMoves
<1>4. Same(b, v, c, u, n)
  <2>1. kl + 2 \in Nat /\ (kl + 2) + n <= y - x /\ y - x \in Nat /\ v = x + (kl + 2) /\ u = z + (kl + 2)
    BY <1>1, SMTT(30)
  <2>2. Same(b, x + (kl + 2), c, z + (kl + 2), n)
    BY <2>1, <1>1, SameWithin
  <2> QED BY <2>1, <2>2
<1>5. u \in Nat /\ v + n <= Len(b) /\ u + n <= Len(c) /\ z + (y - x) = u + n
  <2>1. u \in Nat /\ v + n = y
    BY <1>1
  <2>2. u + n = z + (y - x)
    <3>1. y \in Int /\ x \in Int /\ kl \in Int /\ n = y - (x + kl + 2) /\ u = z + kl + 2
      BY <1>1, SMTT(30)
    <3> QED BY <3>1
  <2>3. y <= Len(b) /\ z + (y - x) <= Len(c)
    BY <1>1
  <2> QED BY <2>1, <2>2, <2>3
<1>6. /\ n = ValueLen(c, t, u) /\ ValueOk(c, t, u, n)
      /\ t \notin {document, array} => ScalarAt(c, t, u) = ScalarAt(b, t, v)
  <2>1. n \in Nat /\ n = ValueLen(b, t, v) /\ t \in Byte /\ v \in Nat
    BY <1>1
  <2> QED BY <2>1, <1>2, <1>4, <1>5, ValueMoves
<1>7. c[z + 1] = t
  <2>1. 1 \in 1 .. (y - x)
    BY <1>1
  <2> QED BY <2>1, <1>a DEF Same
<1>8. Elem(c, z, u + n) /\ KeyLen(c, z) = kl /\ ValueAt(c, z) = u
  <2>1. z + kl + 2 = u
    BY <1>1
  <2>2. IsStr(c, z + 1, kl) /\ (z + kl + 2) + n <= Len(c) /\ n = ValueLen(c, c[z + 1], z + kl + 2)
        /\ ValueOk(c, c[z + 1], z + kl + 2, n)
    BY <2>1, <1>3, <1>5, <1>6, <1>7
  <2>3. Elem(c, z, (z + kl + 2) + n) /\ KeyLen(c, z) = kl /\ ValueAt(c, z) = z + kl + 2
    BY <2>2, <1>1, ElemMade, ZenonT(40)
  <2> QED BY <2>1, <2>3
<1>9. Bytes(c, z + 1, kl) = Bytes(b, x + 1, kl)
  <2>1. 1 + kl <= y - x /\ y - x \in Nat /\ x + 1 \in Nat /\ z + 1 \in Nat
        /\ (x + 1) + kl <= Len(b) /\ (z + 1) + kl <= Len(c)
    BY <1>1, SMTT(30)
  <2>2. Same(b, x + 1, c, z + 1, kl)
    BY <2>1, <1>1, SameWithin
  <2>3. kl \in Nat
    BY <1>1
  <2> QED BY <2>1, <2>2, <2>3, BytesMove
<1>10. u = z + (v - x)
  BY <1>1
<1> QED BY <1>a, <1>5, <1>6, <1>7, <1>8, <1>9, <1>10

-----------------------------------------------------------------------------
(* Reading.                                                                *)

\* The element at x is a document.
Nests(b, x) == b[x + 1] \in {document, array}

\* The element at x.
ElementAt(b, x) ==
    [key |-> Bytes(b, x + 1, KeyLen(b, x)), tag |-> b[x + 1],
     val |-> IF Nests(b, x) THEN Document(b, ValueAt(b, x)) ELSE ScalarAt(b, b[x + 1], ValueAt(b, x))]

\* Only what lies behind a document is read with it.
LEMMA ReadsBehind ==
    ASSUME NEW b, NEW q, NEW f, NEW g, \A v \in (q + 1) .. Len(b) : f[v] = g[v]
    PROVE  ReadElements(b, q, f) = ReadElements(b, q, g)
<1>1. [v \in (q + 1) .. Len(b) |-> f[v]] = [v \in (q + 1) .. Len(b) |-> g[v]]
  OBVIOUS
<1> QED BY <1>1, Zenon DEF ReadElements

\* f is the function that Document() defines, on m .. Len(b).
Reads(f, b, m) == f = [q \in m .. Len(b) |-> ReadElements(b, q, f)]

\* The documents can be read from the last back to any.
LEMMA ReadsExist ==
    ASSUME NEW b \in Buffer, NEW n \in Nat, n <= Len(b)
    PROVE  \E f : Reads(f, b, Len(b) - n)
<1> DEFINE L == Len(b)
           T == {m \in Nat : m <= L /\ ~ \E f : Reads(f, b, L - m)}
<1>0. L \in Nat
  BY DEF Buffer
<1> SUFFICES ASSUME T # {} PROVE FALSE
  OBVIOUS
<1>1. PICK m \in T : \A k \in T : m <= k
  <2>1. T \in SUBSET Nat
    OBVIOUS
  <2> HIDE DEF T
  <2> QED BY <2>1, LeastNatural
<1>a. m \in Nat /\ m <= L /\ ~ \E f : Reads(f, b, L - m)
  BY <1>1
<1>2. m # 0
  <2> DEFINE e == [q \in L .. L |-> ReadElements(b, L, << >>)]
  <2>1. ASSUME NEW q \in L .. L PROVE ReadElements(b, q, e) = ReadElements(b, L, << >>)
    <3>1. q = L /\ (q + 1) .. L = {}
      BY <1>0
    <3>2. \A v \in (q + 1) .. Len(b) : e[v] = << >>[v]
      BY <3>1
    <3> HIDE DEF e
    <3>3. ReadElements(b, q, e) = ReadElements(b, q, << >>)
      BY <3>2, ReadsBehind
    <3> QED BY <3>1, <3>3
  <2>2. e = [q \in L .. L |-> ReadElements(b, q, e)]
    <3> DEFINE g == e
    <3>1. \A q \in L .. L : ReadElements(b, q, g) = ReadElements(b, L, << >>)
      BY <2>1
    <3> HIDE DEF g
    <3>2. [q \in L .. L |-> ReadElements(b, q, g)] = [q \in L .. L |-> ReadElements(b, L, << >>)]
      BY <3>1
    <3> QED BY <3>2 DEF g
  <2>3. L - 0 = L
    BY <1>0
  <2>4. Reads(e, b, L - 0)
    BY <2>2, <2>3, Zenon DEF Reads
  <2> QED BY <2>4, <1>a
<1>3. m - 1 \in Nat /\ m - 1 \notin T /\ m - 1 <= L
  BY <1>0, <1>1, <1>a, <1>2, SMTT(30)
<1>4. PICK f : Reads(f, b, L - (m - 1))
  BY <1>3
<1> DEFINE s == L - m
           e == [q \in s .. L |-> IF q = s THEN ReadElements(b, s, f) ELSE f[q]]
<1>5. s \in Nat /\ L - (m - 1) = s + 1
  BY <1>0, <1>a, <1>3
<1>6. f = [q \in (s + 1) .. L |-> ReadElements(b, q, f)]
  BY <1>4, <1>5 DEF Reads
<1> HIDE DEF s, L
<1>7. ASSUME NEW q \in s .. L PROVE e[q] = ReadElements(b, q, e)
  <2>1. \A v \in (q + 1) .. L : v \in s .. L /\ v # s
    BY <1>0, <1>5
  <2>2. \A v \in (q + 1) .. L : e[v] = f[v]
    BY <2>1
  <2>3. ReadElements(b, q, e) = ReadElements(b, q, f)
    <3> HIDE DEF e
    <3> QED BY <2>2, ReadsBehind DEF L
  <2>4. CASE q = s
    BY <2>3, <2>4
  <2>5. CASE q # s
    <3>1. q \in (s + 1) .. L
      BY <2>5, <1>5, <1>0
    <3>2. f[q] = ReadElements(b, q, f)
      BY <3>1, <1>6
    <3> QED BY <2>3, <2>5, <3>2
  <2> QED BY <2>4, <2>5
<1>8. e = [q \in s .. L |-> ReadElements(b, q, e)]
  <2> DEFINE g == e
  <2>1. g = [q \in s .. L |-> g[q]]
    OBVIOUS
  <2>2. \A q \in s .. L : g[q] = ReadElements(b, q, g)
    BY <1>7
  <2> HIDE DEF g
  <2>3. g = [q \in s .. L |-> ReadElements(b, q, g)]
    BY <2>1, <2>2
  <2> QED BY <2>3 DEF g
<1>9. Reads(e, b, s)
  BY <1>8, Zenon DEF Reads, L
<1> QED BY <1>9, <1>a, Zenon DEF s

\* The equation of Document().
LEMMA DocumentReads ==
    ASSUME NEW b \in Buffer, NEW p \in 0 .. Len(b)
    PROVE  \E f : /\ Document(b, p) = ReadElements(b, p, f)
                  /\ \A v \in 0 .. Len(b) : f[v] = Document(b, v)
<1> DEFINE f == CHOOSE g : Reads(g, b, 0)
<1>1. \A q : Document(b, q) = f[q]
  BY DEF Document, Reads
<1>2. \E g : Reads(g, b, 0)
  <2>1. Len(b) \in Nat /\ Len(b) - Len(b) = 0
    BY DEF Buffer
  <2> QED BY <2>1, ReadsExist
<1>3. Reads(f, b, 0)
  BY <1>2
<1> HIDE DEF f
<1>4. f[p] = ReadElements(b, p, f)
  BY <1>3 DEF Reads
<1> QED BY <1>1, <1>4

\* What bson_iterator_value() reads of a value that is not a document.
LEMMA ScalarRead ==
    ASSUME NEW b, NEW it, NEW f, b[it.at + 1] \in Byte,
           b[it.at + 1] \notin {document, array, dbpointer, 15}
    PROVE  bson_iterator_value(b, it, f) = ScalarAt(b, b[it.at + 1], ValuePtr(it))
<1> DEFINE t == b[it.at + 1]
           v == ValuePtr(it)
           len == IF HasVarsizePrefix(t) THEN read_u32le(b, v) ELSE 0
<1>1. bson_iterator_value(b, it, f) =
        CASE t \in {document, array} ->
              IF bson_view_from_data(b, v, it.rlen - (v - it.at)) THEN f[v] ELSE <<-1>>
         [] t \in {utf8, 13, 14} -> Bytes(b, v + 4, len - 1)
         [] t = binary -> Bytes(b, v + 4, len + 1)
         [] t = bool -> IF b[v + 1] # 0 THEN << 1 >> ELSE << 0 >>
         [] t = regex -> <<Bytes(b, v, strlen(b, v)),
                             Bytes(b, v + strlen(b, v) + 1, strlen(b, v + strlen(b, v) + 1))>>
         [] t = dbpointer -> <<Bytes(b, v + 4, len - 1), Bytes(b, v + 4 + len, 12)>>
         [] OTHER -> Bytes(b, v, ConstSize(t))
  BY Zenon DEF bson_iterator_value
<1>2. t \in {utf8, 13, 14, binary} => len = read_u32le(b, v)
  BY TagSizes
<1>3. t \in Byte /\ t \notin {document, array, dbpointer, 15}
  OBVIOUS
<1> HIDE DEF t, v, len
<1>4. bson_iterator_value(b, it, f) = ScalarAt(b, t, v)
  <2>1. CASE t \in {utf8, 13, 14}
    <3>1. bson_iterator_value(b, it, f) = Bytes(b, v + 4, len - 1)
      BY <1>1, <1>3, <2>1 DEF utf8, document, array, binary, bool, regex, dbpointer
    <3>2. ScalarAt(b, t, v) = Bytes(b, v + 4, read_u32le(b, v) - 1) /\ len = read_u32le(b, v)
      BY <2>1, <1>2, <1>3, ScalarCases
    <3> QED BY <3>1, <3>2, Zenon
  <2>2. CASE t = binary
    <3>1. bson_iterator_value(b, it, f) = Bytes(b, v + 4, len + 1)
      BY <1>1, <1>3, <2>2 DEF utf8, document, array, binary, bool, regex, dbpointer
    <3>2. ScalarAt(b, t, v) = Bytes(b, v + 4, read_u32le(b, v) + 1) /\ len = read_u32le(b, v)
      BY <2>2, <1>2, <1>3, ScalarCases
    <3> QED BY <3>1, <3>2, Zenon
  <2>3. CASE t = bool
    <3>1. bson_iterator_value(b, it, f) = IF b[v + 1] # 0 THEN << 1 >> ELSE << 0 >>
      BY <1>1, <1>3, <2>3 DEF utf8, document, array, binary, bool, regex, dbpointer
    <3> QED BY <3>1, <2>3, <1>3, ScalarCases
  <2>4. CASE t = regex
    <3>1. bson_iterator_value(b, it, f) =
            <<Bytes(b, v, strlen(b, v)), Bytes(b, v + strlen(b, v) + 1, strlen(b, v + strlen(b, v) + 1))>>
      BY <1>1, <1>3, <2>4 DEF utf8, document, array, binary, bool, regex, dbpointer
    <3>2. ScalarAt(b, t, v) = <<Bytes(b, v, strlen(b, v)), Bytes(b, v + strlen(b, v) + 1, Options(b, v))>>
      BY <2>4, <1>3, ScalarCases, Zenon
    <3> QED BY <3>1, <3>2, Zenon DEF Options
  <2>5. CASE t \notin {utf8, 13, 14, binary, bool, regex}
    <3>1. bson_iterator_value(b, it, f) = Bytes(b, v, ConstSize(t))
      BY <1>1, <1>3, <2>5
    <3> QED BY <3>1, <2>5, <1>3, ScalarCases
  <2> QED BY <2>1, <2>2, <2>3, <2>4, <2>5
<1> QED BY <1>4 DEF t, v

\* And of one that is.
LEMMA ViewRead ==
    ASSUME NEW b, NEW it, NEW f, b[it.at + 1] \in {document, array},
           bson_view_from_data(b, ValuePtr(it), it.rlen - (ValuePtr(it) - it.at))
    PROVE  bson_iterator_value(b, it, f) = f[ValuePtr(it)]
BY DEF bson_iterator_value, utf8, document, array, binary, bool, regex, dbpointer

\* The document at p reads as its elements.
LEMMA DocumentIs ==
    ASSUME NEW b \in Buffer, Len(b) <= MaxInt, NEW p, NEW a, IsLayout(b, p, a)
    PROVE  Document(b, p) = [k \in 1 .. (Len(a) - 1) |-> ElementAt(b, a[k])]
<1>0. p \in 0 .. Len(b) /\ p \in Nat /\ Len(b) \in Nat
  BY LayoutOrder DEF IsLayout
<1>1. PICK f : /\ Document(b, p) = ReadElements(b, p, f)
               /\ \A v \in 0 .. Len(b) : f[v] = Document(b, v)
  BY <1>0, DocumentReads
<1> DEFINE w == foreach(b, p)
           g == [v \in (p + 1) .. Len(b) |-> f[v]]
<1>2. w = WalkOver(b, p, a)
  BY WalkIs
<1>3. Len(w) = Len(a) /\ \A k \in 1 .. Len(a) : w[k] = IteratorOf(b, p, a, k)
  <2>1. Len(a) \in Nat
    BY LayoutOrder
  <2>2. WalkOver(b, p, a) = [k \in 1 .. Len(a) |-> IteratorOf(b, p, a, k)]
    BY Zenon DEF WalkOver
  <2> HIDE DEF w
  <2>3. Len(WalkOver(b, p, a)) = Len(a)
    BY <2>1, <2>2
  <2> QED BY <1>2, <2>2, <2>3
<1>4. Document(b, p) = [k \in 1 .. (Len(w) - 1) |->
            [key |-> bson_key(b, w[k]), tag |-> b[w[k].at + 1], val |-> bson_iterator_value(b, w[k], g)]]
  BY <1>1, Zenon DEF ReadElements
<1> HIDE DEF w
<1>5. ASSUME NEW k \in 1 .. (Len(a) - 1)
      PROVE  [key |-> bson_key(b, w[k]), tag |-> b[w[k].at + 1], val |-> bson_iterator_value(b, w[k], g)]
             = ElementAt(b, a[k])
  <2> DEFINE x == a[k]
             y == a[k + 1]
             it == w[k]
             v == ValueAt(b, x)
  <2>1. k \in 1 .. Len(a) /\ k + 1 \in 1 .. Len(a) /\ k # Len(a)
    BY LayoutOrder
  <2>2. it = Iterator(x, KeyLen(b, x), (p + Size(b, p)) - x)
    BY <1>3, <2>1 DEF IteratorOf
  <2>3. it.at = x /\ it.keylen = KeyLen(b, x) /\ it.rlen = (p + Size(b, p)) - x
    BY <2>2 DEF Iterator
  <2>4. Elem(b, x, y)
    BY DEF IsLayout
  <2>5. /\ x \in Nat /\ y \in Nat /\ y <= Len(b) /\ v \in Nat /\ x + 2 <= v /\ v <= y
        /\ y - v = ValueLen(b, b[x + 1], v) /\ b[x + 1] \in Byte
        /\ ValueAt(b, x) = x + KeyLen(b, x) + 2
    BY <2>4, ElemParts
  <2>6. ValuePtr(it) = v
    BY <2>3, <2>5 DEF ValuePtr
  <2>7. bson_key(b, it) = Bytes(b, x + 1, KeyLen(b, x))
    BY <2>3 DEF bson_key
  <2>8. ValueOk(b, b[x + 1], v, y - v)
    BY <2>4 DEF Elem
  <2> HIDE DEF it, v
  <2>9. bson_iterator_value(b, it, g) =
            IF Nests(b, x) THEN Document(b, v) ELSE ScalarAt(b, b[x + 1], v)
    <3>1. CASE ~Nests(b, x)
      <4>1. b[it.at + 1] \in Byte /\ b[it.at + 1] \notin {document, array, dbpointer, 15}
        BY <2>3, <2>5, <2>8, <3>1 DEF Nests, ValueOk
      <4>2. bson_iterator_value(b, it, g) = ScalarAt(b, b[it.at + 1], ValuePtr(it))
        <5> HIDE DEF g
        <5> QED BY <4>1, ScalarRead, Zenon
      <4> QED BY <4>2, <3>1, <2>3, <2>6
    <3>2. CASE Nests(b, x)
      <4>1. y - v >= 5 /\ b[v + (y - v)] = 0
        BY <2>8, <3>2 DEF ValueOk, Nests
      <4>2. Size(b, v) = y - v
        <5>1. ConstSize(b[x + 1]) = 0 /\ HasVarsizePrefix(b[x + 1]) /\ b[x + 1] # regex
          BY <3>2, <2>5, ConstSizes DEF Nests, regex, document, array
        <5>2. v + 4 <= Len(b)
          BY <4>1, <2>5, <1>0, SMTT(30)
        <5>3. read_u32le(b, v) \in Nat /\ Size(b, v) = read_u32le(b, v)
          BY <5>2, <2>5, SizeRead
        <5> QED BY <5>1, <5>3, <2>5 DEF ValueLen
      <4>3. y <= (p + Size(b, p)) - 1 /\ p + 4 <= x /\ Size(b, p) \in Nat
        BY <2>1, LayoutOrder
      <4> DEFINE len == it.rlen - (v - it.at)
      <4>4. len = (p + Size(b, p)) - v /\ len \in Int
        BY <2>3, <2>5, <4>3, <1>0, SMTT(30)
      <4>5. y - v \in 5 .. len /\ len >= 5
        <5> HIDE DEF len, x, y
        <5>1. x \in Nat /\ y \in Nat /\ v \in Nat /\ p \in Nat /\ Size(b, p) \in Nat
          BY <2>5, <4>3, <1>0
        <5>2. y - v <= len
          BY <5>1, <4>3, <4>4
        <5> QED BY <5>1, <5>2, <4>1, <4>4
      <4>6. bson_view_from_data(b, v, len)
        BY <4>1, <4>2, <4>5 DEF bson_view_from_data
      <4>7. bson_iterator_value(b, it, g) = g[v]
        <5>1. b[it.at + 1] \in {document, array}
          BY <2>3, <3>2 DEF Nests
        <5> HIDE DEF g
        <5> QED BY <5>1, <4>6, <2>6, ViewRead
      <4>8. v \in (p + 1) .. Len(b) /\ v \in 0 .. Len(b)
        <5> HIDE DEF len, x, y
        <5>1. x \in Nat /\ y \in Nat /\ v \in Nat /\ p \in Nat /\ x + 2 <= v /\ v <= y /\ y <= Len(b) /\ p + 4 <= x
          BY <2>5, <4>3, <1>0
        <5> QED BY <5>1, <1>0
      <4> QED BY <4>7, <4>8, <1>1, <3>2
    <3> QED BY <3>1, <3>2
  <2>10. ElementAt(b, x) = [key |-> Bytes(b, x + 1, KeyLen(b, x)), tag |-> b[x + 1],
              val |-> IF Nests(b, x) THEN Document(b, v) ELSE ScalarAt(b, b[x + 1], v)]
    BY Zenon DEF ElementAt, v
  <2> QED BY <2>3, <2>7, <2>9, <2>10, Zenon DEF it
<1> QED BY <1>3, <1>4, <1>5

-----------------------------------------------------------------------------
(* Documents whose nested documents are documents.                         *)

\* D holds only documents, and with each one those nested in it.
Closed(b, D) ==
    \A q \in D : \E a : /\ IsLayout(b, q, a)
                        /\ \A k \in 1 .. (Len(a) - 1) : Nests(b, a[k]) => ValueAt(b, a[k]) \in D

\* There is a document at p, and so for all that is nested in it.
Valid(b, p) == \E D : Closed(b, D) /\ p \in D

\* An element whose value is valid, if it is a document.
GoodElem(b, x, y) == Elem(b, x, y) /\ (Nests(b, x) => Valid(b, ValueAt(b, x)))

\* A document with the elements a, all of them good.
Whole(b, p, a) == IsLayout(b, p, a) /\ \A k \in 1 .. (Len(a) - 1) : GoodElem(b, a[k], a[k + 1])

\* The elements of a valid document are good.
LEMMA ValidUnfolds ==
    ASSUME NEW b, NEW p, Valid(b, p)
    PROVE  \E a : Whole(b, p, a)
<1>1. PICK D : Closed(b, D) /\ p \in D
  BY DEF Valid
<1>2. PICK a : IsLayout(b, p, a) /\ \A k \in 1 .. (Len(a) - 1) : Nests(b, a[k]) => ValueAt(b, a[k]) \in D
  BY <1>1 DEF Closed
<1>3. ASSUME NEW k \in 1 .. (Len(a) - 1) PROVE GoodElem(b, a[k], a[k + 1])
  <2>1. Nests(b, a[k]) => Valid(b, ValueAt(b, a[k]))
    BY <1>1, <1>2 DEF Valid
  <2>2. Elem(b, a[k], a[k + 1])
    BY <1>2 DEF IsLayout
  <2> QED BY <2>1, <2>2 DEF GoodElem
<1> QED BY <1>2, <1>3 DEF Whole

\* A document whose elements are good is valid.
LEMMA ValidFolds ==
    ASSUME NEW b \in Buffer, NEW p, NEW a, Whole(b, p, a)
    PROVE  Valid(b, p)
<1> DEFINE D == {q \in Nat : q = p \/ Valid(b, q)}
<1>1. ASSUME NEW q \in D, NEW e, Whole(b, q, e)
      PROVE  /\ IsLayout(b, q, e)
             /\ \A k \in 1 .. (Len(e) - 1) : Nests(b, e[k]) => ValueAt(b, e[k]) \in D
  <2>1. ASSUME NEW k \in 1 .. (Len(e) - 1), Nests(b, e[k]) PROVE ValueAt(b, e[k]) \in D
    <3>1. GoodElem(b, e[k], e[k + 1])
      BY <1>1 DEF Whole
    <3>2. ValueAt(b, e[k]) \in Nat /\ Valid(b, ValueAt(b, e[k]))
      BY <2>1, <3>1, ElemParts DEF GoodElem
    <3> QED BY <3>2
  <2> QED BY <1>1, <2>1 DEF Whole
<1>2. ASSUME NEW q \in D
      PROVE  \E e : /\ IsLayout(b, q, e)
                    /\ \A k \in 1 .. (Len(e) - 1) : Nests(b, e[k]) => ValueAt(b, e[k]) \in D
  <2>1. PICK e : Whole(b, q, e)
    BY ValidUnfolds
  <2> HIDE DEF D
  <2> QED BY <1>1, <2>1
<1>3. p \in D
  BY DEF Whole, IsLayout
<1> HIDE DEF D
<1>4. Closed(b, D)
  BY <1>2 DEF Closed
<1> QED BY <1>3, <1>4 DEF Valid

\* The size of a nested document.
LEMMA NestedSize ==
    ASSUME NEW b \in Buffer, NEW x, NEW y, Elem(b, x, y), Nests(b, x)
    PROVE  /\ Size(b, ValueAt(b, x)) = y - ValueAt(b, x) /\ y - ValueAt(b, x) >= 5
           /\ b[x + 1] # regex /\ b[y] = 0
<1> DEFINE v == ValueAt(b, x)
<1>1. /\ x \in Nat /\ y \in Nat /\ y <= Len(b) /\ Len(b) \in Nat /\ v \in Nat /\ v <= y
      /\ y - v = ValueLen(b, b[x + 1], v) /\ b[x + 1] \in Byte
  BY ElemParts
<1>2. ValueOk(b, b[x + 1], v, y - v)
  BY DEF Elem
<1> HIDE DEF v
<1>3. y - v >= 5 /\ b[v + (y - v)] = 0
  BY <1>2 DEF ValueOk, Nests
<1>4. ConstSize(b[x + 1]) = 0 /\ HasVarsizePrefix(b[x + 1]) /\ b[x + 1] # regex
  BY <1>1, ConstSizes DEF Nests, regex, document, array
<1>5. v + 4 <= Len(b) /\ v + (y - v) = y
  BY <1>1, <1>3
<1>6. read_u32le(b, v) \in Nat /\ Size(b, v) = read_u32le(b, v)
  BY <1>1, <1>5, SizeRead
<1>7. Size(b, v) = y - v
  BY <1>1, <1>4, <1>6 DEF ValueLen
<1> QED BY <1>3, <1>4, <1>5, <1>7 DEF v

\* An element moves, if the document nested in it does.
LEMMA GoodElemFollows ==
    ASSUME NEW b \in Buffer, NEW c \in Buffer, NEW x, NEW y, NEW z \in Nat,
           GoodElem(b, x, y), Same(b, x, c, z, y - x), z + (y - x) <= Len(c),
           Nests(b, x) => /\ Valid(c, z + (ValueAt(b, x) - x))
                          /\ Document(c, z + (ValueAt(b, x) - x)) = Document(b, ValueAt(b, x))
    PROVE  /\ GoodElem(c, z, z + (y - x)) /\ KeyLen(c, z) = KeyLen(b, x)
           /\ ElementAt(c, z) = ElementAt(b, x)
<1>0. Elem(b, x, y)
  BY DEF GoodElem
<1>1. /\ Elem(c, z, z + (y - x))
      /\ c[z + 1] = b[x + 1] /\ KeyLen(c, z) = KeyLen(b, x)
      /\ ValueAt(c, z) = z + (ValueAt(b, x) - x)
      /\ Bytes(c, z + 1, KeyLen(b, x)) = Bytes(b, x + 1, KeyLen(b, x))
      /\ b[x + 1] \notin {document, array} =>
           ScalarAt(c, b[x + 1], ValueAt(c, z)) = ScalarAt(b, b[x + 1], ValueAt(b, x))
  BY <1>0, ElemMoves
<1>2. Nests(c, z) <=> Nests(b, x)
  BY <1>1 DEF Nests
<1>3. GoodElem(c, z, z + (y - x))
  BY <1>1, <1>2 DEF GoodElem
<1>4. CASE Nests(b, x)
  <2>1. Document(c, ValueAt(c, z)) = Document(b, ValueAt(b, x))
    BY <1>1, <1>4
  <2> QED BY <1>1, <1>2, <1>3, <1>4, <2>1 DEF ElementAt
<1>5. CASE ~Nests(b, x)
  <2>1. ScalarAt(c, b[x + 1], ValueAt(c, z)) = ScalarAt(b, b[x + 1], ValueAt(b, x))
    BY <1>1, <1>5 DEF Nests
  <2> QED BY <1>1, <1>2, <1>3, <1>5, <2>1 DEF ElementAt
<1> QED BY <1>4, <1>5

\* Where the elements of a document are that moves from p to z.
Shifted(a, p, z) == [k \in 1 .. Len(a) |-> z + (a[k] - p)]

\* They are the same elements there.
Follow(b, p, a, c, z) ==
    \A k \in 1 .. (Len(a) - 1) : /\ GoodElem(c, z + (a[k] - p), z + (a[k + 1] - p))
                                /\ ElementAt(c, z + (a[k] - p)) = ElementAt(b, a[k])

\* A document moves, if its elements do.
LEMMA WholeFollows ==
    ASSUME NEW b \in Buffer, NEW c \in Buffer, NEW p, NEW a, NEW z \in Nat,
           Len(b) <= MaxInt, Len(c) <= MaxInt,
           Whole(b, p, a), Same(b, p, c, z, Size(b, p)), z + Size(b, p) <= Len(c), Follow(b, p, a, c, z)
    PROVE  /\ Whole(c, z, Shifted(a, p, z))
           /\ Document(c, z) = Document(b, p)
<1> DEFINE e == Shifted(a, p, z)
           n == Size(b, p)
<1>1. /\ p \in Nat /\ Len(b) \in Nat /\ Len(a) \in Nat /\ Len(a) >= 1 /\ n \in Nat /\ n >= 5
      /\ \A k \in 1 .. Len(a) : a[k] \in Nat /\ p + 4 <= a[k] /\ a[k] <= (p + n) - 1
      /\ \A k \in 1 .. (Len(a) - 1) : k \in 1 .. Len(a) /\ k + 1 \in 1 .. Len(a)
  BY LayoutOrder DEF Whole
<1>2. a[1] = p + 4 /\ a[Len(a)] = (p + n) - 1 /\ p + n <= Len(b) /\ b[p + n] = 0
  BY DEF Whole, IsLayout
<1>3. e \in Seq(Nat) /\ Len(e) = Len(a) /\ \A k \in 1 .. Len(a) : e[k] = z + (a[k] - p)
  <2>1. ASSUME NEW k \in 1 .. Len(a) PROVE z + (a[k] - p) \in Nat
    <3> DEFINE x == a[k]
    <3>1. x \in Nat /\ p + 4 <= x /\ p \in Nat
      BY <1>1
    <3> HIDE DEF x
    <3>2. x - p \in Nat
      BY <3>1
    <3>3. z + (x - p) \in Nat
      BY <3>2
    <3> QED BY <3>3 DEF x
  <2>2. e \in [1 .. Len(a) -> Nat]
    BY <2>1 DEF Shifted
  <2>3. \A k \in 1 .. Len(a) : e[k] = z + (a[k] - p)
    BY DEF Shifted
  <2> HIDE DEF e
  <2>4. e \in Seq(Nat) /\ Len(e) = Len(a)
    <3> DEFINE N == Len(a)
    <3>1. N \in Nat /\ e \in [1 .. N -> Nat]
      BY <1>1, <2>2
    <3> HIDE DEF N
    <3>2. e \in Seq(Nat) /\ Len(e) = N
      BY <3>1
    <3> QED BY <3>2 DEF N
  <2> QED BY <2>3, <2>4
<1>4. Size(c, z) = n
  BY <1>1, ReadMoves
<1>5. c[z + n] = 0
  <2>1. n \in 1 .. n
    BY <1>1
  <2> QED BY <2>1, <1>2 DEF Same
<1> HIDE DEF e, n
<1>6. ASSUME NEW k \in 1 .. (Len(e) - 1)
      PROVE  /\ GoodElem(c, e[k], e[k + 1]) /\ ElementAt(c, e[k]) = ElementAt(b, a[k])
             /\ Elem(c, e[k], e[k + 1])
  <2>1. k \in 1 .. (Len(a) - 1) /\ k \in 1 .. Len(a) /\ k + 1 \in 1 .. Len(a)
    BY <1>1, <1>3
  <2>2. e[k] = z + (a[k] - p) /\ e[k + 1] = z + (a[k + 1] - p)
    BY <1>3, <2>1
  <2>3. GoodElem(c, e[k], e[k + 1]) /\ ElementAt(c, e[k]) = ElementAt(b, a[k])
    BY <2>1, <2>2 DEF Follow
  <2> QED BY <2>3 DEF GoodElem
<1>7. IsLayout(c, z, e)
  <2>1. 1 \in 1 .. Len(a) /\ Len(a) \in 1 .. Len(a)
    BY <1>1
  <2>2. e[1] = z + (a[1] - p) /\ e[Len(e)] = z + (a[Len(a)] - p)
    BY <2>1, <1>3
  <2>3. e[1] = z + 4 /\ e[Len(e)] = (z + n) - 1
    BY <2>2, <1>1, <1>2
  <2>4. z + n <= Len(c) /\ z + 5 <= Len(c) /\ Len(c) \in Nat
    <3>1. z + n <= Len(c) /\ Len(c) \in Nat
      BY DEF n, Buffer
    <3> QED BY <3>1, <1>1
  <2> QED BY <2>3, <2>4, <1>1, <1>3, <1>4, <1>5, <1>6 DEF IsLayout
<1>8. Whole(c, z, e)
  BY <1>6, <1>7 DEF Whole
<1>9. Document(c, z) = [k \in 1 .. (Len(e) - 1) |-> ElementAt(c, e[k])]
  BY <1>7, DocumentIs
<1>10. Document(b, p) = [k \in 1 .. (Len(a) - 1) |-> ElementAt(b, a[k])]
  BY DocumentIs DEF Whole
<1>11. Document(c, z) = Document(b, p)
  BY <1>3, <1>6, <1>9, <1>10
<1> QED BY <1>8, <1>11 DEF e

\* A document is the same document wherever its bytes are.
LEMMA DocumentMoves ==
    ASSUME NEW b \in Buffer, NEW c \in Buffer, Len(b) <= MaxInt, Len(c) <= MaxInt,
           NEW p, NEW z \in Nat, Valid(b, p), Same(b, p, c, z, Size(b, p)), z + Size(b, p) <= Len(c)
    PROVE  Valid(c, z) /\ Document(c, z) = Document(b, p)
<1> DEFINE Moved(q, u) == Valid(c, u) /\ Document(c, u) = Document(b, q)
           May(q, u, n) == /\ u \in Nat /\ Valid(b, q) /\ Size(b, q) = n
                           /\ Same(b, q, c, u, n) /\ u + n <= Len(c)
           T == {n \in Nat : \E q, u : May(q, u, n) /\ ~Moved(q, u)}
<1>0. Len(b) \in Nat /\ Len(c) \in Nat
  BY DEF Buffer
<1>1. T = {}
  <2> SUFFICES ASSUME T # {} PROVE FALSE
    OBVIOUS
  <2>1. PICK n \in T : \A m \in T : n <= m
    <3>1. T \in SUBSET Nat
      OBVIOUS
    <3> HIDE DEF T
    <3> QED BY <3>1, LeastNatural
  <2>2. PICK q, u : May(q, u, n) /\ ~Moved(q, u)
    BY <2>1
  <2>3. u \in Nat /\ Valid(b, q) /\ Size(b, q) = n /\ Same(b, q, c, u, n) /\ u + n <= Len(c) /\ n \in Nat
    BY <2>1, <2>2
  <2>4. PICK a : Whole(b, q, a)
    BY <2>3, ValidUnfolds
  <2>5. /\ q \in Nat /\ Len(a) \in Nat
        /\ \A k \in 1 .. Len(a) : a[k] \in Nat /\ q + 4 <= a[k] /\ a[k] <= (q + n) - 1
        /\ \A k \in 1 .. (Len(a) - 1) : k \in 1 .. Len(a) /\ k + 1 \in 1 .. Len(a)
    BY <2>3, <2>4, LayoutOrder DEF Whole
  <2>6. \A m \in Nat : m < n => \A r, s : May(r, s, m) => Moved(r, s)
    <3> SUFFICES ASSUME NEW m \in Nat, m < n, NEW r, NEW s, May(r, s, m), ~Moved(r, s) PROVE FALSE
      OBVIOUS
    <3>1. m \in T
      OBVIOUS
    <3> HIDE DEF T
    <3> QED BY <3>1, <2>1, <2>3
  <2> HIDE DEF T
  <2>7. ASSUME NEW k \in 1 .. (Len(a) - 1)
        PROVE  /\ GoodElem(c, u + (a[k] - q), u + (a[k + 1] - q))
               /\ ElementAt(c, u + (a[k] - q)) = ElementAt(b, a[k])
    <3> DEFINE x == a[k]
               y == a[k + 1]
               v == ValueAt(b, x)
               o == u + (x - q)
               i == y - v
    <3>1. /\ x \in Nat /\ y \in Nat /\ q + 4 <= x /\ y <= (q + n) - 1
      BY <2>5
    <3>2. GoodElem(b, x, y)
      BY <2>4 DEF Whole
    <3>3. v \in Nat /\ x + 2 <= v /\ v <= y /\ i \in Nat /\ i = y - v
      BY <3>2, ElemParts DEF GoodElem
    <3>4. o \in Nat /\ o = u + (x - q)
      BY <2>3, <2>5, <3>1, SMTT(30)
    <3> HIDE DEF x, y, v, o, i
    <3>5. x - q \in Nat /\ y - x \in Nat /\ (x - q) + (y - x) <= n /\ q + (x - q) = x
      BY <3>1, <3>3, <2>3, <2>5
    <3>6. Same(b, x, c, o, y - x)
      <4>1. Same(b, q + (x - q), c, u + (x - q), y - x)
        BY <3>5, <2>3, <2>5, SameWithin
      <4> QED BY <4>1, <3>4, <3>5
    <3>7. o + (y - x) <= Len(c) /\ o + (y - x) = u + (y - q)
      BY <2>3, <2>5, <3>1, <3>4, <1>0
    <3>8. ASSUME Nests(b, x)
          PROVE  Valid(c, o + (v - x)) /\ Document(c, o + (v - x)) = Document(b, v)
      <4>1. Valid(b, v) /\ Size(b, v) = i
        BY <3>2, <3>8, NestedSize DEF GoodElem, v, i
      <4>2. v - x \in Nat /\ (v - x) + i <= y - x /\ x + (v - x) = v /\ o + (v - x) \in Nat /\ i < n
            /\ (o + (v - x)) + i <= Len(c)
        BY <3>1, <3>3, <3>4, <3>7, <2>3, <2>5, <1>0
      <4>3. Same(b, x + (v - x), c, o + (v - x), i)
        BY <3>1, <3>3, <3>4, <3>5, <3>6, <4>2, SameWithin
      <4>4. May(v, o + (v - x), i)
        BY <4>1, <4>2, <4>3
      <4>5. Moved(v, o + (v - x))
        BY <2>6, <3>3, <4>2, <4>4
      <4> QED BY <4>5
    <3>9. GoodElem(c, o, o + (y - x)) /\ ElementAt(c, o) = ElementAt(b, x)
      <4>1. Nests(b, x) => /\ Valid(c, o + (ValueAt(b, x) - x))
                           /\ Document(c, o + (ValueAt(b, x) - x)) = Document(b, ValueAt(b, x))
        BY <3>8 DEF v
      <4> QED BY <3>2, <3>4, <3>6, <3>7, <4>1, GoodElemFollows
    <3> QED BY <3>4, <3>7, <3>9 DEF x, y
  <2>8. Whole(c, u, Shifted(a, q, u)) /\ Document(c, u) = Document(b, q)
    <3>1. Same(b, q, c, u, Size(b, q)) /\ u + Size(b, q) <= Len(c) /\ u \in Nat
      BY <2>3
    <3>2. Follow(b, q, a, c, u)
      BY <2>7 DEF Follow
    <3> QED BY <3>1, <3>2, <2>4, WholeFollows
  <2>9. Valid(c, u)
    BY <2>8, ValidFolds
  <2> QED BY <2>2, <2>8, <2>9
<1>2. Size(b, p) \in Nat
  <2>1. PICK a : Whole(b, p, a)
    BY ValidUnfolds
  <2> QED BY <2>1, LayoutOrder DEF Whole
<1>3. May(p, z, Size(b, p))
  OBVIOUS
<1> QED BY <1>1, <1>2, <1>3

\* So is an element.
LEMMA GoodElemMoves ==
    ASSUME NEW b \in Buffer, NEW c \in Buffer, Len(b) <= MaxInt, Len(c) <= MaxInt,
           NEW x, NEW y, NEW z \in Nat,
           GoodElem(b, x, y), Same(b, x, c, z, y - x), z + (y - x) <= Len(c)
    PROVE  /\ GoodElem(c, z, z + (y - x)) /\ KeyLen(c, z) = KeyLen(b, x)
           /\ ElementAt(c, z) = ElementAt(b, x)
<1> DEFINE v == ValueAt(b, x)
<1>1. Elem(b, x, y)
  BY DEF GoodElem
<1>2. x \in Nat /\ y \in Nat /\ v \in Nat /\ x + 2 <= v /\ v <= y /\ Len(c) \in Nat
  BY <1>1, ElemParts DEF Buffer
<1>3. ASSUME Nests(b, x)
      PROVE  Valid(c, z + (v - x)) /\ Document(c, z + (v - x)) = Document(b, v)
  <2>1. Valid(b, v) /\ Size(b, v) = y - v
    BY <1>1, <1>3, NestedSize DEF GoodElem
  <2> HIDE DEF v
  <2>2. v - x \in Nat /\ y - v \in Nat /\ y - x \in Nat /\ (v - x) + (y - v) <= y - x /\ x + (v - x) = v
        /\ z + (v - x) \in Nat /\ (z + (v - x)) + (y - v) <= Len(c)
    BY <1>2
  <2>3. Same(b, x + (v - x), c, z + (v - x), y - v)
    BY <1>2, <2>2, SameWithin
  <2> QED BY <2>1, <2>2, <2>3, DocumentMoves
<1> QED BY <1>3, GoodElemFollows

-----------------------------------------------------------------------------
(* Editing a document.                                                     *)

\* Where d differs from b within the document at p: the bytes x .. y - 1 have
\* become x .. z - 1, and the size says so.
Patch(b, d, p, x, y, z) ==
    /\ p \in Nat /\ x \in Nat /\ y \in Nat /\ z \in Nat
    /\ p + 4 <= x /\ x <= y /\ x <= z /\ y <= Len(b)
    /\ Len(d) = Len(b) + (z - y)
    /\ Same(b, p + 4, d, p + 4, x - (p + 4))
    /\ Same(b, y, d, z, Len(b) - y)
    /\ Size(d, p) = Size(b, p) + (z - y)

\* Elements that follow each other.
Run(d, e) == e \in Seq(Nat) /\ Len(e) >= 1 /\ \A j \in 1 .. (Len(e) - 1) : GoodElem(d, e[j], e[j + 1])

\* a2 is a, with its elements k .. l - 1 replaced by those of e, and those
\* behind them moved by diff.
Replaced(a, a2, k, l, e, diff) ==
    /\ a2 \in Seq(Nat) /\ Len(a2) = (k + Len(e) - 1) + (Len(a) - l)
    /\ \A j \in 1 .. k : a2[j] = a[j]
    /\ \A j \in 1 .. Len(e) : a2[(k - 1) + j] = e[j]
    /\ \A i \in l .. Len(a) : a2[(k + Len(e) - 1) + (i - l)] = a[i] + diff

\* There are such elements.
LEMMA ReplacedExists ==
    ASSUME NEW a \in Seq(Nat), NEW e \in Seq(Nat), NEW k \in 1 .. Len(a), NEW l \in k .. Len(a), Len(e) >= 1,
           NEW diff \in Int, e[1] = a[k], e[Len(e)] = a[l] + diff,
           \A i \in l .. Len(a) : a[i] + diff \in Nat
    PROVE  \E a2 : Replaced(a, a2, k, l, e, diff)
<1> DEFINE n == Len(a)
           m == Len(e)
           s == k + m - 1
           N == s + (n - l)
           F(j) == IF j < k THEN a[j] ELSE IF j < s THEN e[j - (k - 1)] ELSE a[(j - s) + l] + diff
           a2 == [j \in 1 .. N |-> F(j)]
<1>1. /\ n \in Nat /\ m \in Nat /\ m >= 1 /\ k \in Nat /\ l \in Nat /\ 1 <= k /\ k <= l /\ l <= n
      /\ s = k + m - 1 /\ N = s + (n - l) /\ s \in Nat /\ N \in Nat /\ k <= s /\ s <= N
  <2>1. Len(a) \in Nat /\ Len(e) \in Nat
    BY SMTT(30)
  <2> QED BY <2>1, SMTT(30)
<1>b. (\A i \in 1 .. n : a[i] \in Nat) /\ \A i \in 1 .. m : e[i] \in Nat
  <2>1. \A i \in 1 .. Len(a) : a[i] \in Nat
    BY SMTT(30)
  <2>2. \A i \in 1 .. Len(e) : e[i] \in Nat
    BY SMTT(30)
  <2> QED BY <2>1, <2>2
<1>2. e[m] = a[l] + diff /\ e[1] = a[k] /\ \A i \in l .. n : a[i] + diff \in Nat
  OBVIOUS
<1> HIDE DEF n, m, s, N
<1>3. \A j \in 1 .. N : F(j) \in Nat
  <2> SUFFICES ASSUME NEW j \in 1 .. N PROVE F(j) \in Nat
    OBVIOUS
  <2>1. CASE j < k
    <3>1. j \in 1 .. n
      BY <2>1, <1>1
    <3> QED BY <3>1, <2>1, <1>b
  <2>2. CASE ~(j < k) /\ j < s
    <3>1. j - (k - 1) \in 1 .. m
      BY <2>2, <1>1
    <3> QED BY <3>1, <2>2, <1>b
  <2>3. CASE ~(j < k) /\ ~(j < s)
    <3>1. (j - s) + l \in l .. n
      BY <2>3, <1>1
    <3> QED BY <3>1, <2>3, <1>2
  <2> QED BY <2>1, <2>2, <2>3
<1> HIDE DEF F
<1>4. a2 \in [1 .. N -> Nat] /\ \A j \in 1 .. N : a2[j] = F(j)
  BY <1>3
<1> HIDE DEF a2
<1>5. a2 \in Seq(Nat) /\ Len(a2) = N
  <2>1. N \in Nat /\ a2 \in [1 .. N -> Nat]
    BY <1>1, <1>4
  <2> QED BY <2>1
<1>6. ASSUME NEW j \in 1 .. m PROVE a2[(k - 1) + j] = e[j]
  <2> DEFINE i == (k - 1) + j
  <2>1. i \in 1 .. N /\ i - (k - 1) = j /\ ~(i < k) /\ (i < s <=> j < m) /\ (j = m => i - s = 0)
    BY <1>1
  <2>2. a2[i] = F(i)
    BY <2>1, <1>4
  <2>3. CASE j < m
    BY <2>1, <2>2, <2>3 DEF F
  <2>4. CASE ~(j < m)
    <3>1. j = m /\ (i - s) + l = l
      BY <2>1, <2>4, <1>1
    <3> QED BY <3>1, <2>1, <2>2, <1>2 DEF F
  <2> QED BY <2>3, <2>4
<1>7. ASSUME NEW j \in 1 .. k PROVE a2[j] = a[j]
  <2>1. CASE j < k
    <3>1. j \in 1 .. N
      BY <1>1
    <3> QED BY <3>1, <2>1, <1>4 DEF F
  <2>2. CASE j = k
    <3>1. 1 \in 1 .. m /\ (k - 1) + 1 = k
      BY <1>1
    <3>2. a2[(k - 1) + 1] = e[1]
      BY <3>1, <1>6
    <3> QED BY <3>1, <3>2, <2>2, <1>2
  <2> QED BY <2>1, <2>2
<1>8. ASSUME NEW i \in l .. n PROVE a2[s + (i - l)] = a[i] + diff
  <2>1. s + (i - l) \in 1 .. N /\ ~(s + (i - l) < k) /\ ~(s + (i - l) < s) /\ ((s + (i - l)) - s) + l = i
    BY <1>1
  <2> QED BY <2>1, <1>4 DEF F
<1>9. Replaced(a, a2, k, l, e, diff)
  <2>1. Len(a2) = (k + Len(e) - 1) + (Len(a) - l)
    BY <1>1, <1>5 DEF n, m
  <2>2. \A j \in 1 .. Len(e) : a2[(k - 1) + j] = e[j]
    BY <1>6 DEF m
  <2>3. \A i \in l .. Len(a) : a2[(k + Len(e) - 1) + (i - l)] = a[i] + diff
    <3>1. k + Len(e) - 1 = s
      BY <1>1 DEF m
    <3> QED BY <1>8, <3>1 DEF n
  <2> QED BY <1>5, <1>7, <2>1, <2>2, <2>3 DEF Replaced
<1> QED BY <1>9

\* The elements of a document are in order.
LEMMA LayoutGrows ==
    ASSUME NEW b \in Buffer, NEW p, NEW a, Whole(b, p, a),
           NEW i \in 1 .. Len(a), NEW j \in 1 .. Len(a), i <= j
    PROVE  a[i] \in Nat /\ a[j] \in Nat /\ a[i] <= a[j]
<1>1. a[i] \in Nat /\ a[j] \in Nat /\ a[i] + 2 * (j - i) <= a[j]
  BY LayoutOrder DEF Whole
<1>2. j - i \in Nat
  BY LayoutOrder DEF Whole
<1> DEFINE h == j - i
           u == a[i]
           v == a[j]
<1>3. u \in Nat /\ v \in Nat /\ u + 2 * h <= v /\ h \in Nat
  BY <1>1, <1>2
<1> HIDE DEF h, u, v
<1>4. u <= v
  BY <1>3
<1> QED BY <1>1, <1>4 DEF u, v

\* The elements before, within and behind the edit.
LEMMA EditedElements ==
    ASSUME NEW b \in Buffer, NEW d \in Buffer, Len(b) <= MaxInt, Len(d) <= MaxInt,
           NEW p, NEW a, Whole(b, p, a), NEW k \in 1 .. Len(a), NEW l \in k .. Len(a),
           NEW e, Run(d, e), e[1] = a[k],
           Patch(b, d, p, a[k], a[l], e[Len(e)])
    PROVE  LET diff == e[Len(e)] - a[l]
           IN /\ \A j \in 1 .. (k - 1) : /\ GoodElem(d, a[j], a[j + 1])
                                         /\ ElementAt(d, a[j]) = ElementAt(b, a[j])
              /\ \A i \in l .. (Len(a) - 1) : /\ GoodElem(d, a[i] + diff, a[i + 1] + diff)
                                              /\ ElementAt(d, a[i] + diff) = ElementAt(b, a[i])
                                              /\ KeyLen(d, a[i] + diff) = KeyLen(b, a[i])
              /\ \A i \in l .. Len(a) : a[i] + diff \in Nat
<1> DEFINE x == a[k]
           y == a[l]
           z == e[Len(e)]
           n == Len(a)
           diff == z - y
<1>1. /\ p \in Nat /\ Len(b) \in Nat /\ n \in Nat /\ n >= 1 /\ Size(b, p) \in Nat
  BY LayoutOrder DEF Whole
<1>a. \A i \in 1 .. n : a[i] \in Nat /\ p + 4 <= a[i] /\ a[i] <= (p + Size(b, p)) - 1
  BY LayoutOrder DEF Whole
<1>b. \A i \in 1 .. (n - 1) : a[i] + 2 <= a[i + 1]
  BY LayoutOrder DEF Whole
<1>2. p + Size(b, p) <= Len(b)
  BY DEF Whole, IsLayout
<1>3. /\ x \in Nat /\ y \in Nat /\ z \in Nat /\ p + 4 <= x /\ x <= y /\ x <= z /\ y <= Len(b)
      /\ Len(d) = Len(b) + (z - y) /\ Len(d) \in Nat
  BY DEF Patch, Buffer
<1>c. Same(b, p + 4, d, p + 4, x - (p + 4)) /\ Same(b, y, d, z, Len(b) - y)
  BY DEF Patch
<1>4. \A j \in 1 .. (n - 1) : GoodElem(b, a[j], a[j + 1])
  BY DEF Whole
<1>5. k \in Nat /\ l \in Nat /\ 1 <= k /\ k <= l /\ l <= n /\ diff = z - y /\ k \in 1 .. n /\ l \in 1 .. n
  BY <1>1
<1>6. \A i, j \in 1 .. n : i <= j => a[i] <= a[j]
  BY LayoutGrows
<1>7. x = a[k] /\ y = a[l] /\ n = Len(a)
  OBVIOUS
<1> HIDE DEF x, y, z, n, diff
<1>8. ASSUME NEW j \in 1 .. (k - 1)
      PROVE  GoodElem(d, a[j], a[j + 1]) /\ ElementAt(d, a[j]) = ElementAt(b, a[j])
  <2>1. j \in 1 .. n /\ j + 1 \in 1 .. n /\ j \in 1 .. (n - 1) /\ j + 1 <= k
    BY <1>5, <1>1, SMTT(30)
  <2> DEFINE u == a[j]
             v == a[j + 1]
  <2>2. u \in Nat /\ v \in Nat /\ p + 4 <= u /\ u + 2 <= v /\ v <= x
    <3>1. u \in Nat /\ v \in Nat /\ p + 4 <= u
      BY <2>1, <1>a
    <3>2. v <= x
      BY <2>1, <1>5, <1>6, <1>7
    <3> QED BY <3>1, <3>2, <2>1, <1>b
  <2>3. GoodElem(b, u, v)
    BY <2>1, <1>4
  <2> HIDE DEF u, v
  <2> DEFINE o == u - (p + 4)
  <2>4. o \in Nat /\ v - u \in Nat /\ o + (v - u) <= x - (p + 4) /\ x - (p + 4) \in Nat /\ (p + 4) + o = u
        /\ p + 4 \in Nat /\ u + (v - u) = v /\ v <= Len(d)
    BY <2>2, <1>1, <1>3
  <2> HIDE DEF o
  <2>5. Same(b, (p + 4) + o, d, (p + 4) + o, v - u)
    BY <2>4, <1>c, SameWithin
  <2>6. Same(b, u, d, u, v - u) /\ u + (v - u) <= Len(d) /\ u \in Nat
    BY <2>2, <2>4, <2>5
  <2>7. GoodElem(d, u, u + (v - u)) /\ ElementAt(d, u) = ElementAt(b, u)
    BY <2>3, <2>6, GoodElemMoves
  <2> QED BY <2>4, <2>7 DEF u, v
<1>9. ASSUME NEW i \in l .. (n - 1)
      PROVE  /\ GoodElem(d, a[i] + diff, a[i + 1] + diff)
             /\ ElementAt(d, a[i] + diff) = ElementAt(b, a[i])
             /\ KeyLen(d, a[i] + diff) = KeyLen(b, a[i])
  <2>1. i \in 1 .. n /\ i + 1 \in 1 .. n /\ i \in 1 .. (n - 1) /\ l <= i
    BY <1>5, <1>1, SMTT(30)
  <2> DEFINE u == a[i]
             v == a[i + 1]
  <2>2. u \in Nat /\ v \in Nat /\ y <= u /\ u + 2 <= v /\ v <= Len(b)
    <3>1. u \in Nat /\ v \in Nat /\ v <= (p + Size(b, p)) - 1
      BY <2>1, <1>a
    <3>2. y <= u
      BY <2>1, <1>5, <1>6, <1>7
    <3>3. u + 2 <= v
      BY <2>1, <1>b
    <3> HIDE DEF u, v
    <3> QED BY <3>1, <3>2, <3>3, <1>1, <1>2
  <2>3. GoodElem(b, u, v)
    BY <2>1, <1>4
  <2> HIDE DEF u, v
  <2> DEFINE o == u - y
  <2>4. o \in Nat /\ v - u \in Nat /\ o + (v - u) <= Len(b) - y /\ Len(b) - y \in Nat /\ y + o = u
        /\ z + o = u + diff /\ z + o \in Nat /\ (u + diff) + (v - u) = v + diff /\ v + diff <= Len(d)
    BY <2>2, <1>1, <1>3, <1>5
  <2> HIDE DEF o
  <2>5. Same(b, y + o, d, z + o, v - u)
    BY <2>4, <1>3, <1>c, SameWithin
  <2>6. Same(b, u, d, u + diff, v - u) /\ (u + diff) + (v - u) <= Len(d) /\ u + diff \in Nat
    BY <2>4, <2>5
  <2>7. GoodElem(d, u + diff, (u + diff) + (v - u)) /\ ElementAt(d, u + diff) = ElementAt(b, u)
        /\ KeyLen(d, u + diff) = KeyLen(b, u)
    BY <2>3, <2>6, GoodElemMoves
  <2> QED BY <2>4, <2>7 DEF u, v
<1>10. ASSUME NEW i \in l .. n PROVE a[i] + diff \in Nat
  <2>1. i \in 1 .. n /\ l <= i
    BY <1>5, <1>1
  <2> DEFINE u == a[i]
  <2>2. u \in Nat
    BY <2>1, <1>a
  <2>3. y <= u
    BY <2>1, <1>5, <1>6, <1>7
  <2> HIDE DEF u
  <2>4. u + diff \in Nat
    BY <2>2, <2>3, <1>3, <1>5
  <2> QED BY <2>4 DEF u
<1> QED BY <1>8, <1>9, <1>10 DEF diff, n, y, z

\* The document after the edit.
LEMMA EditedLayout ==
    ASSUME NEW b \in Buffer, NEW d \in Buffer, Len(b) <= MaxInt, Len(d) <= MaxInt,
           NEW p, NEW a, Whole(b, p, a), NEW k \in 1 .. Len(a), NEW l \in k .. Len(a),
           NEW e, Run(d, e), e[1] = a[k],
           Patch(b, d, p, a[k], a[l], e[Len(e)]),
           NEW a2, Replaced(a, a2, k, l, e, e[Len(e)] - a[l])
    PROVE  Whole(d, p, a2)
<1> DEFINE x == a[k]
           y == a[l]
           z == e[Len(e)]
           n == Len(a)
           m == Len(e)
           s == k + m - 1
           N == Len(a2)
           diff == z - y
           S == Size(b, p)
<1>1. p \in Nat /\ Len(b) \in Nat /\ n \in Nat /\ n >= 1 /\ S \in Nat
  BY LayoutOrder DEF Whole
<1>a. \A i \in 1 .. n : a[i] \in Nat /\ p + 4 <= a[i] /\ a[i] <= (p + S) - 1
  BY LayoutOrder DEF Whole
<1>2. p + S <= Len(b) /\ a[1] = p + 4 /\ a[n] = (p + S) - 1 /\ b[p + S] = 0
  BY DEF Whole, IsLayout
<1>3. /\ x \in Nat /\ y \in Nat /\ z \in Nat /\ p + 4 <= x /\ x <= y /\ x <= z /\ y <= Len(b)
      /\ Len(d) = Len(b) + (z - y) /\ Len(d) \in Nat
      /\ Size(d, p) = S + (z - y) /\ y <= (p + S) - 1
  <2>1. l \in 1 .. n
    BY <1>1
  <2>2. y <= (p + S) - 1
    BY <2>1, <1>a
  <2> QED BY <2>2 DEF Patch, Buffer
<1>b. Same(b, y, d, z, Len(b) - y)
  BY DEF Patch
<1>c. a2 \in Seq(Nat) /\ N = (k + m - 1) + (n - l)
  BY DEF Replaced
<1>4. /\ \A j \in 1 .. k : a2[j] = a[j]
      /\ \A j \in 1 .. m : a2[(k - 1) + j] = e[j]
      /\ \A i \in l .. n : a2[s + (i - l)] = a[i] + diff
  BY DEF Replaced
<1>d. m \in Nat /\ m >= 1
  BY DEF Run
<1>5. \A j \in 1 .. (m - 1) : GoodElem(d, e[j], e[j + 1])
  BY DEF Run
<1>e. s = k + m - 1 /\ diff = z - y
  OBVIOUS
<1>7. /\ \A j \in 1 .. (k - 1) : GoodElem(d, a[j], a[j + 1])
      /\ \A i \in l .. (n - 1) : GoodElem(d, a[i] + diff, a[i + 1] + diff)
  BY EditedElements
<1> HIDE DEF x, y, z, m, s, N, diff, S
<1>6. /\ k \in Nat /\ l \in Nat /\ 1 <= k /\ k <= l /\ l <= n /\ N = s + (n - l) /\ s = k + m - 1
      /\ s \in Nat /\ k <= s /\ N \in Nat /\ s <= N /\ n \in Nat /\ m \in Nat /\ m >= 1
  BY <1>1, <1>c, <1>d, <1>e
<1> HIDE DEF n
<1>8. ASSUME NEW j \in 1 .. (N - 1) PROVE GoodElem(d, a2[j], a2[j + 1])
  <2>1. CASE j < k
    <3>1. j \in 1 .. (k - 1) /\ j \in 1 .. k /\ j + 1 \in 1 .. k
      BY <2>1, <1>6
    <3>2. a2[j] = a[j] /\ a2[j + 1] = a[j + 1]
      BY <3>1, <1>4
    <3> QED BY <3>1, <3>2, <1>7
  <2>2. CASE k <= j /\ j < s
    <3> DEFINE i == j - (k - 1)
    <3>1. i \in 1 .. (m - 1) /\ i \in 1 .. m /\ i + 1 \in 1 .. m /\ (k - 1) + i = j /\ (k - 1) + (i + 1) = j + 1
      BY <2>2, <1>6
    <3> HIDE DEF i
    <3>2. a2[(k - 1) + i] = e[i] /\ a2[(k - 1) + (i + 1)] = e[i + 1]
      BY <3>1, <1>4
    <3> QED BY <3>1, <3>2, <1>5
  <2>3. CASE s <= j
    <3> DEFINE i == (j - s) + l
    <3>1. i \in l .. (n - 1) /\ i \in l .. n /\ i + 1 \in l .. n /\ s + (i - l) = j /\ s + ((i + 1) - l) = j + 1
      BY <2>3, <1>6
    <3> HIDE DEF i
    <3>2. a2[s + (i - l)] = a[i] + diff /\ a2[s + ((i + 1) - l)] = a[i + 1] + diff
      BY <3>1, <1>4
    <3> QED BY <3>1, <3>2, <1>7
  <2> QED BY <2>1, <2>2, <2>3, <1>6
<1>9. a2[1] = p + 4
  <2>1. 1 \in 1 .. k
    BY <1>6
  <2> QED BY <2>1, <1>2, <1>4
<1>10. a2[N] = (p + Size(d, p)) - 1
  <2>1. n \in l .. n /\ s + (n - l) = N
    BY <1>6
  <2>2. a2[N] = a[n] + diff
    BY <2>1, <1>4
  <2>3. a[n] = (p + S) - 1
    BY <1>2
  <2>4. ((p + S) - 1) + diff = (p + Size(d, p)) - 1
    BY <1>1, <1>3, <1>e
  <2> QED BY <2>2, <2>3, <2>4
<1>11. p + Size(d, p) <= Len(d) /\ p + 5 <= Len(d)
  <2>1. p + S <= Len(b)
    BY <1>2
  <2> QED BY <2>1, <1>1, <1>3, SMTT(30)
<1>12. d[p + Size(d, p)] = 0
  <2> DEFINE o == (p + S) - y
  <2>1. o \in 1 .. (Len(b) - y) /\ y + o = p + S /\ z + o = p + Size(d, p)
    <3>1. p + S <= Len(b)
      BY <1>2
    <3> QED BY <3>1, <1>1, <1>3
  <2> HIDE DEF o
  <2>2. d[z + o] = b[y + o]
    BY <2>1, <1>b DEF Same
  <2> QED BY <2>1, <2>2, <1>2
<1>13. \A j \in 1 .. (Len(a2) - 1) : GoodElem(d, a2[j], a2[j + 1])
  BY <1>8 DEF N
<1>14. Len(a2) >= 1 /\ a2[Len(a2)] = (p + Size(d, p)) - 1
  BY <1>6, <1>10 DEF N
<1>15. IsLayout(d, p, a2)
  BY <1>1, <1>c, <1>9, <1>11, <1>12, <1>13, <1>14 DEF IsLayout, GoodElem
<1> QED BY <1>13, <1>15 DEF Whole

\* Three parts put together.
LEMMA ThreeSequences ==
    ASSUME NEW S, NEW x \in Seq(S), NEW y \in Seq(S), NEW z \in Seq(S)
    PROVE  /\ x \o y \o z \in Seq(S) /\ Len(x \o y \o z) = Len(x) + Len(y) + Len(z)
           /\ \A j \in 1 .. Len(x) : (x \o y \o z)[j] = x[j]
           /\ \A j \in 1 .. Len(y) : (x \o y \o z)[Len(x) + j] = y[j]
           /\ \A j \in 1 .. Len(z) : (x \o y \o z)[Len(x) + Len(y) + j] = z[j]
<1> DEFINE u == x \o y
<1>1. u \in Seq(S) /\ Len(u) = Len(x) + Len(y) /\ Len(x) \in Nat /\ Len(y) \in Nat /\ Len(z) \in Nat
  OBVIOUS
<1>2. /\ \A j \in 1 .. Len(x) : u[j] = x[j]
      /\ \A j \in 1 .. Len(y) : u[Len(x) + j] = y[j]
  OBVIOUS
<1> HIDE DEF u
<1>3. u \o z \in Seq(S) /\ Len(u \o z) = Len(x) + Len(y) + Len(z)
  <2>1. u \in Seq(S)
    BY <1>1
  <2>2. u \o z \in Seq(S) /\ Len(u \o z) = Len(u) + Len(z)
    BY <2>1
  <2> QED BY <2>2, <1>1
<1>4. /\ \A j \in 1 .. Len(u) : (u \o z)[j] = u[j]
      /\ \A j \in 1 .. Len(z) : (u \o z)[Len(u) + j] = z[j]
  BY <1>1, SMTT(30)
<1>5. \A j \in 1 .. Len(x) : (u \o z)[j] = x[j]
  <2>1. \A j \in 1 .. Len(x) : j \in 1 .. Len(u)
    BY <1>1
  <2> QED BY <2>1, <1>2, <1>4
<1>6. \A j \in 1 .. Len(y) : (u \o z)[Len(x) + j] = y[j]
  <2>1. \A j \in 1 .. Len(y) : Len(x) + j \in 1 .. Len(u)
    BY <1>1
  <2> QED BY <2>1, <1>2, <1>4
<1>7. \A j \in 1 .. Len(z) : (u \o z)[Len(x) + Len(y) + j] = z[j]
  BY <1>1, <1>4
<1> QED BY <1>3, <1>5, <1>6, <1>7 DEF u

\* Q is D with E in the place of its elements k .. l - 1.
Parts(S, Q, D, E, k, l) ==
    /\ Q \in Seq(S) /\ Len(Q) = ((k - 1) + Len(E)) + ((Len(D) + 1) - l)
    /\ \A j \in 1 .. (k - 1) : Q[j] = D[j]
    /\ \A j \in 1 .. Len(E) : Q[(k - 1) + j] = E[j]
    /\ \A j \in 1 .. ((Len(D) + 1) - l) : Q[((k - 1) + Len(E)) + j] = D[(l - 1) + j]

\* Two ends of a sequence and another between them.
LEMMA EndsAndMiddle ==
    ASSUME NEW S, NEW D \in Seq(S), NEW E \in Seq(S),
           NEW k \in Nat, NEW l \in Nat, 1 <= k, k <= l, l <= Len(D) + 1
    PROVE  Parts(S, SubSeq(D, 1, k - 1) \o E \o SubSeq(D, l, Len(D)), D, E, k, l)
<1> DEFINE x == SubSeq(D, 1, k - 1)
           z == SubSeq(D, l, Len(D))
           n == Len(D)
           m == Len(E)
           Q == x \o E \o z
<1>1. n \in Nat /\ m \in Nat
  OBVIOUS
<1>2. x \in Seq(S) /\ Len(x) = k - 1 /\ \A j \in 1 .. (k - 1) : x[j] = D[j]
  OBVIOUS
<1>3. z \in Seq(S) /\ Len(z) = (n + 1) - l
  OBVIOUS
<1>4. \A j \in 1 .. ((n + 1) - l) : z[j] = D[(l - 1) + j]
  OBVIOUS
<1> HIDE DEF x, z
<1>6. /\ Q \in Seq(S) /\ Len(Q) = Len(x) + Len(E) + Len(z)
      /\ \A j \in 1 .. Len(x) : Q[j] = x[j]
      /\ \A j \in 1 .. Len(E) : Q[Len(x) + j] = E[j]
      /\ \A j \in 1 .. Len(z) : Q[Len(x) + Len(E) + j] = z[j]
  <2>1. x \in Seq(S) /\ z \in Seq(S)
    BY <1>2, <1>3
  <2> QED BY <2>1, ThreeSequences, SMTT(30)
<1> HIDE DEF Q
<1>7. /\ Q \in Seq(S) /\ Len(Q) = ((k - 1) + m) + ((n + 1) - l)
      /\ \A j \in 1 .. (k - 1) : Q[j] = D[j]
      /\ \A j \in 1 .. m : Q[(k - 1) + j] = E[j]
  BY <1>1, <1>2, <1>3, <1>6
<1>8. \A j \in 1 .. ((n + 1) - l) : Q[((k - 1) + m) + j] = D[(l - 1) + j]
  BY <1>1, <1>2, <1>3, <1>4, <1>6
<1>9. Parts(S, Q, D, E, k, l)
  BY <1>7, <1>8 DEF Parts
<1> QED BY <1>9 DEF Q, x, z

\* The parts determine the sequence.
LEMMA FromThreeParts ==
    ASSUME NEW S, NEW D \in Seq(S), NEW E \in Seq(S), NEW R, NEW Q,
           NEW k \in Nat, NEW l \in Nat, 1 <= k, k <= l, l <= Len(D) + 1,
           Parts(S, R, D, E, k, l), Parts(S, Q, D, E, k, l)
    PROVE  R = Q
<1> DEFINE n == Len(D)
           m == Len(E)
<1>1. n \in Nat /\ m \in Nat
  OBVIOUS
<1>5. /\ R \in Seq(S) /\ Len(R) = ((k - 1) + m) + ((n + 1) - l)
      /\ \A j \in 1 .. (k - 1) : R[j] = D[j]
      /\ \A j \in 1 .. m : R[(k - 1) + j] = E[j]
      /\ \A j \in 1 .. ((n + 1) - l) : R[((k - 1) + m) + j] = D[(l - 1) + j]
  BY DEF Parts
<1>7. /\ Q \in Seq(S) /\ Len(Q) = ((k - 1) + m) + ((n + 1) - l)
      /\ \A j \in 1 .. (k - 1) : Q[j] = D[j]
      /\ \A j \in 1 .. m : Q[(k - 1) + j] = E[j]
      /\ \A j \in 1 .. ((n + 1) - l) : Q[((k - 1) + m) + j] = D[(l - 1) + j]
  BY DEF Parts
<1> HIDE DEF n, m
<1>9. ASSUME NEW j \in 1 .. Len(R) PROVE R[j] = Q[j]
  <2>0. j \in Nat /\ 1 <= j /\ j <= ((k - 1) + m) + ((n + 1) - l)
    BY <1>1, <1>5
  <2>1. CASE j < k
    <3>1. j \in 1 .. (k - 1)
      BY <2>0, <2>1
    <3> QED BY <3>1, <1>5, <1>7
  <2>2. CASE k <= j /\ j <= (k - 1) + m
    <3> DEFINE i == j - (k - 1)
    <3>1. i \in 1 .. m /\ (k - 1) + i = j
      BY <2>0, <2>2, <1>1
    <3> HIDE DEF i
    <3> QED BY <3>1, <1>5, <1>7
  <2>3. CASE (k - 1) + m < j
    <3> DEFINE h == j - ((k - 1) + m)
    <3>1. h \in 1 .. ((n + 1) - l) /\ ((k - 1) + m) + h = j
      BY <2>0, <2>3, <1>1
    <3> HIDE DEF h
    <3>2. R[((k - 1) + m) + h] = Q[((k - 1) + m) + h]
      BY <3>1, <1>5, <1>7
    <3> QED BY <3>1, <3>2
  <2> QED BY <2>0, <2>1, <2>2, <2>3, <1>1
<1> QED BY <1>5, <1>7, <1>9

\* What a run of elements reads as.
ElementsOf(d, e) == [j \in 1 .. (Len(e) - 1) |-> ElementAt(d, e[j])]

\* The document at p after the edit has its elements at a2.
Edits(b, d, p, a, k, l, e, a2) ==
    /\ Whole(d, p, a2) /\ Replaced(a, a2, k, l, e, e[Len(e)] - a[l])
    /\ Len(Document(b, p)) = Len(a) - 1
    /\ Document(d, p) = SubSeq(Document(b, p), 1, k - 1) \o ElementsOf(d, e)
                          \o SubSeq(Document(b, p), l, Len(Document(b, p)))

\* The elements after the edit.
LEMMA EditedDocument ==
    ASSUME NEW b \in Buffer, NEW d \in Buffer, Len(b) <= MaxInt, Len(d) <= MaxInt,
           NEW p, NEW a, Whole(b, p, a), NEW k \in 1 .. Len(a), NEW l \in k .. Len(a),
           NEW e, Run(d, e), e[1] = a[k],
           Patch(b, d, p, a[k], a[l], e[Len(e)])
    PROVE  \E a2 : Edits(b, d, p, a, k, l, e, a2)
<1> DEFINE diff == e[Len(e)] - a[l]
           D == Document(b, p)
           E == ElementsOf(d, e)
           R == Document(d, p)
           n == Len(a)
           m == Len(e)
<1>1. n \in Nat /\ n >= 1 /\ k \in Nat /\ l \in Nat /\ 1 <= k /\ k <= l /\ l <= n
  BY LayoutOrder DEF Whole
<1>2. m \in Nat /\ m >= 1 /\ e \in Seq(Nat)
  BY DEF Run
<1>3. /\ \A j \in 1 .. (k - 1) : ElementAt(d, a[j]) = ElementAt(b, a[j])
      /\ \A i \in l .. (n - 1) : ElementAt(d, a[i] + diff) = ElementAt(b, a[i])
      /\ \A i \in l .. n : a[i] + diff \in Nat
  BY EditedElements
<1>4. PICK a2 : Replaced(a, a2, k, l, e, diff)
  <2>1. a \in Seq(Nat)
    BY DEF Whole, IsLayout
  <2>2. e[m] \in Nat /\ a[l] \in Nat /\ diff = e[m] - a[l]
    <3>1. m \in 1 .. m /\ l \in 1 .. n
      BY <1>1, <1>2
    <3> QED BY <3>1, <2>1, <1>2, SMTT(30)
  <2>3. diff \in Int /\ e[Len(e)] = a[l] + diff
    BY <2>2
  <2> HIDE DEF diff
  <2> QED BY <2>1, <2>3, <1>2, <1>3, ReplacedExists
<1>5. Whole(d, p, a2)
  BY <1>4, EditedLayout
<1>6. D = [j \in 1 .. (n - 1) |-> ElementAt(b, a[j])]
  BY DocumentIs DEF Whole
<1>7. R = [j \in 1 .. (Len(a2) - 1) |-> ElementAt(d, a2[j])]
  BY <1>5, DocumentIs DEF Whole
<1>8. E = [j \in 1 .. (m - 1) |-> ElementAt(d, e[j])]
  BY DEF ElementsOf
<1>9. /\ Len(a2) = (k + m - 1) + (n - l)
      /\ \A j \in 1 .. k : a2[j] = a[j]
      /\ \A j \in 1 .. m : a2[(k - 1) + j] = e[j]
      /\ \A i \in l .. n : a2[(k + m - 1) + (i - l)] = a[i] + diff
  BY <1>4 DEF Replaced
<1> HIDE DEF D, E, R, n, m, diff
<1> DEFINE N == Len(a2)
           S == {D[j] : j \in 1 .. (n - 1)} \cup {E[j] : j \in 1 .. (m - 1)} \cup {R[j] : j \in 1 .. (N - 1)}
<1>10. N = (k + m - 1) + (n - l) /\ N \in Nat /\ N >= 1 /\ n - 1 \in Nat /\ m - 1 \in Nat /\ N - 1 \in Nat
  <2>1. N = (k + m - 1) + (n - l)
    BY <1>9
  <2> HIDE DEF N
  <2> QED BY <2>1, <1>1, <1>2
<1>11. D \in Seq(S) /\ Len(D) = n - 1
  <2> DEFINE h == n - 1
  <2>1. D \in [1 .. h -> S] /\ h \in Nat
    BY <1>6, <1>10
  <2> HIDE DEF h, S
  <2>2. D \in Seq(S) /\ Len(D) = h
    BY <2>1
  <2> QED BY <2>2 DEF h
<1>12. E \in Seq(S) /\ Len(E) = m - 1
  <2> DEFINE h == m - 1
  <2>1. E \in [1 .. h -> S] /\ h \in Nat
    BY <1>8, <1>10
  <2> HIDE DEF h, S
  <2>2. E \in Seq(S) /\ Len(E) = h
    BY <2>1
  <2> QED BY <2>2 DEF h
<1>13. R \in Seq(S) /\ Len(R) = N - 1
  <2> DEFINE h == N - 1
  <2>1. R \in [1 .. h -> S] /\ h \in Nat
    BY <1>7, <1>10
  <2> HIDE DEF h, S
  <2>2. R \in Seq(S) /\ Len(R) = h
    BY <2>1
  <2> QED BY <2>2 DEF h
<1>a. \A j \in 1 .. (N - 1) : R[j] = ElementAt(d, a2[j])
  BY <1>7
<1>b. \A j \in 1 .. (n - 1) : D[j] = ElementAt(b, a[j])
  BY <1>6
<1> HIDE DEF S, N
<1>14. ASSUME NEW j \in 1 .. (k - 1) PROVE R[j] = D[j]
  <2>1. j \in 1 .. (N - 1) /\ j \in 1 .. (n - 1) /\ j \in 1 .. k
    BY <1>1, <1>2, <1>10
  <2>2. R[j] = ElementAt(d, a2[j]) /\ D[j] = ElementAt(b, a[j]) /\ a2[j] = a[j]
    BY <2>1, <1>a, <1>b, <1>9
  <2> QED BY <2>2, <1>3
<1>15. ASSUME NEW j \in 1 .. (m - 1) PROVE R[(k - 1) + j] = E[j]
  <2>1. (k - 1) + j \in 1 .. (N - 1) /\ j \in 1 .. m
    BY <1>1, <1>2, <1>10
  <2>2. R[(k - 1) + j] = ElementAt(d, a2[(k - 1) + j]) /\ a2[(k - 1) + j] = e[j]
    BY <2>1, <1>a, <1>9
  <2>3. E[j] = ElementAt(d, e[j])
    BY <1>8
  <2> QED BY <2>2, <2>3
<1>16. ASSUME NEW j \in 1 .. (n - l) PROVE R[((k - 1) + (m - 1)) + j] = D[(l - 1) + j]
  <2> DEFINE i == (l - 1) + j
             h == (k + m - 1) + (i - l)
  <2>1. ((k - 1) + (m - 1)) + j = h /\ h \in 1 .. (N - 1) /\ i \in l .. n /\ i \in l .. (n - 1) /\ i \in 1 .. (n - 1)
    <3>1. /\ n \in Nat /\ k \in Nat /\ l \in Nat /\ 1 <= k /\ k <= l /\ l <= n /\ m \in Nat /\ m >= 1
          /\ N = (k + m - 1) + (n - l) /\ j \in Nat /\ 1 <= j /\ j <= n - l
      BY <1>1, <1>2, <1>10
    <3> QED BY <3>1
  <2> HIDE DEF i
  <2>2. a2[h] = a[i] + diff
    BY <2>1, <1>9
  <2> HIDE DEF h
  <2>3. R[h] = ElementAt(d, a2[h])
    BY <2>1, <1>a
  <2>4. D[i] = ElementAt(b, a[i])
    BY <2>1, <1>b
  <2>5. R[h] = D[i]
    BY <2>1, <2>2, <2>3, <2>4, <1>3
  <2> QED BY <2>1, <2>5 DEF i
<1>17. R = SubSeq(D, 1, k - 1) \o E \o SubSeq(D, l, Len(D))
  <2>1. Len(D) = n - 1 /\ Len(E) = m - 1 /\ Len(R) = N - 1
    BY <1>11, <1>12, <1>13
  <2>2. /\ n \in Nat /\ k \in Nat /\ l \in Nat /\ 1 <= k /\ k <= l /\ l <= n /\ m \in Nat /\ m >= 1
        /\ N = (k + m - 1) + (n - l)
    BY <1>1, <1>2, <1>10
  <2>3. l <= (n - 1) + 1 /\ N - 1 = ((k - 1) + (m - 1)) + (((n - 1) + 1) - l) /\ ((n - 1) + 1) - l = n - l
    BY <2>2
  <2>4. Len(R) = ((k - 1) + Len(E)) + ((Len(D) + 1) - l) /\ l <= Len(D) + 1 /\ (Len(D) + 1) - l = n - l
    BY <2>1, <2>3
  <2>5. Parts(S, R, D, E, k, l)
    <3>1. R \in Seq(S)
      BY <1>13
    <3>2. \A j \in 1 .. Len(E) : R[(k - 1) + j] = E[j]
      BY <2>1, <1>15
    <3>3. \A j \in 1 .. ((Len(D) + 1) - l) : R[((k - 1) + Len(E)) + j] = D[(l - 1) + j]
      BY <2>1, <2>4, <1>16
    <3> QED BY <3>1, <3>2, <3>3, <2>4, <1>14, Zenon DEF Parts
  <2>6. D \in Seq(S) /\ E \in Seq(S) /\ k \in Nat /\ l \in Nat /\ 1 <= k /\ k <= l
    BY <2>2, <1>11, <1>12
  <2>7. Parts(S, SubSeq(D, 1, k - 1) \o E \o SubSeq(D, l, Len(D)), D, E, k, l)
    BY <2>4, <2>6, EndsAndMiddle
  <2> QED BY <2>4, <2>5, <2>6, <2>7, FromThreeParts
<1> QED BY <1>4, <1>5, <1>11, <1>17 DEF D, E, R, n, diff, Edits

-----------------------------------------------------------------------------
(* Mutators.                                                               *)

\* Mutator n is that of the document that is element k of mutator m's.
Link(b, m, n, k) ==
    \E a : /\ Whole(b, m.at, a) /\ k \in 1 .. (Len(a) - 1) /\ Nests(b, a[k])
           /\ n.at = ValueAt(b, a[k]) /\ n.off = a[k] - m.at

\* The mutators there can be.
Mutators == [at : Nat, off : Nat, live : BOOLEAN]

\* The mutators c lead from the root to the innermost, each at the element of pa.
IsChain(b, c, pa) ==
    /\ c \in Seq(Mutators) /\ Len(c) >= 1 /\ c[1] = bson_mutate
    /\ \A i \in 1 .. Len(c) : c[i].live
    /\ Len(pa) = Len(c) - 1
    /\ Valid(b, 0)
    /\ \A i \in 1 .. (Len(c) - 1) : Link(b, c[i], c[i + 1], pa[i])

\* The root's header agrees with the buffer, and the capacity covers it.
Fits(b, size) ==
    /\ b \in Buffer /\ Size(b, 0) = Len(b)
    /\ size \in Nat /\ Len(b) <= size /\ size + 4 <= MaxInt

\* s is a store of its fields.
IsStore(s) == s = [data |-> s.data, cap |-> s.cap, shared |-> s.shared, chain |-> s.chain, ok |-> s.ok]

\* A store in which all of this holds.
StoreOk(s, pa) == IsStore(s) /\ s.ok = TRUE /\ Fits(s.data, s.cap) /\ IsChain(s.data, s.chain, pa)

\* The child lies within its parent.
LEMMA LinkParts ==
    ASSUME NEW b \in Buffer, NEW m \in Mutators, NEW n \in Mutators, NEW k, Link(b, m, n, k)
    PROVE  /\ Valid(b, m.at) /\ Valid(b, n.at)
           /\ Size(b, m.at) \in Nat /\ Size(b, n.at) \in Nat
           /\ m.at + 6 <= n.at /\ n.off >= 4 /\ n.at + Size(b, n.at) <= (m.at + Size(b, m.at)) - 1
           /\ m.at + Size(b, m.at) <= Len(b)
<1>1. PICK a : /\ Whole(b, m.at, a) /\ k \in 1 .. (Len(a) - 1) /\ Nests(b, a[k])
               /\ n.at = ValueAt(b, a[k]) /\ n.off = a[k] - m.at
  BY DEF Link
<1> DEFINE x == a[k]
           y == a[k + 1]
           v == ValueAt(b, x)
           p == m.at
           S == Size(b, p)
<1>2. GoodElem(b, x, y) /\ Elem(b, x, y)
  BY <1>1 DEF Whole, GoodElem
<1>3. p \in Nat /\ S \in Nat /\ x \in Nat /\ y \in Nat /\ p + 4 <= x /\ y <= (p + S) - 1
  BY <1>1, LayoutOrder DEF Whole
<1>4. v \in Nat /\ x + 2 <= v /\ v <= y
  BY <1>2, ElemParts
<1>5. Size(b, v) = y - v
  BY <1>1, <1>2, NestedSize
<1>6. Valid(b, v)
  BY <1>1, <1>2 DEF GoodElem
<1>7. Valid(b, p)
  BY <1>1, ValidFolds
<1>8. p + S <= Len(b)
  BY <1>1 DEF Whole, IsLayout
<1>9. n.at = v /\ n.off = x - p
  BY <1>1
<1> HIDE DEF x, y, v, p, S
<1>10. Size(b, v) \in Nat /\ p + 6 <= v /\ v + Size(b, v) <= (p + S) - 1 /\ x - p >= 4
  BY <1>3, <1>4, <1>5
<1> QED BY <1>3, <1>6, <1>7, <1>8, <1>9, <1>10 DEF p, S

\* The documents of a chain lie one within the other.
LEMMA ChainParts ==
    ASSUME NEW b \in Buffer, NEW c, NEW pa, IsChain(b, c, pa)
    PROVE  /\ Len(c) \in Nat /\ Len(c) >= 1 /\ c[1].at = 0 /\ c[1].off = 0
           /\ \A i \in 1 .. Len(c) : /\ c[i] \in Mutators /\ c[i].at \in Nat /\ c[i].off \in Nat /\ c[i].live = TRUE
                                     /\ Valid(b, c[i].at) /\ Size(b, c[i].at) \in Nat
                                     /\ c[i].at + Size(b, c[i].at) <= Len(b)
                                     /\ c[i].off > 0 <=> i > 1
           /\ \A i, j \in 1 .. Len(c) : i < j => c[i].at + 6 <= c[j].at
<1>1. Len(c) \in Nat /\ Len(c) >= 1
  BY DEF IsChain
<1>a. c[1] = bson_mutate
  BY DEF IsChain
<1>2. c[1].at = 0 /\ c[1].off = 0
  BY <1>a DEF bson_mutate, Mutator
<1>3. ASSUME NEW i \in 1 .. Len(c)
      PROVE  c[i] \in Mutators /\ c[i].at \in Nat /\ c[i].off \in Nat /\ c[i].live = TRUE
  <2>1. c[i] \in Mutators /\ c[i].live
    BY DEF IsChain
  <2>2. c[i].live \in BOOLEAN /\ c[i].at \in Nat /\ c[i].off \in Nat
    BY <2>1 DEF Mutators
  <2> QED BY <2>1, <2>2
<1>4. ASSUME NEW i \in 1 .. (Len(c) - 1)
      PROVE  /\ i \in 1 .. Len(c) /\ i + 1 \in 1 .. Len(c)
             /\ Valid(b, c[i + 1].at) /\ Size(b, c[i + 1].at) \in Nat
             /\ c[i].at + 6 <= c[i + 1].at /\ c[i + 1].off >= 4
             /\ c[i + 1].at + Size(b, c[i + 1].at) <= Len(b)
  <2>1. i \in 1 .. Len(c) /\ i + 1 \in 1 .. Len(c)
    BY <1>1
  <2>2. Link(b, c[i], c[i + 1], pa[i])
    BY DEF IsChain
  <2>3. c[i] \in Mutators /\ c[i + 1] \in Mutators /\ c[i].at \in Nat /\ c[i + 1].at \in Nat
    BY <2>1, <1>3
  <2>4. /\ Valid(b, c[i + 1].at) /\ Size(b, c[i].at) \in Nat /\ Size(b, c[i + 1].at) \in Nat
        /\ c[i].at + 6 <= c[i + 1].at /\ c[i + 1].off >= 4
        /\ c[i + 1].at + Size(b, c[i + 1].at) <= (c[i].at + Size(b, c[i].at)) - 1
        /\ c[i].at + Size(b, c[i].at) <= Len(b)
    BY <2>2, <2>3, LinkParts
  <2>5. Len(b) \in Nat
    BY DEF Buffer
  <2> QED BY <2>1, <2>3, <2>4, <2>5, SMTT(30)
<1>5. Valid(b, 0) /\ Size(b, 0) \in Nat /\ 0 + Size(b, 0) <= Len(b)
  <2>1. Valid(b, 0)
    BY DEF IsChain
  <2>2. PICK a : Whole(b, 0, a)
    BY <2>1, ValidUnfolds
  <2>3. Size(b, 0) \in Nat
    BY <2>2, LayoutOrder DEF Whole
  <2> QED BY <2>1, <2>2, <2>3 DEF Whole, IsLayout
<1>6. ASSUME NEW i \in 1 .. Len(c)
      PROVE  /\ Valid(b, c[i].at) /\ Size(b, c[i].at) \in Nat
             /\ c[i].at + Size(b, c[i].at) <= Len(b)
             /\ c[i].off > 0 <=> i > 1
  <2>1. CASE i = 1
    BY <2>1, <1>2, <1>5
  <2>2. CASE i # 1
    <3> DEFINE j == i - 1
    <3>1. j \in 1 .. (Len(c) - 1) /\ j + 1 = i /\ i > 1
      BY <2>2, <1>1
    <3> HIDE DEF j
    <3>2. Valid(b, c[i].at) /\ Size(b, c[i].at) \in Nat /\ c[i].off >= 4
          /\ c[i].at + Size(b, c[i].at) <= Len(b)
      BY <3>1, <1>4
    <3>3. c[i].off \in Nat
      BY <1>3
    <3> QED BY <3>1, <3>2, <3>3
  <2> QED BY <2>1, <2>2
<1>7. ASSUME NEW i \in 1 .. Len(c), NEW j \in 1 .. Len(c), i < j PROVE c[i].at + 6 <= c[j].at
  <2> DEFINE T == {h \in Nat : h \in 1 .. Len(c) /\ i < h /\ ~(c[i].at + 6 <= c[h].at)}
  <2> SUFFICES ASSUME T # {} PROVE FALSE
    <3>1. j \in Nat
      OBVIOUS
    <3> QED BY <3>1, <1>7
  <2>1. PICK h \in T : \A g \in T : h <= g
    <3>1. T \in SUBSET Nat
      OBVIOUS
    <3> HIDE DEF T
    <3> QED BY <3>1, LeastNatural
  <2>2. h \in Nat /\ h \in 1 .. Len(c) /\ i < h /\ ~(c[i].at + 6 <= c[h].at)
    BY <2>1
  <2> DEFINE g == h - 1
  <2>3. g \in Nat /\ g \in 1 .. (Len(c) - 1) /\ g + 1 = h /\ g < h /\ (i = g \/ i < g) /\ g \in 1 .. Len(c)
    BY <2>2, <1>1
  <2> HIDE DEF g
  <2>4. c[g].at + 6 <= c[h].at /\ c[g].at \in Nat /\ c[h].at \in Nat /\ c[i].at \in Nat
    BY <2>2, <2>3, <1>3, <1>4
  <2>5. CASE i = g
    BY <2>2, <2>4, <2>5
  <2>6. CASE i < g
    <3>1. g \notin T
      <4> HIDE DEF T
      <4> QED BY <2>1, <2>2, <2>3
    <3>2. c[i].at + 6 <= c[g].at
      BY <3>1, <2>3, <2>6
    <3> HIDE DEF T
    <3> QED BY <3>2, <2>2, <2>4, SMTT(30)
  <2> QED BY <2>3, <2>5, <2>6
<1> QED BY <1>1, <1>2, <1>3, <1>6, <1>7

-----------------------------------------------------------------------------
(* _bson_splice_region().                                                  *)

\* f is the function that _bson_splice_region() defines, on 1 .. i.
Regions(f, s, i, at, nd, ins, alloc) ==
    f = [j \in 1 .. i |->
            SpliceLevel(s, j, IF s.chain[j].off > 0 THEN f[j - 1]
                              ELSE SpliceRoot(s, at, nd, ins, Size(s.data, s.chain[j].at) + (Len(ins) - nd), alloc),
                        Len(ins) - nd)]

\* The levels are defined up to any.
LEMMA RegionsExist ==
    ASSUME NEW s, NEW at, NEW nd, NEW ins, NEW alloc, NEW n \in Nat, s.chain[1].off = 0
    PROVE  \E f : Regions(f, s, n, at, nd, ins, alloc)
<1> DEFINE G(j, r) == SpliceLevel(s, j, IF s.chain[j].off > 0 THEN r
                              ELSE SpliceRoot(s, at, nd, ins, Size(s.data, s.chain[j].at) + (Len(ins) - nd), alloc),
                        Len(ins) - nd)
           R(f, i) == f = [j \in 1 .. i |-> G(j, f[j - 1])]
           T == {m \in Nat : ~ \E f : R(f, m)}
<1>a. \A f, i : Regions(f, s, i, at, nd, ins, alloc) <=> R(f, i)
  BY Zenon DEF Regions
<1>b. \A r, q : G(1, r) = G(1, q)
  <2>1. ~(s.chain[1].off > 0)
    OBVIOUS
  <2> QED BY <2>1
<1> HIDE DEF G
<1> SUFFICES ASSUME T # {} PROVE FALSE
  BY <1>a
<1>1. PICK m \in T : \A k \in T : m <= k
  <2>1. T \in SUBSET Nat
    OBVIOUS
  <2> HIDE DEF T
  <2> QED BY <2>1, LeastNatural
<1>2. m # 0
  <2>1. R([j \in 1 .. 0 |-> 0], 0)
    OBVIOUS
  <2> QED BY <2>1
<1>3. m \in Nat /\ m - 1 \in Nat /\ m - 1 \notin T
  BY <1>1, <1>2
<1>4. PICK f : R(f, m - 1)
  BY <1>3
<1> DEFINE e == [j \in 1 .. m |-> IF j = m THEN G(m, f[m - 1]) ELSE f[j]]
<1>5. ASSUME NEW j \in 1 .. m PROVE e[j] = G(j, e[j - 1])
  <2>1. CASE j = m /\ j # 1
    <3>1. m - 1 \in 1 .. m /\ m - 1 # m
      BY <1>3, <2>1
    <3>2. e[m - 1] = f[m - 1] /\ e[j] = G(m, f[m - 1])
      BY <3>1, <2>1
    <3> QED BY <3>2, <2>1
  <2>2. CASE j = 1 /\ j = m
    <3>1. e[j] = G(1, f[m - 1])
      BY <2>2
    <3> QED BY <3>1, <1>b, <2>2
  <2>3. CASE j # m
    <3>1. j \in 1 .. (m - 1) /\ e[j] = f[j]
      BY <1>3, <2>3
    <3>2. f[j] = G(j, f[j - 1])
      BY <1>4, <3>1
    <3>3. CASE j = 1
      BY <3>1, <3>2, <3>3, <1>b
    <3>4. CASE j # 1
      <4>1. j - 1 \in 1 .. m /\ j - 1 # m
        BY <3>1, <3>4
      <4>2. e[j - 1] = f[j - 1]
        BY <4>1
      <4> QED BY <3>1, <3>2, <4>2
    <3> QED BY <3>3, <3>4
  <2> QED BY <2>1, <2>2, <2>3
<1>6. R(e, m)
  <2>1. e = [j \in 1 .. m |-> e[j]]
    OBVIOUS
  <2>2. \A j \in 1 .. m : e[j] = G(j, e[j - 1])
    BY <1>5
  <2> HIDE DEF e
  <2> QED BY <2>1, <2>2
<1> QED BY <1>6, <1>1

\* The levels are f.
Levels(f, s, i, at, nd, ins, alloc) ==
    /\ _bson_splice_region(s, i, at, nd, ins, alloc) = f[i]
    /\ f[1] = SpliceLevel(s, 1,
                  SpliceRoot(s, at, nd, ins, Size(s.data, s.chain[1].at) + (Len(ins) - nd), alloc),
                  Len(ins) - nd)
    /\ \A j \in 2 .. i : s.chain[j].off > 0 => f[j] = SpliceLevel(s, j, f[j - 1], Len(ins) - nd)

\* The equations of the levels.
LEMMA RegionUnfolds ==
    ASSUME NEW s, NEW at, NEW nd, NEW ins, NEW alloc, NEW i \in Nat, s.chain[1].off = 0, i >= 1
    PROVE  \E f : Levels(f, s, i, at, nd, ins, alloc)
<1> DEFINE f == CHOOSE g : Regions(g, s, i, at, nd, ins, alloc)
<1>1. _bson_splice_region(s, i, at, nd, ins, alloc) = f[i]
  BY DEF _bson_splice_region, Regions
<1>2. Regions(f, s, i, at, nd, ins, alloc)
  BY RegionsExist
<1> HIDE DEF f
<1>3. \A j \in 1 .. i : f[j] =
            SpliceLevel(s, j, IF s.chain[j].off > 0 THEN f[j - 1]
                              ELSE SpliceRoot(s, at, nd, ins, Size(s.data, s.chain[j].at) + (Len(ins) - nd), alloc),
                        Len(ins) - nd)
  BY <1>2 DEF Regions
<1>4. f[1] = SpliceLevel(s, 1, SpliceRoot(s, at, nd, ins, Size(s.data, s.chain[1].at) + (Len(ins) - nd), alloc),
                         Len(ins) - nd)
  <2>1. 1 \in 1 .. i /\ ~(s.chain[1].off > 0)
    OBVIOUS
  <2> QED BY <2>1, <1>3
<1>5. ASSUME NEW j \in 2 .. i, s.chain[j].off > 0 PROVE f[j] = SpliceLevel(s, j, f[j - 1], Len(ins) - nd)
  <2>1. j \in 1 .. i
    OBVIOUS
  <2> QED BY <2>1, <1>3, <1>5
<1> QED BY <1>1, <1>4, <1>5 DEF Levels

\* Address n is in the size of one of the first j documents.
InHeader(c, j, n) == \E h \in 1 .. j : c[h].at < n /\ n <= c[h].at + 4

\* The bytes of ins have taken the place of nd bytes at at.
RawSplice(b, d, at, nd, ins) ==
    /\ d \in Buffer /\ Len(d) = Len(b) + (Len(ins) - nd)
    /\ Same(ins, 0, d, at, Len(ins))
    /\ Same(b, at + nd, d, at + Len(ins), Len(b) - (at + nd))

\* The bytes before at, but for the sizes of the first j documents.
SameBefore(b, d, at, c, j) == \A n \in 1 .. at : ~InHeader(c, j, n) => d[n] = b[n]

\* The sizes of the first j documents have changed by diff.
Resized(b, d, c, j, diff) == \A h \in 1 .. j : Size(d, c[h].at) = Size(b, c[h].at) + diff

\* The chain is that of s, but that only the first j mutators point to the buffer for sure.
SameChain(c, c2, j) ==
    /\ c2 \in Seq(Mutators) /\ Len(c2) = Len(c)
    /\ \A h \in 1 .. Len(c) : c2[h].at = c[h].at /\ c2[h].off = c[h].off
    /\ \A h \in 1 .. j : c2[h].live = TRUE

\* r is s after the splice, as seen by the first j mutators.
Level(s, r, at, nd, ins, j) ==
    /\ IsStore(r) /\ r.ok = TRUE
    /\ RawSplice(s.data, r.data, at, nd, ins)
    /\ SameBefore(s.data, r.data, at, s.chain, j)
    /\ Resized(s.data, r.data, s.chain, j, Len(ins) - nd)
    /\ r.cap \in Nat /\ Len(r.data) <= r.cap /\ r.cap + 4 <= MaxInt
    /\ SameChain(s.chain, r.chain, j)

\* The splice of the bytes.
LEMMA BytesSpliced ==
    ASSUME NEW b \in Buffer, NEW at \in Nat, NEW nd \in Nat, at + nd <= Len(b), NEW ins \in Buffer
    PROVE  LET d == Bytes(b, 0, at) \o ins \o Bytes(b, at + nd, Len(b) - at - nd)
           IN RawSplice(b, d, at, nd, ins) /\ \A n \in 1 .. at : d[n] = b[n]
<1> DEFINE x == Bytes(b, 0, at)
           y == Bytes(b, at + nd, Len(b) - at - nd)
           d == x \o ins \o y
           m == Len(ins)
           L == Len(b)
           t == L - (at + nd)
<1>1. L \in Nat /\ m \in Nat /\ t \in Nat /\ at + nd \in Nat /\ at <= L /\ (at + nd) + t = L /\ L - at - nd = t
      /\ 0 + at <= L
  BY DEF Buffer
<1>2. x \in Buffer /\ Len(x) = at /\ \A j \in 1 .. at : x[j] = b[0 + j]
  BY <1>1, BytesOf
<1>3. y \in Buffer /\ Len(y) = t /\ \A j \in 1 .. t : y[j] = b[(at + nd) + j]
  <2>1. y = Bytes(b, at + nd, t)
    BY <1>1
  <2>2. (at + nd) + t <= Len(b)
    BY <1>1
  <2> HIDE DEF y, t
  <2> QED BY <1>1, <2>1, <2>2, BytesOf
<1> HIDE DEF x, y
<1>4. /\ d \in Buffer /\ Len(d) = Len(x) + Len(ins) + Len(y)
      /\ \A j \in 1 .. Len(x) : d[j] = x[j]
      /\ \A j \in 1 .. Len(ins) : d[Len(x) + j] = ins[j]
      /\ \A j \in 1 .. Len(y) : d[Len(x) + Len(ins) + j] = y[j]
  BY <1>2, <1>3, ThreeParts, ZenonT(40)
<1> HIDE DEF d
<1>5. Len(d) = L + (m - nd)
  <2>1. Len(d) = at + m + t
    BY <1>2, <1>3, <1>4
  <2> QED BY <2>1, <1>1
<1>6. \A n \in 1 .. at : d[n] = b[n]
  BY <1>2, <1>4
<1>7. Same(ins, 0, d, at, m)
  <2>1. \A j \in 1 .. m : d[at + j] = ins[j]
    BY <1>2, <1>4
  <2>2. \A j \in 1 .. m : 0 + j = j
    BY <1>1
  <2> QED BY <2>1, <2>2 DEF Same
<1>8. Same(b, at + nd, d, at + m, t)
  <2>1. \A j \in 1 .. t : d[at + m + j] = y[j]
    BY <1>2, <1>3, <1>4
  <2> QED BY <2>1, <1>3 DEF Same
<1>9. RawSplice(b, d, at, nd, ins)
  BY <1>4, <1>5, <1>7, <1>8 DEF RawSplice
<1> QED BY <1>6, <1>9 DEF d, x, y

\* The fields of a store with another capacity and chain.
LEMMA StoreReallocated ==
    ASSUME NEW r, NEW q, NEW x, NEW y, NEW z, NEW u, NEW v, NEW m, NEW f, NEW k,
           r = [data |-> x, cap |-> y, shared |-> z, chain |-> u, ok |-> v],
           q = [r EXCEPT !.cap = m, !.shared = f, !.chain = k]
    PROVE  q = [data |-> x, cap |-> m, shared |-> f, chain |-> k, ok |-> v]
OBVIOUS

\* What the allocator gives is at least what it was asked for.
LEMMA GotEnough ==
    ASSUME NEW size \in Nat, size <= MaxInt - 4, NEW alloc
    PROVE  GotSize(size, alloc) \in Nat /\ size <= GotSize(size, alloc) /\ GotSize(size, alloc) + 4 <= MaxInt
<1>1. MaxInt \in Nat /\ 17 <= MaxInt
  BY SizesAssumption
<1> DEFINE n == size + alloc
<1>2. CASE n \in size .. (MaxInt - 4)
  <2>1. GotSize(size, alloc) = n
    BY <1>2 DEF GotSize
  <2> HIDE DEF n
  <2> QED BY <2>1, <1>1, <1>2
<1>3. CASE n \notin size .. (MaxInt - 4)
  <2>1. GotSize(size, alloc) = MaxInt - 4
    BY <1>3 DEF GotSize
  <2> QED BY <2>1, <1>1
<1> QED BY <1>2, <1>3

\* The root: room is made or not.
LEMMA RootSpliced ==
    ASSUME NEW s, NEW pa, StoreOk(s, pa), NEW at \in Nat, NEW nd \in Nat, NEW ins \in Buffer, NEW alloc,
           at + nd <= Len(s.data)
    PROVE  LET r == SpliceRoot(s, at, nd, ins, Size(s.data, s.chain[1].at) + (Len(ins) - nd), alloc)
           IN ~r.ok \/ (Level(s, r, at, nd, ins, 0) /\ r.chain[1].live = TRUE)
<1> DEFINE b == s.data
           c == s.chain
           L == Len(b)
           diff == Len(ins) - nd
           ns == Size(b, c[1].at) + diff
           r0 == IF ns > s.cap THEN bson_doc_reserve(s, ns + Slack, alloc) ELSE s
           d == Bytes(b, 0, at) \o ins \o Bytes(b, at + nd, L - at - nd)
           r == SpliceRoot(s, at, nd, ins, ns, alloc)
<1>1. /\ IsStore(s) /\ s.ok = TRUE /\ b \in Buffer /\ Size(b, 0) = L /\ s.cap \in Nat /\ L <= s.cap
      /\ s.cap + 4 <= MaxInt /\ IsChain(b, c, pa)
  BY DEF StoreOk, Fits
<1>2. c \in Seq(Mutators) /\ Len(c) >= 1 /\ \A i \in 1 .. Len(c) : c[i].live
  BY <1>1 DEF IsChain
<1>3. Len(c) \in Nat /\ c[1].at = 0 /\ \A i \in 1 .. Len(c) : c[i] \in Mutators
  BY <1>1, ChainParts
<1>4. Size(b, c[1].at) = L /\ ns = L + diff /\ Len(ins) \in Nat /\ L \in Nat /\ diff \in Int /\ ns \in Int
      /\ MaxInt \in Nat /\ Slack \in Nat /\ ns >= 0
  BY <1>1, <1>3, SizesAssumption, SMTT(30) DEF Buffer
<1>5. RawSplice(b, d, at, nd, ins) /\ \A n \in 1 .. at : d[n] = b[n]
  BY <1>1, BytesSpliced, ZenonT(40)
<1>6. r = IF nd > Size(b, c[1].at) - at \/ (ns > s.cap /\ ~NonNegativeInt32(ns + Slack)) \/ ~r0.ok
          THEN Fails(s)
          ELSE [r0 EXCEPT !.data = Bytes(@, 0, at) \o ins \o
                              Bytes(@, at + nd, Size(b, c[1].at) - at - nd),
                          !.chain[1].live = TRUE]
  BY SMTT(30) DEF SpliceRoot
<1>7. s = [data |-> b, cap |-> s.cap, shared |-> s.shared, chain |-> c, ok |-> TRUE]
  BY <1>1 DEF IsStore
<1> DEFINE k0 == [h \in 1 .. Len(c) |-> [c[h] EXCEPT !.live = FALSE]]
<1>8. ~r0.ok \/ \E size, sh, c0 :
            /\ r0 = [data |-> b, cap |-> size, shared |-> sh, chain |-> c0, ok |-> TRUE]
            /\ size \in Nat /\ ns <= size /\ size + 4 <= MaxInt
            /\ (c0 = c \/ c0 = k0)
  <2>1. CASE ~(ns > s.cap)
    <3>1. r0 = s
      BY <2>1
    <3>2. ns <= s.cap
      BY <2>1, <1>1, <1>4
    <3> QED BY <3>1, <3>2, <1>1, <1>7
  <2>2. CASE ns > s.cap
    <3>1. ~(s.cap >= ns + Slack)
      BY <2>2, <1>1, <1>4
    <3>2. r0 = _bson_realloc(s, ns + Slack, alloc)
      BY <2>2, <3>1 DEF bson_doc_reserve
    <3> DEFINE got == GotSize(ns + Slack, alloc)
    <3>3. CASE ns + Slack > MaxInt - 4 \/ alloc = Refused
      <4>1. r0 = Fails(s)
        BY <3>2, <3>3 DEF _bson_realloc
      <4>2. ~Fails(s).ok
        BY <1>7 DEF Fails
      <4> QED BY <4>1, <4>2
    <3>4. CASE ~(ns + Slack > MaxInt - 4 \/ alloc = Refused)
      <4>1. r0 = [s EXCEPT !.cap = got, !.shared = FALSE,
                           !.chain = [k \in DOMAIN @ |-> [@[k] EXCEPT !.live = FALSE]]]
        BY <3>2, <3>4 DEF _bson_realloc
      <4>2. DOMAIN c = 1 .. Len(c)
        BY <1>2
      <4>3. r0 = [data |-> b, cap |-> got, shared |-> FALSE, chain |-> k0, ok |-> TRUE]
        <5>1. [k \in DOMAIN s.chain |-> [s.chain[k] EXCEPT !.live = FALSE]] = k0
          BY <4>2
        <5>2. r0 = [s EXCEPT !.cap = got, !.shared = FALSE, !.chain = k0]
          BY <4>1, <5>1
        <5> DEFINE dd == s.data
                   cc == s.chain
                   pp == s.cap
                   hh == s.shared
        <5>4. s = [data |-> dd, cap |-> pp, shared |-> hh, chain |-> cc, ok |-> TRUE]
          BY <1>7
        <5>5. b = dd
          OBVIOUS
        <5> HIDE DEF r0, k0, ns, got, dd, cc, pp, hh
        <5>6. r0 = [data |-> dd, cap |-> got, shared |-> FALSE, chain |-> k0, ok |-> TRUE]
          BY <5>2, <5>4, StoreReallocated
        <5> QED BY <5>5, <5>6
      <4>4. got \in Nat /\ ns <= got /\ got + 4 <= MaxInt
        <5>1. ns + Slack \in Nat /\ ns <= ns + Slack /\ ns + Slack <= MaxInt - 4
          BY <3>4, <1>4
        <5> HIDE DEF ns
        <5>2. got \in Nat /\ ns + Slack <= got /\ got + 4 <= MaxInt
          BY <5>1, GotEnough
        <5> HIDE DEF got
        <5> QED BY <5>1, <5>2, <1>4
      <4> HIDE DEF r0, ns, k0, got
      <4> QED BY <4>3, <4>4
    <3> QED BY <3>3, <3>4
  <2> QED BY <2>1, <2>2
<1>9. CASE ~r0.ok \/ nd > Size(b, c[1].at) - at \/ (ns > s.cap /\ ~NonNegativeInt32(ns + Slack))
  <2> HIDE DEF r, r0, ns
  <2>1. r = Fails(s)
    BY <1>6, <1>9
  <2>2. ~Fails(s).ok
    BY <1>7 DEF Fails
  <2>3. ~r.ok
    BY <2>1, <2>2
  <2> QED BY <2>3 DEF r, ns, diff
<1>10. CASE ~(~r0.ok \/ nd > Size(b, c[1].at) - at \/ (ns > s.cap /\ ~NonNegativeInt32(ns + Slack)))
  <2> HIDE DEF r0, r, k0, ns
  <2>1. PICK size, sh, c0 :
            /\ r0 = [data |-> b, cap |-> size, shared |-> sh, chain |-> c0, ok |-> TRUE]
            /\ size \in Nat /\ ns <= size /\ size + 4 <= MaxInt
            /\ (c0 = c \/ c0 = k0)
    BY <1>8, <1>10
  <2>2. r = [r0 EXCEPT !.data = Bytes(@, 0, at) \o ins \o
                              Bytes(@, at + nd, L - at - nd),
                          !.chain[1].live = TRUE]
    BY <1>4, <1>6, <1>10
  <2> DEFINE c1 == [c0 EXCEPT ![1].live = TRUE]
  <2> HIDE DEF c1
  <2>3. r = [data |-> d, cap |-> size, shared |-> sh, chain |-> c1, ok |-> TRUE]
    BY <2>1, <2>2 DEF c1
  <2>4. c0 \in Seq(Mutators) /\ Len(c0) = Len(c) /\ \A h \in 1 .. Len(c) : c0[h].at = c[h].at /\ c0[h].off = c[h].off
    <3>1. CASE c0 = c
      BY <3>1, <1>2
    <3>2. CASE c0 = k0
      <4> DEFINE n == Len(c)
      <4>1. \A h \in 1 .. n : [c[h] EXCEPT !.live = FALSE] \in Mutators
        BY <1>3 DEF Mutators
      <4>2. k0 \in [1 .. n -> Mutators] /\ n \in Nat
        BY <4>1, <1>3 DEF k0
      <4>3. \A h \in 1 .. n : k0[h].at = c[h].at /\ k0[h].off = c[h].off
        BY <1>3 DEF k0, Mutators
      <4> HIDE DEF n
      <4>4. k0 \in Seq(Mutators) /\ Len(k0) = n
        BY <4>2
      <4> QED BY <3>2, <4>3, <4>4 DEF n
    <3> QED BY <2>1, <3>1, <3>2
  <2>5. c1 \in Seq(Mutators) /\ Len(c1) = Len(c) /\ c1[1].live = TRUE
        /\ \A h \in 1 .. Len(c) : c1[h].at = c[h].at /\ c1[h].off = c[h].off
    <3>1. 1 \in 1 .. Len(c0) /\ c0[1] \in Mutators /\ Len(c0) \in Nat /\ \A h \in 1 .. Len(c0) : c0[h] \in Mutators
      BY <2>4, <1>2
    <3>2. [c0[1] EXCEPT !.live = TRUE] \in Mutators
      BY <3>1 DEF Mutators
    <3>3. c1 = [c0 EXCEPT ![1] = [c0[1] EXCEPT !.live = TRUE]]
      BY DEF c1
    <3>4. c1 \in Seq(Mutators) /\ Len(c1) = Len(c)
      BY <3>1, <3>2, <3>3, <2>4
    <3>5. ASSUME NEW h \in 1 .. Len(c) PROVE c1[h].at = c[h].at /\ c1[h].off = c[h].off
      <4>1. c0[h] \in Mutators /\ h \in 1 .. Len(c0) /\ c0[h].at = c[h].at /\ c0[h].off = c[h].off
        BY <3>1, <2>4
      <4>2. c1[h] = IF h = 1 THEN [c0[h] EXCEPT !.live = TRUE] ELSE c0[h]
        <5>1. DOMAIN c0 = 1 .. Len(c0)
          BY <2>4
        <5> QED BY <5>1, <3>1, <3>3, <4>1
      <4>3. [c0[h] EXCEPT !.live = TRUE].at = c0[h].at /\ [c0[h] EXCEPT !.live = TRUE].off = c0[h].off
        BY <4>1 DEF Mutators
      <4> QED BY <4>1, <4>2, <4>3
    <3>6. c1[1].live = TRUE
      <4>1. c1[1] = [c0[1] EXCEPT !.live = TRUE]
        <5>1. DOMAIN c0 = 1 .. Len(c0)
          BY <2>4
        <5> QED BY <5>1, <3>1, <3>3
      <4> QED BY <4>1, <3>1 DEF Mutators
    <3> QED BY <3>4, <3>5, <3>6
  <2> HIDE DEF d, diff
  <2>6. r.data = d /\ r.cap = size /\ r.chain = c1 /\ r.ok = TRUE /\ IsStore(r)
    BY <2>3 DEF IsStore
  <2>7. SameChain(c, c1, 0)
    BY <2>5 DEF SameChain
  <2>8. Len(d) <= size
    <3>1. Len(d) = ns
      BY <1>4, <1>5 DEF RawSplice, diff
    <3> QED BY <3>1, <2>1
  <2>9. SameBefore(b, d, at, c, 0) /\ Resized(b, d, c, 0, Len(ins) - nd)
    BY <1>5 DEF SameBefore, Resized
  <2>10. Level(s, r, at, nd, ins, 0)
    BY <2>1, <2>6, <2>7, <2>8, <2>9, <1>5 DEF Level
  <2>11. r.chain[1].live = TRUE
    BY <2>5, <2>6
  <2> QED BY <2>10, <2>11 DEF r, ns, diff
<1> QED BY <1>9, <1>10

\* The child finds itself again.
LEMMA ChildRefreshed ==
    ASSUME NEW s, NEW pa, StoreOk(s, pa), NEW r, NEW at, NEW nd, NEW ins, NEW j \in 2 .. Len(s.chain),
           Level(s, r, at, nd, ins, j - 1)
    PROVE  /\ Level(s, RefreshChild(s, r, j), at, nd, ins, j - 1)
           /\ RefreshChild(s, r, j).chain[j].live = TRUE
<1> DEFINE c == s.chain
           k == r.chain
           q == RefreshChild(s, r, j)
           g == j - 1
           n == Len(c)
<1>1. IsStore(r) /\ r.ok = TRUE /\ SameChain(c, k, g)
  BY DEF Level
<1>2. IsChain(s.data, c, pa) /\ s.data \in Buffer
  BY DEF StoreOk, Fits
<1>3. n \in Nat /\ \A h \in 1 .. n : c[h].at \in Nat
  BY <1>2, ChainParts
<1>4. k \in Seq(Mutators) /\ Len(k) = n
      /\ (\A h \in 1 .. n : k[h].at = c[h].at /\ k[h].off = c[h].off) /\ \A h \in 1 .. g : k[h].live = TRUE
  BY <1>1 DEF SameChain
<1>5. j \in 1 .. n /\ g \in 1 .. n /\ g \in 1 .. g /\ g < j /\ g \in Nat
  BY <1>3
<1>6. k[j] \in Mutators /\ k[g].at = c[g].at /\ k[g].live = TRUE /\ c[g].at \in Nat /\ c[j].at \in Nat /\ k[j].at = c[j].at
  BY <1>3, <1>4, <1>5
<1>7. k[g].at + (c[j].at - c[g].at) = c[j].at
  BY <1>6
<1> DEFINE m == [[k[j] EXCEPT !.at = c[j].at] EXCEPT !.live = TRUE]
           k2 == [k EXCEPT ![j] = m]
<1>8. m \in Mutators /\ m.at = c[j].at /\ m.off = k[j].off /\ m.live = TRUE
  BY <1>6 DEF Mutators
<1>9. q = [r EXCEPT !.chain[j].at = c[j].at, !.chain[j].live = TRUE]
  BY <1>6, <1>7 DEF RefreshChild
<1> HIDE DEF q, k, g, m
<1>10. q = [r EXCEPT !.chain = k2]
  <2>1. r = [data |-> r.data, cap |-> r.cap, shared |-> r.shared, chain |-> k, ok |-> r.ok]
    BY <1>1 DEF IsStore, k
  <2>2. DOMAIN k = 1 .. n
    BY <1>4
  <2> DEFINE xx == r.data
             yy == r.cap
             zz == r.shared
             vv == r.ok
             aa == c[j].at
  <2>3. r = [data |-> xx, cap |-> yy, shared |-> zz, chain |-> k, ok |-> vv]
    BY <2>1
  <2>4. q = [r EXCEPT !.chain[j].at = aa, !.chain[j].live = TRUE]
    BY <1>9
  <2>5. k2 = [k EXCEPT ![j] = [[k[j] EXCEPT !.at = aa] EXCEPT !.live = TRUE]]
    BY DEF m
  <2>6. j \in DOMAIN k
    BY <2>2, <1>5
  <2> HIDE DEF xx, yy, zz, vv, aa, k2
  <2>7. q = [r EXCEPT !.chain = [k EXCEPT ![j] = [[k[j] EXCEPT !.at = aa] EXCEPT !.live = TRUE]]]
    BY <2>3, <2>4, <2>6
  <2> QED BY <2>5, <2>7
<1> HIDE DEF k2
<1>11. /\ IsStore(q) /\ q.data = r.data /\ q.cap = r.cap /\ q.ok = r.ok /\ q.chain = k2
  <2>1. r = [data |-> r.data, cap |-> r.cap, shared |-> r.shared, chain |-> k, ok |-> r.ok]
    BY <1>1 DEF IsStore, k
  <2> QED BY <2>1, <1>10 DEF IsStore
<1>12. k2 \in Seq(Mutators) /\ Len(k2) = n
  BY <1>4, <1>5, <1>8 DEF k2
<1>13. ASSUME NEW h \in 1 .. n PROVE k2[h] = IF h = j THEN m ELSE k[h]
  <2>1. DOMAIN k = 1 .. n
    BY <1>4
  <2> QED BY <2>1 DEF k2
<1>14. \A h \in 1 .. n : k2[h].at = c[h].at /\ k2[h].off = c[h].off
  BY <1>4, <1>8, <1>13
<1>15. ASSUME NEW h \in 1 .. g PROVE k2[h].live = TRUE
  <2>1. h \in 1 .. n /\ h # j
    BY <1>3, <1>5
  <2> QED BY <2>1, <1>4, <1>13
<1>16. SameChain(c, k2, g)
  BY <1>12, <1>14, <1>15 DEF SameChain
<1>17. Level(s, q, at, nd, ins, g)
  <2>1. /\ RawSplice(s.data, r.data, at, nd, ins) /\ SameBefore(s.data, r.data, at, c, g)
        /\ Resized(s.data, r.data, c, g, Len(ins) - nd)
        /\ r.cap \in Nat /\ Len(r.data) <= r.cap /\ r.cap + 4 <= MaxInt
    BY DEF Level, g
  <2> QED BY <2>1, <1>1, <1>11, <1>16 DEF Level
<1>18. q.chain[j].live = TRUE
  BY <1>5, <1>8, <1>11, <1>13
<1> QED BY <1>17, <1>18 DEF q, g

\* The size is corrected.
LEMMA HeaderCorrected ==
    ASSUME NEW s, NEW pa, StoreOk(s, pa), NEW r, NEW at \in Nat, NEW nd \in Nat, NEW ins \in Buffer,
           NEW j \in 1 .. Len(s.chain), at + nd <= Len(s.data), s.chain[j].at + 4 <= at,
           Level(s, r, at, nd, ins, j - 1), r.chain[j].live = TRUE,
           NonNegativeInt32(Size(s.data, s.chain[j].at) + (Len(ins) - nd))
    PROVE  Level(s, WriteHeader(r, j, Size(s.data, s.chain[j].at) + (Len(ins) - nd)), at, nd, ins, j)
<1> DEFINE b == s.data
           c == s.chain
           k == r.chain
           d == r.data
           p == c[j].at
           diff == Len(ins) - nd
           ns == Size(b, p) + diff
           q == WriteHeader(r, j, ns)
           f == write_u32le(d, p, ns)
           g == j - 1
           n == Len(c)
<1>1. /\ IsStore(r) /\ r.ok = TRUE /\ SameChain(c, k, g) /\ RawSplice(b, d, at, nd, ins)
      /\ SameBefore(b, d, at, c, g) /\ Resized(b, d, c, g, diff)
      /\ r.cap \in Nat /\ Len(d) <= r.cap /\ r.cap + 4 <= MaxInt
  BY DEF Level
<1>2. IsChain(b, c, pa) /\ b \in Buffer
  BY DEF StoreOk, Fits
<1>3. n \in Nat /\ p \in Nat /\ Size(b, p) \in Nat
  BY <1>2, ChainParts
<1>a. \A h, i \in 1 .. n : h < i => c[h].at + 6 <= c[i].at
  BY <1>2, ChainParts
<1>b. \A h \in 1 .. n : c[h].at \in Nat
  BY <1>2, ChainParts
<1>4. /\ d \in Buffer /\ Len(d) = Len(b) + diff /\ Same(ins, 0, d, at, Len(ins))
      /\ Same(b, at + nd, d, at + Len(ins), Len(b) - (at + nd))
  BY <1>1 DEF RawSplice
<1>5. Len(b) \in Nat /\ Len(d) \in Nat /\ Len(ins) \in Nat /\ p + 4 <= at /\ at + Len(ins) <= Len(d)
  <2>1. Len(b) \in Nat /\ Len(d) \in Nat /\ Len(ins) \in Nat
    BY <1>2, <1>4, SMTT(30) DEF Buffer
  <2>2. Len(d) = Len(b) + (Len(ins) - nd) /\ at + nd <= Len(b)
    BY <1>4
  <2> QED BY <2>1, <2>2
<1>6. ns \in Word
  <2>1. ns \in 0 .. MaxInt
    BY DEF NonNegativeInt32
  <2> QED BY <2>1, SizesAssumption DEF Word
<1>7. p + 4 <= Len(d)
  <2> DEFINE l == Len(d)
             i == Len(ins)
  <2>1. p \in Nat /\ l \in Nat /\ i \in Nat /\ p + 4 <= at /\ at + i <= l
    BY <1>3, <1>5
  <2> HIDE DEF l, i, p
  <2>2. p + 4 <= l
    BY <2>1
  <2> QED BY <2>2 DEF l
<1> HIDE DEF ns
<1>8. /\ f \in Buffer /\ Len(f) = Len(d) /\ Size(f, p) = ns
      /\ \A i \in 1 .. Len(d) : ~(p < i /\ i <= p + 4) => f[i] = d[i]
  BY <1>3, <1>4, <1>6, <1>7, HeaderWritten, ZenonT(40)
<1>9. k[j].at = p
  BY <1>1 DEF SameChain
<1>10. q = [r EXCEPT !.data = f]
  <2>1. q = [r EXCEPT !.data = write_u32le(r.data, r.chain[j].at, ns)]
    BY Zenon DEF WriteHeader
  <2>2. r.chain[j].at = p
    BY <1>9
  <2> HIDE DEF q, p, ns
  <2> QED BY <2>1, <2>2
<1> HIDE DEF q, f, p, d, diff
<1>11. /\ IsStore(q) /\ q.data = f /\ q.cap = r.cap /\ q.ok = r.ok /\ q.chain = k
  <2>1. r = [data |-> d, cap |-> r.cap, shared |-> r.shared, chain |-> k, ok |-> r.ok]
    BY <1>1 DEF IsStore, d
  <2> QED BY <2>1, <1>10 DEF IsStore
<1>12. Same(ins, 0, f, at, Len(ins))
  <2> SUFFICES ASSUME NEW i \in 1 .. Len(ins) PROVE f[at + i] = ins[0 + i]
    BY DEF Same
  <2>1. at + i \in 1 .. Len(d) /\ ~(p < at + i /\ at + i <= p + 4)
    BY <1>3, <1>5
  <2>2. f[at + i] = d[at + i]
    BY <2>1, <1>8
  <2>3. d[at + i] = ins[0 + i]
    BY <1>4 DEF Same
  <2> QED BY <2>2, <2>3
<1>13. Same(b, at + nd, f, at + Len(ins), Len(b) - (at + nd))
  <2> SUFFICES ASSUME NEW i \in 1 .. (Len(b) - (at + nd)) PROVE f[at + Len(ins) + i] = b[at + nd + i]
    BY DEF Same
  <2>1. at + Len(ins) + i \in 1 .. Len(d) /\ ~(p < at + Len(ins) + i /\ at + Len(ins) + i <= p + 4)
    <3>1. Len(d) = Len(b) + (Len(ins) - nd) /\ i \in Nat /\ 1 <= i /\ i <= Len(b) - (at + nd)
      BY <1>4, <1>5 DEF diff
    <3> QED BY <3>1, <1>3, <1>5, SMTT(30)
  <2>2. f[at + Len(ins) + i] = d[at + Len(ins) + i]
    BY <2>1, <1>8
  <2>3. d[at + Len(ins) + i] = b[at + nd + i]
    BY <1>4 DEF Same
  <2> QED BY <2>2, <2>3
<1>14. RawSplice(b, f, at, nd, ins)
  BY <1>4, <1>8, <1>12, <1>13 DEF RawSplice, diff
<1>c. j \in Nat /\ g \in Nat /\ g < j /\ j <= n /\ j \in 1 .. j
  BY <1>3, SMTT(30)
<1> HIDE DEF g
<1>d. \A h \in 1 .. g : h \in 1 .. j
  BY <1>c DEF g
<1>15. SameBefore(b, f, at, c, j)
  <2> SUFFICES ASSUME NEW i \in 1 .. at, ~InHeader(c, j, i) PROVE f[i] = b[i]
    BY DEF SameBefore
  <2>1. ~InHeader(c, g, i)
    BY <1>d DEF InHeader
  <2>2. ~(p < i /\ i <= p + 4)
    BY <1>c DEF InHeader, p
  <2>3. i \in 1 .. Len(d)
    BY <1>5
  <2> QED BY <2>1, <2>2, <2>3, <1>1, <1>8 DEF SameBefore
<1>16. Resized(b, f, c, j, diff)
  <2> SUFFICES ASSUME NEW h \in 1 .. j PROVE Size(f, c[h].at) = Size(b, c[h].at) + diff
    BY DEF Resized
  <2>1. CASE h = j
    BY <2>1, <1>8 DEF p, ns
  <2>2. CASE h # j
    <3> DEFINE u == c[h].at
    <3>1. h \in 1 .. g /\ h \in 1 .. n /\ h < j /\ j \in 1 .. n
      BY <2>2, <1>c DEF g
    <3>2. u \in Nat /\ u + 6 <= p
      BY <3>1, <1>a, <1>b DEF p
    <3>3. Size(d, u) = Size(b, u) + diff
      BY <3>1, <1>1 DEF Resized
    <3> HIDE DEF u
    <3>4. Same(d, u, f, u, 4)
      <4> SUFFICES ASSUME NEW i \in 1 .. 4 PROVE f[u + i] = d[u + i]
        BY DEF Same
      <4>1. u + i \in 1 .. Len(d) /\ ~(p < u + i /\ u + i <= p + 4)
        BY <3>2, <1>3, <1>7
      <4> QED BY <4>1, <1>8
    <3>5. Size(f, u) = Size(d, u)
      BY <3>2, <3>4, ReadMoves
    <3> QED BY <3>3, <3>5 DEF u
  <2> QED BY <2>1, <2>2
<1>17. SameChain(c, k, j)
  <2>1. \A h \in 1 .. j : h = j \/ h \in 1 .. g
    BY <1>c DEF g
  <2> QED BY <2>1, <1>1 DEF SameChain
<1>18. Level(s, q, at, nd, ins, j)
  BY <1>1, <1>8, <1>11, <1>14, <1>15, <1>16, <1>17 DEF Level, diff
<1> QED BY <1>18 DEF q, ns, p, diff

\* What a failed store is.
LEMMA Failed ==
    ASSUME NEW s, NEW pa, StoreOk(s, pa)
    PROVE  /\ Fails(s).ok = FALSE /\ Fails(s).data = s.data /\ Fails(s).cap = s.cap
           /\ Fails(s).shared = s.shared /\ Fails(s).chain = s.chain
<1> DEFINE x == s.data
           y == s.cap
           z == s.shared
           u == s.chain
           v == s.ok
           q == Fails(s)
<1>1. s = [data |-> x, cap |-> y, shared |-> z, chain |-> u, ok |-> v]
  BY DEF StoreOk, IsStore
<1>2. q = [s EXCEPT !.ok = FALSE]
  BY DEF Fails
<1> HIDE DEF x, y, z, u, v, q
<1>3. q.ok = FALSE /\ q.data = x /\ q.cap = y /\ q.shared = z /\ q.chain = u
  BY <1>1, <1>2
<1> QED BY <1>3 DEF x, y, z, u, v, q

\* _bson_splice_region() at the innermost mutator fails and changes nothing, or
\* splices the bytes, corrects every size and leaves every mutator at its place.
LEMMA RegionSpliced ==
    ASSUME NEW s, NEW pa, StoreOk(s, pa), NEW at \in Nat, NEW nd \in Nat, NEW ins \in Buffer, NEW alloc,
           s.chain[Len(s.chain)].at + 4 <= at, at + nd <= Len(s.data)
    PROVE  LET r == _bson_splice_region(s, Len(s.chain), at, nd, ins, alloc)
           IN r = Fails(s) \/ Level(s, r, at, nd, ins, Len(s.chain))
<1> DEFINE c == s.chain
           b == s.data
           n == Len(c)
           diff == Len(ins) - nd
<1>1. IsChain(b, c, pa) /\ b \in Buffer
  BY DEF StoreOk, Fits
<1>2. n \in Nat /\ n >= 1 /\ c[1].off = 0
  BY <1>1, ChainParts
<1>3. \A h \in 1 .. n : c[h].at \in Nat /\ (c[h].off > 0 <=> h > 1)
  BY <1>1, ChainParts
<1>4. \A h, i \in 1 .. n : h < i => c[h].at + 6 <= c[i].at
  BY <1>1, ChainParts
<1>5. ASSUME NEW h \in 1 .. n PROVE c[h].at + 4 <= at
  <2>1. n \in 1 .. n
    BY <1>2
  <2> DEFINE x == c[h].at
             y == c[n].at
  <2>2. x \in Nat /\ y \in Nat /\ y + 4 <= at
    BY <2>1, <1>3
  <2>3. h = n \/ x + 6 <= y
    <3>1. h = n \/ h < n
      BY <1>2
    <3> QED BY <3>1, <2>1, <1>4
  <2>4. h = n => x = y
    OBVIOUS
  <2> HIDE DEF x, y
  <2>5. x + 4 <= at
    BY <2>2, <2>3, <2>4
  <2> QED BY <2>5 DEF x
<1>a. PICK f : Levels(f, s, n, at, nd, ins, alloc)
  BY <1>2, RegionUnfolds
<1>6. /\ _bson_splice_region(s, n, at, nd, ins, alloc) = f[n]
      /\ f[1] = SpliceLevel(s, 1, SpliceRoot(s, at, nd, ins, Size(b, c[1].at) + diff, alloc), diff)
      /\ \A j \in 2 .. n : c[j].off > 0 => f[j] = SpliceLevel(s, j, f[j - 1], diff)
  BY <1>a DEF Levels
<1> DEFINE Good(j) == f[j] = Fails(s) \/ Level(s, f[j], at, nd, ins, j)
<1>7. Good(1)
  <2> DEFINE r == SpliceRoot(s, at, nd, ins, Size(b, c[1].at) + diff, alloc)
             ns == Size(b, c[1].at) + diff
  <2>1. ~r.ok \/ (Level(s, r, at, nd, ins, 0) /\ r.chain[1].live = TRUE)
    BY RootSpliced
  <2>2. 1 \in 1 .. n /\ ~(c[1].off > 0) /\ 1 - 1 = 0
    BY <1>2
  <2>3. f[1] = IF ~Int32(diff) \/ ~NonNegativeInt32(ns) \/ ~r.ok THEN Fails(s) ELSE WriteHeader(r, 1, ns)
    BY <1>6, <2>2 DEF SpliceLevel
  <2>4. CASE ~Int32(diff) \/ ~NonNegativeInt32(ns) \/ ~r.ok
    BY <2>3, <2>4
  <2>5. CASE ~(~Int32(diff) \/ ~NonNegativeInt32(ns) \/ ~r.ok)
    <3>1. Level(s, r, at, nd, ins, 1 - 1) /\ r.chain[1].live = TRUE /\ NonNegativeInt32(ns)
      BY <2>1, <2>2, <2>5
    <3>2. c[1].at + 4 <= at
      BY <2>2, <1>5
    <3> HIDE DEF r
    <3>3. Level(s, WriteHeader(r, 1, ns), at, nd, ins, 1)
      BY <3>1, <3>2, <2>2, HeaderCorrected
    <3> QED BY <2>3, <2>5, <3>3
  <2> QED BY <2>4, <2>5
<1>8. ASSUME NEW j \in 2 .. n, Good(j - 1) PROVE Good(j)
  <2> DEFINE r == f[j - 1]
             ns == Size(b, c[j].at) + diff
             q == RefreshChild(s, r, j)
  <2>1. j \in 1 .. n /\ j > 1
    BY <1>2
  <2>2. c[j].off > 0
    BY <2>1, <1>3
  <2>3. f[j] = IF ~Int32(diff) \/ ~NonNegativeInt32(ns) \/ ~r.ok THEN Fails(s) ELSE WriteHeader(q, j, ns)
    BY <1>6, <2>2 DEF SpliceLevel
  <2>4. CASE ~Int32(diff) \/ ~NonNegativeInt32(ns) \/ ~r.ok
    BY <2>3, <2>4
  <2>5. CASE ~(~Int32(diff) \/ ~NonNegativeInt32(ns) \/ ~r.ok)
    <3>1. r # Fails(s)
      BY <2>5, Failed
    <3>2. Level(s, r, at, nd, ins, j - 1)
      BY <3>1, <1>8
    <3> HIDE DEF r
    <3>3. Level(s, q, at, nd, ins, j - 1) /\ q.chain[j].live = TRUE
      BY <3>2, ChildRefreshed
    <3>4. c[j].at + 4 <= at
      BY <2>1, <1>5
    <3>5. NonNegativeInt32(ns)
      BY <2>5
    <3> HIDE DEF q
    <3>6. Level(s, WriteHeader(q, j, ns), at, nd, ins, j)
      BY <3>3, <3>4, <3>5, <2>1, HeaderCorrected
    <3> QED BY <2>3, <2>5, <3>6
  <2> QED BY <2>4, <2>5
<1> DEFINE T == {h \in Nat : h \in 1 .. n /\ ~Good(h)}
<1>9. ASSUME T # {} PROVE FALSE
  <2>1. PICK h \in T : \A g \in T : h <= g
    <3>1. T \in SUBSET Nat
      OBVIOUS
    <3> HIDE DEF T
    <3> QED BY <3>1, <1>9, LeastNatural
  <2>2. h \in Nat /\ h \in 1 .. n /\ ~Good(h)
    BY <2>1
  <2>3. h # 1
    BY <2>2, <1>7
  <2>4. h \in 2 .. n /\ h - 1 \in Nat /\ h - 1 \in 1 .. n /\ ~(h <= h - 1)
    BY <2>2, <2>3, <1>2
  <2>5. Good(h - 1)
    <3> HIDE DEF Good
    <3> QED BY <2>1, <2>4
  <2> HIDE DEF Good
  <2> QED BY <2>2, <2>4, <2>5, <1>8
<1>10. Good(n)
  <2>1. n \in 1 .. n
    BY <1>2
  <2> HIDE DEF Good
  <2> QED BY <2>1, <1>2, <1>9
<1> QED BY <1>6, <1>10

-----------------------------------------------------------------------------
(* The document after a splice: the bytes that stay.                       *)

\* A chain with the same places that all point to the buffer is the same chain.
LEMMA ChainSame ==
    ASSUME NEW b \in Buffer, NEW c, NEW pa, IsChain(b, c, pa), NEW k, SameChain(c, k, Len(c))
    PROVE  k = c
<1>1. c \in Seq(Mutators) /\ k \in Seq(Mutators) /\ Len(k) = Len(c)
  BY DEF IsChain, SameChain
<1>2. ASSUME NEW h \in 1 .. Len(c) PROVE k[h] = c[h]
  <2>1. c[h].live = TRUE /\ c[h] \in Mutators
    BY ChainParts
  <2>2. k[h] \in Mutators
    BY <1>1
  <2>3. k[h].at = c[h].at /\ k[h].off = c[h].off /\ k[h].live = TRUE
    BY DEF SameChain
  <2> DEFINE x == c[h]
             y == k[h]
  <2> HIDE DEF x, y
  <2>4. y \in Mutators /\ x \in Mutators /\ y.at = x.at /\ y.off = x.off /\ y.live = x.live
    BY <2>1, <2>2, <2>3 DEF x, y
  <2>5. y = x
    BY <2>4 DEF Mutators
  <2> QED BY <2>5 DEF x, y
<1> QED BY <1>1, <1>2

\* No document of the chain begins between p and x.
Apart(c, p, x) == \A h \in 1 .. Len(c) : c[h].at <= p \/ x <= c[h].at

\* Bytes before the splice stay, if no size is among them.
LEMMA BytesStay ==
    ASSUME NEW b, NEW d, NEW c, NEW at \in Nat, NEW p \in Nat, NEW x \in Nat, NEW u \in Nat, u <= at,
           SameBefore(b, d, at, c, Len(c)), Apart(c, p, u), p + 4 <= x, x <= u, Len(c) \in Nat,
           \A h \in 1 .. Len(c) : c[h].at \in Nat
    PROVE  Same(b, x, d, x, u - x)
<1> SUFFICES ASSUME NEW i \in 1 .. (u - x) PROVE d[x + i] = b[x + i]
  BY DEF Same
<1> DEFINE n == x + i
<1>1. n \in 1 .. at /\ n \in Nat /\ p + 4 < n /\ n <= u
  OBVIOUS
<1> HIDE DEF n
<1>2. ~InHeader(c, Len(c), n)
  <2> SUFFICES ASSUME NEW h \in 1 .. Len(c), c[h].at < n, n <= c[h].at + 4 PROVE FALSE
    BY DEF InHeader
  <2> DEFINE g == c[h].at
  <2>1. g \in Nat /\ g < n /\ n <= g + 4 /\ (g <= p \/ u <= g)
    BY DEF Apart
  <2> HIDE DEF g
  <2> QED BY <2>1, <1>1
<1>3. d[n] = b[n]
  BY <1>1, <1>2 DEF SameBefore
<1> QED BY <1>3 DEF n

\* What the splice is for the document of mutator i.
LEMMA LevelPatch ==
    ASSUME NEW s, NEW pa, StoreOk(s, pa), NEW at \in Nat, NEW nd \in Nat, NEW ins \in Buffer, NEW r,
           at + nd <= Len(s.data), Level(s, r, at, nd, ins, Len(s.chain)),
           NEW i \in 1 .. Len(s.chain), NEW x \in Nat, NEW y \in Nat,
           s.chain[i].at + 4 <= x, x <= at, at + nd <= y, y <= Len(s.data),
           Apart(s.chain, s.chain[i].at, x)
    PROVE  Patch(s.data, r.data, s.chain[i].at, x, y, y + (Len(ins) - nd))
<1> DEFINE b == s.data
           c == s.chain
           d == r.data
           p == c[i].at
           m == Len(ins)
           diff == m - nd
           z == y + diff
           L == Len(b)
<1>1. IsChain(b, c, pa) /\ b \in Buffer
  BY DEF StoreOk, Fits
<1>2. Len(c) \in Nat /\ (\A h \in 1 .. Len(c) : c[h].at \in Nat) /\ p \in Nat
  BY <1>1, ChainParts
<1>3. RawSplice(b, d, at, nd, ins) /\ SameBefore(b, d, at, c, Len(c)) /\ Resized(b, d, c, Len(c), diff)
  BY DEF Level
<1>4. d \in Buffer /\ Len(d) = L + diff /\ Same(b, at + nd, d, at + m, L - (at + nd))
  BY <1>3 DEF RawSplice
<1>5. L \in Nat /\ m \in Nat
  BY <1>1 DEF Buffer
<1>6. Same(b, p + 4, d, p + 4, x - (p + 4))
  <2> DEFINE f == p + 4
  <2>1. f \in Nat /\ p + 4 <= f /\ f <= x /\ p \in Nat
    BY <1>2, SMTT(30)
  <2> HIDE DEF f
  <2>2. Same(b, f, d, f, x - f)
    BY <2>1, <1>2, <1>3, BytesStay
  <2> QED BY <2>2 DEF f
<1>7. Size(d, p) = Size(b, p) + diff
  BY <1>3 DEF Resized
<1> HIDE DEF L, m, b, d, p, c
<1>8. z \in Nat /\ x <= z /\ z - y = diff
  BY <1>5, SMTT(30)
<1>9. Same(b, y, d, z, L - y)
  <2> DEFINE o == y - (at + nd)
             n == L - y
             u == at + nd
             v == at + m
             g == L - u
  <2>1. o \in Nat /\ n \in Nat /\ u \in Nat /\ v \in Nat /\ g \in Nat /\ o + n <= g /\ u + o = y /\ v + o = z
    BY <1>5 DEF L, b
  <2>2. Same(b, u, d, v, g)
    BY <1>4
  <2> HIDE DEF o, n, u, v, g, z
  <2>3. Same(b, u + o, d, v + o, n)
    BY <2>1, <2>2, SameWithin
  <2> QED BY <2>1, <2>3 DEF n
<1>10. p + 4 <= x /\ y <= L /\ Len(d) = L + (z - y) /\ Size(d, p) = Size(b, p) + (z - y) /\ x <= y
  <2>1. p + 4 <= x /\ y <= L
    BY DEF p, L, b, c
  <2>2. x <= y
    OBVIOUS
  <2> HIDE DEF z
  <2> QED BY <2>1, <2>2, <1>4, <1>7, <1>8
<1>11. Patch(b, d, p, x, y, z)
  <2> HIDE DEF z
  <2> QED BY <1>2, <1>6, <1>8, <1>9, <1>10 DEF Patch, L
<1> QED BY <1>11 DEF b, d, p, c, m

-----------------------------------------------------------------------------
(* The documents around it: one element has grown.                         *)

\* The element whose document has grown.
LEMMA GrownElem ==
    ASSUME NEW b \in Buffer, NEW d \in Buffer, NEW x, NEW y, GoodElem(b, x, y), Nests(b, x),
           Same(b, x, d, x, ValueAt(b, x) - x), Valid(d, ValueAt(b, x))
    PROVE  LET v == ValueAt(b, x)
           IN /\ GoodElem(d, x, v + Size(d, v)) /\ ValueAt(d, x) = v /\ KeyLen(d, x) = KeyLen(b, x)
              /\ Nests(d, x) /\ v + Size(d, v) \in Nat
              /\ ElementAt(d, x) = [ElementAt(b, x) EXCEPT !.val = Document(d, v)]
<1> DEFINE v == ValueAt(b, x)
           kl == KeyLen(b, x)
           n == Size(d, v)
           t == b[x + 1]
<1>1. x \in Nat /\ v \in Nat /\ kl \in Nat /\ v = x + kl + 2 /\ IsStr(b, x + 1, kl) /\ t \in Byte /\ v <= Len(b) /\ Len(b) \in Nat
  <2>1. Elem(b, x, y)
    BY DEF GoodElem
  <2>2. /\ x \in Nat /\ v \in Nat /\ kl \in Nat /\ v = x + kl + 2 /\ t \in Byte /\ v <= y /\ y <= Len(b) /\ Len(b) \in Nat
        /\ y \in Nat
    BY <2>1, ElemParts
  <2>3. IsStr(b, x + 1, kl)
    BY <2>1 DEF Elem
  <2> HIDE DEF v, kl, t
  <2> QED BY <2>2, <2>3
<1>2. PICK a : Whole(d, v, a)
  BY ValidUnfolds
<1>3. n \in Nat /\ n >= 5 /\ v + n <= Len(d) /\ d[v + n] = 0 /\ Len(d) \in Nat
  BY <1>2, LayoutOrder DEF Whole, IsLayout
<1>4. d[x + 1] = t
  <2>1. 1 \in 1 .. (v - x)
    <3> HIDE DEF v, kl
    <3> QED BY <1>1
  <2> QED BY <2>1 DEF Same
<1>5. IsStr(d, x + 1, kl)
  <2> DEFINE m == v - x
             o == 1
  <2>1. m \in Nat /\ o \in Nat /\ x + m <= Len(d) /\ o + kl + 1 <= m
    <3> HIDE DEF v, kl, n
    <3> QED BY <1>1, <1>3
  <2>2. Same(b, x, d, x, m) /\ IsStr(b, x + o, kl)
    BY <1>1
  <2> HIDE DEF m, o, kl, v
  <2>3. IsStr(d, x + o, kl)
    BY <2>1, <2>2, <1>1, StrMoves
  <2> QED BY <2>3 DEF o
<1>6. t \in {document, array}
  BY DEF Nests
<1>7. ConstSize(t) = 0 /\ HasVarsizePrefix(t) /\ ConstSize(t) # MaxInt
  <2>1. ConstSize(t) = 0 /\ HasVarsizePrefix(t)
    BY <1>1, <1>6, ConstSizes
  <2> QED BY <2>1, SizesAssumption
<1>8. read_u32le(d, v) = n
  BY DEF Size
<1>9. t # regex /\ t \notin {dbpointer, 15, utf8, 13, 14}
  BY <1>6 DEF document, array, regex, dbpointer, utf8
<1>10. n = ValueLen(d, t, v) /\ ValueOk(d, t, v, n)
  <2> HIDE DEF n, v, t
  <2>1. n = ValueLen(d, t, v)
    BY <1>3, <1>7, <1>8, <1>9 DEF ValueLen
  <2>2. ValueOk(d, t, v, n)
    BY <1>3, <1>7, <1>9 DEF ValueOk
  <2> QED BY <2>1, <2>2
<1>11. Elem(d, x, v + n) /\ KeyLen(d, x) = kl /\ ValueAt(d, x) = v
  <2>1. (x + kl + 2) + n <= Len(d) /\ x + kl + 2 = v
    BY <1>1, <1>3
  <2>2. n = ValueLen(d, d[x + 1], x + kl + 2) /\ ValueOk(d, d[x + 1], x + kl + 2, n)
    BY <2>1, <1>4, <1>10
  <2> HIDE DEF n, v, kl, t
  <2>3. Elem(d, x, (x + kl + 2) + n) /\ KeyLen(d, x) = kl /\ ValueAt(d, x) = x + kl + 2
    BY <2>1, <2>2, <1>1, <1>3, <1>5, ElemMade
  <2> QED BY <2>1, <2>3
<1>12. Nests(d, x)
  BY <1>4, <1>6 DEF Nests
<1>13. GoodElem(d, x, v + n)
  BY <1>11, <1>12 DEF GoodElem
<1>14. Bytes(d, x + 1, kl) = Bytes(b, x + 1, kl)
  <2> DEFINE w == x + 1
             m == v - x
             o == 1
  <2>1. m \in Nat /\ o \in Nat /\ kl \in Nat /\ o + kl <= m /\ x \in Nat /\ w \in Nat /\ w + kl <= Len(b) /\ w + kl <= Len(d) /\ x + o = w
    <3> HIDE DEF v, kl, n
    <3> QED BY <1>1, <1>3
  <2>2. Same(b, x, d, x, m)
    OBVIOUS
  <2> HIDE DEF w, m, o, kl, v
  <2>3. Same(b, x + o, d, x + o, kl)
    BY <2>1, <2>2, SameWithin
  <2>4. Same(b, w, d, w, kl)
    BY <2>1, <2>3
  <2>5. Bytes(d, w, kl) = Bytes(b, w, kl)
    BY <2>1, <2>4, BytesMove
  <2> QED BY <2>5 DEF w
<1>15. ElementAt(d, x) = [ElementAt(b, x) EXCEPT !.val = Document(d, v)]
  <2>1. ElementAt(d, x) = [key |-> Bytes(b, x + 1, kl), tag |-> t, val |-> Document(d, v)]
    <3>1. ElementAt(d, x) = [key |-> Bytes(d, x + 1, KeyLen(d, x)), tag |-> d[x + 1], val |-> Document(d, ValueAt(d, x))]
      BY <1>12 DEF ElementAt
    <3> QED BY <3>1, <1>4, <1>11, <1>14
  <2> DEFINE f == Bytes(b, x + 1, kl)
             g == Document(b, v)
             h == Document(d, v)
             e == ElementAt(b, x)
  <2>2. e = [key |-> f, tag |-> t, val |-> g]
    BY DEF ElementAt
  <2> HIDE DEF f, g, h, e, t
  <2>3. [e EXCEPT !.val = h] = [key |-> f, tag |-> t, val |-> h]
    BY <2>2
  <2> QED BY <2>1, <2>3 DEF f, h, e
<1> QED BY <1>1, <1>3, <1>11, <1>12, <1>13, <1>15, SMTT(30)

\* One element replaced.
LEMMA OneReplaced ==
    ASSUME NEW S, NEW D \in Seq(S), NEW e \in S, NEW k \in 1 .. Len(D)
    PROVE  SubSeq(D, 1, k - 1) \o <<e>> \o SubSeq(D, k + 1, Len(D)) = [D EXCEPT ![k] = e]
<1> DEFINE E == <<e>>
           R == [D EXCEPT ![k] = e]
           l == k + 1
           n == Len(D)
<1>1. n \in Nat /\ k \in Nat /\ l \in Nat /\ 1 <= k /\ k <= l /\ l <= n + 1 /\ k <= n
  OBVIOUS
<1>2. E \in Seq(S) /\ Len(E) = 1 /\ E[1] = e
  OBVIOUS
<1>3. R \in Seq(S) /\ Len(R) = n
  OBVIOUS
<1>4. \A j \in 1 .. n : R[j] = IF j = k THEN e ELSE D[j]
  <2>1. DOMAIN D = 1 .. n
    OBVIOUS
  <2> QED BY <2>1
<1>5. Parts(S, R, D, E, k, l)
  <2>1. n = ((k - 1) + 1) + ((n + 1) - l)
    BY <1>1
  <2> HIDE DEF R, E
  <2>2. \A j \in 1 .. (k - 1) : R[j] = D[j]
    BY <1>1, <1>4
  <2>3. \A j \in 1 .. 1 : R[(k - 1) + j] = E[j]
    <3>1. (k - 1) + 1 = k /\ k \in 1 .. n
      BY <1>1
    <3> QED BY <3>1, <1>2, <1>4
  <2>4. ASSUME NEW j \in 1 .. ((n + 1) - l) PROVE R[((k - 1) + 1) + j] = D[(l - 1) + j]
    <3>1. ((k - 1) + 1) + j = k + j /\ (l - 1) + j = k + j /\ k + j \in 1 .. n /\ k + j # k
      BY <1>1
    <3> QED BY <3>1, <1>4
  <2> HIDE DEF n, l
  <2>5. Len(E) = 1 /\ Len(D) = n /\ Len(R) = n
    BY <1>2, <1>3 DEF n
  <2> QED BY <2>1, <2>2, <2>3, <2>4, <2>5, <1>3, Zenon DEF Parts
<1>6. Parts(S, SubSeq(D, 1, k - 1) \o E \o SubSeq(D, l, Len(D)), D, E, k, l)
  <2> HIDE DEF E, l
  <2> QED BY <1>1, <1>2, EndsAndMiddle DEF n
<1> HIDE DEF E, l, R
<1>7. R = SubSeq(D, 1, k - 1) \o E \o SubSeq(D, l, Len(D))
  BY <1>1, <1>2, <1>5, <1>6, FromThreeParts DEF n
<1> QED BY <1>7 DEF R, E, l

\* A run of one element.
LEMMA OneElement ==
    ASSUME NEW d, NEW x \in Nat, NEW z \in Nat, GoodElem(d, x, z)
    PROVE  LET e == <<x, z>>
           IN /\ Run(d, e) /\ Len(e) = 2 /\ e[1] = x /\ e[Len(e)] = z
              /\ ElementsOf(d, e) = <<ElementAt(d, x)>>
<1> DEFINE e == <<x, z>>
<1>1. e \in Seq(Nat) /\ Len(e) = 2 /\ e[1] = x /\ e[2] = z
  OBVIOUS
<1>2. Run(d, e)
  <2>1. \A j \in 1 .. (Len(e) - 1) : j = 1 /\ j + 1 = 2
    BY <1>1
  <2>2. \A j \in 1 .. (Len(e) - 1) : GoodElem(d, e[j], e[j + 1])
    BY <2>1, <1>1
  <2>3. Len(e) >= 1
    BY <1>1
  <2> HIDE DEF e
  <2> QED BY <2>2, <2>3, <1>1 DEF Run
<1>3. ElementsOf(d, e) = <<ElementAt(d, x)>>
  <2>1. Len(e) - 1 = 1
    BY <1>1
  <2> DEFINE f == [j \in 1 .. 1 |-> ElementAt(d, e[j])]
  <2>2. ElementsOf(d, e) = f
    BY <2>1 DEF ElementsOf
  <2>3. f \in Seq({ElementAt(d, x)}) /\ Len(f) = 1 /\ f[1] = ElementAt(d, x)
    <3>1. f \in [1 .. 1 -> {ElementAt(d, x)}] /\ f[1] = ElementAt(d, x)
      BY <1>1
    <3> DEFINE S == {ElementAt(d, x)}
               h == 1
    <3>2. f \in [1 .. h -> S] /\ h \in Nat
      BY <3>1
    <3> HIDE DEF f, S, h
    <3>3. f \in Seq(S) /\ Len(f) = h
      BY <3>2
    <3> QED BY <3>1, <3>3 DEF S, h
  <2> HIDE DEF f
  <2>4. f = <<f[1]>>
    BY <2>3, SingleElement
  <2> QED BY <2>2, <2>3, <2>4
<1> QED BY <1>1, <1>2, <1>3

\* The document at p after an edit of element k has its elements at a2.
EditsOne(b, d, p, a, k, z, a2) ==
    /\ Whole(d, p, a2) /\ Len(a2) = Len(a) /\ a2[k] = a[k] /\ a2[k + 1] = z
    /\ Len(Document(b, p)) = Len(a) - 1
    /\ Document(b, p)[k] = ElementAt(b, a[k])
    /\ Document(d, p) = [Document(b, p) EXCEPT ![k] = ElementAt(d, a[k])]

\* An edit of one element.
LEMMA ElementEdited ==
    ASSUME NEW b \in Buffer, NEW d \in Buffer, Len(b) <= MaxInt, Len(d) <= MaxInt,
           NEW p, NEW a, Whole(b, p, a), NEW k \in 1 .. (Len(a) - 1), NEW z \in Nat,
           GoodElem(d, a[k], z), Patch(b, d, p, a[k], a[k + 1], z)
    PROVE  \E a2 : EditsOne(b, d, p, a, k, z, a2)
<1> DEFINE x == a[k]
           e == <<x, z>>
           l == k + 1
           n == Len(a)
           D == Document(b, p)
           el == ElementAt(d, x)
<1>1. n \in Nat /\ n >= 1 /\ k \in 1 .. n /\ l \in k .. n /\ x \in Nat /\ l \in Nat /\ k \in Nat /\ k <= n - 1
  BY LayoutOrder DEF Whole
<1>2. Run(d, e) /\ Len(e) = 2 /\ e[1] = x /\ e[Len(e)] = z /\ ElementsOf(d, e) = <<el>>
  BY <1>1, OneElement, ZenonT(40)
<1>a. e[1] = a[k]
  BY <1>2
<1>3. Patch(b, d, p, a[k], a[l], e[Len(e)])
  BY <1>2
<1> HIDE DEF e, l
<1>b. PICK a2 : Edits(b, d, p, a, k, l, e, a2)
  BY <1>1, <1>2, <1>a, <1>3, EditedDocument
<1>4. /\ Whole(d, p, a2) /\ Replaced(a, a2, k, l, e, e[Len(e)] - a[l])
      /\ Len(D) = Len(a) - 1
      /\ Document(d, p) = SubSeq(D, 1, k - 1) \o ElementsOf(d, e) \o SubSeq(D, l, Len(D))
  BY <1>b DEF Edits
<1>5. Len(a2) = (k + 2 - 1) + (n - l) /\ a2[k] = a[k] /\ a2[(k - 1) + 2] = e[2]
  <2>1. 2 \in 1 .. 2 /\ k \in 1 .. k
    BY <1>1
  <2> QED BY <2>1, <1>2, <1>4 DEF Replaced
<1>6. Len(a2) = n /\ a2[k + 1] = z
  <2>1. (k + 2 - 1) + (n - l) = n /\ (k - 1) + 2 = k + 1
    BY <1>1 DEF l
  <2> QED BY <2>1, <1>2, <1>5
<1>7. D = [j \in 1 .. (n - 1) |-> ElementAt(b, a[j])]
  BY DocumentIs DEF Whole
<1>8. D[k] = ElementAt(b, a[k])
  BY <1>7
<1> HIDE DEF D, el, n
<1>9. SubSeq(D, 1, k - 1) \o <<el>> \o SubSeq(D, k + 1, Len(D)) = [D EXCEPT ![k] = el]
  <2> DEFINE S == {D[j] : j \in 1 .. (n - 1)} \cup {el}
             h == n - 1
  <2>1. D \in [1 .. h -> S] /\ h \in Nat /\ el \in S /\ k \in 1 .. h
    BY <1>1, <1>7 DEF n
  <2> HIDE DEF h, S
  <2>2. D \in Seq(S) /\ Len(D) = h
    BY <2>1
  <2>3. k \in 1 .. Len(D)
    BY <2>1, <2>2
  <2> QED BY <2>1, <2>2, <2>3, OneReplaced
<1> QED BY <1>2, <1>4, <1>5, <1>6, <1>8, <1>9 DEF D, el, n, l, EditsOne

\* The link of mutator i to the next is there after the edit, and the element
\* that it is about has changed as the document in it.
Follows(b, d, c, pa, i) ==
    /\ Link(d, c[i], c[i + 1], pa[i])
    /\ Document(d, c[i].at) = [Document(b, c[i].at) EXCEPT ![pa[i]].val = Document(d, c[i + 1].at)]

\* The splice lies in the document of mutator i.
Within(b, c, i, at, nd) == c[i].at + 4 <= at /\ at + nd <= (c[i].at + Size(b, c[i].at)) - 1

\* One level up.
LEMMA AncestorEdited ==
    ASSUME NEW s, NEW pa, StoreOk(s, pa), NEW at \in Nat, NEW nd \in Nat, NEW ins \in Buffer, NEW r,
           at + nd <= Len(s.data), Level(s, r, at, nd, ins, Len(s.chain)),
           NEW i \in 1 .. (Len(s.chain) - 1), Within(s.data, s.chain, i + 1, at, nd),
           Valid(r.data, s.chain[i + 1].at)
    PROVE  /\ Follows(s.data, r.data, s.chain, pa, i)
           /\ Valid(r.data, s.chain[i].at)
           /\ Within(s.data, s.chain, i, at, nd)
<1> DEFINE b == s.data
           c == s.chain
           d == r.data
           p == c[i].at
           v == c[i + 1].at
           k == pa[i]
           diff == Len(ins) - nd
           L == Len(b)
<1>1. IsChain(b, c, pa) /\ b \in Buffer /\ L <= MaxInt
  <2>1. IsChain(b, c, pa) /\ b \in Buffer /\ s.cap \in Nat /\ L <= s.cap /\ s.cap + 4 <= MaxInt
    BY DEF StoreOk, Fits
  <2>2. L \in Nat
    BY <2>1 DEF Buffer
  <2> HIDE DEF L, b
  <2> QED BY <2>1, <2>2, SizesAssumption
<1>2. Len(c) \in Nat /\ i \in 1 .. Len(c) /\ i + 1 \in 1 .. Len(c) /\ \A h \in 1 .. Len(c) : c[h].at \in Nat
  <2>1. Len(c) \in Nat /\ \A h \in 1 .. Len(c) : c[h].at \in Nat
    BY <1>1, ChainParts
  <2> QED BY <2>1
<1>a. c[i] \in Mutators /\ c[i + 1] \in Mutators
  BY <1>1, <1>2, ChainParts
<1>3. /\ RawSplice(b, d, at, nd, ins) /\ SameBefore(b, d, at, c, Len(c)) /\ Resized(b, d, c, Len(c), diff)
      /\ r.cap \in Nat /\ Len(d) <= r.cap /\ r.cap + 4 <= MaxInt
  BY DEF Level
<1>4. d \in Buffer /\ Len(d) = L + diff /\ L \in Nat /\ Len(ins) \in Nat
  BY <1>1, <1>3, SMTT(30) DEF RawSplice, Buffer
<1>5. Len(d) <= MaxInt
  <2> DEFINE m == Len(d)
  <2>1. m \in Nat /\ m <= r.cap
    BY <1>3, <1>4 DEF Buffer
  <2> HIDE DEF m
  <2>2. m <= MaxInt
    BY <2>1, <1>3, SizesAssumption
  <2> QED BY <2>2 DEF m
<1>6. Link(b, c[i], c[i + 1], k)
  BY <1>1 DEF IsChain
<1>7. PICK a : /\ Whole(b, p, a) /\ k \in 1 .. (Len(a) - 1) /\ Nests(b, a[k])
               /\ v = ValueAt(b, a[k]) /\ c[i + 1].off = a[k] - p
  BY <1>6 DEF Link
<1> DEFINE x == a[k]
           y == a[k + 1]
           z == v + Size(d, v)
<1>8. GoodElem(b, x, y) /\ Elem(b, x, y)
  BY <1>7 DEF Whole, GoodElem
<1>9. x \in Nat /\ y \in Nat /\ v \in Nat /\ x + 2 <= v /\ v <= y /\ y <= L
  BY <1>1, <1>7, <1>8, ElemParts, ZenonT(40)
<1>10. Size(b, v) = y - v
  BY <1>1, <1>7, <1>8, NestedSize
<1>11. p \in Nat /\ p + 4 <= x /\ y <= (p + Size(b, p)) - 1 /\ Size(b, p) \in Nat
  <2>1. IsLayout(b, p, a)
    BY <1>7 DEF Whole
  <2> HIDE DEF p, b
  <2> QED BY <2>1, <1>1, <1>7, LayoutOrder
<1>12. Size(d, v) = Size(b, v) + diff
  BY <1>2, <1>3 DEF Resized
<1>13. v + 4 <= at /\ at + nd <= (v + Size(b, v)) - 1
  BY DEF Within
<1>14. Apart(c, p, v)
  <2> SUFFICES ASSUME NEW h \in 1 .. Len(c) PROVE c[h].at <= p \/ v <= c[h].at
    BY DEF Apart
  <2>1. \A g, j \in 1 .. Len(c) : g < j => c[g].at + 6 <= c[j].at
    BY <1>1, ChainParts
  <2>2. h = i \/ h < i \/ h = i + 1 \/ i + 1 < h
    BY <1>2
  <2>3. CASE h = i
    BY <2>3, <1>11
  <2>4. CASE h < i
    <3>1. c[h].at + 6 <= p /\ c[h].at \in Nat
      BY <2>1, <2>4, <1>2
    <3> DEFINE g == c[h].at
    <3>2. g \in Nat /\ p \in Nat /\ g + 6 <= p
      BY <3>1, <1>11
    <3> HIDE DEF p, g
    <3>3. g <= p
      BY <3>2
    <3> QED BY <3>3 DEF g
  <2>5. CASE h = i + 1
    BY <2>5, <1>9, SMTT(30)
  <2>6. CASE i + 1 < h
    <3>1. v + 6 <= c[h].at /\ c[h].at \in Nat
      BY <2>1, <2>6, <1>2
    <3> DEFINE g == c[h].at
    <3>2. g \in Nat /\ v \in Nat /\ v + 6 <= g
      BY <3>1, <1>9
    <3> HIDE DEF v, g
    <3>3. v <= g
      BY <3>2
    <3> QED BY <3>3 DEF g
  <2> QED BY <2>2, <2>3, <2>4, <2>5, <2>6
<1> HIDE DEF b, c, d, p, v, L, x, y, diff, k
<1>15. y + diff = z /\ z \in Nat /\ x <= at /\ at + nd <= y /\ v <= at
  <2>1. diff \in Int /\ diff = Len(ins) - nd
    BY <1>4 DEF diff
  <2> HIDE DEF diff
  <2>2. Size(d, v) = (y - v) + diff
    BY <1>10, <1>12
  <2>3. at + nd <= (v + (y - v)) - 1
    BY <1>10, <1>13
  <2>4. x <= at /\ at + nd <= y /\ v <= at
    BY <2>3, <1>9, <1>13
  <2>5. y + diff = z
    BY <2>1, <2>2, <1>9, SMTT(30)
  <2>6. y + diff \in Nat
    BY <2>1, <2>4, <1>4, <1>9
  <2> QED BY <2>4, <2>5, <2>6
<1>16. Apart(c, p, x)
  <2> SUFFICES ASSUME NEW h \in 1 .. Len(c) PROVE c[h].at <= p \/ x <= c[h].at
    BY DEF Apart
  <2> DEFINE g == c[h].at
  <2>1. g \in Nat /\ (g <= p \/ v <= g)
    BY <1>2, <1>14 DEF Apart
  <2> HIDE DEF g
  <2>2. g <= p \/ x <= g
    BY <2>1, <1>9, <1>11
  <2> QED BY <2>2 DEF g
<1>17. Patch(b, d, p, x, y, z)
  <2>1. Patch(b, d, p, x, y, y + (Len(ins) - nd))
    BY <1>2, <1>9, <1>11, <1>15, <1>16, LevelPatch DEF b, c, d, p, L
  <2> QED BY <2>1, <1>15 DEF diff
<1>18. Same(b, x, d, x, v - x)
  <2>1. SameBefore(b, d, at, c, Len(c)) /\ p + 4 <= x /\ x <= v /\ v <= at
    BY <1>3, <1>9, <1>11, <1>15
  <2> QED BY <2>1, <1>2, <1>9, <1>11, <1>14, BytesStay
<1>19. /\ GoodElem(d, x, z) /\ ValueAt(d, x) = v /\ Nests(d, x)
       /\ ElementAt(d, x) = [ElementAt(b, x) EXCEPT !.val = Document(d, v)]
  <2>1. Nests(b, x) /\ v = ValueAt(b, x) /\ Valid(d, v)
    BY <1>7 DEF x, d, v, c
  <2> QED BY <2>1, <1>1, <1>4, <1>8, <1>18, GrownElem, SMTT(30) DEF b
<1>20. PICK a2 : EditsOne(b, d, p, a, k, z, a2)
  <2>1. Whole(b, p, a) /\ k \in 1 .. (Len(a) - 1) /\ GoodElem(d, a[k], z) /\ Patch(b, d, p, a[k], a[k + 1], z)
    BY <1>7, <1>17, <1>19 DEF x, y, k, p, b
  <2>2. b \in Buffer /\ d \in Buffer /\ Len(b) <= MaxInt /\ Len(d) <= MaxInt /\ z \in Nat
    BY <1>1, <1>4, <1>5, <1>15 DEF b, L
  <2> HIDE DEF z
  <2> QED BY <2>1, <2>2, ElementEdited
<1>21. /\ Whole(d, p, a2) /\ Len(a2) = Len(a) /\ a2[k] = x
       /\ Document(b, p)[k] = ElementAt(b, x)
       /\ Document(d, p) = [Document(b, p) EXCEPT ![k] = ElementAt(d, x)]
  BY <1>20 DEF EditsOne, x
<1>22. Link(d, c[i], c[i + 1], k)
  <2>1. k \in 1 .. (Len(a2) - 1) /\ c[i + 1].off = a2[k] - p /\ v = ValueAt(d, a2[k]) /\ Nests(d, a2[k])
    BY <1>7, <1>19, <1>21 DEF k, x, p, c, v, b
  <2> QED BY <2>1, <1>21 DEF Link, p, v
<1>23. Document(d, p) = [Document(b, p) EXCEPT ![k].val = Document(d, v)]
  BY <1>19, <1>21
<1>24. Valid(d, p)
  BY <1>4, <1>21, ValidFolds
<1>25. Within(b, c, i, at, nd)
  <2>1. p + 4 <= at
    BY <1>9, <1>11, <1>15
  <2>2. at + nd <= (p + Size(b, p)) - 1
    BY <1>9, <1>11, <1>15
  <2> QED BY <2>1, <2>2 DEF Within, p
<1> QED BY <1>22, <1>23, <1>24, <1>25 DEF Follows, b, c, d, p, v, k

\* The store r has the mutators of s, and each document around the innermost
\* differs in the element that leads to it.
Edited(s, r, pa) ==
    /\ StoreOk(r, pa) /\ r.chain = s.chain
    /\ \A i \in 1 .. (Len(s.chain) - 1) :
         Document(r.data, s.chain[i].at) =
            [Document(s.data, s.chain[i].at) EXCEPT ![pa[i]].val = Document(r.data, s.chain[i + 1].at)]

\* If the innermost document is one after the splice, they all are.
LEMMA StoreEdited ==
    ASSUME NEW s, NEW pa, StoreOk(s, pa), NEW at \in Nat, NEW nd \in Nat, NEW ins \in Buffer, NEW r,
           at + nd <= Len(s.data), Level(s, r, at, nd, ins, Len(s.chain)),
           Within(s.data, s.chain, Len(s.chain), at, nd),
           Valid(r.data, s.chain[Len(s.chain)].at)
    PROVE  Edited(s, r, pa)
<1> DEFINE b == s.data
           c == s.chain
           d == r.data
           n == Len(c)
           Good(j) == Valid(d, c[j].at) /\ Within(b, c, j, at, nd) /\ (j < n => Follows(b, d, c, pa, j))
           T == {m \in Nat : m < n /\ ~Good(n - m)}
<1>1. IsChain(b, c, pa) /\ b \in Buffer /\ Size(b, 0) = Len(b)
  BY DEF StoreOk, Fits
<1>2. n \in Nat /\ n >= 1 /\ c[1].at = 0
  BY <1>1, ChainParts
<1>3. Good(n)
  BY <1>2
<1>4. ASSUME NEW j \in 1 .. (n - 1), Good(j + 1) PROVE Good(j)
  <2>1. Valid(d, c[j + 1].at) /\ Within(b, c, j + 1, at, nd)
    BY <1>4
  <2>2. Follows(b, d, c, pa, j) /\ Valid(d, c[j].at) /\ Within(b, c, j, at, nd)
    BY <2>1, AncestorEdited
  <2> QED BY <2>2
<1> HIDE DEF Good
<1>5. ASSUME T # {} PROVE FALSE
  <2>1. PICK h \in T : \A g \in T : h <= g
    <3>1. T \in SUBSET Nat
      OBVIOUS
    <3> HIDE DEF T
    <3> QED BY <3>1, <1>5, LeastNatural
  <2>2. h \in Nat /\ h < n /\ ~Good(n - h)
    BY <2>1
  <2>3. h # 0
    BY <2>2, <1>2, <1>3
  <2> DEFINE j == n - h
  <2>4. j \in 1 .. (n - 1) /\ j + 1 = n - (h - 1) /\ h - 1 \in Nat /\ h - 1 < n /\ ~(h <= h - 1)
    BY <2>2, <2>3, <1>2
  <2>5. Good(n - (h - 1))
    <3>1. h - 1 \notin T
      <4> HIDE DEF T
      <4> QED BY <2>1, <2>4
    <3> QED BY <3>1, <2>4
  <2> HIDE DEF j
  <2>6. Good(j)
    BY <2>4, <2>5, <1>4
  <2> QED BY <2>2, <2>6 DEF j
<1>6. ASSUME NEW j \in 1 .. n PROVE Good(j)
  <2> DEFINE h == n - j
  <2>1. h \in Nat /\ h < n /\ n - h = j
    BY <1>2
  <2> HIDE DEF h
  <2>2. h \notin T
    BY <1>5
  <2> QED BY <2>1, <2>2
<1>7. /\ IsStore(r) /\ r.ok = TRUE /\ RawSplice(b, d, at, nd, ins) /\ Resized(b, d, c, n, Len(ins) - nd)
      /\ r.cap \in Nat /\ Len(d) <= r.cap /\ r.cap + 4 <= MaxInt /\ SameChain(c, r.chain, n)
  BY DEF Level
<1>8. r.chain = c
  BY <1>1, <1>7, ChainSame
<1>9. Fits(d, r.cap)
  <2>1. d \in Buffer /\ Len(d) = Len(b) + (Len(ins) - nd)
    BY <1>7 DEF RawSplice
  <2>2. Size(d, c[1].at) = Size(b, c[1].at) + (Len(ins) - nd)
    <3>1. 1 \in 1 .. n
      BY <1>2
    <3> QED BY <3>1, <1>7 DEF Resized
  <2>3. Size(d, 0) = Len(d)
    BY <2>1, <2>2, <1>1, <1>2
  <2> QED BY <2>1, <2>3, <1>7 DEF Fits
<1>10. IsChain(d, c, pa)
  <2>1. Valid(d, 0)
    <3>1. 1 \in 1 .. n
      BY <1>2
    <3>2. Good(1)
      BY <3>1, <1>6
    <3> QED BY <3>2, <1>2 DEF Good
  <2>2. \A i \in 1 .. (n - 1) : Link(d, c[i], c[i + 1], pa[i])
    <3> SUFFICES ASSUME NEW i \in 1 .. (n - 1) PROVE Link(d, c[i], c[i + 1], pa[i])
      OBVIOUS
    <3>1. i \in 1 .. n /\ i < n
      BY <1>2
    <3> QED BY <3>1, <1>6 DEF Good, Follows
  <2> QED BY <2>1, <2>2, <1>1 DEF IsChain
<1>11. StoreOk(r, pa)
  BY <1>7, <1>8, <1>9, <1>10 DEF StoreOk
<1>12. ASSUME NEW i \in 1 .. (n - 1)
       PROVE  Document(d, c[i].at) = [Document(b, c[i].at) EXCEPT ![pa[i]].val = Document(d, c[i + 1].at)]
  <2>1. i \in 1 .. n /\ i < n
    BY <1>2
  <2> QED BY <2>1, <1>6 DEF Good, Follows
<1> QED BY <1>8, <1>11, <1>12 DEF Edited

\* What the splice is for the innermost document.
LEMMA HomePatch ==
    ASSUME NEW s, NEW pa, StoreOk(s, pa), NEW at \in Nat, NEW nd \in Nat, NEW ins \in Buffer, NEW r,
           at + nd <= Len(s.data), Level(s, r, at, nd, ins, Len(s.chain)),
           NEW x \in Nat, NEW y \in Nat,
           Home(s) + 4 <= x, x <= at, at + nd <= y, y <= Len(s.data)
    PROVE  /\ Patch(s.data, r.data, Home(s), x, y, y + (Len(ins) - nd))
           /\ Same(s.data, x, r.data, x, at - x)
<1> DEFINE b == s.data
           c == s.chain
           n == Len(c)
           p == c[n].at
<1>1. IsChain(b, c, pa) /\ b \in Buffer
  BY DEF StoreOk, Fits
<1>2. n \in Nat /\ n \in 1 .. n /\ p \in Nat /\ \A h \in 1 .. n : c[h].at \in Nat
  <2>1. n \in Nat /\ n >= 1 /\ \A h \in 1 .. n : c[h].at \in Nat
    BY <1>1, ChainParts
  <2>2. n \in 1 .. n
    BY <2>1
  <2> QED BY <2>1, <2>2
<1>3. \A g, j \in 1 .. n : g < j => c[g].at + 6 <= c[j].at
  BY <1>1, ChainParts
<1>4. ASSUME NEW h \in 1 .. n PROVE c[h].at <= p
  <2> DEFINE g == c[h].at
  <2>1. g \in Nat /\ (h = n \/ g + 6 <= p)
    <3>1. h = n \/ h < n
      BY <1>2
    <3> QED BY <3>1, <1>2, <1>3
  <2>2. h = n => g = p
    OBVIOUS
  <2> HIDE DEF g, p
  <2>3. g <= p
    BY <2>1, <2>2, <1>2
  <2> QED BY <2>3 DEF g
<1>5. \A u : Apart(c, p, u)
  BY <1>4 DEF Apart
<1>6. Home(s) = p
  BY DEF Home
<1>7. Patch(b, r.data, p, x, y, y + (Len(ins) - nd))
  BY <1>2, <1>5, <1>6, LevelPatch
<1>8. Same(b, x, r.data, x, at - x)
  <2>1. SameBefore(b, r.data, at, c, n)
    BY DEF Level
  <2>2. at <= at /\ p + 4 <= x
    BY <1>6
  <2> HIDE DEF p, c, n, b
  <2> QED BY <2>1, <2>2, <1>2, <1>5, BytesStay DEF n
<1> QED BY <1>6, <1>7, <1>8

-----------------------------------------------------------------------------
(* A run of elements takes the place of another.                           *)

\* The elements of a run are in order.
LEMMA RunOrder ==
    ASSUME NEW d \in Buffer, NEW e, Run(d, e)
    PROVE  /\ Len(e) \in Nat /\ Len(e) >= 1 /\ \A i \in 1 .. Len(e) : e[i] \in Nat
           /\ \A i, j \in 1 .. Len(e) : i <= j => e[i] <= e[j]
<1> DEFINE n == Len(e)
<1>1. n \in Nat /\ n >= 1 /\ \A i \in 1 .. n : e[i] \in Nat
  BY DEF Run
<1>2. ASSUME NEW j \in 1 .. (n - 1) PROVE e[j] <= e[j + 1]
  <2>1. Elem(d, e[j], e[j + 1])
    BY DEF Run, GoodElem
  <2> DEFINE x == e[j]
             y == e[j + 1]
             v == ValueAt(d, x)
  <2>2. x \in Nat /\ y \in Nat /\ v \in Nat /\ x + 2 <= v /\ v <= y
    BY <2>1, ElemParts
  <2> HIDE DEF x, y, v
  <2>3. x <= y
    BY <2>2
  <2> QED BY <2>3 DEF x, y
<1>3. ASSUME NEW i \in 1 .. n, NEW j \in 1 .. n, i <= j PROVE e[i] <= e[j]
  <2> DEFINE T == {h \in Nat : h \in 1 .. n /\ i <= h /\ ~(e[i] <= e[h])}
  <2> SUFFICES ASSUME T # {} PROVE FALSE
    <3>1. j \in Nat
      OBVIOUS
    <3> QED BY <3>1, <1>3
  <2>1. PICK h \in T : \A g \in T : h <= g
    <3>1. T \in SUBSET Nat
      OBVIOUS
    <3> HIDE DEF T
    <3> QED BY <3>1, LeastNatural
  <2>2. h \in Nat /\ h \in 1 .. n /\ i <= h /\ ~(e[i] <= e[h])
    BY <2>1
  <2>3. h # i
    BY <2>2, <1>1
  <2> DEFINE g == h - 1
  <2>4. g \in Nat /\ g \in 1 .. (n - 1) /\ g + 1 = h /\ g < h /\ i <= g /\ g \in 1 .. n
    BY <2>2, <2>3, <1>1
  <2> HIDE DEF g
  <2>5. e[g] <= e[h] /\ e[g] \in Nat /\ e[h] \in Nat /\ e[i] \in Nat
    BY <2>2, <2>4, <1>1, <1>2
  <2>6. g \notin T
    <3> HIDE DEF T
    <3> QED BY <2>1, <2>2, <2>4
  <2>7. e[i] <= e[g]
    BY <2>6, <2>4
  <2> HIDE DEF T
  <2> QED BY <2>7, <2>2, <2>5
<1> QED BY <1>1, <1>3

\* Where the elements of a run are that moves to z.
MovedTo(e, z) == [j \in 1 .. Len(e) |-> z + (e[j] - e[1])]

\* The run f of c is the run e of b, at z.
SameRun(b, e, c, f, z) ==
    /\ Run(c, f) /\ Len(f) = Len(e) /\ f[1] = z /\ f[Len(f)] = z + (e[Len(e)] - e[1])
    /\ ElementsOf(c, f) = ElementsOf(b, e)
    /\ \A j \in 1 .. (Len(e) - 1) : KeyLen(c, f[j]) = KeyLen(b, e[j])

\* A run of elements is the same run wherever its bytes are.
LEMMA RunMoves ==
    ASSUME NEW b \in Buffer, NEW c \in Buffer, Len(b) <= MaxInt, Len(c) <= MaxInt,
           NEW e, Run(b, e), NEW z \in Nat,
           Same(b, e[1], c, z, e[Len(e)] - e[1]), z + (e[Len(e)] - e[1]) <= Len(c)
    PROVE  SameRun(b, e, c, MovedTo(e, z), z)
<1> DEFINE f == MovedTo(e, z)
           n == Len(e)
           u == e[1]
           w == e[n]
<1>1. n \in Nat /\ n >= 1 /\ 1 \in 1 .. n /\ n \in 1 .. n /\ \A i \in 1 .. n : e[i] \in Nat
  BY RunOrder
<1>2. \A i, j \in 1 .. n : i <= j => e[i] <= e[j]
  BY RunOrder
<1>3. u \in Nat /\ w \in Nat /\ \A j \in 1 .. n : u <= e[j] /\ e[j] <= w
  BY <1>1, <1>2
<1>4. \A j \in 1 .. n : f[j] = z + (e[j] - u)
  BY DEF MovedTo
<1>5. f \in Seq(Nat) /\ Len(f) = n
  <2> HIDE DEF n
  <2>1. f = [j \in 1 .. n |-> z + (e[j] - u)]
    BY DEF MovedTo, n
  <2>2. ASSUME NEW j \in 1 .. n PROVE z + (e[j] - u) \in Nat
    <3> DEFINE x == e[j]
    <3>1. x \in Nat /\ u <= x
      BY <1>1, <1>3
    <3> HIDE DEF x, u
    <3>2. z + (x - u) \in Nat
      BY <3>1, <1>3
    <3> QED BY <3>2 DEF x
  <2> HIDE DEF f, u
  <2>3. f \in [1 .. n -> Nat]
    BY <2>1, <2>2
  <2> QED BY <2>3, <1>1
<1>6. f[1] = z /\ f[n] = z + (w - u)
  <2>1. f[1] = z + (u - u) /\ f[n] = z + (w - u)
    BY <1>1, <1>4
  <2> QED BY <2>1, <1>3
<1>7. ASSUME NEW j \in 1 .. (n - 1)
      PROVE  /\ GoodElem(c, f[j], f[j + 1]) /\ ElementAt(c, f[j]) = ElementAt(b, e[j])
             /\ KeyLen(c, f[j]) = KeyLen(b, e[j])
  <2> DEFINE x == e[j]
             y == e[j + 1]
             o == x - u
             m == y - x
             v == z + o
             N == w - u
  <2>1. j \in 1 .. n /\ j + 1 \in 1 .. n /\ j <= j + 1
    BY <1>1
  <2>2. GoodElem(b, x, y)
    BY DEF Run
  <2>3. x \in Nat /\ y \in Nat /\ x <= y /\ u <= x /\ y <= w /\ u \in Nat /\ w \in Nat
    <3>1. e[j] \in Nat /\ e[j + 1] \in Nat /\ u <= e[j] /\ e[j + 1] <= w
      BY <2>1, <1>1, <1>3
    <3>2. e[j] <= e[j + 1]
      BY <2>1, <1>2
    <3> QED BY <3>1, <3>2, <1>3
  <2>4. f[j] = v /\ f[j + 1] = z + (y - u)
    BY <2>1, <1>4
  <2>5. Same(b, u, c, z, N) /\ z + N <= Len(c)
    OBVIOUS
  <2>a. Len(c) \in Nat
    BY DEF Buffer
  <2> HIDE DEF x, y, u, w
  <2>6. /\ o \in Nat /\ m \in Nat /\ v \in Nat /\ N \in Nat /\ o + m <= N /\ u + o = x
        /\ z + (y - u) = v + m /\ v + m <= z + N
    BY <2>3
  <2>7. v + m <= Len(c)
    <3> HIDE DEF v, m, N
    <3> QED BY <2>5, <2>6, <2>a
  <2> HIDE DEF o, m, N
  <2>8. Same(b, u + o, c, z + o, m)
    BY <2>3, <2>5, <2>6, SameWithin
  <2>9. Same(b, x, c, v, y - x) /\ v + (y - x) <= Len(c)
    BY <2>6, <2>7, <2>8 DEF m
  <2> HIDE DEF v
  <2>10. GoodElem(c, v, v + (y - x)) /\ KeyLen(c, v) = KeyLen(b, x) /\ ElementAt(c, v) = ElementAt(b, x)
    BY <2>2, <2>6, <2>9, GoodElemMoves
  <2>11. f[j + 1] = v + (y - x)
    BY <2>4, <2>6 DEF m
  <2> QED BY <2>4, <2>10, <2>11 DEF x
<1> HIDE DEF f, n
<1>8. Run(c, f)
  BY <1>1, <1>5, <1>7 DEF Run
<1>9. ElementsOf(c, f) = ElementsOf(b, e)
  <2>1. ElementsOf(c, f) = [j \in 1 .. (n - 1) |-> ElementAt(c, f[j])]
    BY <1>5 DEF ElementsOf
  <2>2. ElementsOf(b, e) = [j \in 1 .. (n - 1) |-> ElementAt(b, e[j])]
    BY DEF ElementsOf, n
  <2> QED BY <2>1, <2>2, <1>7
<1> QED BY <1>5, <1>6, <1>7, <1>8, <1>9 DEF f, n, SameRun

\* What the innermost document is.
LEMMA HomeParts ==
    ASSUME NEW s, NEW pa, StoreOk(s, pa)
    PROVE  /\ s.data \in Buffer /\ Len(s.data) \in Nat /\ Len(s.data) <= MaxInt
           /\ Home(s) \in Nat /\ Valid(s.data, Home(s)) /\ Size(s.data, Home(s)) \in Nat
           /\ Home(s) + Size(s.data, Home(s)) <= Len(s.data)
           /\ Len(s.chain) \in Nat /\ Len(s.chain) >= 1
<1> DEFINE b == s.data
           c == s.chain
           n == Len(c)
<1>1. IsChain(b, c, pa) /\ b \in Buffer /\ s.cap \in Nat /\ Len(b) <= s.cap /\ s.cap + 4 <= MaxInt
  BY DEF StoreOk, Fits
<1>2. n \in Nat /\ n >= 1
  BY <1>1, ChainParts
<1>3. n \in 1 .. n
  BY <1>2
<1>4. c[n].at \in Nat /\ Valid(b, c[n].at) /\ Size(b, c[n].at) \in Nat /\ c[n].at + Size(b, c[n].at) <= Len(b)
  BY <1>1, <1>3, ChainParts
<1>5. Len(b) \in Nat
  BY <1>1 DEF Buffer
<1>6. Len(b) <= MaxInt
  <2> DEFINE m == Len(b)
             k == s.cap
  <2>1. m \in Nat /\ k \in Nat /\ m <= k /\ k + 4 <= MaxInt
    BY <1>1, <1>5
  <2> HIDE DEF m, k
  <2>2. m <= MaxInt
    BY <2>1, SizesAssumption
  <2> QED BY <2>2 DEF m
<1> QED BY <1>1, <1>2, <1>4, <1>5, <1>6 DEF Home

\* it is the iterator that a walk over the document at p finds, at its end if last.
Lands(d, p, it, last) ==
    \E a, k : /\ Whole(d, p, a) /\ k \in 1 .. Len(a) /\ it = IteratorOf(d, p, a, k)
              /\ last => k = Len(a)

\* Elements f of ins have taken the place of the elements k .. l - 1.
Ranged(s, r, pa, a, k, l, ins, f) ==
    /\ Edited(s, r, pa)
    /\ Size(r.data, Home(s)) = Size(s.data, Home(s)) + (Len(ins) - (a[l] - a[k]))
    /\ Document(r.data, Home(s)) =
            SubSeq(Document(s.data, Home(s)), 1, k - 1) \o ElementsOf(ins, f)
              \o SubSeq(Document(s.data, Home(s)), l, Len(Document(s.data, Home(s))))
    /\ LET kl == IF Len(f) > 1 THEN KeyLen(ins, 0) ELSE IF l = Len(a) THEN 0 ELSE KeyLen(s.data, a[l])
       IN Lands(r.data, Home(s), Iterator(a[k], kl, (Home(s) + Size(r.data, Home(s))) - a[k]), FALSE)

\* A splice of whole elements.
LEMMA RangeEdited ==
    ASSUME NEW s, NEW pa, StoreOk(s, pa), NEW a, Whole(s.data, Home(s), a),
           NEW k \in 1 .. Len(a), NEW l \in k .. Len(a),
           NEW ins \in Buffer, Len(ins) <= MaxInt, NEW f, Run(ins, f), f[1] = 0, f[Len(f)] = Len(ins),
           NEW r, Level(s, r, a[k], a[l] - a[k], ins, Len(s.chain))
    PROVE  Ranged(s, r, pa, a, k, l, ins, f)
<1> DEFINE b == s.data
           d == r.data
           q == Home(s)
           n == Len(a)
           x == a[k]
           y == a[l]
           nd == y - x
           m == Len(ins)
           diff == m - nd
           L == Len(b)
           S == Size(b, q)
           N == Len(s.chain)
<1>1. b \in Buffer /\ L \in Nat /\ L <= MaxInt /\ q \in Nat /\ S \in Nat /\ q + S <= L /\ N \in Nat /\ N >= 1 /\ m \in Nat
  BY HomeParts DEF Buffer
<1>2. IsLayout(b, q, a)
  BY DEF Whole
<1>3. n \in Nat /\ n >= 1 /\ l \in 1 .. n /\ k <= l /\ k \in Nat /\ l \in Nat
  BY <1>1, <1>2, LayoutOrder
<1>4. x \in Nat /\ y \in Nat /\ q + 4 <= x /\ y <= (q + S) - 1
  BY <1>1, <1>2, <1>3, LayoutOrder
<1>5. x <= y
  BY <1>1, <1>3, LayoutGrows
<1>6. /\ RawSplice(b, d, x, nd, ins) /\ Resized(b, d, s.chain, N, diff)
      /\ r.cap \in Nat /\ Len(d) <= r.cap /\ r.cap + 4 <= MaxInt
  BY DEF Level
<1>7. d \in Buffer /\ Len(d) = L + diff /\ Same(ins, 0, d, x, m) /\ Len(d) \in Nat
  BY <1>6, SMTT(30) DEF RawSplice, Buffer
<1>8. Len(d) <= MaxInt
  <2> DEFINE w == Len(d)
             h == r.cap
  <2>1. w \in Nat /\ h \in Nat /\ w <= h /\ h + 4 <= MaxInt
    BY <1>6, <1>7
  <2> HIDE DEF w, h
  <2>2. w <= MaxInt
    BY <2>1, SizesAssumption
  <2> QED BY <2>2 DEF w
<1>9. Size(d, q) = S + diff
  <2>1. N \in 1 .. N
    BY <1>1
  <2> QED BY <2>1, <1>6 DEF Resized, Home
<1> DEFINE z == y + diff
           e == MovedTo(f, x)
<1> HIDE DEF b, d, q, n, x, y, m, L, S
<1>10. nd \in Nat /\ x + nd = y /\ x + nd <= L /\ z = x + m /\ z \in Nat /\ x + m <= Len(d) /\ diff = z - y /\ diff \in Int
  <2>1. Len(d) = L + (m - (y - x))
    BY <1>7
  <2> QED BY <2>1, <1>1, <1>4, <1>5, <1>7
<1>11. /\ Run(d, e) /\ Len(e) = Len(f) /\ e[1] = x /\ e[Len(e)] = z
       /\ ElementsOf(d, e) = ElementsOf(ins, f)
       /\ \A j \in 1 .. (Len(f) - 1) : KeyLen(d, e[j]) = KeyLen(ins, f[j])
  <2>1. f[Len(f)] - f[1] = m /\ f[1] = 0
    BY <1>1 DEF m
  <2>2. /\ Same(ins, f[1], d, x, f[Len(f)] - f[1]) /\ x + (f[Len(f)] - f[1]) <= Len(d)
    BY <2>1, <1>7, <1>10
  <2>3. /\ Run(d, e) /\ Len(e) = Len(f) /\ e[1] = x /\ e[Len(e)] = x + (f[Len(f)] - f[1])
        /\ ElementsOf(d, e) = ElementsOf(ins, f)
        /\ \A j \in 1 .. (Len(f) - 1) : KeyLen(d, e[j]) = KeyLen(ins, f[j])
    <3>1. SameRun(ins, f, d, e, x)
      BY <2>2, <1>4, <1>7, <1>8, RunMoves
    <3> HIDE DEF e
    <3> QED BY <3>1 DEF SameRun
  <2> QED BY <2>1, <2>3, <1>10
<1>12. Patch(b, d, q, x, y, z)
  <2>1. x + nd <= y /\ x <= x /\ q + 4 <= x /\ y <= L /\ nd \in Nat
    BY <1>1, <1>4, <1>10
  <2>2. Level(s, r, x, nd, ins, Len(s.chain)) /\ x + nd <= Len(s.data) /\ y <= Len(s.data) /\ Home(s) + 4 <= x
    BY <2>1, <1>10 DEF x, y, L, b, q
  <2> HIDE DEF nd
  <2>3. Patch(s.data, r.data, Home(s), x, y, y + (Len(ins) - nd))
    BY <2>1, <2>2, <1>4, HomePatch
  <2> QED BY <2>3 DEF b, d, q, m
<1> HIDE DEF e, z, nd, diff
<1>13. PICK a2 : Edits(b, d, q, a, k, l, e, a2)
  <2>1. Whole(b, q, a) /\ k \in 1 .. Len(a) /\ l \in k .. Len(a) /\ e[1] = a[k] /\ Run(d, e)
    BY <1>11 DEF b, q, x
  <2>2. Patch(b, d, q, a[k], a[l], e[Len(e)]) /\ Len(b) <= MaxInt
    BY <1>1, <1>11, <1>12 DEF x, y, L
  <2> QED BY <2>1, <2>2, <1>1, <1>7, <1>8, EditedDocument
<1>14. /\ Whole(d, q, a2) /\ Replaced(a, a2, k, l, e, e[Len(e)] - a[l])
       /\ Document(d, q) = SubSeq(Document(b, q), 1, k - 1) \o ElementsOf(d, e)
                            \o SubSeq(Document(b, q), l, Len(Document(b, q)))
  BY <1>13 DEF Edits
<1>15. /\ Len(a2) = (k + Len(f) - 1) + (n - l) /\ a2[k] = x /\ Len(f) \in Nat /\ Len(f) >= 1
       /\ a2[(k - 1) + 1] = e[1]
  <2>1. Len(f) \in Nat /\ Len(f) >= 1 /\ k \in 1 .. k
    BY <1>3 DEF Run
  <2>2. 1 \in 1 .. Len(f)
    BY <2>1
  <2> QED BY <2>1, <2>2, <1>11, <1>14 DEF Replaced, n, x
<1>16. k \in 1 .. Len(a2) /\ (k = Len(a2) <=> Len(f) = 1 /\ l = n)
  <2> DEFINE g == Len(f)
             w == Len(a2)
  <2>1. w = (k + g - 1) + (n - l) /\ g \in Nat /\ g >= 1 /\ k \in Nat /\ 1 <= k /\ l \in Nat /\ n \in Nat /\ l <= n
    BY <1>3, <1>15
  <2> HIDE DEF g, w
  <2>2. k \in 1 .. w /\ (k = w <=> g = 1 /\ l = n)
    BY <2>1
  <2> QED BY <2>2 DEF g, w
<1> DEFINE kl == IF Len(f) > 1 THEN KeyLen(ins, 0) ELSE IF l = Len(a) THEN 0 ELSE KeyLen(b, a[l])
           it == Iterator(x, kl, (q + Size(d, q)) - x)
<1>17. kl = IF k = Len(a2) THEN 0 ELSE KeyLen(d, x)
  <2>1. CASE Len(f) > 1
    <3>1. 1 \in 1 .. (Len(f) - 1) /\ ~(k = Len(a2))
      BY <2>1, <1>15, <1>16
    <3>2. KeyLen(d, x) = KeyLen(ins, 0)
      BY <3>1, <1>11
    <3> QED BY <2>1, <3>1, <3>2
  <2>2. CASE Len(f) = 1 /\ l = n
    BY <2>2, <1>16 DEF n
  <2>3. CASE Len(f) = 1 /\ l # n
    <3>1. ~(k = Len(a2)) /\ l \in l .. (Len(a) - 1)
      BY <2>3, <1>3, <1>16 DEF n
    <3>2. x = z
      BY <1>11, <2>3
    <3>3. KeyLen(d, a[l] + (e[Len(e)] - a[l])) = KeyLen(b, a[l])
      <4>1. Whole(b, q, a) /\ k \in 1 .. Len(a) /\ l \in k .. Len(a) /\ e[1] = a[k] /\ Run(d, e)
        BY <1>11 DEF b, q, x
      <4>2. Patch(b, d, q, a[k], a[l], e[Len(e)]) /\ Len(b) <= MaxInt
        BY <1>1, <1>11, <1>12 DEF x, y, L
      <4>3. \A i \in l .. (Len(a) - 1) : KeyLen(d, a[i] + (e[Len(e)] - a[l])) = KeyLen(b, a[i])
        BY <4>1, <4>2, <1>1, <1>7, <1>8, EditedElements
      <4> QED BY <4>3, <3>1
    <3>4. a[l] + (e[Len(e)] - a[l]) = z
      BY <1>4, <1>10, <1>11 DEF y
    <3>5. KeyLen(d, x) = KeyLen(b, a[l])
      BY <3>2, <3>3, <3>4
    <3> QED BY <2>3, <3>1, <3>5 DEF n
  <2>4. Len(f) > 1 \/ Len(f) = 1
    <3> DEFINE g == Len(f)
    <3>1. g \in Nat /\ g >= 1
      BY <1>15
    <3> HIDE DEF g
    <3>2. g > 1 \/ g = 1
      BY <3>1
    <3> QED BY <3>2 DEF g
  <2> QED BY <2>1, <2>2, <2>3, <2>4
<1>18. Lands(d, q, it, FALSE)
  <2>1. IteratorOf(d, q, a2, k) = Iterator(x, IF k = Len(a2) THEN 0 ELSE KeyLen(d, x), (q + Size(d, q)) - x)
    BY <1>15 DEF IteratorOf
  <2>2. it = IteratorOf(d, q, a2, k)
    BY <2>1, <1>17
  <2> HIDE DEF it
  <2> QED BY <2>2, <1>14, <1>16 DEF Lands
<1>19. Edited(s, r, pa)
  <2>1. Valid(d, q)
    BY <1>7, <1>14, ValidFolds
  <2>2. x + nd <= (q + S) - 1
    BY <1>4, <1>10
  <2>3. Within(s.data, s.chain, Len(s.chain), x, nd)
    BY <2>2, <1>4 DEF Within, q, S, b, Home
  <2>4. Level(s, r, x, nd, ins, Len(s.chain)) /\ x + nd <= Len(s.data) /\ Valid(r.data, s.chain[Len(s.chain)].at)
    BY <2>1, <1>10 DEF x, y, L, b, q, nd, d, Home
  <2> QED BY <2>3, <2>4, <1>4, <1>10, StoreEdited
<1>20. Size(d, q) = S + (Len(ins) - (a[l] - a[k]))
  BY <1>9 DEF m, nd, diff, x, y
<1> HIDE DEF kl
<1>21. Lands(d, q, Iterator(a[k], kl, (q + Size(d, q)) - a[k]), FALSE)
  BY <1>18 DEF x
<1>22. Document(d, q) = SubSeq(Document(b, q), 1, k - 1) \o ElementsOf(ins, f)
                            \o SubSeq(Document(b, q), l, Len(Document(b, q)))
  BY <1>11, <1>14
<1> QED BY <1>19, <1>20, <1>21, <1>22 DEF Ranged, b, d, q, S, kl

\* A value of type t at v that _bson_valsize() accepts within mx bytes has n.
Measured(b, t, v, mx, n) ==
    /\ n \in Int
    /\ n >= 0 => /\ n = ValueLen(b, t, v) /\ n < mx
                 /\ t = regex \/ ConstSize(t) # MaxInt
                 /\ t = regex => IsStr(b, v, strlen(b, v)) /\ IsStr(b, v + strlen(b, v) + 1, Options(b, v))
                 /\ HasVarsizePrefix(t) => read_u32le(b, v) \in Nat

-----------------------------------------------------------------------------
(* A view that is walked to its end is valid.                              *)

\* What _bson_valsize() accepts.
LEMMA ValSizeAccepts ==
    ASSUME NEW b \in Buffer, NEW t \in Byte, NEW v \in Nat, NEW mx \in Nat, mx >= 1, mx <= MaxInt,
           v + mx <= Len(b), b[v + mx] = 0
    PROVE  Measured(b, t, v, mx, _bson_valsize(b, t, v, mx))
<1> DEFINE prefix == HasVarsizePrefix(t)
           full == ConstSize(t) + (IF prefix THEN read_u32le(b, v) ELSE 0)
           r == _bson_valsize(b, t, v, mx)
<1>1. r = IF prefix /\ mx <= 4 THEN invalid_length
          ELSE IF full < mx THEN full
          ELSE IF t = regex THEN _bson_value_re_len(b, v, mx)
          ELSE IF ConstSize(t) = MaxInt THEN invalid_type
          ELSE invalid_length
  BY DEF _bson_valsize
<1>2. ConstSize(t) \in Nat /\ (t = regex => ConstSize(t) = MaxInt /\ ~prefix)
  BY ConstSizes
<1>a. MaxInt \in Nat /\ Len(b) \in Nat
  BY SizesAssumption DEF Buffer
<1>3. invalid_length = -3 /\ invalid_type = -2 /\ short_read = -1
  BY DEF invalid_length, invalid_type, short_read
<1>4. CASE prefix /\ mx <= 4
  BY <1>1, <1>3, <1>4 DEF Measured
<1>5. CASE ~(prefix /\ mx <= 4)
  <2>1. prefix => read_u32le(b, v) \in Nat
    <3>1. prefix => v + 4 <= Len(b)
      BY <1>5, <1>a
    <3> QED BY <3>1, SizeRead
  <2>2. full \in Nat /\ (t # regex => full = ValueLen(b, t, v))
    <3>1. full \in Nat
      BY <2>1, <1>2
    <3> QED BY <3>1 DEF ValueLen
  <2> HIDE DEF full, r
  <2>3. CASE t = regex
    <3>1. full = MaxInt
      BY <1>2, <1>a, <2>3 DEF full
    <3>2. r = _bson_value_re_len(b, v, mx)
      BY <1>1, <1>5, <1>a, <2>3, <3>1
    <3> DEFINE sl == strlen(b, v)
               opt == Options(b, v)
               rx == sl + 1
               j == v + mx
    <3>3. j \in Nat /\ v < j /\ j <= Len(b) /\ b[j] = 0
      OBVIOUS
    <3> HIDE DEF j
    <3>4. IsStr(b, v, sl) /\ v + sl + 1 <= j
      BY <3>3, StrlenFinds
    <3>5. sl \in Nat
      BY <3>4 DEF IsStr
    <3> DEFINE u == v + sl + 1
    <3> HIDE DEF sl
    <3>7. u \in Nat /\ u <= j
      BY <3>4, <3>5
    <3>8. u < j => IsStr(b, u, strlen(b, u)) /\ u + strlen(b, u) + 1 <= j
      <4> HIDE DEF u
      <4> QED BY <3>3, <3>7, StrlenFinds
    <3>9. opt = strlen(b, u)
      BY DEF Options, sl
    <3>10. opt \in Nat
      <4>1. u <= Len(b)
        <5> HIDE DEF u
        <5> QED BY <3>3, <3>7, <1>a
      <4> HIDE DEF u
      <4> QED BY <4>1, <3>7, <3>9, StrlenNat
    <3>11. strlen(b, v + rx) = opt
      <4>1. v + rx = u
        BY <3>5
      <4> QED BY <4>1, <3>9
    <3> HIDE DEF opt
    <3>12. r = IF rx > mx THEN invalid_length ELSE IF (mx - rx) - opt < 2 THEN short_read ELSE rx + opt + 1
      BY <3>2, <3>11 DEF _bson_value_re_len, sl
    <3>13. ValueLen(b, t, v) = sl + opt + 2
      BY <2>3 DEF ValueLen, sl, opt
    <3>14. r \in Int /\ (r >= 0 => r = sl + opt + 2 /\ r < mx /\ u < j)
      BY <3>12, <1>3, <3>5, <3>10 DEF j
    <3>15. r >= 0 => IsStr(b, v, strlen(b, v)) /\ IsStr(b, v + strlen(b, v) + 1, Options(b, v))
      BY <3>4, <3>8, <3>9, <3>14 DEF opt, sl
    <3> HIDE DEF u
    <3>16. Measured(b, t, v, mx, r)
      BY <2>3, <1>2, <3>13, <3>14, <3>15 DEF Measured
    <3> QED BY <3>16 DEF r
  <2>4. CASE t # regex /\ full < mx
    <3>1. r = full
      BY <1>1, <1>5, <2>4
    <3>2. ConstSize(t) # MaxInt
      <4>1. full >= ConstSize(t)
        BY <2>1, <1>2 DEF full
      <4> QED BY <4>1, <2>2, <2>4, <1>a, <1>2
    <3>3. Measured(b, t, v, mx, r)
      BY <2>1, <2>2, <2>4, <3>1, <3>2 DEF Measured
    <3> QED BY <3>3 DEF r
  <2>5. CASE t # regex /\ ~(full < mx)
    <3>1. r \in {-2, -3}
      BY <1>1, <1>3, <1>5, <2>5
    <3>2. Measured(b, t, v, mx, r)
      BY <3>1 DEF Measured
    <3> QED BY <3>2 DEF r
  <2> QED BY <2>3, <2>4, <2>5
<1> QED BY <1>4, <1>5

\* The element x .. y - 1, found by a walk that ends before e.
Found(b, x, y, e, it) ==
    /\ it.at = x /\ Elem(b, x, y) /\ y < e /\ ValuePtr(it) = ValueAt(b, x)
    /\ bson_next(b, it) = _bson_iterator_at(b, y, e - y)

\* What makes an element that a walk finds one that can be read.
Readable(b, it) ==
    /\ b[it.at + 1] \notin {dbpointer, 15}
    /\ b[it.at + 1] \in {utf8, 13, 14} => read_u32le(b, ValuePtr(it)) > 1
    /\ b[it.at + 1] \in {document, array} => Size(b, ValuePtr(it)) >= 5

\* An iterator that is neither at the end nor an error is at an element.
LEMMA IteratorFinds ==
    ASSUME NEW b \in Buffer, Len(b) <= MaxInt, NEW x \in Nat, NEW e \in Nat, x < e, e <= Len(b), b[e] = 0,
           NEW it, it = _bson_iterator_at(b, x, e - x), ~bson_stop(it), Readable(b, it)
    PROVE  \E y : Found(b, x, y, e, it)
<1> DEFINE m == e - x
           kl == strlen(b, x + 1)
           v == x + kl + 2
           mx == m - kl - 2
           t == b[x + 1]
           n == _bson_valsize(b, t, v, mx)
<1>a. Len(b) \in Nat /\ MaxInt \in Nat /\ m \in Nat /\ m >= 1
  BY SizesAssumption DEF Buffer
<1>1. it = IF m = 1 THEN Iterator(x, 0, 1)
           ELSE IF mx < 1 THEN _bson_iterator_error(short_read)
           ELSE IF n < 0 THEN _bson_iterator_error(n)
           ELSE IF t \in {document, array} /\ b[v + n] # 0
           THEN _bson_iterator_error(invalid_document)
           ELSE Iterator(x, kl, m)
  BY DEF _bson_iterator_at
<1>2. ~(it.rlen <= 1)
  BY DEF bson_stop
<1>3. m # 1
  <2>1. Iterator(x, 0, 1).rlen = 1
    BY DEF Iterator
  <2> QED BY <2>1, <1>1, <1>2
<1>4. \A err : _bson_iterator_error(err).rlen = err
  BY DEF _bson_iterator_error, Iterator
<1>5. IsStr(b, x + 1, kl) /\ (x + 1) + kl + 1 <= e /\ kl \in Nat
  <2>1. x + 1 \in Nat /\ x + 1 < e
    BY <1>3, <1>a
  <2>2. IsStr(b, x + 1, kl) /\ (x + 1) + kl + 1 <= e
    BY <2>1, StrlenFinds
  <2> QED BY <2>2 DEF IsStr
<1>6. ~(mx < 1)
  <2>1. short_read = -1
    BY DEF short_read
  <2> QED BY <2>1, <1>1, <1>2, <1>3, <1>4
<1>7. t \in Byte
  <2>1. x + 1 \in 1 .. Len(b)
    BY <1>a
  <2> QED BY <2>1 DEF Buffer
<1>b. it = IF n < 0 THEN _bson_iterator_error(n)
           ELSE IF t \in {document, array} /\ b[v + n] # 0
           THEN _bson_iterator_error(invalid_document)
           ELSE Iterator(x, kl, m)
  BY <1>1, <1>3, <1>6
<1> HIDE DEF n, kl
<1>8. v \in Nat /\ mx \in Nat /\ mx >= 1 /\ mx <= MaxInt /\ v + mx = e
  BY <1>5, <1>6, <1>a
<1>c. n \in Int /\ Measured(b, t, v, mx, n)
  <2> HIDE DEF v, mx, t
  <2>1. Measured(b, t, v, mx, n)
    BY <1>7, <1>8, ValSizeAccepts DEF n
  <2> QED BY <2>1 DEF Measured
<1>9. it.at = x \/ n < 0 \/ (t \in {document, array} /\ b[v + n] # 0)
  BY <1>b DEF Iterator
<1>10. ~(t \in {document, array} /\ b[v + n] # 0) \/ n < 0
  <2>1. invalid_document = -4
    BY DEF invalid_document
  <2> HIDE DEF t, v, m
  <2> QED BY <2>1, <1>b, <1>2, <1>4
<1>11. CASE n < 0
  BY <1>11, <1>b, <1>c, <1>2, <1>4
<1>12. CASE ~(n < 0)
  <2>1. it = Iterator(x, kl, m) /\ (t \in {document, array} => b[v + n] = 0)
    BY <1>12, <1>10, <1>b
  <2>2. it.at = x /\ ValuePtr(it) = v
    BY <2>1 DEF Iterator, ValuePtr
  <2>3. /\ t \notin {dbpointer, 15} /\ (t \in {utf8, 13, 14} => read_u32le(b, v) > 1)
        /\ (t \in {document, array} => Size(b, v) >= 5)
    BY <2>2 DEF Readable
  <2> HIDE DEF v, mx
  <2>4. Measured(b, t, v, mx, n)
    BY <1>c
  <2>5. /\ n \in Nat /\ n = ValueLen(b, t, v) /\ n < mx /\ (t = regex \/ ConstSize(t) # MaxInt)
        /\ t = regex => IsStr(b, v, strlen(b, v)) /\ IsStr(b, v + strlen(b, v) + 1, Options(b, v))
        /\ HasVarsizePrefix(t) => read_u32le(b, v) \in Nat
    BY <2>4, <1>12 DEF Measured
  <2>6. ValueOk(b, t, v, n)
    <3>1. t \in {utf8, 13, 14} => n >= 5
      <4>1. t \in {utf8, 13, 14} => HasVarsizePrefix(t) /\ ConstSize(t) = 4 /\ t # regex
        BY <1>7, TagSizes DEF utf8, regex
      <4> QED BY <4>1, <2>3, <2>5, SMTT(30) DEF ValueLen
    <3>2. t \in {document, array} => n >= 5
      <4>1. t \in {document, array} => HasVarsizePrefix(t) /\ ConstSize(t) = 0 /\ t # regex
        BY <1>7, ConstSizes DEF document, array, regex
      <4> QED BY <4>1, <2>3, <2>5 DEF ValueLen, Size
    <3>3. HasVarsizePrefix(t) => n >= 4
      <4>1. HasVarsizePrefix(t) => t # regex /\ ConstSize(t) \in {0, 4, 5}
        BY <1>7, <2>3, ConstSizes
      <4>2. HasVarsizePrefix(t) => t \in {document, array} \/ ConstSize(t) \in {4, 5}
        BY <1>7, <2>3, TagSizes
      <4> QED BY <4>1, <4>2, <3>2, <2>5 DEF ValueLen
    <3> HIDE DEF t
    <3> QED BY <3>1, <3>2, <3>3, <2>1, <2>3, <2>5 DEF ValueOk
  <2>7. v = x + kl + 2
    BY DEF v
  <2> DEFINE y == v + n
  <2>8. Elem(b, x, y) /\ KeyLen(b, x) = kl /\ ValueAt(b, x) = v
    <3>1. (x + kl + 2) + n <= Len(b) /\ n = ValueLen(b, b[x + 1], x + kl + 2) /\ ValueOk(b, b[x + 1], x + kl + 2, n)
      <4>1. v + n <= Len(b)
        BY <2>5, <1>8, <1>a
      <4> QED BY <4>1, <2>5, <2>6, <2>7
    <3> HIDE DEF t
    <3>2. Elem(b, x, (x + kl + 2) + n) /\ KeyLen(b, x) = kl /\ ValueAt(b, x) = x + kl + 2
      BY <3>1, <2>5, <1>5, ElemMade, ZenonT(40)
    <3> QED BY <3>2, <2>7
  <2>9. y < e /\ y - x < MaxInt /\ y \in Nat /\ m - (y - x) = e - y /\ m \in Int
    BY <2>5, <1>8, <1>a, SMTT(30)
  <2> HIDE DEF y, m
  <2>10. bson_next(b, it) = _bson_iterator_at(b, y, m - (y - x))
    BY <2>1, <2>8, <2>9, IteratorAfterElem
  <2>11. Found(b, x, y, e, it)
    BY <2>2, <2>8, <2>9, <2>10 DEF Found
  <2> QED BY <2>11
<1> QED BY <1>11, <1>12

\* A sequence with one more element.
LEMMA Appended ==
    ASSUME NEW S, NEW w \in Seq(S), NEW x
    PROVE  /\ \E T : Append(w, x) \in Seq(T)
           /\ Len(Append(w, x)) = Len(w) + 1 /\ Len(w) \in Nat
           /\ \A k \in 1 .. Len(w) : Append(w, x)[k] = w[k]
           /\ Append(w, x)[Len(w) + 1] = x
<1> DEFINE T == S \cup {x}
           n == Len(w)
<1>1. w \in [1 .. n -> T] /\ n \in Nat
  OBVIOUS
<1>2. x \in T
  OBVIOUS
<1> HIDE DEF T, n
<1>3. w \in Seq(T) /\ Len(w) = n
  BY <1>1
<1>4. Append(w, x) \in Seq(T) /\ Len(Append(w, x)) = n + 1
      /\ (\A k \in 1 .. n : Append(w, x)[k] = w[k]) /\ Append(w, x)[n + 1] = x
  BY <1>1, <1>2, <1>3
<1> QED BY <1>1, <1>4 DEF n

\* w goes from the first iterator on, each the next of the one before.
Walked(b, p, w) ==
    /\ \E S : w \in Seq(S)
    /\ Len(w) \in Nat /\ Len(w) >= 1 /\ w[1] = bson_begin(b, p)
    /\ \A k \in 1 .. (Len(w) - 1) : ~bson_stop(w[k]) /\ w[k + 1] = bson_next(b, w[k])

\* bson_foreach does.
LEMMA WalkShape ==
    ASSUME NEW b \in Buffer, NEW p
    PROVE  Walked(b, p, foreach(b, p))
<1> DEFINE f == WalkOf(b, p)
           M == Len(b) \div 2
           T == {i \in Nat : i <= M /\ ~Walked(b, p, f[i])}
<1>1. /\ M \in Nat /\ f[0] = <<bson_begin(b, p)>>
      /\ \A i \in 1 .. M : f[i] = WalkOn(b, f[i - 1])
      /\ foreach(b, p) = f[M]
  BY WalkUnfolds
<1>2. Walked(b, p, f[0])
  <2> DEFINE x == bson_begin(b, p)
  <2>1. f[0] = <<x>>
    BY <1>1
  <2> HIDE DEF x, f
  <2>2. <<x>> \in Seq({x}) /\ Len(<<x>>) = 1 /\ <<x>>[1] = x
    OBVIOUS
  <2>3. \A k \in 1 .. (1 - 1) : FALSE
    OBVIOUS
  <2>4. Walked(b, p, <<x>>)
    <3> DEFINE y == <<x>>
    <3>1. y \in Seq({x}) /\ Len(y) = 1 /\ y[1] = bson_begin(b, p)
      BY <2>2 DEF x
    <3> HIDE DEF y
    <3>2. Walked(b, p, y)
      BY <3>1, <2>3 DEF Walked
    <3> QED BY <3>2 DEF y
  <2> QED BY <2>1, <2>4
<1>3. ASSUME NEW w, Walked(b, p, w) PROVE Walked(b, p, WalkOn(b, w))
  <2> DEFINE n == Len(w)
             x == bson_next(b, w[n])
             v == Append(w, x)
  <2>1. CASE bson_stop(w[Len(w)])
    BY <1>3, <2>1 DEF WalkOn
  <2>2. CASE ~bson_stop(w[Len(w)])
    <3>1. WalkOn(b, w) = v
      BY <2>2 DEF WalkOn
    <3>2. PICK S : w \in Seq(S)
      BY <1>3 DEF Walked
    <3>3. /\ n \in Nat /\ n >= 1 /\ w[1] = bson_begin(b, p)
          /\ \A k \in 1 .. (n - 1) : ~bson_stop(w[k]) /\ w[k + 1] = bson_next(b, w[k])
      BY <1>3 DEF Walked
    <3>a. ~bson_stop(w[n])
      BY <2>2
    <3>4. /\ \E R : v \in Seq(R)
          /\ Len(v) = n + 1 /\ (\A k \in 1 .. n : v[k] = w[k]) /\ v[n + 1] = x
      BY <3>2, Appended
    <3> HIDE DEF n, v
    <3>5. v[1] = bson_begin(b, p)
      <4>1. 1 \in 1 .. n
        BY <3>3
      <4> QED BY <4>1, <3>3, <3>4
    <3>6. ASSUME NEW k \in 1 .. ((n + 1) - 1) PROVE ~bson_stop(v[k]) /\ v[k + 1] = bson_next(b, v[k])
      <4>1. k \in 1 .. n /\ (k = n \/ (k \in 1 .. (n - 1) /\ k + 1 \in 1 .. n))
        BY <3>3
      <4>2. v[k] = w[k]
        BY <4>1, <3>4
      <4>3. CASE k = n
        BY <4>2, <4>3, <3>4, <3>a
      <4>4. CASE k \in 1 .. (n - 1) /\ k + 1 \in 1 .. n
        BY <4>2, <4>4, <3>3, <3>4
      <4> QED BY <4>1, <4>3, <4>4
    <3>7. n + 1 \in Nat /\ n + 1 >= 1
      BY <3>3
    <3>8. Walked(b, p, v)
      BY <3>4, <3>5, <3>6, <3>7 DEF Walked
    <3> QED BY <3>1, <3>8
  <2> QED BY <2>1, <2>2
<1> HIDE DEF f, M
<1>4. ASSUME T # {} PROVE FALSE
  <2>1. PICK i \in T : \A k \in T : i <= k
    <3>1. T \in SUBSET Nat
      OBVIOUS
    <3> HIDE DEF T
    <3> QED BY <3>1, <1>4, LeastNatural
  <2>2. i \in Nat /\ i <= M /\ ~Walked(b, p, f[i])
    BY <2>1
  <2>3. i # 0
    BY <2>2, <1>2
  <2>4. i \in 1 .. M /\ i - 1 \in Nat /\ i - 1 <= M /\ ~(i <= i - 1)
    BY <2>2, <2>3, <1>1
  <2>5. i - 1 \notin T
    <3> HIDE DEF T
    <3> QED BY <2>1, <2>4
  <2>6. Walked(b, p, f[i - 1])
    BY <2>4, <2>5
  <2> QED BY <2>2, <2>4, <2>6, <1>1, <1>3
<1>5. M \notin T
  BY <1>4
<1>6. Walked(b, p, f[M])
  BY <1>1, <1>5
<1> QED BY <1>1, <1>6

\* A document whose elements can be read, and those nested in it are documents
\* of D, has a layout.
LEMMA DocumentLaid ==
    ASSUME NEW b \in Buffer, Len(b) <= MaxInt, NEW p \in Nat, p + 5 <= Len(b), IsDocument(b, p),
           \A q \in Nested(b, p) : Size(b, q) >= 5
    PROVE  \E a : /\ IsLayout(b, p, a)
                  /\ \A k \in 1 .. (Len(a) - 1) : Nests(b, a[k]) => ValueAt(b, a[k]) \in Nested(b, p)
<1> DEFINE w == foreach(b, p)
           n == Len(w)
           S == Size(b, p)
           e == p + S
           a == [k \in 1 .. n |-> w[k].at]
<1>1. /\ S \in 5 .. (Len(b) - p) /\ b[e] = 0 /\ w[n] = bson_end(b, p)
      /\ \A k \in 1 .. (n - 1) : /\ b[w[k].at + 1] \notin {dbpointer, 15}
                                 /\ b[w[k].at + 1] \in {utf8, 13, 14} => read_u32le(b, ValuePtr(w[k])) > 1
  BY DEF IsDocument
<1>a. Len(b) \in Nat
  BY DEF Buffer
<1>2. S \in Nat /\ S >= 5 /\ e \in Nat /\ e <= Len(b) /\ p + 4 < e
  <2> HIDE DEF S
  <2> QED BY <1>1, <1>a
<1>3. /\ n \in Nat /\ n >= 1 /\ w[1] = bson_begin(b, p)
      /\ \A k \in 1 .. (n - 1) : ~bson_stop(w[k]) /\ w[k + 1] = bson_next(b, w[k])
  BY WalkShape DEF Walked
<1>4. Nested(b, p) = {ValuePtr(w[k]) : k \in {j \in 1 .. (n - 1) : b[w[j].at + 1] \in {document, array}}}
  BY DEF Nested
<1>5. ASSUME NEW k \in 1 .. (n - 1) PROVE Readable(b, w[k])
  <2>1. b[w[k].at + 1] \in {document, array} => ValuePtr(w[k]) \in Nested(b, p)
    <3> HIDE DEF w, n
    <3> QED BY <1>4
  <2> HIDE DEF w, n
  <2> QED BY <2>1, <1>1 DEF Readable
<1> DEFINE At(k) == \E x \in Nat : x < e /\ p + 4 <= x /\ w[k] = _bson_iterator_at(b, x, e - x)
<1>6. At(1)
  <2>1. e - (p + 4) = S - 4 /\ p + 4 \in Nat
    <3> HIDE DEF S
    <3> QED BY <1>2
  <2>2. w[1] = _bson_iterator_at(b, p + 4, e - (p + 4))
    BY <2>1, <1>3 DEF bson_begin
  <2> HIDE DEF w, e
  <2> QED BY <2>1, <2>2, <1>2
<1>7. ASSUME NEW k \in 1 .. (n - 1), At(k)
      PROVE  /\ At(k + 1) /\ w[k].at \in Nat
             /\ w[k + 1].at \in Nat => Elem(b, w[k].at, w[k + 1].at)
             /\ ValuePtr(w[k]) = ValueAt(b, w[k].at)
  <2> HIDE DEF w, n
  <2>1. PICK x \in Nat : x < e /\ p + 4 <= x /\ w[k] = _bson_iterator_at(b, x, e - x)
    BY <1>7
  <2>2. ~bson_stop(w[k]) /\ w[k + 1] = bson_next(b, w[k]) /\ Readable(b, w[k])
    BY <1>3, <1>5
  <2> HIDE DEF e
  <2>3. PICK y : Found(b, x, y, e, w[k])
    BY <2>1, <2>2, <1>1, <1>2, IteratorFinds
  <2>4. /\ w[k].at = x /\ Elem(b, x, y) /\ y < e /\ ValuePtr(w[k]) = ValueAt(b, x)
        /\ bson_next(b, w[k]) = _bson_iterator_at(b, y, e - y)
    BY <2>3 DEF Found
  <2>5. y \in Nat /\ p + 4 <= y
    <3>1. y \in Nat /\ x + 2 <= ValueAt(b, x) /\ ValueAt(b, x) <= y /\ ValueAt(b, x) \in Nat
      BY <2>4, ElemParts
    <3> QED BY <3>1, <2>1
  <2>6. At(k + 1)
    BY <2>2, <2>4, <2>5
  <2>7. w[k + 1].at \in Nat => w[k + 1].at = y
    <3> DEFINE m == e - y
    <3>1. w[k + 1] = _bson_iterator_at(b, y, m)
      BY <2>2, <2>4
    <3>2. \A x1, x2, x3 : Iterator(x1, x2, x3).at = x1
      BY DEF Iterator
    <3>3. w[k + 1].at \in {y, -1}
      <4> HIDE DEF m
      <4> QED BY <3>1, <3>2 DEF _bson_iterator_at, _bson_iterator_error
    <3>4. -1 \notin Nat
      OBVIOUS
    <3> QED BY <3>3, <3>4
  <2> QED BY <2>3, <2>4, <2>5, <2>6, <2>7
<1> HIDE DEF At, w, n, S, e
<1>8. ASSUME NEW k \in 1 .. n PROVE At(k)
  <2> DEFINE T == {h \in Nat : h \in 1 .. n /\ ~At(h)}
  <2> SUFFICES ASSUME T # {} PROVE FALSE
    <3>1. k \in Nat
      OBVIOUS
    <3> QED BY <3>1
  <2>1. PICK h \in T : \A g \in T : h <= g
    <3>1. T \in SUBSET Nat
      OBVIOUS
    <3> HIDE DEF T
    <3> QED BY <3>1, LeastNatural
  <2>2. h \in Nat /\ h \in 1 .. n /\ ~At(h)
    BY <2>1
  <2>3. h # 1
    BY <2>2, <1>6
  <2> DEFINE g == h - 1
  <2>4. g \in Nat /\ g \in 1 .. (n - 1) /\ g + 1 = h /\ g < h /\ g \in 1 .. n /\ ~(h <= g)
    BY <2>2, <2>3, <1>3
  <2> HIDE DEF g
  <2>5. At(g)
    <3>1. g \notin T
      <4> HIDE DEF T
      <4> QED BY <2>1, <2>4
    <3> QED BY <3>1, <2>4
  <2> HIDE DEF T
  <2> QED BY <2>2, <2>4, <2>5, <1>7
<1>9. w[n].at = e - 1
  <2>1. bson_end(b, p) = Iterator((p + S) - 1, 0, 1)
    <3>1. bson_end(b, p) = _bson_iterator_at(b, (p + S) - 1, 1)
      <4> DEFINE u == Size(b, p)
      <4>1. bson_end(b, p) = _bson_iterator_at(b, p + u - 1, 1)
        BY DEF bson_end
      <4>2. u \in Nat
        BY <1>2 DEF S
      <4> HIDE DEF u
      <4>3. p + u - 1 = (p + u) - 1
        BY <4>2
      <4> QED BY <4>1, <4>3 DEF u, S
    <3> QED BY <3>1, IteratorAtEnd
  <2> QED BY <2>1, <1>1 DEF Iterator, e
<1>10. ASSUME NEW k \in 1 .. n PROVE w[k].at \in Nat
  <2>1. CASE k = n
    BY <2>1, <1>2, <1>9
  <2>2. CASE k # n
    <3>1. k \in 1 .. (n - 1)
      BY <2>2, <1>3
    <3> QED BY <3>1, <1>7, <1>8
  <2> QED BY <2>1, <2>2
<1>11. a \in Seq(Nat) /\ Len(a) = n /\ \A k \in 1 .. n : a[k] = w[k].at
  <2>1. a \in [1 .. n -> Nat] /\ \A k \in 1 .. n : a[k] = w[k].at
    BY <1>10
  <2> HIDE DEF a
  <2> QED BY <2>1, <1>3
<1> HIDE DEF a
<1>12. ASSUME NEW k \in 1 .. (n - 1)
       PROVE  /\ Elem(b, a[k], a[k + 1])
              /\ Nests(b, a[k]) => ValueAt(b, a[k]) \in Nested(b, p)
  <2>1. k \in 1 .. n /\ k + 1 \in 1 .. n
    BY <1>3
  <2>2. w[k + 1].at \in Nat /\ At(k)
    BY <2>1, <1>8, <1>10
  <2>3. Elem(b, w[k].at, w[k + 1].at)
    BY <2>2, <1>7
  <2>4. ValuePtr(w[k]) = ValueAt(b, w[k].at)
    BY <2>2, <1>7
  <2>5. b[w[k].at + 1] \in {document, array} => ValuePtr(w[k]) \in Nested(b, p)
    BY <1>4
  <2>6. a[k] = w[k].at /\ a[k + 1] = w[k + 1].at
    BY <2>1, <1>11
  <2> QED BY <2>3, <2>4, <2>5, <2>6 DEF Nests
<1>13. a[1] = p + 4
  <2>1. PICK x \in Nat : x < e /\ p + 4 <= x /\ w[1] = _bson_iterator_at(b, x, e - x)
    BY <1>6 DEF At
  <2>2. w[1] = _bson_iterator_at(b, p + 4, S - 4)
    BY <1>3 DEF bson_begin, S
  <2>3. \A x1, x2, x3 : Iterator(x1, x2, x3).at = x1
    BY DEF Iterator
  <2>4. w[1].at \in {p + 4, -1}
    <3> DEFINE m == S - 4
               y == p + 4
    <3>1. w[1] = _bson_iterator_at(b, y, m)
      BY <2>2
    <3> HIDE DEF m, y
    <3>2. w[1].at \in {y, -1}
      BY <3>1, <2>3 DEF _bson_iterator_at, _bson_iterator_error
    <3> QED BY <3>2 DEF y
  <2>5. 1 \in 1 .. n /\ -1 \notin Nat
    BY <1>3
  <2>6. w[1].at \in Nat /\ a[1] = w[1].at
    BY <2>5, <1>10, <1>11
  <2> QED BY <2>4, <2>5, <2>6
<1>14. a[n] = e - 1
  <2>1. n \in 1 .. n
    BY <1>3
  <2> QED BY <2>1, <1>9, <1>11
<1>15. IsLayout(b, p, a)
  <2>1. a[Len(a)] = (p + Size(b, p)) - 1 /\ p + Size(b, p) <= Len(b) /\ b[p + Size(b, p)] = 0
    BY <1>1, <1>2, <1>11, <1>14 DEF e, S
  <2>2. Len(a) >= 1 /\ \A k \in 1 .. (Len(a) - 1) : Elem(b, a[k], a[k + 1])
    BY <1>3, <1>11, <1>12
  <2> QED BY <2>1, <2>2, <1>11, <1>13 DEF IsLayout
<1>16. \A k \in 1 .. (Len(a) - 1) : Nests(b, a[k]) => ValueAt(b, a[k]) \in Nested(b, p)
  BY <1>11, <1>12
<1> QED BY <1>15, <1>16

\* A view is a valid document.
LEMMA ViewIsValid ==
    ASSUME NEW b, IsView(b)
    PROVE  b \in Buffer /\ Len(b) <= MaxInt /\ Size(b, 0) = Len(b) /\ Valid(b, 0) /\ Len(b) >= 5
<1>1. b \in Buffer /\ Len(b) \in 5 .. MaxInt /\ Size(b, 0) = Len(b)
  BY DEF IsView, Buffer, Byte
<1>2. Len(b) \in Nat /\ Len(b) <= MaxInt /\ Len(b) >= 5
  BY <1>1, SizesAssumption
<1>3. PICK D \in SUBSET (0 .. (Len(b) - 5)) : 0 \in D /\ \A p \in D : IsDocument(b, p) /\ Nested(b, p) \subseteq D
  BY DEF IsView
<1>4. ASSUME NEW p \in D
      PROVE  \E a : /\ IsLayout(b, p, a)
                    /\ \A k \in 1 .. (Len(a) - 1) : Nests(b, a[k]) => ValueAt(b, a[k]) \in D
  <2>1. p \in Nat /\ p + 5 <= Len(b) /\ IsDocument(b, p) /\ Nested(b, p) \subseteq D
    <3>1. p \in 0 .. (Len(b) - 5)
      BY <1>3
    <3> QED BY <3>1, <1>2, <1>3
  <2>2. \A q \in Nested(b, p) : Size(b, q) >= 5
    <3> SUFFICES ASSUME NEW q \in Nested(b, p) PROVE Size(b, q) >= 5
      OBVIOUS
    <3>1. IsDocument(b, q) /\ q \in 0 .. (Len(b) - 5)
      BY <2>1, <1>3
    <3>2. Size(b, q) \in 5 .. (Len(b) - q)
      BY <3>1 DEF IsDocument
    <3> QED BY <3>1, <3>2, <1>2
  <2>3. PICK a : /\ IsLayout(b, p, a)
                 /\ \A k \in 1 .. (Len(a) - 1) : Nests(b, a[k]) => ValueAt(b, a[k]) \in Nested(b, p)
    BY <2>1, <2>2, <1>1, <1>2, DocumentLaid
  <2> QED BY <2>1, <2>3
<1>5. Closed(b, D)
  BY <1>4 DEF Closed
<1> QED BY <1>1, <1>2, <1>3, <1>5 DEF Valid

\* The bytes P of a value are read as val.
Encodes(P, t, val) ==
    /\ P \in Buffer /\ Len(P) = ValueLen(P, t, 0) /\ ValueOk(P, t, 0, Len(P))
    /\ t \notin {document, array} => ScalarAt(P, t, 0) = val
    /\ t \in {document, array} => Valid(P, 0) /\ Document(P, 0) = Document(val, 0)

-----------------------------------------------------------------------------
(* The bytes of a value that is inserted.                                  *)

\* Nothing behind a sequence.
LEMMA NothingBehind ==
    ASSUME NEW S, NEW s \in Seq(S)
    PROVE  s \o << >> = s
<1> DEFINE e == << >>
           r == s \o e
<1>1. e \in Seq(S) /\ Len(e) = 0
  OBVIOUS
<1> HIDE DEF e
<1>2. r \in Seq(S) /\ Len(r) = Len(s) + Len(e) /\ \A j \in 1 .. Len(s) : r[j] = s[j]
  BY <1>1
<1>3. Len(r) = Len(s)
  BY <1>1, <1>2
<1> HIDE DEF r
<1>4. r = s
  BY <1>2, <1>3
<1> QED BY <1>4 DEF r, e

\* A length and the bytes behind it have four bytes more, whatever the length.
LEMMA PrefixedLen ==
    ASSUME NEW n \in Nat, NEW x \in Buffer, NEW y \in Buffer
    PROVE  Len(u32le(n) \o x \o y) = 4 + Len(x) + Len(y) /\ u32le(n) \o x \o << >> = u32le(n) \o x
<1> DEFINE f == n % 256
           g == (n \div 256) % 256
           h == ((n \div 256) \div 256) % 256
           i == ((n \div 256) \div 256) \div 256
           S == {f, g, h, i} \cup Byte
           u == u32le(n)
           w == u \o x
           m == Len(x)
           l == Len(y)
<1>1. u = <<f, g, h, i>>
  BY DEF u32le
<1>2. f \in S /\ g \in S /\ h \in S /\ i \in S
  OBVIOUS
<1>3. x \in [1 .. m -> S] /\ m \in Nat /\ y \in [1 .. l -> S] /\ l \in Nat
  BY DEF Buffer
<1> HIDE DEF f, g, h, i, S, u, m, l
<1>4. u \in Seq(S) /\ Len(u) = 4
  BY <1>1, <1>2
<1>5. x \in Seq(S) /\ Len(x) = m /\ y \in Seq(S) /\ Len(y) = l
  BY <1>3
<1>6. w \in Seq(S)
  BY <1>4, <1>5
<1>7. Len(w) = Len(u) + Len(x)
  <2>1. u \in Seq(S) /\ x \in Seq(S)
    BY <1>4, <1>5
  <2> QED BY <2>1
<1>8. Len(w) = 4 + m
  BY <1>4, <1>5, <1>7
<1> HIDE DEF w
<1>9. Len(w \o y) = Len(w) + Len(y)
  BY <1>5, <1>6
<1>10. Len(w \o y) = 4 + m + l
  BY <1>3, <1>5, <1>8, <1>9
<1>11. w \o << >> = w
  BY <1>6, NothingBehind
<1> QED BY <1>10, <1>11 DEF u, w, m, l

\* The cases of the bytes of a value.
LEMMA PayloadCases ==
    ASSUME NEW v
    PROVE  /\ v.tag \in {document, array} => Payload(v) = Bytes(v.val, 0, Size(v.val, 0))
           /\ v.tag \in {utf8, 13, 14} => Payload(v) = u32le(Len(v.val) + 1) \o v.val \o << 0 >>
           /\ v.tag = binary => Payload(v) = u32le(Len(v.val) - 1) \o v.val
           /\ v.tag \notin {document, array, utf8, 13, 14, binary, regex, dbpointer} => Payload(v) = v.val
<1> DEFINE t == v.tag
           A == Bytes(v.val, 0, Size(v.val, 0))
           B == u32le(Len(v.val) + 1) \o v.val \o << 0 >>
           C == u32le(Len(v.val) - 1) \o v.val
           D == v.val[1] \o << 0 >> \o v.val[2] \o <<0, 88, 88, 88>>
           E == u32le(Len(v.val[1]) + 1) \o v.val[1] \o << 0 >> \o v.val[2]
           F == FixedPayload(v)
<1>1. Payload(v) = CASE t \in {document, array} -> A
      [] t \in {utf8, 13, 14} -> B
      [] t = binary -> C
      [] t = regex -> D
      [] t = dbpointer -> E
      [] OTHER -> F
  BY DEF Payload
<1>2. F = v.val
  BY DEF FixedPayload
<1> HIDE DEF t, A, B, C, D, E, F
<1>3. t \in {document, array} => Payload(v) = A
  BY <1>1 DEF document, array, utf8, binary, regex, dbpointer
<1>4. t \in {utf8, 13, 14} => Payload(v) = B
  BY <1>1 DEF document, array, utf8, binary, regex, dbpointer
<1>5. t = binary => Payload(v) = C
  BY <1>1 DEF document, array, utf8, binary, regex, dbpointer
<1>6. t \notin {document, array, utf8, 13, 14, binary, regex, dbpointer} => Payload(v) = F
  BY <1>1 
<1> QED BY <1>2, <1>3, <1>4, <1>5, <1>6 DEF t, A, B, C

\* A length and the bytes behind it.
LEMMA PrefixedBytes ==
    ASSUME NEW n \in Word, NEW x \in Buffer, NEW y \in Buffer
    PROVE  LET P == u32le(n) \o x \o y
           IN /\ P \in Buffer /\ Len(P) = 4 + Len(x) + Len(y) /\ read_u32le(P, 0) = n
              /\ Bytes(P, 4, Len(x)) = x
              /\ \A j \in 1 .. Len(x) : P[4 + j] = x[j]
<1> DEFINE u == u32le(n)
           P == u \o x \o y
           m == Len(x)
           l == Len(y)
<1>1. u \in Buffer /\ Len(u) = 4 /\ u[1] + 256 * (u[2] + 256 * (u[3] + 256 * u[4])) = n
  BY SizeBytes
<1> HIDE DEF u
<1>2. /\ P \in Buffer /\ Len(P) = Len(u) + m + l
      /\ \A j \in 1 .. Len(u) : P[j] = u[j]
      /\ \A j \in 1 .. m : P[Len(u) + j] = x[j]
  BY <1>1, ThreeParts, ZenonT(40)
<1> HIDE DEF P
<1>3. read_u32le(P, 0) = n
  <2>1. P[1] = u[1] /\ P[2] = u[2] /\ P[3] = u[3] /\ P[4] = u[4]
    BY <1>1, <1>2
  <2>2. read_u32le(P, 0) = P[1] + 256 * (P[2] + 256 * (P[3] + 256 * P[4]))
    <3>1. 0 + 1 = 1 /\ 0 + 2 = 2 /\ 0 + 3 = 3 /\ 0 + 4 = 4
      OBVIOUS
    <3> QED BY <3>1 DEF read_u32le
  <2> QED BY <2>1, <2>2, <1>1
<1>4. Len(P) = 4 + m + l /\ m \in Nat /\ l \in Nat
  <2>1. m \in Nat /\ l \in Nat
    BY DEF Buffer
  <2> QED BY <2>1, <1>1, <1>2
<1>5. \A j \in 1 .. m : P[4 + j] = x[j]
  BY <1>1, <1>2
<1>6. Bytes(P, 4, m) = x
  <2> DEFINE z == Bytes(P, 4, m)
  <2>1. z \in Buffer /\ Len(z) = m /\ \A j \in 1 .. m : z[j] = P[4 + j]
    <3>1. 4 + m <= Len(P) /\ 4 \in Nat
      BY <1>4
    <3> HIDE DEF m
    <3> QED BY <3>1, <1>2, <1>4, BytesOf
  <2> HIDE DEF z
  <2>2. \A j \in 1 .. m : z[j] = x[j]
    BY <2>1, <1>5
  <2>3. z \in Seq(Byte) /\ x \in Seq(Byte) /\ Len(x) = Len(z)
    BY <2>1 DEF Buffer
  <2>4. \A j \in 1 .. Len(z) : z[j] = x[j]
    BY <2>1, <2>2
  <2>5. z = x
    BY <2>3, <2>4
  <2> QED BY <2>5 DEF z
<1> QED BY <1>2, <1>3, <1>4, <1>5, <1>6 DEF P, u

\* All the bytes.
LEMMA AllBytes ==
    ASSUME NEW x \in Buffer
    PROVE  Bytes(x, 0, Len(x)) = x
<1> DEFINE z == Bytes(x, 0, Len(x))
           m == Len(x)
<1>1. m \in Nat /\ 0 + m <= m
  BY DEF Buffer
<1>2. z \in Buffer /\ Len(z) = m /\ \A j \in 1 .. m : z[j] = x[0 + j]
  BY <1>1, BytesOf
<1>3. \A j \in 1 .. m : 0 + j = j
  BY <1>1
<1> HIDE DEF z
<1> QED BY <1>2, <1>3 DEF Buffer, z

\* The bytes of the string types.
LEMMA StringEncodes ==
    ASSUME NEW v, v.tag \in {utf8, 13, 14}, v.val \in Buffer, v.val # << >>, Len(Payload(v)) <= MaxInt
    PROVE  Encodes(Payload(v), v.tag, v.val)
<1> DEFINE t == v.tag
           x == v.val
           m == Len(x)
           P == Payload(v)
           z == << 0 >>
<1>1. P = u32le(m + 1) \o x \o z
  BY PayloadCases
<1>2. m \in Nat /\ z \in Buffer /\ Len(z) = 1
  BY DEF Buffer, Byte
<1>3. t \in Byte /\ HasVarsizePrefix(t) /\ ConstSize(t) = 4
  <2>1. t \in Byte
    BY DEF utf8, Byte
  <2> QED BY <2>1, TagSizes
<1>4. t \notin {document, array, dbpointer, 15} /\ t # regex
  BY DEF utf8, document, array, dbpointer, regex
<1>5. m + 1 \in Word
  <2>1. Len(P) = 4 + m + 1
    <3>1. m + 1 \in Nat /\ z \in Buffer /\ Len(z) = 1 /\ m = Len(x)
      BY <1>2
    <3>2. P = u32le(m + 1) \o x \o z
      BY <1>1
    <3> HIDE DEF z, m, P
    <3>3. Len(u32le(m + 1) \o x \o z) = 4 + Len(x) + Len(z)
      BY <3>1, PrefixedLen
    <3> QED BY <3>1, <3>2, <3>3
  <2>2. Len(P) <= MaxInt
    OBVIOUS
  <2> HIDE DEF P, m
  <2>3. m + 1 <= MaxInt
    BY <2>1, <2>2, <1>2, SizesAssumption
  <2> QED BY <2>3, <1>2, SizesAssumption DEF Word
<1>6. P \in Buffer /\ Len(P) = 4 + m + 1 /\ read_u32le(P, 0) = m + 1 /\ Bytes(P, 4, m) = x
  <2> HIDE DEF z, P, m
  <2>1. LET Q == u32le(m + 1) \o x \o z
        IN Q \in Buffer /\ Len(Q) = 4 + Len(x) + Len(z) /\ read_u32le(Q, 0) = m + 1 /\ Bytes(Q, 4, Len(x)) = x
    BY <1>2, <1>5, PrefixedBytes, ZenonT(40)
  <2> QED BY <2>1, <1>1, <1>2 DEF m
<1> HIDE DEF P, x, m, t
<1>7. ValueLen(P, t, 0) = 4 + (m + 1)
  BY <1>3, <1>4, <1>6 DEF ValueLen
<1>8. Len(P) = ValueLen(P, t, 0) /\ Len(P) >= 5
  BY <1>2, <1>6, <1>7
<1>9. ValueOk(P, t, 0, Len(P))
  BY <1>2, <1>3, <1>4, <1>8, SizesAssumption DEF ValueOk
<1>10. ScalarAt(P, t, 0) = x
  <2>1. t \in {utf8, 13, 14}
    BY DEF t
  <2>2. ScalarAt(P, t, 0) = Bytes(P, 0 + 4, read_u32le(P, 0) - 1)
    BY <2>1, <1>3, ScalarCases
  <2>3. read_u32le(P, 0) - 1 = m /\ 0 + 4 = 4
    BY <1>2, <1>6
  <2> QED BY <2>2, <2>3, <1>6
<1>11. Encodes(P, t, x)
  BY <1>4, <1>6, <1>8, <1>9, <1>10 DEF Encodes
<1> QED BY <1>11 DEF P, t, x

\* The bytes of the binary type.
LEMMA BinaryEncodes ==
    ASSUME NEW v, v.tag = binary, v.val \in Buffer, v.val # << >>, Len(Payload(v)) <= MaxInt
    PROVE  Encodes(Payload(v), v.tag, v.val)
<1> DEFINE t == v.tag
           x == v.val
           m == Len(x)
           P == Payload(v)
           z == << >>
<1>1. P = u32le(m - 1) \o x
  BY PayloadCases
<1>2. m \in Nat /\ m >= 1 /\ m - 1 \in Nat /\ z \in Buffer /\ Len(z) = 0
  BY DEF Buffer
<1>3. t \in Byte /\ HasVarsizePrefix(t) /\ ConstSize(t) = 5
  <2>1. t \in Byte
    BY DEF binary, Byte
  <2> QED BY <2>1, TagSizes
<1>4. t \notin {utf8, 13, 14, document, array, dbpointer, 15} /\ t # regex
  BY DEF binary, utf8, document, array, dbpointer, regex
<1>5. P = u32le(m - 1) \o x \o z /\ Len(P) = 4 + m + Len(z)
  <2>1. u32le(m - 1) \o x \o << >> = u32le(m - 1) \o x
    <3> HIDE DEF m
    <3> QED BY <1>2, PrefixedLen
  <2>2. Len(u32le(m - 1) \o x \o z) = 4 + Len(x) + Len(z)
    <3>1. m - 1 \in Nat /\ z \in Buffer
      BY <1>2
    <3> HIDE DEF z, m
    <3> QED BY <3>1, PrefixedLen
  <2> QED BY <1>1, <2>1, <2>2
<1>6. m - 1 \in Word
  <2>1. Len(P) <= MaxInt
    OBVIOUS
  <2>2. Len(P) = 4 + m + Len(z)
    BY <1>5
  <2> HIDE DEF P, m, z
  <2>3. m - 1 <= MaxInt
    BY <2>1, <2>2, <1>2, SizesAssumption
  <2> QED BY <2>3, <1>2, SizesAssumption DEF Word
<1>7. P \in Buffer /\ Len(P) = 4 + m /\ read_u32le(P, 0) = m - 1 /\ Bytes(P, 4, m) = x
  <2>1. z \in Buffer /\ Len(z) = 0
    BY <1>2
  <2> HIDE DEF z, P, m
  <2>2. LET Q == u32le(m - 1) \o x \o z
        IN Q \in Buffer /\ Len(Q) = 4 + Len(x) + Len(z) /\ read_u32le(Q, 0) = m - 1 /\ Bytes(Q, 4, Len(x)) = x
    BY <2>1, <1>6, PrefixedBytes, ZenonT(40)
  <2>3. P \in Buffer /\ Len(P) = 4 + Len(x) + Len(z) /\ read_u32le(P, 0) = m - 1 /\ Bytes(P, 4, Len(x)) = x
    BY <2>2, <1>5
  <2>4. Len(x) = m
    BY DEF m
  <2> QED BY <2>1, <2>3, <2>4, <1>2
<1> HIDE DEF P, x, m, t
<1>8. ValueLen(P, t, 0) = 5 + (m - 1)
  BY <1>3, <1>4, <1>7 DEF ValueLen
<1>9. Len(P) = ValueLen(P, t, 0) /\ Len(P) >= 4
  BY <1>2, <1>7, <1>8
<1>10. ValueOk(P, t, 0, Len(P))
  BY <1>2, <1>3, <1>4, <1>9, SizesAssumption DEF ValueOk
<1>11. ScalarAt(P, t, 0) = x
  <2>1. t = binary
    BY DEF t
  <2>2. ScalarAt(P, t, 0) = Bytes(P, 0 + 4, read_u32le(P, 0) + 1)
    BY <2>1, <1>3, ScalarCases
  <2>3. read_u32le(P, 0) + 1 = m /\ 0 + 4 = 4
    BY <1>2, <1>7
  <2> QED BY <2>2, <2>3, <1>7
<1>12. Encodes(P, t, x)
  BY <1>4, <1>7, <1>9, <1>10, <1>11 DEF Encodes
<1> QED BY <1>12 DEF P, t, x

\* The byte of the Boolean type.
LEMMA BoolEncodes ==
    ASSUME NEW v, v.tag = bool, v.val \in {<< 0 >>, << 1 >>}
    PROVE  Encodes(Payload(v), v.tag, v.val)
<1> DEFINE t == v.tag
           x == v.val
           P == Payload(v)
<1>1. t \notin {document, array, utf8, 13, 14, binary, regex, dbpointer, 15}
  BY DEF bool, utf8, document, array, binary, regex, dbpointer
<1>2. P = x
  BY <1>1, PayloadCases
<1>3. t \in Byte /\ ~HasVarsizePrefix(t) /\ ConstSize(t) = 1
  <2>1. t \in Byte
    BY DEF bool, Byte
  <2> QED BY <2>1, TagSizes
<1>4. x \in Buffer /\ Len(x) = 1 /\ ((x = << 0 >> /\ x[1] = 0) \/ (x = << 1 >> /\ x[1] = 1))
  <2>1. << 0 >> \in Buffer /\ << 1 >> \in Buffer
    BY DEF Buffer, Byte
  <2>2. Len(<< 0 >>) = 1 /\ Len(<< 1 >>) = 1 /\ << 0 >>[1] = 0 /\ << 1 >>[1] = 1
    OBVIOUS
  <2>3. x = << 0 >> \/ x = << 1 >>
    OBVIOUS
  <2> HIDE DEF x
  <2>4. CASE x = << 0 >>
    BY <2>1, <2>2, <2>4, Zenon
  <2>5. CASE x = << 1 >>
    <3>1. x \in Buffer /\ Len(x) = 1 /\ x[1] = 1
      BY <2>1, <2>2, <2>5, Zenon
    <3> QED BY <3>1, <2>5
  <2> QED BY <2>3, <2>4, <2>5
<1>5. t = bool /\ x \in {<< 0 >>, << 1 >>}
  OBVIOUS
<1> HIDE DEF P, x, t
<1>6. ValueLen(P, t, 0) = 1
  BY <1>1, <1>3 DEF ValueLen
<1>7. ValueOk(P, t, 0, Len(P))
  BY <1>1, <1>3, SizesAssumption DEF ValueOk
<1>8. ScalarAt(P, t, 0) = x
  <2>1. ScalarAt(P, t, 0) = IF P[0 + 1] # 0 THEN << 1 >> ELSE << 0 >>
    BY <1>3, <1>5, ScalarCases
  <2>2. P[0 + 1] = x[1]
    BY <1>2
  <2> QED BY <2>1, <2>2, <1>4
<1>9. Encodes(P, t, x)
  BY <1>1, <1>2, <1>4, <1>6, <1>7, <1>8 DEF Encodes
<1> QED BY <1>9 DEF P, t, x

\* The bytes of the types of a fixed size.
LEMMA FixedEncodes ==
    ASSUME NEW v, v.tag \in {1, 6, 7, 9, null, int32, 17, 18, 19, 127, 255},
           v.val \in Buffer, Len(v.val) = ConstSize(v.tag)
    PROVE  Encodes(Payload(v), v.tag, v.val)
<1> DEFINE t == v.tag
           x == v.val
           P == Payload(v)
<1>0. t \in {1, 6, 7, 9, 10, 16, 17, 18, 19, 127, 255}
  BY DEF null, int32
<1>9. Len(x) = ConstSize(t) /\ x \in Buffer
  OBVIOUS
<1> HIDE DEF t
<1>1. t \notin {document, array, utf8, 13, 14, binary, regex, dbpointer, 15, bool}
  BY <1>0 DEF bool, utf8, document, array, binary, regex, dbpointer
<1>2. P = x
  BY <1>1, PayloadCases, ZenonT(40) DEF t
<1>3. t \in Byte
  BY <1>0 DEF Byte
<1>4. ~HasVarsizePrefix(t)
  BY <1>1, <1>3, TagSizes
<1>5. ConstSize(t) \in 0 .. 16
  BY <1>0 DEF ConstSize, utf8, int32, binary, dbpointer, bool, eod, document, array, null, regex
<1> HIDE DEF P, x
<1>6. ValueLen(P, t, 0) = Len(P)
  BY <1>1, <1>2, <1>4, <1>5, <1>9 DEF ValueLen
<1>7. ValueOk(P, t, 0, Len(P))
  BY <1>1, <1>4, <1>5, SizesAssumption DEF ValueOk
<1>8. ScalarAt(P, t, 0) = x
  <2>1. ScalarAt(P, t, 0) = Bytes(P, 0, ConstSize(t))
    <3>1. t \notin {utf8, 13, 14, binary, bool, regex}
      BY <1>1
    <3> QED BY <3>1, <1>3, ScalarCases, SMTT(30)
  <2>2. Bytes(x, 0, Len(x)) = x
    BY <1>9, AllBytes
  <2> QED BY <2>1, <2>2, <1>2, <1>9
<1>10. Encodes(P, t, x)
  BY <1>1, <1>2, <1>9, <1>6, <1>7, <1>8 DEF Encodes
<1> QED BY <1>10 DEF P, t, x

\* The bytes of a document are those of the view.
LEMMA ViewEncodes ==
    ASSUME NEW v, v.tag \in {document, array}, IsView(v.val)
    PROVE  Encodes(Payload(v), v.tag, v.val)
<1> DEFINE t == v.tag
           x == v.val
           P == Payload(v)
<1>1. x \in Buffer /\ Len(x) <= MaxInt /\ Size(x, 0) = Len(x) /\ Valid(x, 0) /\ Len(x) >= 5 /\ Len(x) \in Nat
  BY ViewIsValid DEF Buffer
<1>2. P = Bytes(x, 0, Size(x, 0))
  BY PayloadCases
<1>3. Bytes(x, 0, Len(x)) = x
  BY <1>1, AllBytes
<1>4. t \in {document, array}
  OBVIOUS
<1> HIDE DEF P, x, t
<1>5. P = x
  BY <1>1, <1>2, <1>3
<1>6. t \in Byte
  BY <1>4 DEF Byte, document, array
<1>7. ConstSize(t) = 0 /\ HasVarsizePrefix(t)
  BY <1>4, <1>6, ConstSizes
<1>8. t \notin {utf8, 13, 14, dbpointer, 15} /\ t # regex
  BY <1>4 DEF utf8, document, array, dbpointer, regex
<1>9. ValueLen(x, t, 0) = Len(x)
  BY <1>1, <1>7, <1>8 DEF ValueLen, Size
<1>10. x[0 + Len(x)] = 0
  <2>1. PICK a : Whole(x, 0, a)
    BY <1>1, ValidUnfolds
  <2> QED BY <2>1, <1>1 DEF Whole, IsLayout
<1>11. ValueOk(x, t, 0, Len(x))
  BY <1>1, <1>4, <1>7, <1>8, <1>10, SizesAssumption DEF ValueOk
<1>12. Encodes(P, t, x)
  BY <1>1, <1>4, <1>5, <1>9, <1>11 DEF Encodes
<1> QED BY <1>12 DEF P, t, x

\* The bytes of a value are read as it.
LEMMA PayloadEncodes ==
    ASSUME NEW v, IsValue(v), Len(Payload(v)) <= MaxInt
    PROVE  v.tag \in Byte /\ Encodes(Payload(v), v.tag, v.val)
<1> DEFINE t == v.tag
           x == v.val
           F == {1, 6, 7, 9, null, int32, 17, 18, 19, 127, 255}
           A == IsView(x)
           B == x \in Seq(0 .. 255) /\ x # << >>
           C == x \in {<< 0 >>, << 1 >>}
           E == x \in Seq(0 .. 255) /\ Len(x) = ConstSize(t)
<1>1. (CASE t \in {document, array} -> A
         [] t \in {utf8, 13, 14, binary} -> B
         [] t = bool -> C
         [] OTHER -> t \in F /\ E)
  BY DEF IsValue
<1> HIDE DEF t, A, B, C, E
<1>2. \/ t \in {document, array} /\ A
      \/ t \in {utf8, 13, 14, binary} /\ B
      \/ t = bool /\ C
      \/ t \in F /\ E
  BY <1>1 DEF utf8, document, array, binary, bool, null, int32
<1>3. t \in Byte
  BY <1>2 DEF Byte, utf8, document, array, binary, bool, null, int32
<1>4. CASE t \in {document, array} /\ A
  BY <1>3, <1>4, ViewEncodes DEF t, A
<1>5. CASE t \in {utf8, 13, 14, binary} /\ B
  BY <1>3, <1>5, StringEncodes, BinaryEncodes DEF t, B, Buffer, Byte
<1>6. CASE t = bool /\ C
  BY <1>3, <1>6, BoolEncodes DEF t, C
<1>7. CASE t \in F /\ E
  BY <1>3, <1>7, FixedEncodes DEF t, E, Buffer, Byte
<1> QED BY <1>2, <1>4, <1>5, <1>6, <1>7

-----------------------------------------------------------------------------
(* The bytes of an element that is inserted.                               *)

\* Sequences over different sets put together.
LEMMA JoinedLen ==
    ASSUME NEW S, NEW T, NEW x \in Seq(S), NEW y \in Seq(T)
    PROVE  Len(x \o y) = Len(x) + Len(y) /\ x \o y \in Seq(S \cup T)
<1> DEFINE U == S \cup T
           m == Len(x)
           l == Len(y)
<1>1. x \in [1 .. m -> U] /\ m \in Nat /\ y \in [1 .. l -> U] /\ l \in Nat
  OBVIOUS
<1> HIDE DEF U, m, l
<1>2. x \in Seq(U) /\ y \in Seq(U)
  BY <1>1
<1>3. Len(x \o y) = Len(x) + Len(y) /\ x \o y \in Seq(U)
  BY <1>2
<1> QED BY <1>3 DEF U

\* The bytes of a size are a sequence of four numbers, whatever the size.
LEMMA SizeSeq ==
    ASSUME NEW n \in Nat
    PROVE  u32le(n) \in Seq(Int) /\ Len(u32le(n)) = 4
<1> DEFINE f == n % 256
           g == (n \div 256) % 256
           h == ((n \div 256) \div 256) % 256
           i == ((n \div 256) \div 256) \div 256
<1>1. u32le(n) = <<f, g, h, i>>
  BY DEF u32le
<1>2. f \in Int /\ g \in Int /\ h \in Int /\ i \in Int
  OBVIOUS
<1> HIDE DEF f, g, h, i
<1> QED BY <1>1, <1>2

\* The bytes of a value are a sequence, whatever its length.
LEMMA PayloadSeq ==
    ASSUME NEW v, IsValue(v)
    PROVE  \E S : Payload(v) \in Seq(S)
<1> DEFINE t == v.tag
           x == v.val
           F == {1, 6, 7, 9, null, int32, 17, 18, 19, 127, 255}
           A == IsView(x)
           B == x \in Seq(0 .. 255) /\ x # << >>
           C == x \in {<< 0 >>, << 1 >>}
           E == x \in Seq(0 .. 255) /\ Len(x) = ConstSize(t)
<1>1. (CASE t \in {document, array} -> A
         [] t \in {utf8, 13, 14, binary} -> B
         [] t = bool -> C
         [] OTHER -> t \in F /\ E)
  BY DEF IsValue
<1> HIDE DEF t, A, B, C, E
<1>2. \/ t \in {document, array} /\ A
      \/ t \in {utf8, 13, 14, binary} /\ B
      \/ t = bool /\ C
      \/ t \in F /\ E
  BY <1>1 DEF utf8, document, array, binary, bool, null, int32
<1>4. CASE t \in {document, array} /\ A
  BY <1>4, ViewEncodes DEF t, A, Encodes, Buffer
<1>5. CASE t \in {utf8, 13, 14} /\ B
  <2>1. Payload(v) = u32le(Len(x) + 1) \o x \o << 0 >>
    BY <1>5, PayloadCases DEF t
  <2>2. x \in Buffer /\ Len(x) + 1 \in Nat
    BY <1>5 DEF B, Buffer, Byte
  <2>3. u32le(Len(x) + 1) \in Seq(Int) /\ x \in Seq(Byte) /\ << 0 >> \in Seq(Byte)
    BY <2>2, SizeSeq DEF Buffer, Byte
  <2>4. u32le(Len(x) + 1) \o x \in Seq(Int \cup Byte)
    BY <2>3, JoinedLen
  <2>5. u32le(Len(x) + 1) \o x \o << 0 >> \in Seq((Int \cup Byte) \cup Byte)
    BY <2>3, <2>4, JoinedLen
  <2> QED BY <2>1, <2>5
<1>6. CASE t = binary /\ B
  <2>1. Payload(v) = u32le(Len(x) - 1) \o x
    BY <1>6, PayloadCases DEF t
  <2>2. x \in Buffer /\ Len(x) - 1 \in Nat
    BY <1>6 DEF B, Buffer, Byte
  <2>3. u32le(Len(x) - 1) \in Seq(Int) /\ x \in Seq(Byte)
    BY <2>2, SizeSeq DEF Buffer
  <2>4. u32le(Len(x) - 1) \o x \in Seq(Int \cup Byte)
    BY <2>3, JoinedLen
  <2> QED BY <2>1, <2>4
<1>7. CASE t = bool /\ C
  BY <1>7, BoolEncodes DEF t, C, Encodes, Buffer
<1>8. CASE t \in F /\ E
  BY <1>8, FixedEncodes DEF t, E, Encodes, Buffer, Byte
<1> QED BY <1>2, <1>4, <1>5, <1>6, <1>7, <1>8

\* An element, from its parts: a type, a key of kl bytes and a value of n.
Shaped(e, t, key, P) ==
    /\ e \in Buffer /\ Len(e) = (Len(key) + 2) + Len(P)
    /\ e[1] = t /\ e[Len(key) + 2] = 0
    /\ \A j \in 1 .. Len(key) : e[1 + j] = key[j]
    /\ Same(P, 0, e, Len(key) + 2, Len(P))

\* The bytes of an element.
LEMMA ElementShape ==
    ASSUME NEW t \in Byte, NEW key \in Buffer, NEW P, NEW S, P \in Seq(S)
    PROVE  LET e == <<t>> \o key \o << 0 >> \o P
           IN /\ Len(e) = (Len(key) + 2) + Len(P)
              /\ P \in Buffer => Shaped(e, t, key, P)
<1> DEFINE y == <<t>>
           z == << 0 >>
           h == y \o key \o z
           e == h \o P
           kl == Len(key)
           n == Len(P)
<1>1. y \in Buffer /\ Len(y) = 1 /\ y[1] = t /\ z \in Buffer /\ Len(z) = 1 /\ z[1] = 0
  BY DEF Buffer, Byte
<1>2. kl \in Nat /\ n \in Nat
  BY DEF Buffer
<1> HIDE DEF y, z, n, kl
<1>3. /\ h \in Buffer /\ Len(h) = Len(y) + Len(key) + Len(z)
      /\ \A j \in 1 .. Len(y) : h[j] = y[j]
      /\ \A j \in 1 .. Len(key) : h[Len(y) + j] = key[j]
      /\ \A j \in 1 .. Len(z) : h[Len(y) + Len(key) + j] = z[j]
  BY <1>1, ThreeParts, ZenonT(40)
<1> HIDE DEF h
<1>4. Len(key) = kl /\ Len(P) = n
  BY DEF kl, n
<1>5. Len(h) = kl + 2 /\ h[1] = t /\ h[kl + 2] = 0 /\ \A j \in 1 .. kl : h[1 + j] = key[j]
  <2>1. Len(h) = kl + 2
    BY <1>1, <1>2, <1>3, <1>4
  <2>2. h[1] = t
    BY <1>1, <1>3
  <2>3. h[kl + 2] = 0
    <3>1. (1 + kl) + 1 = kl + 2
      BY <1>2
    <3>2. h[(Len(y) + Len(key)) + 1] = z[1]
      BY <1>1, <1>3
    <3> QED BY <3>1, <3>2, <1>1, <1>4
  <2>4. \A j \in 1 .. kl : h[1 + j] = key[j]
    BY <1>1, <1>3, <1>4
  <2> QED BY <2>1, <2>2, <2>3, <2>4
<1>6. Len(e) = (kl + 2) + n
  <2>1. h \in Seq(Byte)
    BY <1>3 DEF Buffer
  <2>2. Len(e) = Len(h) + Len(P)
    BY <2>1, JoinedLen
  <2> QED BY <2>2, <1>4, <1>5
<1>7. ASSUME P \in Buffer
      PROVE  Shaped(e, t, key, P)
  <2>1. h \in Seq(Byte) /\ P \in Seq(Byte)
    BY <1>3, <1>7 DEF Buffer
  <2>2. /\ e \in Seq(Byte)
        /\ \A j \in 1 .. Len(h) : e[j] = h[j]
        /\ \A j \in 1 .. Len(P) : e[Len(h) + j] = P[j]
    BY <2>1
  <2> HIDE DEF e
  <2>3. \A j \in 1 .. (kl + 2) : e[j] = h[j]
    BY <2>2, <1>5
  <2>4. 1 \in 1 .. (kl + 2) /\ kl + 2 \in 1 .. (kl + 2) /\ \A j \in 1 .. kl : 1 + j \in 1 .. (kl + 2)
    BY <1>2
  <2>5. e[1] = t /\ e[kl + 2] = 0 /\ \A j \in 1 .. kl : e[1 + j] = key[j]
    BY <2>3, <2>4, <1>5
  <2>6. Same(P, 0, e, kl + 2, n)
    <3>1. \A j \in 1 .. n : e[(kl + 2) + j] = P[j] /\ 0 + j = j
      BY <2>2, <1>2, <1>4, <1>5
    <3> QED BY <3>1 DEF Same
  <2> QED BY <2>2, <2>5, <2>6, <1>4, <1>6 DEF Shaped, Buffer
<1> QED BY <1>4, <1>6, <1>7 DEF e, h, y, z

\* A key is a string.
LEMMA KeyIs ==
    ASSUME NEW key \in Keys
    PROVE  key \in Buffer /\ Len(key) \in Nat /\ \A j \in 1 .. Len(key) : key[j] # 0
<1> DEFINE m == Len(key)
           S == 1 .. 255
<1>0. \A c \in S : c # 0 /\ c \in Byte
  BY DEF Byte
<1>1. key \in Seq(S)
  BY KeysAssumption
<1> HIDE DEF S
<1>2. m \in Nat /\ key \in [1 .. m -> S]
  BY <1>1
<1>3. \A j \in 1 .. m : key[j] # 0 /\ key[j] \in Byte
  BY <1>0, <1>2
<1>4. key \in [1 .. m -> Byte]
  BY <1>2, <1>3
<1>5. m \in Nat
  BY <1>2
<1> HIDE DEF m
<1>6. key \in Seq(Byte) /\ Len(key) = m
  BY <1>4, <1>5
<1> QED BY <1>3, <1>5, <1>6 DEF Buffer

\* The element of key and v stands alone in e.
Stands(e, key, v) ==
    /\ e \in Buffer /\ GoodElem(e, 0, Len(e)) /\ KeyLen(e, 0) = Len(key)
    /\ ElementAt(e, 0) = Denoted(key, v)

\* The bytes that are inserted are the element that they denote.
LEMMA ElementStands ==
    ASSUME NEW key \in Keys, NEW v \in Values, Len(Element(key, v)) <= MaxInt
    PROVE  Stands(Element(key, v), key, v)
<1> DEFINE t == v.tag
           x == v.val
           P == Payload(v)
           e == Element(key, v)
           kl == Len(key)
           n == Len(P)
<1>1. IsValue(v)
  BY ViewsAssumption
<1>2. t \in Byte
  <2> DEFINE A == IsView(x)
             B == x \in Seq(0 .. 255) /\ x # << >>
             C == x \in {<< 0 >>, << 1 >>}
             E == x \in Seq(0 .. 255) /\ Len(x) = ConstSize(t)
  <2>1. (CASE t \in {document, array} -> A
           [] t \in {utf8, 13, 14, binary} -> B
           [] t = bool -> C
           [] OTHER -> t \in {1, 6, 7, 9, null, int32, 17, 18, 19, 127, 255} /\ E)
    BY <1>1 DEF IsValue
  <2> HIDE DEF t, A, B, C, E
  <2> QED BY <2>1 DEF Byte, utf8, document, array, binary, bool, null, int32
<1>3. key \in Buffer /\ kl \in Nat /\ \A j \in 1 .. kl : key[j] # 0
  BY KeyIs
<1>4. PICK S : P \in Seq(S)
  BY <1>1, PayloadSeq
<1>5. Len(e) = (kl + 2) + n /\ (P \in Buffer => Shaped(e, t, key, P))
  <2>1. e = <<t>> \o key \o << 0 >> \o P
    BY DEF Element
  <2> HIDE DEF e, t, P
  <2>2. LET q == <<t>> \o key \o << 0 >> \o P
        IN Len(q) = (Len(key) + 2) + Len(P) /\ (P \in Buffer => Shaped(q, t, key, P))
    BY <1>2, <1>3, <1>4, ElementShape
  <2> QED BY <2>1, <2>2
<1>6. n \in Nat /\ n <= MaxInt /\ Len(e) <= MaxInt
  <2>1. Len(e) <= MaxInt /\ n \in Nat
    BY <1>4
  <2>2. Len(e) = (kl + 2) + n
    BY <1>5
  <2> HIDE DEF e, n, kl
  <2> QED BY <2>1, <2>2, <1>3, SizesAssumption
<1>7. Encodes(P, t, x)
  BY <1>1, <1>6, PayloadEncodes
<1> HIDE DEF e, P, x, t, n, kl
<1>8. P \in Buffer /\ n = ValueLen(P, t, 0) /\ ValueOk(P, t, 0, n) /\ n = Len(P) /\ kl = Len(key)
  BY <1>7 DEF Encodes, n, kl
<1>9. /\ e \in Buffer /\ Len(e) = (kl + 2) + n /\ e[1] = t /\ e[kl + 2] = 0
      /\ \A j \in 1 .. kl : e[1 + j] = key[j]
      /\ Same(P, 0, e, kl + 2, n)
  BY <1>5, <1>8 DEF Shaped
<1>10. kl + 2 \in Nat /\ 0 + n <= Len(P) /\ (kl + 2) + n <= Len(e) /\ 0 + kl + 2 = kl + 2 /\ 0 + 1 = 1
       /\ (0 + kl + 2) + n = Len(e) /\ 1 + kl <= Len(e) /\ Len(e) \in Nat
  BY <1>3, <1>6, <1>8, <1>9, SMTT(30)
<1>11. /\ n = ValueLen(e, t, kl + 2) /\ ValueOk(e, t, kl + 2, n)
       /\ t \notin {document, array} => ScalarAt(e, t, kl + 2) = ScalarAt(P, t, 0)
  BY <1>2, <1>6, <1>8, <1>9, <1>10, ValueMoves
<1>12. IsStr(e, 1, kl)
  <2>1. 1 + kl + 1 = kl + 2 /\ 1 + kl + 1 <= Len(e)
    BY <1>3, <1>6, <1>9
  <2>2. ASSUME NEW j \in 0 .. (kl - 1)
        PROVE  e[1 + j + 1] # 0
    <3>1. j + 1 \in 1 .. kl /\ 1 + j + 1 = 1 + (j + 1)
      BY <1>3
    <3>2. e[1 + (j + 1)] = key[j + 1] /\ key[j + 1] # 0
      BY <3>1, <1>3, <1>9
    <3> QED BY <3>1, <3>2
  <2> QED BY <2>1, <2>2, <1>3, <1>9 DEF IsStr
<1>13. Elem(e, 0, Len(e)) /\ KeyLen(e, 0) = kl /\ ValueAt(e, 0) = kl + 2
  <2>1. e[0 + 1] = t /\ IsStr(e, 0 + 1, kl)
    BY <1>9, <1>10, <1>12
  <2>2. n = ValueLen(e, e[0 + 1], 0 + kl + 2) /\ ValueOk(e, e[0 + 1], 0 + kl + 2, n)
    BY <2>1, <1>10, <1>11
  <2>3. (0 + kl + 2) + n <= Len(e) /\ 0 \in Nat
    BY <1>10
  <2>4. Elem(e, 0, (0 + kl + 2) + n) /\ KeyLen(e, 0) = kl /\ ValueAt(e, 0) = 0 + kl + 2
    BY <2>1, <2>2, <2>3, <1>6, <1>9, ElemMade
  <2> QED BY <2>4, <1>10
<1>14. t \in {document, array} => Valid(e, kl + 2) /\ Document(e, kl + 2) = Document(x, 0)
  <2> SUFFICES ASSUME t \in {document, array}
               PROVE  Valid(e, kl + 2) /\ Document(e, kl + 2) = Document(x, 0)
    OBVIOUS
  <2>1. Valid(P, 0) /\ Document(P, 0) = Document(x, 0)
    BY <1>7 DEF Encodes
  <2>2. Size(P, 0) = n
    <3>1. ConstSize(t) = 0 /\ HasVarsizePrefix(t)
      BY <1>2, ConstSizes
    <3>2. t # regex
      BY DEF regex, document, array
    <3>3. n = 0 + read_u32le(P, 0)
      BY <3>1, <3>2, <1>8 DEF ValueLen
    <3>4. read_u32le(P, 0) \in Nat
      <4>1. 0 + 4 <= Len(P) /\ 0 \in Nat
        BY <1>6, <1>8, <3>1 DEF ValueOk
      <4> QED BY <4>1, <1>8, SizeRead
    <3> QED BY <3>3, <3>4 DEF Size
  <2>3. Same(P, 0, e, kl + 2, Size(P, 0)) /\ (kl + 2) + Size(P, 0) <= Len(e)
    BY <2>2, <1>9, <1>10
  <2>4. Valid(e, kl + 2) /\ Document(e, kl + 2) = Document(P, 0)
    BY <2>1, <2>3, <1>6, <1>8, <1>9, <1>10, DocumentMoves
  <2> QED BY <2>1, <2>4
<1>15. GoodElem(e, 0, Len(e))
  BY <1>9, <1>10, <1>13, <1>14 DEF GoodElem, Nests
<1>16. Bytes(e, 1, kl) = key
  <2> DEFINE z == Bytes(e, 1, kl)
  <2>1. z \in Buffer /\ Len(z) = kl /\ \A j \in 1 .. kl : z[j] = e[1 + j]
    BY <1>3, <1>9, <1>10, BytesOf
  <2> HIDE DEF z
  <2>2. \A j \in 1 .. kl : z[j] = key[j]
    BY <2>1, <1>9
  <2>3. z \in Seq(Byte) /\ key \in Seq(Byte) /\ Len(z) = Len(key)
    BY <2>1, <1>3, <1>8 DEF Buffer
  <2>4. z = key
    BY <2>1, <2>2, <2>3
  <2> QED BY <2>4 DEF z
<1>17. ElementAt(e, 0) = Denoted(key, v)
  <2>1. e[0 + 1] = t /\ KeyLen(e, 0) = kl /\ ValueAt(e, 0) = kl + 2 /\ Bytes(e, 0 + 1, kl) = key
    BY <1>9, <1>10, <1>13, <1>16
  <2> DEFINE V == IF t \in {document, array} THEN Document(e, kl + 2) ELSE ScalarAt(e, t, kl + 2)
             W == IF t \in {document, array} THEN Document(x, 0) ELSE x
  <2>2. ElementAt(e, 0) = [key |-> key, tag |-> t, val |-> V]
    BY <2>1 DEF ElementAt, Nests
  <2>3. Denoted(key, v) = [key |-> key, tag |-> t, val |-> W]
    BY DEF Denoted, t, x
  <2>4. V = W
    <3>1. t \notin {document, array} => ScalarAt(P, t, 0) = x
      BY <1>7 DEF Encodes
    <3> QED BY <3>1, <1>11, <1>14
  <2> QED BY <2>2, <2>3, <2>4
<1> QED BY <1>8, <1>9, <1>13, <1>15, <1>17 DEF Stands, e

\* A key that can be written.
IsKey(key) == key \in Buffer /\ Len(key) \in Nat /\ \A j \in 1 .. Len(key) : key[j] # 0

-----------------------------------------------------------------------------
(* An element with another key.                                            *)

\* The element x .. y - 1 of b, in d with the key key.
LEMMA RekeyedElem ==
    ASSUME NEW b \in Buffer, NEW d \in Buffer, Len(b) <= MaxInt, Len(d) <= MaxInt,
           NEW x, NEW y, GoodElem(b, x, y), NEW key, IsKey(key),
           d[x + 1] = b[x + 1], Same(key, 0, d, x + 1, Len(key)),
           Same(b, (x + 1) + KeyLen(b, x), d, (x + 1) + Len(key), y - ((x + 1) + KeyLen(b, x))),
           y + (Len(key) - KeyLen(b, x)) <= Len(d)
    PROVE  /\ GoodElem(d, x, y + (Len(key) - KeyLen(b, x))) /\ KeyLen(d, x) = Len(key)
           /\ ElementAt(d, x) = [ElementAt(b, x) EXCEPT !.key = key]
<1> DEFINE kl == KeyLen(b, x)
           m == Len(key)
           v == ValueAt(b, x)
           u == x + m + 2
           n == y - v
           t == b[x + 1]
           z == y + (m - kl)
<1>1. Elem(b, x, y) /\ (Nests(b, x) => Valid(b, v))
  BY DEF GoodElem
<1>2. /\ x \in Nat /\ y \in Nat /\ y <= Len(b) /\ Len(b) \in Nat /\ kl \in Nat /\ v \in Nat
      /\ v = x + kl + 2 /\ x + 2 <= v /\ v <= y /\ n \in Nat /\ n = ValueLen(b, t, v) /\ t \in Byte
  BY <1>1, ElemParts
<1>3. ValueOk(b, t, v, n) /\ b[(x + 1) + kl + 1] = 0
  BY <1>1 DEF Elem, IsStr
<1>4. key \in Buffer /\ m \in Nat /\ \A j \in 1 .. m : key[j] # 0
  BY DEF IsKey
<1>5. /\ t = d[x + 1] /\ Same(key, 0, d, x + 1, m)
      /\ Same(b, (x + 1) + kl, d, (x + 1) + m, y - ((x + 1) + kl)) /\ z <= Len(d) /\ Len(d) \in Nat
  BY DEF Buffer
<1> HIDE DEF kl, m, v, n, t
<1>6. /\ (x + 1) + kl \in Nat /\ (x + 1) + m \in Nat /\ y - ((x + 1) + kl) \in Nat
      /\ 1 + n <= y - ((x + 1) + kl) /\ 1 <= y - ((x + 1) + kl)
      /\ ((x + 1) + kl) + 1 = v /\ ((x + 1) + m) + 1 = u /\ u \in Nat
      /\ u + n = z /\ v + n <= Len(b) /\ v + n = y /\ u + n <= Len(d) /\ z \in Nat
  BY <1>2, <1>4, <1>5, SMTT(30) DEF n
<1>7. Same(b, v, d, u, n)
  <2>1. Same(b, ((x + 1) + kl) + 1, d, ((x + 1) + m) + 1, n)
    BY <1>2, <1>5, <1>6, SameWithin
  <2> QED BY <2>1, <1>6
<1>8. d[((x + 1) + m) + 1] = b[((x + 1) + kl) + 1]
  <2>1. 1 \in 1 .. (y - ((x + 1) + kl))
    BY <1>6
  <2> QED BY <2>1, <1>5 DEF Same
<1>9. IsStr(d, x + 1, m)
  <2>1. (x + 1) + m + 1 = ((x + 1) + m) + 1 /\ (x + 1) + m + 1 <= Len(d)
    BY <1>2, <1>4, <1>6
  <2>2. d[(x + 1) + m + 1] = 0
    BY <2>1, <1>3, <1>8
  <2>3. ASSUME NEW j \in 0 .. (m - 1)
        PROVE  d[(x + 1) + j + 1] # 0
    <3>1. j + 1 \in 1 .. m /\ (x + 1) + j + 1 = (x + 1) + (j + 1) /\ 0 + (j + 1) = j + 1
      BY <1>2, <1>4
    <3>2. d[(x + 1) + (j + 1)] = key[0 + (j + 1)]
      BY <3>1, <1>5 DEF Same
    <3> QED BY <3>1, <3>2, <1>4
  <2> QED BY <2>1, <2>2, <2>3, <1>4 DEF IsStr
<1>10. /\ n = ValueLen(d, t, u) /\ ValueOk(d, t, u, n)
       /\ t \notin {document, array} => ScalarAt(d, t, u) = ScalarAt(b, t, v)
  <2>1. /\ t \in Byte /\ v \in Nat /\ u \in Nat /\ n \in Nat /\ n = ValueLen(b, t, v) /\ ValueOk(b, t, v, n)
        /\ v + n <= Len(b) /\ u + n <= Len(d)
    BY <1>2, <1>3, <1>6
  <2> HIDE DEF u
  <2> QED BY <2>1, <1>7, ValueMoves
<1>11. Elem(d, x, z) /\ KeyLen(d, x) = m /\ ValueAt(d, x) = u
  <2>1. n = ValueLen(d, d[x + 1], x + m + 2) /\ ValueOk(d, d[x + 1], x + m + 2, n) /\ (x + m + 2) + n <= Len(d)
    BY <1>5, <1>6, <1>10
  <2>2. Elem(d, x, (x + m + 2) + n) /\ KeyLen(d, x) = m /\ ValueAt(d, x) = x + m + 2
    BY <2>1, <1>2, <1>9, ElemMade
  <2> QED BY <2>2, <1>6
<1>12. t \in {document, array} => Valid(d, u) /\ Document(d, u) = Document(b, v)
  <2> SUFFICES ASSUME t \in {document, array}
               PROVE  Valid(d, u) /\ Document(d, u) = Document(b, v)
    OBVIOUS
  <2>1. Nests(b, x)
    BY DEF Nests, t
  <2>2. Valid(b, v) /\ Size(b, v) = n
    BY <2>1, <1>1, NestedSize DEF n, v
  <2>3. Same(b, v, d, u, Size(b, v)) /\ u + Size(b, v) <= Len(d)
    BY <2>2, <1>6, <1>7
  <2> HIDE DEF u
  <2> QED BY <2>2, <2>3, <1>6, DocumentMoves
<1>13. GoodElem(d, x, z)
  BY <1>5, <1>11, <1>12 DEF GoodElem, Nests
<1>14. ElementAt(d, x) = [ElementAt(b, x) EXCEPT !.key = key]
  <2> DEFINE V == IF t \in {document, array} THEN Document(d, u) ELSE ScalarAt(d, t, u)
             W == IF t \in {document, array} THEN Document(b, v) ELSE ScalarAt(b, t, v)
             K == Bytes(b, x + 1, kl)
  <2>1. Bytes(d, x + 1, m) = key
    <3> DEFINE q == Bytes(d, x + 1, m)
    <3>0. x + 1 \in Nat /\ (x + 1) + m <= Len(d)
      BY <1>2, <1>4, <1>6
    <3>1. q \in Buffer /\ Len(q) = m /\ \A j \in 1 .. m : q[j] = d[(x + 1) + j]
      BY <3>0, <1>4, BytesOf
    <3> HIDE DEF q
    <3>2. \A j \in 1 .. m : q[j] = key[j]
      <4>1. \A j \in 1 .. m : d[(x + 1) + j] = key[0 + j] /\ 0 + j = j
        BY <1>4, <1>5 DEF Same
      <4> QED BY <4>1, <3>1
    <3>3. q \in Seq(Byte) /\ key \in Seq(Byte) /\ Len(q) = Len(key)
      BY <3>1, <1>4 DEF Buffer, m
    <3>4. q = key
      BY <3>1, <3>2, <3>3
    <3> QED BY <3>4 DEF q
  <2>2. ElementAt(d, x) = [key |-> key, tag |-> t, val |-> V]
    BY <2>1, <1>5, <1>11 DEF ElementAt, Nests
  <2>3. ElementAt(b, x) = [key |-> K, tag |-> t, val |-> W]
    BY DEF ElementAt, Nests, t, v, kl
  <2>4. V = W
    BY <1>10, <1>12
  <2> HIDE DEF V, W, K
  <2> QED BY <2>2, <2>3, <2>4
<1> QED BY <1>11, <1>13, <1>14 DEF kl, m

\* Element k has the key key, and the iterator is put together accordingly.
Rekeyed(s, r, pa, a, k, key, a2) ==
    /\ Edited(s, r, pa)
    /\ Whole(r.data, Home(s), a2) /\ Len(a2) = Len(a) /\ a2[k] = a[k]
    /\ Len(Document(s.data, Home(s))) = Len(a) - 1
    /\ Document(r.data, Home(s)) = [Document(s.data, Home(s)) EXCEPT ![k].key = key]
    /\ SetKeyIterator(IteratorOf(s.data, Home(s), a, k), key) = IteratorOf(r.data, Home(s), a2, k)

\* _bson_set_key() fails and changes nothing, or changes the key.
LEMMA KeyEdited ==
    ASSUME NEW s, NEW pa, StoreOk(s, pa), NEW a, Whole(s.data, Home(s), a), NEW k \in 1 .. (Len(a) - 1),
           NEW key, IsKey(key), NEW alloc
    PROVE  LET r == _bson_set_key(s, IteratorOf(s.data, Home(s), a, k), key, alloc)
           IN r = Fails(s) \/ \E a2 : Rekeyed(s, r, pa, a, k, key, a2)
<1> DEFINE b == s.data
           p == Home(s)
           it == IteratorOf(b, p, a, k)
           r == _bson_set_key(s, it, key, alloc)
           x == a[k]
           y == a[k + 1]
           kl == KeyLen(b, x)
           m == Len(key)
           at == x + 1
           z == y + (m - kl)
           d == r.data
           c == s.chain
<1>1. /\ b \in Buffer /\ Len(b) \in Nat /\ Len(b) <= MaxInt
      /\ p \in Nat /\ Valid(b, p) /\ Size(b, p) \in Nat
      /\ p + Size(b, p) <= Len(b)
      /\ Len(c) \in Nat /\ Len(c) >= 1
  BY HomeParts
<1>2. IsLayout(b, p, a) /\ GoodElem(b, x, y)
  BY DEF Whole
<1>3. /\ Len(a) \in Nat /\ x \in Nat /\ y \in Nat /\ x + 2 <= y /\ p + 4 <= x /\ y <= (p + Size(b, p)) - 1
      /\ k \in Nat /\ k # Len(a)
  <2>1. /\ Len(a) \in Nat /\ \A j \in 1 .. Len(a) : a[j] \in Nat /\ p + 4 <= a[j] /\ a[j] <= (p + Size(b, p)) - 1
        /\ \A j \in 1 .. (Len(a) - 1) : j \in 1 .. Len(a) /\ j + 1 \in 1 .. Len(a) /\ a[j] + 2 <= a[j + 1]
    BY <1>1, <1>2, LayoutOrder
  <2>2. k \in 1 .. Len(a) /\ k + 1 \in 1 .. Len(a) /\ x + 2 <= y
    BY <2>1
  <2>3. k \in Nat /\ k # Len(a)
    BY <2>1
  <2> QED BY <2>1, <2>2, <2>3
<1>4. kl \in Nat /\ (x + kl) + 2 <= y
  <2>1. Elem(b, x, y)
    BY <1>2 DEF GoodElem
  <2>2. kl \in Nat /\ ValueAt(b, x) = x + kl + 2 /\ ValueAt(b, x) <= y
    BY <1>1, <2>1, ElemParts
  <2> QED BY <2>2, <1>3
<1>5. key \in Buffer /\ m \in Nat
  BY DEF IsKey
<1>6. it.at = x /\ it.keylen = kl /\ it.rlen = (p + Size(b, p)) - x
  BY <1>3 DEF IteratorOf, Iterator
<1>7. SUFFICES ASSUME r # Fails(s)
               PROVE  \E a2 : Rekeyed(s, r, pa, a, k, key, a2)
  OBVIOUS
<1>8. r = _bson_splice_region(s, Len(c), at, kl, key, alloc)
  BY <1>6, <1>7 DEF _bson_set_key
<1> HIDE DEF r, kl, m, z, d, b, p, x, y, it, c
<1>9. at \in Nat /\ p + 4 <= at /\ at + kl <= Len(b) /\ x <= at /\ at + kl <= y /\ y <= Len(b)
      /\ at + kl <= (p + Size(b, p)) - 1 /\ at - x = 1
  BY <1>1, <1>3, <1>4
<1>10. c[Len(c)].at = p
  BY DEF p, c, Home
<1>11. Level(s, r, at, kl, key, Len(c))
  <2>1. s.chain[Len(s.chain)].at + 4 <= at /\ at + kl <= Len(s.data)
    BY <1>9, <1>10 DEF b, c
  <2>2. LET q == _bson_splice_region(s, Len(s.chain), at, kl, key, alloc)
        IN q = Fails(s) \/ Level(s, q, at, kl, key, Len(s.chain))
    BY <2>1, <1>4, <1>5, <1>9, RegionSpliced
  <2> QED BY <2>2, <1>7, <1>8 DEF c
<1>12. /\ d \in Buffer /\ Len(d) = Len(b) + (m - kl) /\ Len(d) <= MaxInt /\ Len(d) \in Nat
       /\ Same(key, 0, d, at, m)
       /\ Same(b, at + kl, d, at + m, Len(b) - (at + kl))
  <2>1. RawSplice(b, d, at, kl, key) /\ r.cap \in Nat /\ Len(d) <= r.cap /\ r.cap + 4 <= MaxInt
    BY <1>11 DEF Level, b, d
  <2>2. /\ d \in Buffer /\ Len(d) = Len(b) + (m - kl) /\ Same(key, 0, d, at, m)
        /\ Same(b, at + kl, d, at + m, Len(b) - (at + kl))
    BY <2>1 DEF RawSplice, m
  <2>3. Len(d) \in Nat
    BY <2>2 DEF Buffer
  <2>4. Len(d) <= MaxInt
    BY <2>1, <2>3, SizesAssumption
  <2> QED BY <2>2, <2>3, <2>4
<1>13. Patch(b, d, p, x, y, z) /\ Same(b, x, d, x, 1)
  <2>1. /\ Patch(s.data, r.data, Home(s), x, y, y + (Len(key) - kl))
        /\ Same(s.data, x, r.data, x, at - x)
    <3>1. Home(s) + 4 <= x /\ y <= Len(s.data) /\ at + kl <= Len(s.data)
      BY <1>3, <1>9 DEF b, p
    <3> HIDE DEF at
    <3> QED BY <3>1, <1>3, <1>4, <1>5, <1>9, <1>11, HomePatch DEF c
  <2> QED BY <2>1, <1>9 DEF b, d, p, z, m
<1>14. /\ GoodElem(d, x, z) /\ KeyLen(d, x) = m
       /\ ElementAt(d, x) = [ElementAt(b, x) EXCEPT !.key = key]
  <2>1. d[x + 1] = b[x + 1]
    <3>1. 1 \in 1 .. 1
      OBVIOUS
    <3> QED BY <3>1, <1>13 DEF Same
  <2>2. Same(b, at + kl, d, at + m, y - (at + kl))
    <3>1. /\ at + kl \in Nat /\ at + m \in Nat /\ Len(b) - (at + kl) \in Nat /\ y - (at + kl) \in Nat
          /\ 0 + (y - (at + kl)) <= Len(b) - (at + kl) /\ (at + kl) + 0 = at + kl /\ (at + m) + 0 = at + m
      BY <1>1, <1>3, <1>4, <1>5, <1>9
    <3>2. Same(b, (at + kl) + 0, d, (at + m) + 0, y - (at + kl))
      BY <3>1, <1>12, SameWithin
    <3> QED BY <3>1, <3>2
  <2>3. y + (m - kl) <= Len(d)
    BY <1>1, <1>3, <1>4, <1>5, <1>9, <1>12
  <2>4. /\ d[x + 1] = b[x + 1] /\ Same(key, 0, d, x + 1, Len(key))
        /\ Same(b, (x + 1) + KeyLen(b, x), d, (x + 1) + Len(key), y - ((x + 1) + KeyLen(b, x)))
        /\ y + (Len(key) - KeyLen(b, x)) <= Len(d)
    BY <2>1, <2>2, <2>3, <1>12 DEF kl, m
  <2>5. /\ GoodElem(d, x, y + (Len(key) - KeyLen(b, x))) /\ KeyLen(d, x) = Len(key)
        /\ ElementAt(d, x) = [ElementAt(b, x) EXCEPT !.key = key]
    BY <2>4, <1>1, <1>2, <1>12, RekeyedElem
  <2> QED BY <2>5 DEF z, m, kl
<1>15. PICK a2 : EditsOne(b, d, p, a, k, z, a2)
  <2>1. z \in Nat
    BY <1>3, <1>4, <1>5 DEF z
  <2>2. Whole(b, p, a) /\ GoodElem(d, a[k], z) /\ Patch(b, d, p, a[k], a[k + 1], z)
    BY <1>13, <1>14 DEF x, y, b, p
  <2> QED BY <2>1, <2>2, <1>1, <1>12, ElementEdited
<1>16. /\ Whole(d, p, a2) /\ Len(a2) = Len(a) /\ a2[k] = x
       /\ Len(Document(b, p)) = Len(a) - 1 /\ Document(b, p)[k] = ElementAt(b, x)
       /\ Document(d, p) = [Document(b, p) EXCEPT ![k] = ElementAt(d, x)]
  BY <1>15 DEF EditsOne, x
<1>17. Edited(s, r, pa)
  <2>1. Valid(d, p)
    BY <1>12, <1>16, ValidFolds
  <2>2. Within(s.data, s.chain, Len(s.chain), at, kl)
    BY <1>9, <1>10 DEF Within, b, c
  <2>3. at + kl <= Len(s.data) /\ Valid(r.data, s.chain[Len(s.chain)].at)
    BY <2>1, <1>9, <1>10 DEF b, d, c
  <2> HIDE DEF at
  <2> QED BY <2>2, <2>3, <1>4, <1>5, <1>9, <1>11, StoreEdited DEF c
<1>18. Document(d, p) = [Document(b, p) EXCEPT ![k].key = key]
  <2> DEFINE D == Document(b, p)
  <2>1. Document(d, p) = [D EXCEPT ![k] = [D[k] EXCEPT !.key = key]]
    BY <1>14, <1>16
  <2> HIDE DEF D
  <2>2. [D EXCEPT ![k] = [D[k] EXCEPT !.key = key]] = [D EXCEPT ![k].key = key]
    OBVIOUS
  <2> QED BY <2>1, <2>2 DEF D
<1>19. SetKeyIterator(it, key) = IteratorOf(d, p, a2, k)
  <2>1. SetKeyIterator(it, key) = Iterator(x, m, ((p + Size(b, p)) - x) + m - kl)
    BY <1>6 DEF SetKeyIterator, m
  <2>2. IteratorOf(d, p, a2, k) = Iterator(x, m, (p + Size(d, p)) - x)
    BY <1>3, <1>14, <1>16 DEF IteratorOf
  <2>3. Size(d, p) = Size(b, p) + (z - y)
    BY <1>13 DEF Patch
  <2>4. ((p + Size(b, p)) - x) + m - kl = (p + Size(d, p)) - x
    BY <2>3, <1>1, <1>3, <1>4, <1>5 DEF z
  <2> QED BY <2>1, <2>2, <2>4
<1>20. Rekeyed(s, r, pa, a, k, key, a2)
  BY <1>16, <1>17, <1>18, <1>19 DEF Rekeyed, b, d, p, x, it
<1> QED BY <1>20

-----------------------------------------------------------------------------
(* The inductive invariant.                                                *)

\* What the documents of the mutators read as.
Reference(s) == [i \in 1 .. Len(s.chain) |-> Document(s.data, s.chain[i].at)]

\* The documents are valid, the mutators lead from one to the next along pa, the
\* reference is what is read, and the result is where a walk would be.
StateOk(s, pa, dc, rt) ==
    /\ StoreOk(s, pa) /\ pa \in Seq(Nat)
    /\ dc = Reference(s)
    /\ rt.ok \in BOOLEAN /\ Lands(s.data, Home(s), rt.it, ~rt.ok)

\* In the current state.
Inv == StateOk(Store, path, docs, ret)

\* The end of a document is where its walk ends.
LEMMA EndLands ==
    ASSUME NEW b \in Buffer, NEW p, Valid(b, p), NEW l \in BOOLEAN
    PROVE  Lands(b, p, bson_end(b, p), l)
<1>1. PICK a : Whole(b, p, a)
  BY ValidUnfolds
<1>2. IsLayout(b, p, a)
  BY <1>1 DEF Whole
<1> DEFINE z == (p + Size(b, p)) - 1
           n == Len(a)
<1>3. p \in Nat /\ Size(b, p) \in Nat /\ n \in Nat /\ n >= 1
  BY <1>2, LayoutOrder
<1>4. a[n] = z /\ p + Size(b, p) - 1 = z /\ (p + Size(b, p)) - z = 1 /\ n \in 1 .. n
  BY <1>2, <1>3 DEF IsLayout
<1>5. bson_end(b, p) = Iterator(z, 0, 1)
  BY <1>4, IteratorAtEnd DEF bson_end
<1>6. IteratorOf(b, p, a, n) = Iterator(z, 0, 1)
  BY <1>4 DEF IteratorOf
<1> QED BY <1>1, <1>4, <1>5, <1>6 DEF Lands

\* The store is a record of its fields.
LEMMA StoreFields ==
    /\ IsStore(Store) /\ Store.data = data /\ Store.cap = cap /\ Store.shared = shared
    /\ Store.chain = chain /\ Store.ok = TRUE
BY DEF Store, IsStore

\* The reference follows an edit of the innermost document.
LEMMA Grafted ==
    ASSUME Inv, NEW s, Edited(Store, s, path)
    PROVE  Graft(Document(s.data, Home(Store))) = Reference(s)
<1> DEFINE N == Len(chain)
           t == Document(s.data, Home(Store))
           g == [n \in 0 .. (N - 1) |-> Document(s.data, chain[N - n].at)]
           Up(f) == f = [n \in 0 .. (N - 1) |->
                IF n = 0 THEN t ELSE [docs[N - n] EXCEPT ![path[N - n]].val = f[n - 1]]]
           up == CHOOSE f : Up(f)
<1>1. N \in Nat /\ N >= 1 /\ s.chain = chain /\ Home(Store) = chain[N].at
  <2>1. StoreOk(Store, path) /\ s.chain = Store.chain
    BY DEF Inv, StateOk, Edited
  <2>2. N \in Nat /\ N >= 1
    BY <2>1, HomeParts, StoreFields
  <2> QED BY <2>1, <2>2, StoreFields DEF Home
<1>2. docs = [i \in 1 .. N |-> Document(data, chain[i].at)]
  BY StoreFields DEF Inv, StateOk, Reference
<1>3. \A i \in 1 .. (N - 1) :
        Document(s.data, chain[i].at) = [Document(data, chain[i].at) EXCEPT ![path[i]].val = Document(s.data, chain[i + 1].at)]
  BY StoreFields DEF Edited
<1>4. Graft(t) = [i \in 1 .. N |-> up[N - i]]
  BY DEF Graft, Top
<1>5. ASSUME NEW n \in 0 .. (N - 1), n # 0
      PROVE  g[n] = [docs[N - n] EXCEPT ![path[N - n]].val = g[n - 1]]
  <2> DEFINE i == N - n
  <2>1. i \in 1 .. (N - 1) /\ i \in 1 .. N /\ n - 1 \in 0 .. (N - 1) /\ N - (n - 1) = i + 1
    BY <1>1, <1>5
  <2>2. g[n] = Document(s.data, chain[i].at) /\ g[n - 1] = Document(s.data, chain[i + 1].at)
    BY <2>1
  <2>3. docs[i] = Document(data, chain[i].at)
    BY <2>1, <1>2
  <2> HIDE DEF g
  <2> QED BY <2>1, <2>2, <2>3, <1>3
<1>6. g[0] = t
  <2>1. 0 \in 0 .. (N - 1) /\ N - 0 = N
    BY <1>1
  <2> QED BY <2>1, <1>1
<1> DEFINE F(n, v) == [docs[N - n] EXCEPT ![path[N - n]].val = v]
<1>7. Up(g)
  <2>1. g = [n \in 0 .. (N - 1) |-> g[n]]
    OBVIOUS
  <2>2. \A n \in 0 .. (N - 1) : g[n] = IF n = 0 THEN t ELSE F(n, g[n - 1])
    BY <1>5, <1>6
  <2> HIDE DEF g, t, F
  <2>3. g = [n \in 0 .. (N - 1) |-> IF n = 0 THEN t ELSE F(n, g[n - 1])]
    BY <2>1, <2>2
  <2> QED BY <2>3 DEF F
<1>8. Up(up)
  <2> HIDE DEF Up, g
  <2> QED BY <1>7
<1>9. \A n \in 0 .. (N - 1) : up[n] = IF n = 0 THEN t ELSE F(n, up[n - 1])
  <2> HIDE DEF up, t
  <2> QED BY <1>8
<1>10. \A n \in 0 .. (N - 1) : g[n] = IF n = 0 THEN t ELSE F(n, g[n - 1])
  BY <1>5, <1>6
<1> HIDE DEF up, g, t, F, N
<1>11. \A n \in 0 .. (N - 1) : up[n] = g[n]
  <2> DEFINE T == {n \in 0 .. (N - 1) : up[n] # g[n]}
  <2> SUFFICES ASSUME T # {} PROVE FALSE
    OBVIOUS
  <2>1. T \in SUBSET Nat
    BY <1>1
  <2>2. PICK n \in T : \A k \in T : n <= k
    <3> HIDE DEF T
    <3> QED BY <2>1, LeastNatural
  <2>3. n # 0
    BY <2>2, <1>9, <1>10
  <2>4. n - 1 \in 0 .. (N - 1) /\ n - 1 \notin T
    BY <2>2, <2>3, <1>1
  <2>5. up[n - 1] = g[n - 1]
    BY <2>4
  <2>6. up[n] = g[n]
    BY <2>2, <2>3, <2>5, <1>9, <1>10
  <2> QED BY <2>2, <2>6
<1>12. ASSUME NEW i \in 1 .. N PROVE up[N - i] = Document(s.data, chain[i].at)
  <2>1. N - i \in 0 .. (N - 1) /\ N - (N - i) = i
    BY <1>1
  <2>2. up[N - i] = g[N - i]
    BY <2>1, <1>11
  <2> QED BY <2>1, <2>2 DEF g
<1>13. Reference(s) = [i \in 1 .. N |-> Document(s.data, chain[i].at)]
  BY <1>1 DEF Reference, N
<1> QED BY <1>4, <1>12, <1>13 DEF t

\* An edit that fails or is what the reference says.
LEMMA Applied ==
    ASSUME Inv, NEW s, NEW it, NEW t, Apply(s, it, t),
           \/ s = Fails(Store)
           \/ /\ Edited(Store, s, path) /\ t = Document(s.data, Home(Store))
              /\ Lands(s.data, Home(Store), it, FALSE)
    PROVE  Inv'
<1>1. StoreOk(Store, path) /\ path \in Seq(Nat) /\ docs = Reference(Store)
  BY DEF Inv, StateOk
<1>2. path' = path /\ data' = s.data /\ cap' = s.cap /\ shared' = s.shared /\ chain' = s.chain
  BY DEF Apply
<1>3. /\ ret' = [ok |-> s.ok, it |-> IF s.ok THEN it ELSE bson_end(s.data, Home(s))]
      /\ docs' = IF s.ok THEN Graft(t) ELSE docs
  BY DEF Apply
<1>4. Store' = [data |-> s.data, cap |-> s.cap, shared |-> s.shared, chain |-> s.chain, ok |-> TRUE]
  BY <1>2 DEF Store
<1>5. CASE s = Fails(Store)
  <2>1. s.ok = FALSE /\ s.data = data /\ s.cap = cap /\ s.shared = shared /\ s.chain = chain
    BY <1>1, <1>5, Failed, StoreFields
  <2>2. Store' = Store
    BY <2>1, <1>4 DEF Store
  <2>3. docs' = docs /\ ret'.ok = FALSE /\ ret'.it = bson_end(data, Home(Store))
    <3>1. Home(s) = Home(Store)
      BY <2>1, StoreFields DEF Home
    <3> QED BY <3>1, <2>1, <1>3
  <2>4. Lands(data, Home(Store), bson_end(data, Home(Store)), TRUE)
    <3>1. data \in Buffer /\ Valid(data, Home(Store))
      BY <1>1, HomeParts, StoreFields
    <3> QED BY <3>1, EndLands
  <2>5. StateOk(Store, path, docs, ret')
    BY <2>3, <2>4, <1>1, StoreFields DEF StateOk
  <2> QED BY <2>2, <2>3, <2>5, <1>2 DEF Inv
<1>6. CASE s # Fails(Store)
  <2>1. Edited(Store, s, path) /\ t = Document(s.data, Home(Store)) /\ Lands(s.data, Home(Store), it, FALSE)
    BY <1>6
  <2>2. StoreOk(s, path) /\ s.chain = Store.chain
    BY <2>1 DEF Edited
  <2>3. s.ok = TRUE /\ Store' = s
    BY <2>2, <1>4 DEF StoreOk, IsStore
  <2>4. docs' = Reference(s)
    BY <2>1, <2>3, <1>3, Grafted
  <2>5. ret'.ok = TRUE /\ ret'.it = it /\ Home(s) = Home(Store)
    BY <2>2, <2>3, <1>3 DEF Home
  <2>6. StateOk(s, path, docs', ret')
    BY <2>1, <2>2, <2>4, <2>5, <1>1 DEF StateOk
  <2> QED BY <2>3, <2>6, <1>2 DEF Inv
<1> QED BY <1>5, <1>6

-----------------------------------------------------------------------------
(* The operations.                                                         *)

\* The iterators of the innermost document, whose elements are at a.
WalkAt(a, w) ==
    /\ Whole(data, Home(Store), a) /\ w = WalkOver(data, Home(Store), a)
    /\ Here = Document(data, Home(Store)) /\ Len(Here) = Len(a) - 1
    /\ \E S : Here \in Seq(S)
    /\ Len(w) = Len(a) /\ Len(a) \in Nat /\ DOMAIN w = 1 .. Len(a)
    /\ \A k \in 1 .. Len(a) : /\ w[k] = IteratorOf(data, Home(Store), a, k)
                              /\ w[k].at = a[k] /\ a[k] \in Nat /\ Home(Store) + 4 <= a[k]
                              /\ a[k] <= (Home(Store) + Size(data, Home(Store))) - 1
    /\ chain[Top].at = Home(Store) /\ Top = Len(Store.chain) /\ Top \in Nat /\ Top >= 1
    /\ data \in Buffer /\ Len(data) \in Nat /\ Len(data) <= MaxInt /\ Home(Store) \in Nat
    /\ Size(data, Home(Store)) \in Nat /\ Home(Store) + Size(data, Home(Store)) <= Len(data)
    /\ StoreOk(Store, path) /\ Store.data = data

\* In every state that satisfies the invariant there is such a walk.
LEMMA ElementsWalk ==
    ASSUME Inv
    PROVE  \E a : WalkAt(a, Elements)
<1> DEFINE p == Home(Store)
<1>1. StoreOk(Store, path) /\ docs = Reference(Store)
  BY DEF Inv, StateOk
<1>2. /\ data \in Buffer /\ Len(data) \in Nat /\ Len(data) <= MaxInt
      /\ p \in Nat /\ Valid(data, p) /\ Size(data, p) \in Nat
      /\ p + Size(data, p) <= Len(data)
      /\ Len(chain) \in Nat /\ Len(chain) >= 1
  BY <1>1, HomeParts, StoreFields
<1>3. chain[Top].at = p /\ Top = Len(Store.chain) /\ Top \in Nat /\ Top >= 1 /\ Top = Len(chain)
  BY <1>2, StoreFields DEF Top, Home
<1>4. PICK a : Whole(data, p, a)
  BY <1>2, ValidUnfolds
<1>5. IsLayout(data, p, a)
  BY <1>4 DEF Whole
<1>6. /\ Len(a) \in Nat /\ Len(a) >= 1 /\ \A k \in 1 .. Len(a) : a[k] \in Nat
      /\ \A k \in 1 .. Len(a) : p + 4 <= a[k] /\ a[k] <= (p + Size(data, p)) - 1
  BY <1>2, <1>5, LayoutOrder
<1>7. Elements = WalkOver(data, p, a)
  BY <1>2, <1>3, <1>5, WalkIs DEF Elements
<1>8. Document(data, p) = [k \in 1 .. (Len(a) - 1) |-> ElementAt(data, a[k])]
  BY <1>2, <1>5, DocumentIs
<1>9. Here = Document(data, p)
  <2>1. Top \in 1 .. Len(Store.chain)
    BY <1>3
  <2>2. docs[Top] = Document(Store.data, Store.chain[Top].at)
    BY <2>1, <1>1 DEF Reference
  <2> QED BY <2>2, <1>3, StoreFields DEF Here
<1> HIDE DEF p
<1> DEFINE n == Len(a)
           w == WalkOver(data, p, a)
           D == Document(data, p)
<1>10. /\ DOMAIN w = 1 .. n /\ Len(w) = n
       /\ \A k \in 1 .. n : w[k] = IteratorOf(data, p, a, k)
  <2>1. w = [k \in 1 .. n |-> IteratorOf(data, p, a, k)] /\ n \in Nat
    BY <1>6 DEF WalkOver
  <2> HIDE DEF w, n
  <2> QED BY <2>1
<1>11. \A k \in 1 .. n : w[k].at = a[k]
  <2>1. \A k : IteratorOf(data, p, a, k).at = a[k]
    BY DEF IteratorOf, Iterator
  <2> HIDE DEF w
  <2> QED BY <2>1, <1>10
<1>12. Len(D) = n - 1 /\ \E S : D \in Seq(S)
  <2> DEFINE m == n - 1
             S == {ElementAt(data, a[k]) : k \in 1 .. m}
  <2>1. D = [k \in 1 .. m |-> ElementAt(data, a[k])] /\ m \in Nat
    BY <1>6, <1>8
  <2>2. D \in [1 .. m -> S] /\ m \in Nat
    BY <2>1
  <2> HIDE DEF D, m, S
  <2>3. D \in Seq(S) /\ Len(D) = m
    BY <2>2
  <2> QED BY <2>3 DEF m
<1>13. WalkAt(a, Elements)
  <2> HIDE DEF w, D, n
  <2>1. /\ Here = D /\ Len(D) = Len(a) - 1 /\ \E S : D \in Seq(S)
        /\ Len(w) = Len(a) /\ DOMAIN w = 1 .. Len(a)
        /\ \A k \in 1 .. Len(a) : w[k] = IteratorOf(data, p, a, k) /\ w[k].at = a[k]
        /\ Elements = w
    BY <1>7, <1>9, <1>10, <1>11, <1>12 DEF w, D, n
  <2> QED BY <2>1, <1>1, <1>2, <1>3, <1>4, <1>6, StoreFields DEF WalkAt, p, w, D
<1> QED BY <1>13

\* A splice of whole elements ins, whose run is f, for the elements k .. l - 1.
LEMMA RangeApplied ==
    ASSUME NEW a, NEW w, WalkAt(a, w), NEW k \in 1 .. Len(a), NEW l \in k .. Len(a),
           NEW ins \in Buffer, Len(ins) <= MaxInt, NEW f, Run(ins, f), f[1] = 0, f[Len(f)] = Len(ins),
           NEW r, NEW alloc, r = _bson_splice_region(Store, Top, a[k], a[l] - a[k], ins, alloc)
    PROVE  r = Fails(Store) \/ Ranged(Store, r, path, a, k, l, ins, f)
<1>1. /\ StoreOk(Store, path) /\ Whole(data, Home(Store), a) /\ Store.data = data /\ Top = Len(Store.chain)
      /\ Home(Store) \in Nat /\ data \in Buffer
  BY DEF WalkAt
<1>2. a[k] \in Nat /\ Home(Store) + 4 <= a[k] /\ l \in 1 .. Len(a) /\ k <= l /\ Len(a) \in Nat
  BY SMTT(30) DEF WalkAt
<1>3. a[l] \in Nat /\ a[l] <= Len(data)
  <2>1. a[l] \in Nat /\ a[l] <= (Home(Store) + Size(data, Home(Store))) - 1
    BY <1>2 DEF WalkAt
  <2>2. Home(Store) \in Nat /\ Size(data, Home(Store)) \in Nat /\ Len(data) \in Nat /\ Home(Store) + Size(data, Home(Store)) <= Len(data)
    BY DEF WalkAt
  <2> QED BY <2>1, <2>2
<1>4. a[k] <= a[l]
  BY <1>1, <1>2, LayoutGrows
<1> DEFINE x == a[k]
           nd == a[l] - a[k]
<1>5. x \in Nat /\ nd \in Nat /\ x + nd <= Len(Store.data) /\ Store.chain[Len(Store.chain)].at + 4 <= x
  BY <1>1, <1>2, <1>3, <1>4, SMTT(30) DEF Home
<1>6. r = _bson_splice_region(Store, Len(Store.chain), x, nd, ins, alloc)
  BY <1>1
<1> HIDE DEF x, nd
<1>7. r = Fails(Store) \/ Level(Store, r, x, nd, ins, Len(Store.chain))
  BY <1>1, <1>5, <1>6, RegionSpliced
<1>8. ASSUME Level(Store, r, x, nd, ins, Len(Store.chain))
      PROVE  Ranged(Store, r, path, a, k, l, ins, f)
  <2>1. Level(Store, r, a[k], a[l] - a[k], ins, Len(Store.chain)) /\ Whole(Store.data, Home(Store), a)
    BY <1>8, <1>1 DEF x, nd
  <2> QED BY <2>1, <1>1, RangeEdited
<1> QED BY <1>7, <1>8

\* Insertion.
LEMMA InsertKeeps ==
    ASSUME Inv, NEW k \in DOMAIN Elements, NEW key \in Keys, NEW v \in Values, NEW alloc,
           Insert(Elements, k, key, v, alloc)
    PROVE  Inv'
<1>1. PICK a : WalkAt(a, Elements)
  BY ElementsWalk
<1> DEFINE p == Home(Store)
           x == a[k]
           e == Element(key, v)
           s == IF NonNegativeInt32(Len(e)) THEN _bson_splice_region(Store, Top, x, 0, e, alloc) ELSE Fails(Store)
           f == <<0, Len(e)>>
           it == InsertedIterator(s, x, Len(key))
           t == InsertAt(Here, k, Denoted(key, v))
<1>2. /\ k \in 1 .. Len(a) /\ Elements[k].at = x /\ x \in Nat /\ p \in Nat
      /\ Here = Document(data, p) /\ Len(a) \in Nat /\ k \in Nat
  BY <1>1, SMTT(30) DEF WalkAt
<1>3. Apply(s, it, t)
  BY <1>2 DEF Insert
<1>4. \/ s = Fails(Store)
      \/ Edited(Store, s, path) /\ t = Document(s.data, p) /\ Lands(s.data, p, it, FALSE)
  <2> SUFFICES ASSUME s # Fails(Store)
               PROVE  Edited(Store, s, path) /\ t = Document(s.data, p) /\ Lands(s.data, p, it, FALSE)
    OBVIOUS
  <2>1. NonNegativeInt32(Len(e)) /\ s = _bson_splice_region(Store, Top, x, 0, e, alloc)
    OBVIOUS
  <2>2. Len(e) <= MaxInt /\ Len(e) \in Nat
    BY <2>1, SizesAssumption DEF NonNegativeInt32
  <2>3. e \in Buffer /\ GoodElem(e, 0, Len(e)) /\ KeyLen(e, 0) = Len(key) /\ ElementAt(e, 0) = Denoted(key, v)
    BY <2>2, ElementStands DEF Stands
  <2>4. Run(e, f) /\ Len(f) = 2 /\ f[1] = 0 /\ f[Len(f)] = Len(e) /\ ElementsOf(e, f) = <<ElementAt(e, 0)>>
    <3>1. 0 \in Nat
      OBVIOUS
    <3> QED BY <3>1, <2>2, <2>3, OneElement
  <2> HIDE DEF e, f, s, x, p
  <2>5. s = _bson_splice_region(Store, Top, a[k], a[k] - a[k], e, alloc)
    <3>1. x - x = 0
      BY <1>2
    <3> QED BY <3>1, <2>1 DEF x
  <2>6. k \in k .. Len(a)
    BY <1>2
  <2>7. Ranged(Store, s, path, a, k, k, e, f)
    BY <2>2, <2>3, <2>4, <2>5, <2>6, <1>1, <1>2, RangeApplied
  <2>8. /\ Edited(Store, s, path)
        /\ Document(s.data, p) = SubSeq(Document(data, p), 1, k - 1) \o ElementsOf(e, f)
                                   \o SubSeq(Document(data, p), k, Len(Document(data, p)))
    BY <2>7, StoreFields DEF Ranged, p
  <2>9. t = Document(s.data, p)
    BY <2>3, <2>4, <2>8, <1>2 DEF InsertAt
  <2>10. Lands(s.data, p, it, FALSE)
    <3> DEFINE S == Size(s.data, p)
    <3>1. Lands(s.data, p, Iterator(x, KeyLen(e, 0), (p + S) - x), FALSE)
      <4> DEFINE kl == IF Len(f) > 1 THEN KeyLen(e, 0)
                       ELSE IF k = Len(a) THEN 0 ELSE KeyLen(Store.data, a[k])
      <4>1. Lands(s.data, p, Iterator(x, kl, (p + S) - x), FALSE)
        BY <2>7 DEF Ranged, p, x
      <4>2. kl = KeyLen(e, 0)
        <5>1. Len(f) > 1
          BY <2>4
        <5> QED BY <5>1
      <4> HIDE DEF kl
      <4> QED BY <4>1, <4>2
    <3>2. Home(s) = p
      BY <2>8 DEF Edited, Home, p
    <3>3. it = Iterator(x, Len(key), S - (x - p))
      BY <3>2 DEF InsertedIterator
    <3>4. S \in Nat
      <4>1. StoreOk(s, path)
        BY <2>8 DEF Edited
      <4> QED BY <4>1, <3>2, HomeParts
    <3> HIDE DEF S
    <3>5. S - (x - p) = (p + S) - x
      BY <3>4, <1>2
    <3> QED BY <3>1, <3>3, <3>5, <2>3
  <2> QED BY <2>8, <2>9, <2>10
<1> HIDE DEF s, it, t
<1> QED BY <1>3, <1>4, Applied

\* Renaming.
LEMMA SetKeyKeeps ==
    ASSUME Inv, NEW k \in 1 .. (Len(Elements) - 1), NEW key \in Keys, NEW alloc,
           SetKey(Elements, k, key, alloc)
    PROVE  Inv'
<1>1. PICK a : WalkAt(a, Elements)
  BY ElementsWalk
<1> DEFINE p == Home(Store)
           pos == IteratorOf(data, p, a, k)
           s == _bson_set_key(Store, pos, key, alloc)
           it == SetKeyIterator(pos, key)
           t == [Here EXCEPT ![k].key = key]
<1>2. /\ k \in 1 .. (Len(a) - 1) /\ Elements[k] = pos /\ Here = Document(data, p) /\ Len(a) \in Nat
      /\ StoreOk(Store, path) /\ Whole(Store.data, p, a) /\ Store.data = data /\ k \in 1 .. Len(a)
  <2>1. Len(a) \in Nat /\ Len(Elements) = Len(a)
    BY <1>1 DEF WalkAt
  <2>2. k \in 1 .. (Len(a) - 1) /\ k \in 1 .. Len(a)
    BY <2>1
  <2> QED BY <2>1, <2>2, <1>1 DEF WalkAt
<1>3. Apply(s, it, t)
  BY <1>2 DEF SetKey
<1>4. IsKey(key)
  BY KeyIs DEF IsKey
<1>5. s = Fails(Store) \/ \E a2 : Rekeyed(Store, s, path, a, k, key, a2)
  <2>1. s = _bson_set_key(Store, IteratorOf(Store.data, Home(Store), a, k), key, alloc)
    BY <1>2
  <2> HIDE DEF s
  <2> QED BY <2>1, <1>2, <1>4, KeyEdited
<1>6. ASSUME NEW a2, Rekeyed(Store, s, path, a, k, key, a2)
      PROVE  Edited(Store, s, path) /\ t = Document(s.data, p) /\ Lands(s.data, p, it, FALSE)
  <2> HIDE DEF s
  <2>1. /\ Edited(Store, s, path) /\ Whole(s.data, p, a2) /\ Len(a2) = Len(a)
        /\ Document(s.data, p) = [Document(data, p) EXCEPT ![k].key = key]
        /\ it = IteratorOf(s.data, p, a2, k)
    BY <1>2, <1>6 DEF Rekeyed
  <2>2. k \in 1 .. Len(a2)
    BY <2>1, <1>2
  <2> HIDE DEF it, p
  <2>3. Lands(s.data, p, it, FALSE)
    BY <2>1, <2>2 DEF Lands
  <2> QED BY <2>1, <2>3, <1>2
<1> HIDE DEF s, it, t
<1>7. \/ s = Fails(Store)
      \/ Edited(Store, s, path) /\ t = Document(s.data, p) /\ Lands(s.data, p, it, FALSE)
  BY <1>5, <1>6
<1> QED BY <1>3, <1>7, Applied

\* The bytes of the elements f .. g - 1 of Other, and the run h of those elements.
Copied(o, f, g, copy, h) ==
    /\ copy \in Buffer /\ Len(copy) = o[g] - o[f] /\ Len(copy) <= MaxInt /\ Len(copy) \in Nat
    /\ Run(copy, h) /\ h[1] = 0 /\ h[Len(h)] = Len(copy) /\ Len(h) = (g - f) + 1
    /\ ElementsOf(copy, h) = SubSeq(OtherElements, f, g - 1)
    /\ f < g <=> copy # << >>
    /\ f < g => KeyLen(copy, 0) = KeyLen(Other, o[f])

\* Part of a sequence of numbers.
LEMMA PartOf ==
    ASSUME NEW S, NEW o \in Seq(S), NEW f \in 1 .. Len(o), NEW g \in f .. Len(o)
    PROVE  LET e == SubSeq(o, f, g)
           IN /\ e \in Seq(S) /\ Len(e) = (g - f) + 1
              /\ \A j \in 1 .. ((g - f) + 1) : e[j] = o[(f + j) - 1] /\ (f + j) - 1 \in f .. g
<1>1. f \in Nat /\ g \in Nat /\ Len(o) \in Nat /\ 1 <= f /\ f <= g /\ g <= Len(o)
  OBVIOUS
<1> DEFINE e == SubSeq(o, f, g)
<1>2. e \in Seq(S) /\ Len(e) = (g - f) + 1
  BY <1>1
<1>3. ASSUME NEW j \in 1 .. ((g - f) + 1) PROVE e[j] = o[(f + j) - 1] /\ (f + j) - 1 \in f .. g
  <2>1. (f + j) - 1 \in f .. g /\ f + j - 1 = (f + j) - 1
    BY <1>1
  <2>2. e[j] = o[f + j - 1]
    BY <1>1
  <2> QED BY <2>1, <2>2
<1> QED BY <1>2, <1>3

\* The bytes of a range of Other are its elements.
LEMMA RangeCopied ==
    ASSUME NEW o, Whole(Other, 0, o), NEW f \in 1 .. Len(o), NEW g \in f .. Len(o)
    PROVE  \E h : Copied(o, f, g, Bytes(Other, o[f], o[g] - o[f]), h)
<1> DEFINE n == Len(o)
           x == o[f]
           y == o[g]
           m == y - x
           copy == Bytes(Other, x, m)
           e == SubSeq(o, f, g)
           l == (g - f) + 1
<1>1. Other \in Buffer /\ Len(Other) <= MaxInt /\ Size(Other, 0) = Len(Other) /\ Len(Other) \in Nat
  BY ViewsAssumption, ViewIsValid DEF Buffer
<1>2. IsLayout(Other, 0, o) /\ o \in Seq(Nat)
  BY DEF Whole, IsLayout
<1>3. n \in Nat /\ g \in 1 .. n /\ f <= g /\ f \in Nat /\ g \in Nat /\ 1 <= f /\ g <= n
  BY <1>2
<1>4. /\ \A j \in 1 .. n : o[j] \in Nat /\ o[j] <= Len(Other)
      /\ \A j \in 1 .. (n - 1) : GoodElem(Other, o[j], o[j + 1])
      /\ \A i, j \in 1 .. n : i <= j => o[i] + 2 * (j - i) <= o[j]
  <2>1. /\ \A j \in 1 .. n : o[j] \in Nat /\ o[j] <= (0 + Size(Other, 0)) - 1
        /\ \A i, j \in 1 .. n : i <= j => o[i] + 2 * (j - i) <= o[j]
    BY <1>1, <1>2, LayoutOrder
  <2>2. \A j \in 1 .. n : o[j] <= Len(Other)
    BY <2>1, <1>1
  <2> QED BY <2>1, <2>2 DEF Whole
<1>5. x \in Nat /\ y \in Nat /\ y <= Len(Other) /\ x + 2 * (g - f) <= y
  BY <1>3, <1>4
<1>6. m \in Nat /\ x + m = y /\ (f < g => m > 0) /\ (f = g => m = 0)
  <2>1. f = g => x = y
    OBVIOUS
  <2> HIDE DEF x, y
  <2> QED BY <2>1, <1>3, <1>5
<1>7. copy \in Buffer /\ Len(copy) = m /\ \A j \in 1 .. m : copy[j] = Other[x + j]
  <2> HIDE DEF m, x
  <2> QED BY <1>1, <1>5, <1>6, BytesOf
<1>8. e \in Seq(Nat) /\ Len(e) = l /\ \A j \in 1 .. l : e[j] = o[(f + j) - 1] /\ (f + j) - 1 \in f .. g
  BY <1>2, PartOf
<1>9. l \in Nat /\ l >= 1 /\ 1 \in 1 .. l /\ l \in 1 .. l /\ (f + 1) - 1 = f /\ (f + l) - 1 = g
  BY <1>3
<1>10. e[1] = x /\ e[Len(e)] = y
  BY <1>8, <1>9
<1> HIDE DEF copy, e, l, m
<1>11. Run(Other, e)
  <2>1. ASSUME NEW j \in 1 .. (l - 1) PROVE GoodElem(Other, e[j], e[j + 1])
    <3>1. j \in 1 .. l /\ j + 1 \in 1 .. l /\ (f + (j + 1)) - 1 = ((f + j) - 1) + 1
      BY <1>3, <1>9
    <3>2. (f + j) - 1 \in 1 .. (n - 1)
      BY <1>3, <1>9 DEF l
    <3>3. e[j] = o[(f + j) - 1] /\ e[j + 1] = o[((f + j) - 1) + 1]
      BY <3>1, <1>8, SMTT(30)
    <3> QED BY <3>2, <3>3, <1>4
  <2> QED BY <2>1, <1>8, <1>9 DEF Run
<1> DEFINE h == MovedTo(e, 0)
<1>12. SameRun(Other, e, copy, h, 0)
  <2>1. e[Len(e)] - e[1] = m
    BY <1>10 DEF m
  <2>2. Same(Other, e[1], copy, 0, m)
    <3>1. \A j \in 1 .. m : copy[0 + j] = Other[x + j]
      <4>1. \A j \in 1 .. m : 0 + j = j
        BY <1>6
      <4> QED BY <4>1, <1>7
    <3> QED BY <3>1, <1>10 DEF Same
  <2>3. 0 + m <= Len(copy) /\ Len(copy) <= MaxInt
    BY <1>1, <1>5, <1>6, <1>7, SizesAssumption
  <2> QED BY <2>1, <2>2, <2>3, <1>1, <1>7, <1>11, RunMoves
<1>13. /\ Run(copy, h) /\ Len(h) = l /\ h[1] = 0 /\ h[Len(h)] = m
       /\ ElementsOf(copy, h) = ElementsOf(Other, e)
       /\ \A j \in 1 .. (l - 1) : KeyLen(copy, h[j]) = KeyLen(Other, e[j])
  <2> HIDE DEF h
  <2>1. h[Len(h)] = 0 + (e[Len(e)] - e[1])
    BY <1>12 DEF SameRun
  <2>2. 0 + (e[Len(e)] - e[1]) = m
    BY <1>10, <1>5 DEF m
  <2> QED BY <2>1, <2>2, <1>8, <1>12 DEF SameRun
<1> HIDE DEF h
<1>14. f < g => KeyLen(copy, 0) = KeyLen(Other, x)
  <2> SUFFICES ASSUME f < g PROVE KeyLen(copy, 0) = KeyLen(Other, x)
    OBVIOUS
  <2>1. 1 \in 1 .. (l - 1)
    BY <1>3 DEF l
  <2>2. KeyLen(copy, h[1]) = KeyLen(Other, e[1])
    BY <2>1, <1>13
  <2> QED BY <2>2, <1>10, <1>13
<1>15. f < g <=> copy # << >>
  <2>1. copy = << >> <=> Len(copy) = 0
    BY <1>7 DEF Buffer
  <2> QED BY <2>1, <1>3, <1>6, <1>7
<1>16. ElementsOf(Other, e) = SubSeq(OtherElements, f, g - 1)
  <2> DEFINE D == OtherElements
             N == n - 1
             S == {ElementAt(Other, o[j]) : j \in 1 .. N}
             Q == SubSeq(D, f, g - 1)
             E == ElementsOf(Other, e)
  <2>1. D = [j \in 1 .. N |-> ElementAt(Other, o[j])]
    BY <1>1, <1>2, DocumentIs DEF OtherElements
  <2>2. D \in [1 .. N -> S] /\ N \in Nat
    <3>1. N \in Nat
      BY <1>3
    <3> QED BY <2>1, <3>1
  <2> HIDE DEF S, N, D
  <2>3. D \in Seq(S) /\ Len(D) = N
    BY <2>2
  <2>4. g - 1 <= N /\ N \in Int /\ g - 1 \in Int /\ l - 1 = g - f /\ l - 1 \in Nat /\ (g - 1) - f + 1 = l - 1
    BY <1>3 DEF N, l
  <2>5. Q \in Seq(S) /\ Len(Q) = l - 1 /\ \A j \in 1 .. (l - 1) : Q[j] = D[f + j - 1]
    <3>1. Q = [j \in 1 .. (g - f) |-> D[f + j - 1]]
      BY <2>3, <2>4, <1>3
    <3>2. \A j \in 1 .. (g - f) : f + j - 1 \in 1 .. N
      BY <2>4, <1>3
    <3>3. Q \in [1 .. (g - f) -> S]
      BY <2>2, <3>1, <3>2
    <3>4. g - f \in Nat
      BY <1>3
    <3> DEFINE q == g - f
    <3> HIDE DEF q, Q
    <3>5. Q \in [1 .. q -> S] /\ q \in Nat /\ q = l - 1
      BY <2>4, <3>3, <3>4 DEF q
    <3>6. Q \in Seq(S) /\ Len(Q) = q
      BY <3>5
    <3>7. \A j \in 1 .. q : Q[j] = D[f + j - 1]
      BY <3>1 DEF q
    <3> QED BY <3>5, <3>6, <3>7
  <2>6. E = [j \in 1 .. (l - 1) |-> ElementAt(Other, e[j])]
    BY <1>8 DEF ElementsOf
  <2>7. ASSUME NEW j \in 1 .. (l - 1) PROVE Q[j] = ElementAt(Other, e[j])
    <3>1. j \in 1 .. l /\ f + j - 1 = (f + j) - 1 /\ f + j - 1 \in 1 .. N
      BY <2>4, <1>3, <1>9
    <3>2. e[j] = o[f + j - 1]
      BY <3>1, <1>8
    <3>3. D[f + j - 1] = ElementAt(Other, o[f + j - 1])
      BY <3>1, <2>1
    <3> QED BY <3>2, <3>3, <2>5
  <2>8. Q = [j \in 1 .. (l - 1) |-> Q[j]]
    <3> HIDE DEF Q
    <3> QED BY <2>5
  <2> HIDE DEF Q, E
  <2>9. Q = E
    BY <2>6, <2>7, <2>8
  <2> QED BY <2>9 DEF Q, E, D
<1>17. Len(copy) <= MaxInt
  BY <1>1, <1>5, <1>6, <1>7, SizesAssumption
<1>18. Copied(o, f, g, copy, h)
  BY <1>6, <1>7, <1>13, <1>14, <1>15, <1>16, <1>17 DEF Copied, m, l
<1> QED BY <1>18 DEF copy, m

\* Erasing and splicing ranges.
LEMMA SpliceKeeps ==
    ASSUME Inv, NEW alloc, NEW k \in DOMAIN Elements, NEW f \in DOMAIN OtherWalk,
           NEW l \in k .. Len(Elements), NEW g \in f .. Len(OtherWalk),
           bson_splice_disjoint_ranges(Elements, k, l, f, g, alloc)
    PROVE  Inv'
<1>1. PICK a : WalkAt(a, Elements)
  BY ElementsWalk
<1>2. PICK o : Whole(Other, 0, o)
  BY ViewsAssumption, ViewIsValid, ValidUnfolds
<1>3. OtherWalk = WalkOver(Other, 0, o) /\ Len(o) \in Nat
  <2>1. IsLayout(Other, 0, o)
    BY <1>2 DEF Whole
  <2>2. Other \in Buffer /\ Len(Other) <= MaxInt
    BY ViewsAssumption, ViewIsValid
  <2> QED BY <2>1, <2>2, WalkIs, LayoutOrder DEF OtherWalk
<1>4. /\ DOMAIN OtherWalk = 1 .. Len(o) /\ Len(OtherWalk) = Len(o)
      /\ \A j \in 1 .. Len(o) : OtherWalk[j] = IteratorOf(Other, 0, o, j)
  <2> DEFINE n == Len(o)
             w == WalkOver(Other, 0, o)
  <2>1. w = [j \in 1 .. n |-> IteratorOf(Other, 0, o, j)] /\ n \in Nat
    BY <1>3 DEF WalkOver
  <2> HIDE DEF w, n
  <2>2. DOMAIN w = 1 .. n /\ Len(w) = n /\ \A j \in 1 .. n : w[j] = IteratorOf(Other, 0, o, j)
    BY <2>1
  <2> QED BY <2>2, <1>3 DEF w, n
<1> DEFINE p == Home(Store)
           x == a[k]
           y == a[l]
           copy == Bytes(Other, o[f], o[g] - o[f])
           nd == y - x
           rl == ((p + Size(data, p)) - x) + Len(copy) - nd
           s == IF Int32(Len(copy) - nd) /\ PositiveInt32(rl)
                THEN _bson_splice_region(Store, Top, x, nd, copy, alloc) ELSE Fails(Store)
           kl == IF copy # << >> THEN (IF f = Len(o) THEN 0 ELSE KeyLen(Other, o[f]))
                 ELSE (IF l = Len(a) THEN 0 ELSE KeyLen(data, y))
           it == Iterator(x, kl, rl)
           t == SubSeq(Here, 1, k - 1) \o SubSeq(OtherElements, f, g - 1) \o SubSeq(Here, l, Len(Here))
<1>5. f \in 1 .. Len(o) /\ g \in f .. Len(o) /\ g \in 1 .. Len(o)
  <2>1. f \in 1 .. Len(o) /\ g \in f .. Len(o)
    BY <1>4
  <2> QED BY <2>1, <1>3
<1>6. /\ k \in 1 .. Len(a) /\ l \in k .. Len(a) /\ l \in 1 .. Len(a) /\ Len(a) \in Nat
      /\ Here = Document(data, p) /\ p \in Nat /\ Size(data, p) \in Nat
  <2>1. /\ k \in 1 .. Len(a) /\ l \in k .. Len(a) /\ Len(a) \in Nat
        /\ Here = Document(data, p) /\ p \in Nat /\ Size(data, p) \in Nat
    BY <1>1 DEF WalkAt
  <2>2. l \in 1 .. Len(a)
    BY <2>1
  <2> QED BY <2>1, <2>2
<1>7. x \in Nat /\ y \in Nat
  BY <1>1, <1>6 DEF WalkAt
<1>8. /\ Elements[k].at = x /\ Elements[k].rlen = (p + Size(data, p)) - x /\ Elements[l].at = y
      /\ Elements[l].keylen = IF l = Len(a) THEN 0 ELSE KeyLen(data, y)
  <2>1. Elements[k] = IteratorOf(data, p, a, k) /\ Elements[l] = IteratorOf(data, p, a, l)
    BY <1>1, <1>6 DEF WalkAt
  <2> QED BY <2>1 DEF IteratorOf, Iterator
<1>9. /\ OtherWalk[f].at = o[f] /\ OtherWalk[g].at = o[g]
      /\ OtherWalk[f].keylen = IF f = Len(o) THEN 0 ELSE KeyLen(Other, o[f])
  <2>1. OtherWalk[f] = IteratorOf(Other, 0, o, f) /\ OtherWalk[g] = IteratorOf(Other, 0, o, g)
    BY <1>4, <1>5
  <2> QED BY <2>1 DEF IteratorOf, Iterator
<1>10. Apply(s, it, t)
  BY <1>8, <1>9 DEF bson_splice_disjoint_ranges
<1>11. PICK h : Copied(o, f, g, copy, h)
  BY <1>2, <1>5, RangeCopied
<1> HIDE DEF copy
<1>12. \/ s = Fails(Store)
       \/ Edited(Store, s, path) /\ t = Document(s.data, p) /\ Lands(s.data, p, it, FALSE)
  <2> SUFFICES ASSUME s # Fails(Store)
               PROVE  Edited(Store, s, path) /\ t = Document(s.data, p) /\ Lands(s.data, p, it, FALSE)
    OBVIOUS
  <2>1. s = _bson_splice_region(Store, Top, x, nd, copy, alloc)
    OBVIOUS
  <2>2. /\ copy \in Buffer /\ Len(copy) <= MaxInt /\ Len(copy) \in Nat
        /\ Run(copy, h) /\ h[1] = 0 /\ h[Len(h)] = Len(copy) /\ Len(h) = (g - f) + 1
        /\ ElementsOf(copy, h) = SubSeq(OtherElements, f, g - 1)
        /\ f < g <=> copy # << >>
        /\ f < g => KeyLen(copy, 0) = KeyLen(Other, o[f])
    BY <1>11 DEF Copied
  <2> HIDE DEF s, t, it, rl, kl
  <2>3. Ranged(Store, s, path, a, k, l, copy, h)
    BY <2>1, <2>2, <1>1, <1>6, RangeApplied
  <2> HIDE DEF p, x, y, nd
  <2>4. /\ Edited(Store, s, path)
        /\ Size(s.data, p) = Size(data, p) + (Len(copy) - nd)
        /\ Document(s.data, p) = SubSeq(Document(data, p), 1, k - 1) \o ElementsOf(copy, h)
                                   \o SubSeq(Document(data, p), l, Len(Document(data, p)))
    BY <2>3, StoreFields DEF Ranged, p, nd, x, y
  <2>5. t = Document(s.data, p)
    BY <2>2, <2>4, <1>6 DEF t
  <2>6. Lands(s.data, p, it, FALSE)
    <3> DEFINE kl2 == IF Len(h) > 1 THEN KeyLen(copy, 0) ELSE IF l = Len(a) THEN 0 ELSE KeyLen(Store.data, y)
    <3>1. Lands(s.data, p, Iterator(x, kl2, (p + Size(s.data, p)) - x), FALSE)
      BY <2>3 DEF Ranged, p, x, y
    <3>2. rl = (p + Size(s.data, p)) - x
      BY <2>2, <2>4, <1>6, <1>7, SMTT(30) DEF rl, nd
    <3>3. kl = kl2
      <4>1. f \in Nat /\ g \in Nat /\ Len(o) \in Nat /\ f <= g /\ g <= Len(o)
        BY <1>3, <1>5
      <4>2. Len(h) > 1 <=> f < g
        BY <2>2, <4>1, SMTT(30)
      <4>3. CASE f < g
        <5>1. f # Len(o)
          BY <4>1, <4>3
        <5> QED BY <5>1, <4>2, <4>3, <2>2 DEF kl
      <4>4. CASE ~(f < g)
        BY <4>2, <4>4, <2>2, StoreFields DEF kl
      <4> QED BY <4>3, <4>4
    <3> HIDE DEF kl2
    <3> QED BY <3>1, <3>2, <3>3 DEF it
  <2> QED BY <2>4, <2>5, <2>6
<1> HIDE DEF s, it, t
<1> QED BY <1>10, <1>12, Applied

\* Element k of D is a record with the value v.
Row(D, k, v) ==
    /\ D = [j \in DOMAIN D |-> D[j]] /\ k \in DOMAIN D
    /\ D[k] = [key |-> D[k].key, tag |-> D[k].tag, val |-> D[k].val]
    /\ D[k].val = v

\* The value that it has.
LEMMA SameValue ==
    ASSUME NEW D, NEW k, NEW v, Row(D, k, v)
    PROVE  [D EXCEPT ![k].val = v] = D
<1> DEFINE e == D[k]
           f == [e EXCEPT !.val = v]
<1>1. f = e
  <2> DEFINE x == e.key
             y == e.tag
             z == e.val
  <2>1. e = [key |-> x, tag |-> y, val |-> z] /\ z = v
    BY DEF Row
  <2> HIDE DEF e, x, y, z
  <2> QED BY <2>1
<1>2. [D EXCEPT ![k].val = v] = [D EXCEPT ![k] = f]
  OBVIOUS
<1> HIDE DEF f
<1>3. [D EXCEPT ![k] = f] = D
  BY <1>1 DEF Row
<1> QED BY <1>2, <1>3

\* B is D, with the value v of its element k.
Revalued(D, B, k, v) == B = [D EXCEPT ![k].val = v]

\* The last of two values.
LEMMA LastValue ==
    ASSUME NEW D, NEW B, NEW C, NEW k, NEW u, NEW v, NEW w, Row(D, k, w),
           Revalued(D, B, k, u), Revalued(B, C, k, v)
    PROVE  Revalued(D, C, k, v)
<1> DEFINE e == D[k]
           f == [e EXCEPT !.val = u]
           g == [e EXCEPT !.val = v]
           h == [f EXCEPT !.val = v]
           A == [D EXCEPT ![k] = f]
<1>1. h = g
  <2> DEFINE x == e.key
             y == e.tag
             z == e.val
  <2>1. e = [key |-> x, tag |-> y, val |-> z]
    BY DEF Row
  <2> HIDE DEF e, x, y, z
  <2> QED BY <2>1
<1>2. [D EXCEPT ![k].val = v] = [D EXCEPT ![k] = g] /\ [D EXCEPT ![k].val = u] = A
  OBVIOUS
<1>3. D = [j \in DOMAIN D |-> D[j]] /\ k \in DOMAIN D
  BY DEF Row
<1> HIDE DEF e
<1>4. A[k] = f
  BY <1>3
<1>5. [A EXCEPT ![k].val = v] = [A EXCEPT ![k] = h]
  <2> HIDE DEF A, f
  <2> QED BY <1>4
<1>7. B = A
  BY <1>2 DEF Revalued
<1>8. C = [A EXCEPT ![k].val = v]
  <2> HIDE DEF A
  <2> QED BY <1>7 DEF Revalued
<1> HIDE DEF f, g, h
<1>6. [A EXCEPT ![k] = h] = [D EXCEPT ![k] = h]
  BY <1>3
<1> QED BY <1>1, <1>2, <1>5, <1>6, <1>8 DEF Revalued

\* The document of a mutator is the value of the element that its parent knows.
LEMMA LinkValue ==
    ASSUME NEW b \in Buffer, Len(b) <= MaxInt, NEW m, NEW n, NEW k, Link(b, m, n, k)
    PROVE  Row(Document(b, m.at), k, Document(b, n.at))
<1>1. PICK a : /\ Whole(b, m.at, a) /\ k \in 1 .. (Len(a) - 1) /\ Nests(b, a[k])
               /\ n.at = ValueAt(b, a[k])
  BY DEF Link
<1> DEFINE D == Document(b, m.at)
           N == Len(a) - 1
<1>2. D = [j \in 1 .. N |-> ElementAt(b, a[j])]
  BY <1>1, DocumentIs DEF Whole
<1> HIDE DEF D, N
<1>3. DOMAIN D = 1 .. N /\ D[k] = ElementAt(b, a[k]) /\ k \in 1 .. N /\ D = [j \in DOMAIN D |-> D[j]]
  BY <1>1, <1>2 DEF N
<1> DEFINE x == Bytes(b, a[k] + 1, KeyLen(b, a[k]))
           y == b[a[k] + 1]
           z == Document(b, n.at)
<1>4. ElementAt(b, a[k]) = [key |-> x, tag |-> y, val |-> z]
  BY <1>1 DEF ElementAt
<1> HIDE DEF x, y, z
<1>5. D[k] = [key |-> x, tag |-> y, val |-> z]
  BY <1>3, <1>4
<1>6. D[k].key = x /\ D[k].tag = y /\ D[k].val = z
  BY <1>5
<1>7. D[k] = [key |-> D[k].key, tag |-> D[k].tag, val |-> D[k].val]
  BY <1>5, <1>6
<1>8. Row(D, k, z)
  BY <1>3, <1>6, <1>7 DEF Row
<1> QED BY <1>8 DEF D, z

\* The links of a store.
LEMMA StoreLinks ==
    ASSUME NEW s, NEW pa, StoreOk(s, pa), NEW i \in 1 .. (Len(s.chain) - 1)
    PROVE  /\ Link(s.data, s.chain[i], s.chain[i + 1], pa[i])
           /\ Row(Document(s.data, s.chain[i].at), pa[i], Document(s.data, s.chain[i + 1].at))
<1>1. Link(s.data, s.chain[i], s.chain[i + 1], pa[i])
  BY DEF StoreOk, IsChain
<1>2. s.data \in Buffer /\ Len(s.data) <= MaxInt
  BY HomeParts
<1> QED BY <1>1, <1>2, LinkValue

\* No edit at all.
LEMMA EditedSelf ==
    ASSUME NEW s, NEW pa, StoreOk(s, pa)
    PROVE  Edited(s, s, pa)
<1>1. ASSUME NEW i \in 1 .. (Len(s.chain) - 1)
      PROVE  Document(s.data, s.chain[i].at) =
                [Document(s.data, s.chain[i].at) EXCEPT ![pa[i]].val = Document(s.data, s.chain[i + 1].at)]
  BY StoreLinks, SameValue
<1> QED BY <1>1 DEF Edited

\* Two edits.
LEMMA EditedTwice ==
    ASSUME NEW s, NEW r, NEW q, NEW pa, StoreOk(s, pa), Edited(s, r, pa), Edited(r, q, pa)
    PROVE  Edited(s, q, pa)
<1>1. StoreOk(q, pa) /\ q.chain = r.chain /\ r.chain = s.chain
  BY DEF Edited
<1>2. ASSUME NEW i \in 1 .. (Len(s.chain) - 1)
      PROVE  Document(q.data, s.chain[i].at) =
                [Document(s.data, s.chain[i].at) EXCEPT ![pa[i]].val = Document(q.data, s.chain[i + 1].at)]
  <2> DEFINE A == Document(s.data, s.chain[i].at)
             B == Document(r.data, s.chain[i].at)
             C == Document(q.data, s.chain[i].at)
             u == Document(r.data, s.chain[i + 1].at)
             v == Document(q.data, s.chain[i + 1].at)
             w == Document(s.data, s.chain[i + 1].at)
             k == pa[i]
  <2>1. B = [A EXCEPT ![k].val = u]
    BY DEF Edited
  <2>2. C = [B EXCEPT ![k].val = v]
    BY <1>1 DEF Edited
  <2>3. Row(A, k, w)
    BY StoreLinks
  <2> HIDE DEF A, B, C, u, v, w, k
  <2>4. Revalued(A, B, k, u) /\ Revalued(B, C, k, v)
    BY <2>1, <2>2 DEF Revalued
  <2>5. Revalued(A, C, k, v)
    BY <2>3, <2>4, LastValue
  <2> QED BY <2>5 DEF Revalued, A, C, v, k
<1> QED BY <1>1, <1>2 DEF Edited

-----------------------------------------------------------------------------
(* bson_relabel_array_elements().                                          *)

\* f is the function that Relabel() defines, on 0 .. n.
Relabels(f, first, n, alloc) ==
    f = [i \in 0 .. n |-> IF i = 0 THEN first ELSE RelabelStep(f[i - 1], alloc[i])]

\* The loop is defined for any number of steps.
LEMMA RelabelsExist ==
    ASSUME NEW first, NEW alloc, NEW n \in Nat
    PROVE  \E f : Relabels(f, first, n, alloc)
<1> DEFINE T == {m \in Nat : ~ \E f : Relabels(f, first, m, alloc)}
<1> SUFFICES ASSUME T # {} PROVE FALSE
  OBVIOUS
<1>1. PICK m \in T : \A k \in T : m <= k
  <2>1. T \in SUBSET Nat
    OBVIOUS
  <2> HIDE DEF T
  <2> QED BY <2>1, LeastNatural
<1>2. m # 0
  <2>1. Relabels([i \in 0 .. 0 |-> first], first, 0, alloc)
    BY DEF Relabels
  <2> QED BY <2>1
<1>3. m - 1 \in Nat /\ m - 1 \notin T
  BY <1>1, <1>2
<1>4. PICK f : Relabels(f, first, m - 1, alloc)
  BY <1>3
<1> DEFINE e == [i \in 0 .. m |-> IF i = m THEN RelabelStep(f[m - 1], alloc[m]) ELSE f[i]]
<1>5. ASSUME NEW i \in 0 .. m
      PROVE  e[i] = IF i = 0 THEN first ELSE RelabelStep(e[i - 1], alloc[i])
  <2>1. CASE i = m
    <3>1. e[i] = RelabelStep(f[m - 1], alloc[m]) /\ m - 1 \in 0 .. m /\ m - 1 # m
      BY <1>3, <2>1
    <3>2. e[m - 1] = f[m - 1]
      BY <3>1
    <3> QED BY <1>2, <2>1, <3>1, <3>2
  <2>2. CASE i # m
    <3>1. i \in 0 .. (m - 1) /\ e[i] = f[i]
      BY <1>3, <2>2
    <3>2. f[i] = IF i = 0 THEN first ELSE RelabelStep(f[i - 1], alloc[i])
      BY <1>4, <3>1 DEF Relabels
    <3>3. i # 0 => i - 1 \in 0 .. m /\ i - 1 # m
      BY <3>1
    <3>4. i # 0 => e[i - 1] = f[i - 1]
      BY <3>3
    <3> QED BY <3>1, <3>2, <3>4
  <2> QED BY <2>1, <2>2
<1>6. Relabels(e, first, m, alloc)
  BY <1>5 DEF Relabels
<1> QED BY <1>6

\* The first n elements of D have the label.
Labelled(D, n) == [k \in DOMAIN D |-> IF k <= n THEN [D[k] EXCEPT !.key = Label] ELSE D[k]]

\* The loop has relabelled n elements and is at the next.
Labels(q, n, a, a2) ==
    /\ Edited(Store, q.s, path)
    /\ Whole(q.s.data, Home(Store), a2) /\ Len(a2) = Len(a)
    /\ n \in 0 .. (Len(a) - 1)
    /\ q.pos = IteratorOf(q.s.data, Home(Store), a2, n + 1)
    /\ Document(q.s.data, Home(Store)) = Labelled(Here, n)

\* One more label.
LEMMA LabelMore ==
    ASSUME NEW D, NEW n \in Nat, NEW N \in Nat, DOMAIN D = 1 .. N, D = [j \in 1 .. N |-> D[j]], n < N
    PROVE  [Labelled(D, n) EXCEPT ![n + 1].key = Label] = Labelled(D, n + 1)
<1> DEFINE k == n + 1
           L == Labelled(D, n)
           e == [D[k] EXCEPT !.key = Label]
<1>1. k \in 1 .. N /\ ~(k <= n) /\ k <= k /\ k \in Nat
  OBVIOUS
<1>2. L = [j \in 1 .. N |-> IF j <= n THEN [D[j] EXCEPT !.key = Label] ELSE D[j]]
  BY DEF Labelled
<1>3. L[k] = D[k] /\ DOMAIN L = 1 .. N
  BY <1>1, <1>2
<1>4. [L EXCEPT ![k].key = Label] = [L EXCEPT ![k] = e]
  <2> HIDE DEF L, k
  <2> QED BY <1>3
<1> DEFINE R == [L EXCEPT ![k] = e]
           Q == Labelled(D, k)
<1>5. Q = [j \in 1 .. N |-> IF j <= k THEN [D[j] EXCEPT !.key = Label] ELSE D[j]]
  BY DEF Labelled
<1>6. ASSUME NEW j \in 1 .. N PROVE R[j] = Q[j]
  <2>1. CASE j = k
    <3>1. R[j] = e
      <4> HIDE DEF L, e
      <4> QED BY <2>1, <1>1, <1>3
    <3>2. Q[j] = e
      <4> HIDE DEF Q
      <4> QED BY <2>1, <1>1, <1>5
    <3> QED BY <3>1, <3>2
  <2>2. CASE j # k
    <3>1. R[j] = L[j]
      <4> HIDE DEF L, e
      <4> QED BY <2>2, <1>3
    <3>2. j <= k <=> j <= n
      BY <2>2
    <3> HIDE DEF Q, L, R
    <3> QED BY <3>1, <3>2, <1>2, <1>5
  <2> QED BY <2>1, <2>2
<1>7. DOMAIN R = 1 .. N /\ R = [j \in 1 .. N |-> R[j]]
  <2> HIDE DEF L, e
  <2> QED BY <1>3
<1> HIDE DEF R, Q, k
<1>8. R = Q
  BY <1>5, <1>6, <1>7
<1> QED BY <1>4, <1>8 DEF R, Q, L, k

\* One step of the loop.
LEMMA LabelStep ==
    ASSUME Inv, NEW a, WalkAt(a, Elements), NEW q, NEW n, NEW a2, Labels(q, n, a, a2), NEW alloc
    PROVE  \E n3, a3 : Labels(RelabelStep(q, alloc), n3, a, a3)
<1> DEFINE p == Home(Store)
           s == q.s
           k == n + 1
           r == _bson_set_key(s, q.pos, Label, alloc)
<1>1. /\ Edited(Store, s, path) /\ Whole(s.data, p, a2) /\ Len(a2) = Len(a) /\ n \in 0 .. (Len(a) - 1)
      /\ q.pos = IteratorOf(s.data, p, a2, k) /\ Document(s.data, p) = Labelled(Here, n)
  BY DEF Labels
<1>2. StoreOk(s, path) /\ s.chain = Store.chain /\ Home(s) = p
  BY <1>1 DEF Edited, Home
<1>3. Len(a) \in Nat /\ n \in Nat /\ k \in 1 .. Len(a) /\ Len(Here) = Len(a) - 1 /\ StoreOk(Store, path)
  <2>1. Len(a) \in Nat /\ Len(Here) = Len(a) - 1 /\ StoreOk(Store, path)
    BY DEF WalkAt
  <2> QED BY <2>1, <1>1
<1>4. CASE q.failed \/ bson_stop(q.pos) \/ ~r.ok
  <2>1. RelabelStep(q, alloc).s = s /\ RelabelStep(q, alloc).pos = q.pos
    BY <1>4 DEF RelabelStep
  <2>2. Labels(RelabelStep(q, alloc), n, a, a2)
    BY <2>1 DEF Labels
  <2> QED BY <2>2
<1>5. CASE ~(q.failed \/ bson_stop(q.pos) \/ ~r.ok)
  <2>1. s.data \in Buffer /\ Len(s.data) <= MaxInt
    BY <1>2, HomeParts
  <2>2. k # Len(a2)
    <3>1. IsLayout(s.data, p, a2)
      BY <1>1 DEF Whole
    <3>2. k \in 1 .. Len(a2)
      BY <1>1, <1>3
    <3> HIDE DEF k
    <3>3. bson_stop(IteratorOf(s.data, p, a2, k)) <=> k = Len(a2)
      BY <3>1, <3>2, <2>1, IteratorsOf
    <3> QED BY <3>3, <1>1, <1>5
  <2>3. k \in 1 .. (Len(a2) - 1) /\ k + 1 \in 1 .. Len(a2) /\ k \in 1 .. Len(a2)
    BY <2>2, <1>1, <1>3
  <2>4. IsKey(Label)
    <3>1. Label \in Buffer /\ Len(Label) = 1 /\ Label[1] = 48
      BY DEF Label, Buffer, Byte
    <3> QED BY <3>1 DEF IsKey
  <2>5. r = Fails(s) \/ \E a3 : Rekeyed(s, r, path, a2, k, Label, a3)
    <3>1. r = _bson_set_key(s, IteratorOf(s.data, Home(s), a2, k), Label, alloc) /\ Whole(s.data, Home(s), a2)
      BY <1>1, <1>2
    <3> HIDE DEF r, k, s
    <3> QED BY <3>1, <2>3, <2>4, <1>2, KeyEdited
  <2>6. r # Fails(s)
    <3>1. Fails(s).ok = FALSE
      BY <1>2, Failed
    <3> QED BY <3>1, <1>5
  <2> HIDE DEF r, k, s, p
  <2>7. PICK a3 : Rekeyed(s, r, path, a2, k, Label, a3)
    BY <2>5, <2>6
  <2>8. /\ Edited(s, r, path) /\ Whole(r.data, p, a3) /\ Len(a3) = Len(a2)
        /\ Document(r.data, p) = [Document(s.data, p) EXCEPT ![k].key = Label]
        /\ SetKeyIterator(IteratorOf(s.data, p, a2, k), Label) = IteratorOf(r.data, p, a3, k)
    BY <2>7, <1>2 DEF Rekeyed
  <2>9. Edited(Store, r, path)
    BY <2>8, <1>1, <1>3, EditedTwice
  <2>10. StoreOk(r, path)
    BY <2>9 DEF Edited
  <2>11. r.data \in Buffer /\ Len(r.data) <= MaxInt
    BY <2>10, HomeParts
  <2>12. bson_next(r.data, IteratorOf(r.data, p, a3, k)) = IteratorOf(r.data, p, a3, k + 1)
    <3>1. IsLayout(r.data, p, a3) /\ k \in 1 .. Len(a3) /\ k # Len(a3)
      BY <2>2, <2>3, <2>8 DEF Whole
    <3> QED BY <3>1, <2>11, IteratorsOf
  <2> DEFINE q2 == [s |-> r, pos |-> IteratorOf(r.data, p, a3, k + 1), failed |-> FALSE]
  <2>13. RelabelStep(q, alloc) = q2
    <3>1. RelabelStep(q, alloc) = [s |-> r, pos |-> bson_next(r.data, SetKeyIterator(q.pos, Label)), failed |-> FALSE]
      BY <1>5 DEF RelabelStep, r, s
    <3> QED BY <3>1, <2>8, <2>12, <1>1
  <2>14. q2.s = r /\ q2.pos = IteratorOf(r.data, p, a3, k + 1) 
    OBVIOUS
  <2>15. Document(r.data, p) = Labelled(Here, k)
    <3> DEFINE N == Len(a) - 1
    <3>1. N \in Nat /\ n \in Nat /\ n < N /\ Len(Here) = N
      BY <2>3, <1>1, <1>3 DEF k
    <3>2. DOMAIN Here = 1 .. N /\ Here = [j \in 1 .. N |-> Here[j]]
      <4>1. PICK S : Here \in Seq(S)
        BY DEF WalkAt
      <4> HIDE DEF N
      <4> QED BY <4>1, <3>1
    <3> HIDE DEF N
    <3>3. [Labelled(Here, n) EXCEPT ![n + 1].key = Label] = Labelled(Here, n + 1)
      BY <3>1, <3>2, LabelMore
    <3>4. Document(s.data, p) = Labelled(Here, n)
      BY <1>1
    <3>5. [Document(s.data, p) EXCEPT ![k].key = Label] = [Labelled(Here, n) EXCEPT ![n + 1].key = Label]
      BY <3>4 DEF k
    <3> QED BY <2>8, <3>3, <3>5 DEF k
  <2> HIDE DEF q2
  <2>16. Labels(q2, k, a, a3)
    <3>1. k \in 0 .. (Len(a) - 1) /\ Len(a3) = Len(a)
      BY <2>3, <2>8, <1>1, <1>3
    <3> QED BY <3>1, <2>8, <2>9, <2>14, <2>15 DEF Labels, p
  <2> QED BY <2>13, <2>16
<1> QED BY <1>4, <1>5

\* Relabelling.
LEMMA RelabelKeeps ==
    ASSUME Inv, NEW alloc, Relabel(Elements, alloc)
    PROVE  Inv'
<1>1. PICK a : WalkAt(a, Elements)
  BY ElementsWalk
<1> DEFINE w == Elements
           p == Home(Store)
           N == Len(w)
           first == [s |-> Store, pos |-> w[1], failed |-> FALSE]
           at == CHOOSE f : Relabels(f, first, N, alloc)
           r == at[N]
           it == _bson_recover_iterator(r.s.data, Home(r.s), 4)
           read == Document(r.s.data, Home(r.s))
           t == [k \in DOMAIN Here |-> [Here[k] EXCEPT !.key = read[k].key]]
<1>2. Apply(r.s, it, t)
  BY DEF Relabel, Relabels
<1>3. N \in Nat /\ N = Len(a) /\ Len(a) >= 1 /\ StoreOk(Store, path) /\ Whole(data, p, a) /\ Store.data = data
  <2>1. N \in Nat /\ N = Len(a) /\ StoreOk(Store, path) /\ Whole(data, p, a) /\ Store.data = data
    BY <1>1 DEF WalkAt
  <2> QED BY <2>1 DEF Whole, IsLayout
<1>4. Relabels(at, first, N, alloc)
  <2> HIDE DEF N, first
  <2> QED BY <1>3, RelabelsExist
<1> HIDE DEF at
<1>5. \A i \in 0 .. N : at[i] = IF i = 0 THEN first ELSE RelabelStep(at[i - 1], alloc[i])
  <2> HIDE DEF first
  <2> QED BY <1>4 DEF Relabels
<1>6. Labels(first, 0, a, a)
  <2>1. first.s = Store /\ first.pos = w[1]
    OBVIOUS
  <2>2. 0 \in 0 .. (Len(a) - 1) /\ 0 + 1 = 1 /\ 1 \in 1 .. Len(a)
    BY <1>3
  <2>3. w[1] = IteratorOf(data, p, a, 1)
    BY <2>2, <1>1 DEF WalkAt
  <2>4. Edited(Store, Store, path)
    BY <1>3, EditedSelf
  <2>5. Here = Labelled(Here, 0) /\ Here = Document(data, p)
    <3>1. Here = Document(data, p) /\ Len(Here) \in Nat
      BY <1>1, <1>3 DEF WalkAt
    <3>2. PICK S : Here \in Seq(S)
      BY <1>1 DEF WalkAt
    <3> DEFINE m == Len(Here)
    <3>3. m \in Nat /\ Here = [k \in 1 .. m |-> Here[k]] /\ DOMAIN Here = 1 .. m
      BY <3>2
    <3>4. \A k \in 1 .. m : ~(k <= 0)
      BY <3>3
    <3> HIDE DEF m
    <3> QED BY <3>1, <3>3, <3>4 DEF Labelled
  <2> HIDE DEF first
  <2> QED BY <2>1, <2>2, <2>3, <2>4, <2>5, <1>3 DEF Labels
<1> HIDE DEF first, N
<1>7. \A i \in 0 .. N : \E n, a2 : Labels(at[i], n, a, a2)
  <2> DEFINE T == {i \in 0 .. N : ~ \E n, a2 : Labels(at[i], n, a, a2)}
  <2> SUFFICES ASSUME T # {} PROVE FALSE
    OBVIOUS
  <2>1. T \in SUBSET Nat
    BY <1>3
  <2>2. PICK i \in T : \A j \in T : i <= j
    <3> HIDE DEF T
    <3> QED BY <2>1, LeastNatural
  <2>3. i # 0
    <3>1. 0 \in 0 .. N /\ at[0] = first
      BY <1>3, <1>5
    <3> QED BY <3>1, <2>2, <1>6
  <2>4. i - 1 \in 0 .. N /\ i - 1 \notin T
    BY <2>2, <2>3, <1>3
  <2>5. PICK n, a2 : Labels(at[i - 1], n, a, a2)
    BY <2>4
  <2>6. \E n3, a3 : Labels(RelabelStep(at[i - 1], alloc[i]), n3, a, a3)
    BY <2>5, <1>1, LabelStep
  <2>7. at[i] = RelabelStep(at[i - 1], alloc[i])
    BY <2>2, <2>3, <1>5
  <2> QED BY <2>2, <2>6, <2>7
<1>8. PICK n, a2 : Labels(r, n, a, a2)
  BY <1>3, <1>7
<1> HIDE DEF r
<1>9. /\ Edited(Store, r.s, path) /\ Whole(r.s.data, p, a2) /\ Len(a2) = Len(a)
      /\ Document(r.s.data, p) = Labelled(Here, n)
  BY <1>8 DEF Labels
<1>10. t = Document(r.s.data, p)
  <2>1. Home(r.s) = p
    BY <1>9 DEF Edited, Home
  <2>2. read = Labelled(Here, n)
    BY <2>1, <1>9
  <2>3. ASSUME NEW k \in DOMAIN Here
        PROVE  [Here[k] EXCEPT !.key = read[k].key] = Labelled(Here, n)[k]
    <3>1. Here[k] = [key |-> Here[k].key, tag |-> Here[k].tag, val |-> Here[k].val]
      <4>1. Here = Document(data, p) /\ IsLayout(data, p, a) /\ data \in Buffer /\ Len(data) <= MaxInt
        BY <1>1, <1>3 DEF WalkAt, Whole
      <4>2. Here = [j \in 1 .. (Len(a) - 1) |-> ElementAt(data, a[j])]
        BY <4>1, DocumentIs, SMTT(30)
      <4>3. Here[k] = ElementAt(data, a[k])
        BY <4>2
      <4> QED BY <4>3 DEF ElementAt
    <3>2. read[k] = IF k <= n THEN [Here[k] EXCEPT !.key = Label] ELSE Here[k]
      BY <2>2 DEF Labelled
    <3> DEFINE e == Here[k]
               x == e.key
               y == e.tag
               z == e.val
    <3>3. e = [key |-> x, tag |-> y, val |-> z]
      BY <3>1
    <3> HIDE DEF read, x, y, z, e
    <3>4. CASE k <= n
      <4>1. read[k].key = Label
        BY <3>2, <3>3, <3>4 DEF e
      <4> QED BY <4>1, <2>2, <3>2, <3>4
    <3>5. CASE ~(k <= n)
      <4>1. read[k] = e
        BY <3>2, <3>5 DEF e
      <4>2. [e EXCEPT !.key = e.key] = e
        BY <3>3
      <4> QED BY <4>1, <4>2, <2>2 DEF e
    <3> QED BY <3>4, <3>5
  <2> HIDE DEF read
  <2>4. t = Labelled(Here, n)
    BY <2>3 DEF Labelled
  <2> QED BY <2>4, <1>9
<1>11. Lands(r.s.data, p, it, FALSE)
  <2> DEFINE d == r.s.data
  <2>1. Home(r.s) = p /\ StoreOk(r.s, path)
    BY <1>9 DEF Edited, Home
  <2>2. d \in Buffer /\ Len(d) <= MaxInt /\ p \in Nat /\ Size(d, p) \in Nat
    BY <2>1, HomeParts
  <2>3. IsLayout(d, p, a2) /\ a2[1] = p + 4 /\ 1 \in 1 .. Len(a2)
    BY <1>3, <1>9 DEF Whole, IsLayout
  <2>4. it = _bson_iterator_at(d, p + 4, Size(d, p) - 4)
    BY <2>1 DEF _bson_recover_iterator
  <2> HIDE DEF d, it, p
  <2>5. (p + Size(d, p)) - (p + 4) = Size(d, p) - 4
    BY <2>2
  <2>6. _bson_iterator_at(d, a2[1], (p + Size(d, p)) - a2[1]) = IteratorOf(d, p, a2, 1)
    BY <2>2, <2>3, IteratorsOf
  <2>7. it = IteratorOf(d, p, a2, 1)
    BY <2>3, <2>4, <2>5, <2>6
  <2> QED BY <2>3, <2>7, <1>9 DEF Lands, d
<1> HIDE DEF it, t, read
<1> QED BY <1>2, <1>9, <1>10, <1>11, Applied

-----------------------------------------------------------------------------
(* The root's mutator, starting over.                                      *)

\* A document with the root's mutator only.
LEMMA RootOnly ==
    ASSUME NEW b, NEW c, NEW f, NEW o \in BOOLEAN, Fits(b, c), Valid(b, 0)
    PROVE  StateOk([data |-> b, cap |-> c, shared |-> f, chain |-> <<bson_mutate>>, ok |-> TRUE], << >>,
                   <<Document(b, 0)>>, [ok |-> o, it |-> bson_end(b, 0)])
<1> DEFINE h == <<bson_mutate>>
           s == [data |-> b, cap |-> c, shared |-> f, chain |-> h, ok |-> TRUE]
           r == [ok |-> o, it |-> bson_end(b, 0)]
<1>2. s.data = b /\ s.cap = c /\ s.chain = h /\ s.ok = TRUE /\ IsStore(s)
  BY DEF IsStore
<1>3. bson_mutate \in Mutators /\ bson_mutate.live = TRUE /\ bson_mutate.at = 0
  BY DEF bson_mutate, Mutator, Mutators
<1>4. h \in Seq(Mutators) /\ Len(h) = 1 /\ h[1] = bson_mutate
  BY <1>3
<1>5. IsChain(b, h, << >>)
  <2>1. << >> \in Seq(Nat) /\ Len(<< >>) = Len(h) - 1 /\ Len(h) >= 1
    BY <1>4
  <2>2. \A i \in 1 .. Len(h) : h[i].live
    BY <1>3, <1>4
  <2>3. \A i \in 1 .. (Len(h) - 1) : FALSE
    BY <1>4
  <2> HIDE DEF h
  <2> QED BY <2>1, <2>2, <2>3, <1>4 DEF IsChain
<1> HIDE DEF s
<1>6. StoreOk(s, << >>)
  <2> HIDE DEF h
  <2> QED BY <1>2, <1>5 DEF StoreOk
<1>7. Home(s) = 0
  BY <1>2, <1>3, <1>4 DEF Home
<1>8. Reference(s) = <<Document(b, 0)>>
  <2> DEFINE D == Document(b, 0)
  <2>1. Reference(s) = [i \in 1 .. 1 |-> D]
    <3>1. Reference(s) = [i \in 1 .. Len(h) |-> Document(b, h[i].at)]
      BY <1>2 DEF Reference
    <3>2. \A i \in 1 .. 1 : h[i].at = 0
      BY <1>3, <1>4
    <3> HIDE DEF h
    <3> QED BY <3>1, <3>2, <1>4
  <2> HIDE DEF D
  <2>2. [i \in 1 .. 1 |-> D] = <<D>>
    OBVIOUS
  <2> QED BY <2>1, <2>2 DEF D
<1>9. Lands(b, 0, bson_end(b, 0), ~o)
  <2>1. b \in Buffer
    BY DEF Fits
  <2> QED BY <2>1, EndLands
<1>10. << >> \in Seq(Nat)
  OBVIOUS
<1>11. r.ok = o /\ r.it = bson_end(b, 0)
  OBVIOUS
<1> HIDE DEF r
<1>12. StateOk(s, << >>, <<Document(b, 0)>>, r)
  BY <1>2, <1>6, <1>7, <1>8, <1>9, <1>10, <1>11 DEF StateOk
<1> QED BY <1>12 DEF s, h, r

\* A step that starts over with a valid document.
LEMMA Started ==
    ASSUME NEW b, NEW c, NEW o \in BOOLEAN, Fits(b, c), Valid(b, 0),
           data' = b, cap' = c, chain' = <<bson_mutate>>, path' = << >>,
           docs' = <<Document(b, 0)>>, ret' = [ok |-> o, it |-> bson_end(b, 0)]
    PROVE  Inv'
<1>1. Store' = [data |-> b, cap |-> c, shared |-> shared', chain |-> <<bson_mutate>>, ok |-> TRUE]
  BY DEF Store
<1>2. StateOk(Store', path', docs', ret')
  BY <1>1, RootOnly
<1> QED BY <1>2 DEF Inv

\* What is there to start from.
LEMMA RootParts ==
    ASSUME Inv
    PROVE  /\ Fits(data, cap) /\ Valid(data, 0) /\ docs[1] = Document(data, 0) /\ StoreOk(Store, path)
           /\ chain \in Seq(Mutators) /\ Len(chain) \in Nat /\ Len(chain) >= 1
<1>1. StoreOk(Store, path) /\ docs = Reference(Store)
  BY DEF Inv, StateOk
<1>2. Fits(data, cap) /\ IsChain(data, chain, path)
  BY <1>1, StoreFields DEF StoreOk
<1>3. Valid(data, 0) /\ chain \in Seq(Mutators) /\ Len(chain) >= 1 /\ chain[1] = bson_mutate /\ Len(chain) \in Nat
  BY <1>2 DEF IsChain
<1>4. chain[1].at = 0
  BY <1>3 DEF bson_mutate, Mutator
<1>5. docs[1] = Document(data, 0)
  <2>1. 1 \in 1 .. Len(chain)
    BY <1>3
  <2> QED BY <2>1, <1>1, <1>4, StoreFields DEF Reference
<1> QED BY <1>1, <1>2, <1>3, <1>5

\* Reserving.
LEMMA ReserveKeeps ==
    ASSUME Inv, NEW size \in Reserves, NEW alloc, Reserve(size, alloc)
    PROVE  Inv'
<1> DEFINE s == bson_doc_reserve(Store, size, alloc)
<1>1. /\ Fits(data, cap) /\ Valid(data, 0) /\ docs[1] = Document(data, 0) /\ StoreOk(Store, path)
  BY RootParts
<1>2. size \in Nat
  BY SizesAssumption
<1>3. s.data = data /\ s.ok \in BOOLEAN /\ Fits(data, s.cap)
  <2>1. CASE s = Store
    BY <2>1, <1>1, StoreFields
  <2>2. CASE s = Fails(Store)
    <3>1. Fails(Store).ok = FALSE /\ Fails(Store).data = data /\ Fails(Store).cap = cap
      BY <1>1, Failed, StoreFields
    <3> HIDE DEF s
    <3> QED BY <2>2, <3>1, <1>1
  <2>3. CASE s # Store /\ s # Fails(Store)
    <3> DEFINE k == [i \in DOMAIN Store.chain |-> [Store.chain[i] EXCEPT !.live = FALSE]]
    <3>1. ~(Store.cap >= size) /\ ~(size > MaxInt - 4)
      BY <2>3 DEF bson_doc_reserve, _bson_realloc
    <3> DEFINE got == GotSize(size, alloc)
    <3>2. s = [Store EXCEPT !.cap = got, !.shared = FALSE, !.chain = k]
      BY <2>3, <3>1 DEF bson_doc_reserve, _bson_realloc
    <3>6. got \in Nat /\ size <= got /\ got + 4 <= MaxInt
      <4>1. size <= MaxInt - 4
        BY <3>1, <1>2, SizesAssumption
      <4> QED BY <4>1, <1>2, GotEnough
    <3> HIDE DEF s, k, got
    <3>3. s = [data |-> data, cap |-> got, shared |-> FALSE, chain |-> k, ok |-> TRUE]
      <4>1. Store = [data |-> data, cap |-> cap, shared |-> shared, chain |-> chain, ok |-> TRUE]
        BY DEF Store
      <4> QED BY <4>1, <3>2, StoreReallocated
    <3>4. s.data = data /\ s.ok = TRUE /\ s.cap = got
      BY <3>3
    <3>5. Fits(data, got)
      <4>1. /\ data \in Buffer /\ Size(data, 0) = Len(data) /\ cap \in Nat /\ Len(data) <= cap /\ ~(cap >= size)
            /\ Len(data) \in Nat
        BY <1>1, <3>1, StoreFields DEF Fits, Buffer
      <4>2. Len(data) <= got
        BY <4>1, <1>2, <3>6
      <4> QED BY <4>1, <4>2, <3>6 DEF Fits
    <3> QED BY <3>4, <3>5
  <2> QED BY <2>1, <2>2, <2>3
<1>4. /\ data' = s.data /\ cap' = s.cap /\ chain' = <<bson_mutate>> /\ path' = << >>
      /\ ret' = [ok |-> s.ok, it |-> bson_end(s.data, 0)] /\ docs' = <<docs[1]>>
  BY DEF Reserve, Start
<1> HIDE DEF s
<1> QED BY <1>1, <1>3, <1>4, Started

\* Copying.
LEMMA CopyKeeps ==
    ASSUME Inv, NEW alloc, CopyMade(alloc)
    PROVE  Inv'
<1> DEFINE p == Home(Store)
           n == Size(data, p)
           m == IF n > 5 THEN GotSize(n, alloc) ELSE 5
           b == Bytes(data, p, n)
           f == (n = 5)
           s == [Store EXCEPT !.data = b, !.cap = m, !.shared = f]
<1>1. PICK a : WalkAt(a, Elements)
  BY ElementsWalk
<1>2. /\ chain[Top].at = p /\ Here = Document(data, p) /\ data \in Buffer /\ Len(data) \in Nat /\ Len(data) <= MaxInt
      /\ p \in Nat /\ n \in Nat /\ p + n <= Len(data)
  BY <1>1 DEF WalkAt
<1>3. Fits(data, cap) /\ StoreOk(Store, path)
  BY RootParts
<1>4. Valid(data, p)
  BY <1>3, HomeParts, StoreFields
<1>5. Start(s) /\ docs' = <<Here>>
  BY <1>2 DEF CopyMade
<1>6. s.data = b /\ s.cap = m /\ s.ok = TRUE
  <2>1. Store = [data |-> data, cap |-> cap, shared |-> shared, chain |-> chain, ok |-> TRUE]
    BY DEF Store
  <2> DEFINE x == data
             y == cap
             z == shared
             u == chain
  <2>2. Store = [data |-> x, cap |-> y, shared |-> z, chain |-> u, ok |-> TRUE]
    BY <2>1
  <2> HIDE DEF x, y, z, u, b, n, m, f
  <2> QED BY <2>2
<1>7. /\ data' = b /\ cap' = m /\ chain' = <<bson_mutate>> /\ path' = << >>
      /\ ret' = [ok |-> TRUE, it |-> bson_end(b, 0)]
  <2> HIDE DEF s, b, n, m
  <2> QED BY <1>5, <1>6 DEF Start
<1> HIDE DEF s, p, n, m
<1>8. b \in Buffer /\ Len(b) = n /\ \A j \in 1 .. n : b[j] = data[p + j]
  BY <1>2, BytesOf
<1> HIDE DEF b
<1>9. Same(data, p, b, 0, n)
  <2>1. \A j \in 1 .. n : 0 + j = j
    BY <1>2
  <2> QED BY <2>1, <1>8 DEF Same
<1>10. Valid(b, 0) /\ Document(b, 0) = Document(data, p)
  <2>1. Same(data, p, b, 0, Size(data, p)) /\ 0 + Size(data, p) <= Len(b) /\ Len(b) <= MaxInt /\ 0 \in Nat
    BY <1>2, <1>8, <1>9, SizesAssumption DEF n
  <2> QED BY <2>1, <1>2, <1>4, <1>8, DocumentMoves
<1>11. Size(b, 0) = n /\ n >= 5
  <2>1. n >= 5
    <3>1. PICK o : Whole(data, p, o)
      BY <1>4, ValidUnfolds
    <3> QED BY <3>1, <1>2, LayoutOrder DEF Whole, n
  <2>2. Size(b, 0) = Size(data, p)
    <3>1. 4 <= n /\ 0 \in Nat
      BY <2>1, <1>2
    <3> QED BY <3>1, <1>2, <1>9, ReadMoves
  <2> QED BY <2>1, <2>2 DEF n
<1>12. Fits(b, m)
  <2>1. cap \in Nat /\ Len(data) <= cap /\ cap + 4 <= MaxInt
    BY <1>3 DEF Fits
  <2>2. n <= MaxInt - 4 /\ 5 + 4 <= MaxInt
    BY <2>1, <1>2, SizesAssumption
  <2>3. m \in Nat /\ n <= m /\ m + 4 <= MaxInt
    <3>1. CASE n > 5
      <4>1. m = GotSize(n, alloc)
        BY <3>1 DEF m
      <4> QED BY <4>1, <2>2, <1>2, GotEnough
    <3>2. CASE ~(n > 5)
      <4>1. m = 5
        BY <3>2 DEF m
      <4> QED BY <4>1, <3>2, <2>2, <1>2
    <3> QED BY <3>1, <3>2
  <2> QED BY <2>3, <1>8, <1>11 DEF Fits
<1>13. docs' = <<Document(b, 0)>>
  BY <1>2, <1>5, <1>10
<1> QED BY <1>7, <1>10, <1>12, <1>13, Started

\* The new document.
LEMMA InitKeeps ==
    ASSUME Init
    PROVE  Inv
<1>1. PICK reserve \in Reserves, alloc \in Surplus :
        /\ reserve <= MaxInt - 4
        /\ data = <<5, 0, 0, 0, 0>>
        /\ cap = IF reserve > 5 THEN GotSize(reserve, alloc) ELSE 5
        /\ chain = <<bson_mutate>> /\ docs = << << >> >> /\ path = << >>
        /\ ret = [ok |-> TRUE, it |-> Iterator(4, 0, 1)]
  BY DEF Init
<1> DEFINE b == <<5, 0, 0, 0, 0>>
           a == << 4 >>
<1>2. b \in Buffer /\ Len(b) = 5 /\ b[1] = 5 /\ b[2] = 0 /\ b[3] = 0 /\ b[4] = 0 /\ b[5] = 0
  BY DEF Buffer, Byte
<1>3. a \in Seq(Nat) /\ Len(a) = 1 /\ a[1] = 4
  OBVIOUS
<1> HIDE DEF b, a
<1>4. Size(b, 0) = 5
  <2>1. 0 + 1 = 1 /\ 0 + 2 = 2 /\ 0 + 3 = 3 /\ 0 + 4 = 4
    OBVIOUS
  <2>2. read_u32le(b, 0) = b[1] + 256 * (b[2] + 256 * (b[3] + 256 * b[4]))
    BY <2>1 DEF read_u32le
  <2> QED BY <2>2, <1>2 DEF Size
<1>5. IsLayout(b, 0, a)
  <2>1. a[1] = 0 + 4 /\ a[Len(a)] = (0 + Size(b, 0)) - 1 /\ 0 + 5 <= Len(b) /\ 0 + Size(b, 0) <= Len(b) /\ Len(a) >= 1
    BY <1>2, <1>3, <1>4
  <2>2. b[0 + Size(b, 0)] = 0
    BY <1>2, <1>4
  <2>3. \A k \in 1 .. (Len(a) - 1) : FALSE
    BY <1>3
  <2> QED BY <2>1, <2>2, <2>3, <1>3 DEF IsLayout
<1>6. Whole(b, 0, a)
  <2>1. \A k \in 1 .. (Len(a) - 1) : FALSE
    BY <1>3
  <2> QED BY <2>1, <1>5 DEF Whole
<1>7. Valid(b, 0)
  BY <1>2, <1>6, ValidFolds
<1>8. data = b
  BY <1>1 DEF b
<1>9. Fits(b, cap)
  <2>1. reserve \in Nat
    BY SizesAssumption
  <2>2. cap \in Nat /\ 5 <= cap /\ cap + 4 <= MaxInt
    <3>1. CASE reserve > 5
      <4>1. /\ GotSize(reserve, alloc) \in Nat /\ reserve <= GotSize(reserve, alloc)
            /\ GotSize(reserve, alloc) + 4 <= MaxInt /\ cap = GotSize(reserve, alloc)
        BY <2>1, <3>1, <1>1, GotEnough
      <4> QED BY <4>1, <3>1, <2>1
    <3>2. CASE ~(reserve > 5)
      BY <3>2, <2>1, <1>1, SizesAssumption
    <3> QED BY <3>1, <3>2
  <2> QED BY <2>2, <1>2, <1>4 DEF Fits
<1>10. Document(b, 0) = << >>
  <2>1. Len(b) <= MaxInt
    BY <1>2, SizesAssumption
  <2>2. Document(b, 0) = [k \in 1 .. (Len(a) - 1) |-> ElementAt(b, a[k])]
    BY <2>1, <1>2, <1>5, DocumentIs, ZenonT(40)
  <2>3. Len(a) - 1 = 0
    BY <1>3
  <2>4. [k \in 1 .. 0 |-> ElementAt(b, a[k])] = << >>
    OBVIOUS
  <2> QED BY <2>2, <2>3, <2>4
<1>11. bson_end(b, 0) = Iterator(4, 0, 1)
  <2>1. 0 + Size(b, 0) - 1 = 4
    BY <1>4
  <2> QED BY <2>1, IteratorAtEnd DEF bson_end
<1>12. Store = [data |-> b, cap |-> cap, shared |-> shared, chain |-> <<bson_mutate>>, ok |-> TRUE]
  BY <1>1, <1>8 DEF Store
<1>13. path = << >> /\ docs = <<Document(b, 0)>> /\ ret = [ok |-> TRUE, it |-> bson_end(b, 0)]
  BY <1>1, <1>10, <1>11
<1>14. StateOk(Store, path, docs, ret)
  BY <1>7, <1>9, <1>12, <1>13, RootOnly
<1> QED BY <1>14 DEF Inv

-----------------------------------------------------------------------------
(* Mutators of nested documents.                                           *)

\* The chain with the mutator m of its element k.
Grown(b, c, pa, m, k) ==
    /\ IsChain(b, Append(c, m), Append(pa, k)) /\ Append(pa, k) \in Seq(Nat)
    /\ Len(Append(c, m)) = Len(c) + 1 /\ Append(c, m)[Len(c) + 1] = m
    /\ \A i \in 1 .. Len(c) : Append(c, m)[i] = c[i]

\* One more mutator.
LEMMA ChainGrows ==
    ASSUME NEW b \in Buffer, Len(b) <= MaxInt, NEW c, NEW pa, IsChain(b, c, pa), pa \in Seq(Nat),
           NEW m \in Mutators, m.live = TRUE, NEW k \in Nat, Link(b, c[Len(c)], m, k)
    PROVE  Grown(b, c, pa, m, k)
<1> DEFINE n == Len(c)
           d == Append(c, m)
           q == Append(pa, k)
<1>1. c \in Seq(Mutators) /\ n \in Nat /\ n >= 1 /\ Len(pa) = n - 1 /\ c[1] = bson_mutate /\ Valid(b, 0)
  BY DEF IsChain
<1>2. d \in Seq(Mutators) /\ Len(d) = n + 1 /\ d[n + 1] = m /\ \A i \in 1 .. n : d[i] = c[i]
  BY <1>1
<1>3. q \in Seq(Nat) /\ Len(q) = n /\ q[n] = k /\ \A i \in 1 .. (n - 1) : q[i] = pa[i]
  <2> DEFINE l == Len(pa)
  <2>1. q \in Seq(Nat) /\ Len(q) = l + 1 /\ q[l + 1] = k /\ \A i \in 1 .. l : q[i] = pa[i]
    OBVIOUS
  <2>2. l = n - 1 /\ l + 1 = n
    BY <1>1
  <2> HIDE DEF l, q, n
  <2> QED BY <2>1, <2>2
<1> HIDE DEF d, q
<1>4. ASSUME NEW i \in 1 .. Len(d) PROVE d[i].live
  <2>1. CASE i = n + 1
    BY <2>1, <1>2
  <2>2. CASE i # n + 1
    <3>1. i \in 1 .. n
      BY <2>2, <1>1, <1>2
    <3> QED BY <3>1, <1>2 DEF IsChain
  <2> QED BY <2>1, <2>2
<1>5. ASSUME NEW i \in 1 .. (Len(d) - 1) PROVE Link(b, d[i], d[i + 1], q[i])
  <2>1. CASE i = n
    <3>1. n \in 1 .. n
      BY <1>1
    <3>2. d[i] = c[n] /\ d[i + 1] = m /\ q[i] = k
      BY <2>1, <3>1, <1>2, <1>3
    <3> QED BY <3>2
  <2>2. CASE i # n
    <3>1. i \in 1 .. (n - 1) /\ i \in 1 .. n /\ i + 1 \in 1 .. n
      BY <2>2, <1>1, <1>2, SMTT(30)
    <3>2. d[i] = c[i] /\ d[i + 1] = c[i + 1] /\ q[i] = pa[i]
      BY <3>1, <1>2, <1>3
    <3>3. Link(b, c[i], c[i + 1], pa[i])
      BY <3>1 DEF IsChain
    <3> QED BY <3>2, <3>3
  <2> QED BY <2>1, <2>2
<1>6. d[1] = bson_mutate /\ Len(d) >= 1 /\ Len(q) = Len(d) - 1
  <2>1. 1 \in 1 .. n
    BY <1>1
  <2> QED BY <2>1, <1>1, <1>2, <1>3
<1>7. IsChain(b, d, q)
  BY <1>1, <1>2, <1>4, <1>5, <1>6 DEF IsChain
<1> QED BY <1>2, <1>3, <1>7, Zenon DEF Grown, d, q, n

\* One less.
LEMMA ChainShrinks ==
    ASSUME NEW b \in Buffer, NEW c, NEW pa, IsChain(b, c, pa), pa \in Seq(Nat), Len(c) > 1
    PROVE  /\ IsChain(b, Front(c), Front(pa)) /\ Front(pa) \in Seq(Nat)
           /\ Len(Front(c)) = Len(c) - 1
           /\ \A i \in 1 .. (Len(c) - 1) : Front(c)[i] = c[i]
<1> DEFINE n == Len(c) - 1
           d == Front(c)
           q == Front(pa)
<1>1. c \in Seq(Mutators) /\ Len(c) \in Nat /\ n \in Nat /\ n >= 1 /\ Len(pa) = n /\ c[1] = bson_mutate /\ Valid(b, 0)
  BY DEF IsChain
<1>2. d \in Seq(Mutators) /\ Len(d) = n /\ \A i \in 1 .. n : d[i] = c[i]
  BY <1>1 DEF Front
<1>3. q \in Seq(Nat) /\ Len(q) = n - 1 /\ \A i \in 1 .. (n - 1) : q[i] = pa[i]
  <2> DEFINE l == Len(pa)
  <2>1. q = SubSeq(pa, 1, l - 1) /\ l = n
    BY <1>1 DEF Front
  <2>2. l \in Nat /\ l >= 1
    BY <1>1
  <2>3. q \in Seq(Nat) /\ Len(q) = l - 1 /\ \A i \in 1 .. (l - 1) : q[i] = pa[i]
    BY <2>1, <2>2, SMTT(30)
  <2> HIDE DEF l, q, n
  <2> QED BY <2>1, <2>3
<1> HIDE DEF d, q, n
<1>4. \A i \in 1 .. Len(d) : d[i].live
  <2>1. \A i \in 1 .. n : i \in 1 .. Len(c)
    BY <1>1 DEF n
  <2> QED BY <2>1, <1>2 DEF IsChain
<1>5. ASSUME NEW i \in 1 .. (Len(d) - 1) PROVE Link(b, d[i], d[i + 1], q[i])
  <2>1. i \in 1 .. (n - 1) /\ i \in 1 .. n /\ i + 1 \in 1 .. n /\ i \in 1 .. (Len(c) - 1)
    BY <1>1, <1>2 DEF n
  <2>2. d[i] = c[i] /\ d[i + 1] = c[i + 1] /\ q[i] = pa[i]
    BY <2>1, <1>2, <1>3
  <2>3. Link(b, c[i], c[i + 1], pa[i])
    BY <2>1 DEF IsChain
  <2> QED BY <2>2, <2>3
<1>6. d[1] = bson_mutate /\ Len(d) >= 1 /\ Len(q) = Len(d) - 1
  <2>1. 1 \in 1 .. n
    BY <1>1
  <2> QED BY <2>1, <1>1, <1>2, <1>3
<1>7. IsChain(b, d, q)
  BY <1>1, <1>2, <1>4, <1>5, <1>6 DEF IsChain
<1> QED BY <1>2, <1>3, <1>7 DEF Grown, d, q, n

\* The chain is another one of the same bytes.
LEMMA Rechained ==
    ASSUME Inv, NEW c, NEW pa, IsChain(data, c, pa), pa \in Seq(Nat),
           data' = data, cap' = cap, chain' = c, path' = pa,
           docs' = [i \in 1 .. Len(c) |-> Document(data, c[i].at)],
           ret' = [ok |-> TRUE, it |-> bson_end(data, c[Len(c)].at)]
    PROVE  Inv'
<1> DEFINE s == [data |-> data, cap |-> cap, shared |-> shared', chain |-> c, ok |-> TRUE]
<1>1. Store' = s
  BY DEF Store
<1>2. s.data = data /\ s.cap = cap /\ s.chain = c /\ s.ok = TRUE /\ IsStore(s)
  BY DEF IsStore
<1> HIDE DEF s
<1>3. StoreOk(s, pa)
  BY <1>2, RootParts DEF StoreOk
<1>4. docs' = Reference(s) /\ Home(s) = c[Len(c)].at
  BY <1>2 DEF Reference, Home
<1>5. Lands(data, Home(s), bson_end(data, Home(s)), FALSE)
  <2>1. data \in Buffer /\ Valid(data, Home(s))
    BY <1>2, <1>3, HomeParts
  <2> QED BY <2>1, EndLands
<1>6. ret'.ok = TRUE /\ ret'.it = bson_end(data, Home(s))
  BY <1>4
<1>7. StateOk(s, pa, docs', ret')
  BY <1>2, <1>3, <1>4, <1>5, <1>6 DEF StateOk
<1> QED BY <1>1, <1>7 DEF Inv

\* The mutator of a nested document.
LEMMA ChildKeeps ==
    ASSUME Inv, NEW k \in DOMAIN Elements, Child(k)
    PROVE  Inv'
<1>1. PICK a : WalkAt(a, Elements)
  BY ElementsWalk
<1> DEFINE p == Home(Store)
           x == a[k]
           v == ValueAt(data, x)
           n == Mutator(v, x - p, TRUE)
           c == Append(chain, n)
           N == Len(chain)
<1>2. /\ data \in Buffer /\ Len(data) <= MaxInt /\ p \in Nat /\ Whole(data, p, a) /\ Len(a) \in Nat
      /\ StoreOk(Store, path) /\ Here = Document(data, p) /\ chain[N].at = p /\ N = Top
      /\ k \in 1 .. Len(a) /\ Len(Elements) = Len(a)
  BY <1>1, StoreFields DEF WalkAt, Top
<1>3. k \in 1 .. (Len(a) - 1) /\ k # Len(a) /\ k \in Nat
  <2>1. k < Len(a)
    BY <1>2 DEF Child
  <2> QED BY <2>1, <1>2
<1>4. Elements[k] = IteratorOf(data, p, a, k) /\ x \in Nat /\ p + 4 <= x
  BY <1>1, <1>2 DEF WalkAt
<1>5. Elements[k].at = x /\ Elements[k].keylen = KeyLen(data, x)
  BY <1>3, <1>4 DEF IteratorOf, Iterator
<1>6. Elem(data, x, a[k + 1])
  BY <1>2, <1>3 DEF Whole, GoodElem
<1>7. KeyLen(data, x) \in Nat /\ v \in Nat /\ v = x + KeyLen(data, x) + 2
  BY <1>2, <1>6, ElemParts
<1>8. IsChain(data, chain, path) /\ path \in Seq(Nat) /\ docs = [i \in 1 .. N |-> Document(data, chain[i].at)]
  BY <1>2, StoreFields DEF StoreOk, Inv, StateOk, Reference
<1>9. N \in Nat /\ N >= 1 /\ chain[N].live = TRUE
  <2>1. N \in Nat /\ N >= 1 /\ \A i \in 1 .. N : chain[i].live = TRUE
    BY <1>2, <1>8, ChainParts
  <2>2. N \in 1 .. N
    BY <2>1
  <2> QED BY <2>1, <2>2
<1>10. chain' = c /\ path' = Append(path, k) /\ docs' = Append(docs, Here[k].val) /\ Nests(data, x)
  <2> DEFINE y == p + (x - p) + KeyLen(data, x) + 2
  <2>1. /\ chain' = Append(chain, Mutator(y, x - p, chain[N].live))
        /\ path' = Append(path, k) /\ docs' = Append(docs, Here[k].val)
        /\ data[x + 1] \in {document, array}
    BY <1>2, <1>5 DEF Child
  <2>2. y = v
    BY <1>2, <1>4, <1>7
  <2> HIDE DEF y
  <2> QED BY <2>1, <2>2, <1>9 DEF Nests
<1>11. ret' = [ok |-> TRUE, it |-> bson_end(data, v)] /\ data' = data /\ cap' = cap
  <2>1. ValuePtr(Elements[k]) = v
    BY <1>5, <1>7 DEF ValuePtr
  <2> QED BY <2>1 DEF Child, NoResult
<1>12. n \in Mutators /\ n.live = TRUE /\ n.at = v /\ n.off = x - p
  <2>1. x - p \in Nat
    BY <1>2, <1>4
  <2> QED BY <2>1, <1>7 DEF Mutators, Mutator
<1> HIDE DEF n, c, v, x
<1>13. Link(data, chain[N], n, k)
  BY <1>2, <1>3, <1>10, <1>12 DEF Link, x, v
<1>14. /\ IsChain(data, c, Append(path, k)) /\ Append(path, k) \in Seq(Nat)
       /\ Len(c) = N + 1 /\ c[N + 1] = n /\ \A i \in 1 .. N : c[i] = chain[i]
  <2>1. /\ data \in Buffer /\ Len(data) <= MaxInt /\ IsChain(data, chain, path) /\ path \in Seq(Nat)
        /\ n \in Mutators /\ n.live = TRUE /\ k \in Nat /\ Link(data, chain[Len(chain)], n, k)
    BY <1>2, <1>3, <1>8, <1>12, <1>13
  <2>2. Grown(data, chain, path, n, k)
    BY <2>1, ChainGrows
  <2> QED BY <2>2, Zenon DEF Grown, c, N
<1>15. Here[k].val = Document(data, v)
  <2>1. Row(Document(data, chain[N].at), k, Document(data, n.at))
    BY <1>2, <1>13, LinkValue
  <2>2. Row(Here, k, Document(data, v))
    BY <2>1, <1>2, <1>12, Zenon
  <2> QED BY <2>2 DEF Row
<1>16. docs' = [i \in 1 .. Len(c) |-> Document(data, c[i].at)]
  <2> DEFINE D == Document(data, v)
             S == {Document(data, c[i].at) : i \in 1 .. (N + 1)}
             Q == Append(docs, D)
  <2>1. N + 1 \in 1 .. (N + 1) /\ \A i \in 1 .. N : i \in 1 .. (N + 1)
    BY <1>9
  <2>2. D \in S /\ docs \in [1 .. N -> S] /\ DOMAIN docs = 1 .. N
    <3>1. D = Document(data, c[N + 1].at)
      BY <1>12, <1>14
    <3>2. \A i \in 1 .. N : docs[i] = Document(data, c[i].at)
      BY <1>8, <1>14
    <3>3. \A i \in 1 .. N : docs[i] \in S
      BY <3>2, <2>1
    <3> HIDE DEF D
    <3> QED BY <3>1, <3>3, <2>1, <1>8
  <2> HIDE DEF D, S, N
  <2>3. docs \in Seq(S) /\ Len(docs) = N
    BY <2>2, <1>9
  <2>4. Q \in Seq(S) /\ Len(Q) = N + 1 /\ Q[N + 1] = D /\ \A i \in 1 .. N : Q[i] = docs[i]
    BY <2>2, <2>3, <1>9
  <2> HIDE DEF Q
  <2>5. ASSUME NEW i \in 1 .. (N + 1) PROVE Q[i] = Document(data, c[i].at)
    <3>1. CASE i = N + 1
      BY <3>1, <2>4, <1>12, <1>14 DEF D
    <3>2. CASE i # N + 1
      <4>1. i \in 1 .. N
        BY <3>2, <1>9
      <4> QED BY <4>1, <2>4, <1>8, <1>14
    <3> QED BY <3>1, <3>2
  <2>6. Q = [i \in 1 .. (N + 1) |-> Q[i]]
    BY <2>4
  <2>7. Q = [i \in 1 .. (N + 1) |-> Document(data, c[i].at)]
    BY <2>5, <2>6
  <2> QED BY <2>7, <1>10, <1>14, <1>15 DEF Q, D
<1>17. bson_end(data, v) = bson_end(data, c[Len(c)].at)
  BY <1>12, <1>14
<1> QED BY <1>10, <1>11, <1>14, <1>16, <1>17, Rechained

\* Back to the parent.
LEMMA LeaveKeeps ==
    ASSUME Inv, Leave
    PROVE  Inv'
<1> DEFINE N == Len(chain)
           n == N - 1
           c == Front(chain)
           q == Front(path)
<1>1. StoreOk(Store, path) /\ data \in Buffer
  BY RootParts DEF Fits
<1>2. IsChain(data, chain, path) /\ path \in Seq(Nat) /\ docs = [i \in 1 .. N |-> Document(data, chain[i].at)]
  BY <1>1, StoreFields DEF StoreOk, Inv, StateOk, Reference
<1>3. /\ N > 1 /\ chain' = c /\ path' = q /\ docs' = Front(docs) /\ data' = data /\ cap' = cap
      /\ ret' = [ok |-> TRUE, it |-> bson_end(data, chain[n].at)]
  BY DEF Leave, NoResult, Top
<1>4. N \in Nat /\ n \in Nat /\ n >= 1 /\ n \in 1 .. n
  <2>1. N \in Nat
    BY RootParts
  <2> QED BY <2>1, <1>3
<1>5. /\ IsChain(data, c, q) /\ q \in Seq(Nat) /\ Len(c) = n /\ \A i \in 1 .. n : c[i] = chain[i]
  BY <1>1, <1>2, <1>3, ChainShrinks
<1> HIDE DEF c, q
<1>6. docs' = [i \in 1 .. Len(c) |-> Document(data, c[i].at)]
  <2> DEFINE S == {Document(data, chain[i].at) : i \in 1 .. N}
             Q == Front(docs)
  <2>1. docs \in [1 .. N -> S]
    BY <1>2
  <2> HIDE DEF S, N, n
  <2>2. docs \in Seq(S) /\ Len(docs) = N
    BY <2>1, <1>4
  <2>3. Q = SubSeq(docs, 1, n)
    BY <2>2 DEF Front, n
  <2>4. n <= N
    BY <1>4 DEF n
  <2>5. Q = [i \in 1 .. n |-> docs[i]]
    BY <2>2, <2>3, <2>4, <1>4
  <2>6. \A i \in 1 .. n : docs[i] = Document(data, c[i].at)
    <3>1. \A i \in 1 .. n : i \in 1 .. N
      BY <2>4, <1>4
    <3> QED BY <3>1, <1>2, <1>5
  <2> HIDE DEF Q
  <2>7. Q = [i \in 1 .. n |-> Document(data, c[i].at)]
    BY <2>5, <2>6
  <2> QED BY <2>7, <1>3, <1>5 DEF Q
<1>7. c[Len(c)] = chain[n]
  BY <1>4, <1>5
<1> QED BY <1>3, <1>5, <1>6, <1>7, Rechained

-----------------------------------------------------------------------------
(* The theorems.                                                           *)

\* An edit through the iterators of the innermost document.
LEMMA EditKeeps ==
    ASSUME Inv, NEW alloc,
           \/ \E n \in DOMAIN Elements : Relabel(Elements, RunsOut(Elements, n, alloc))
           \/ SpliceRanges(Elements, alloc)
           \/ \E k \in DOMAIN Elements, key \in Keys, v \in Values : Insert(Elements, k, key, v, alloc)
           \/ \E k \in 1 .. (Len(Elements) - 1), key \in Keys : SetKey(Elements, k, key, alloc)
           \/ \E size \in Reserves : Reserve(size, alloc)
    PROVE  Inv'
<1>1. CASE \E k \in DOMAIN Elements, key \in Keys, v \in Values : Insert(Elements, k, key, v, alloc)
  BY <1>1, InsertKeeps
<1>2. CASE \E k \in 1 .. (Len(Elements) - 1), key \in Keys : SetKey(Elements, k, key, alloc)
  BY <1>2, SetKeyKeeps
<1>3. CASE \E n \in DOMAIN Elements : Relabel(Elements, RunsOut(Elements, n, alloc))
  BY <1>3, RelabelKeeps
<1>4. CASE SpliceRanges(Elements, alloc)
  <2>1. PICK k \in DOMAIN Elements, f \in DOMAIN OtherWalk :
          \E l \in k .. Len(Elements), g \in f .. Len(OtherWalk) :
            bson_splice_disjoint_ranges(Elements, k, l, f, g, alloc)
    BY <1>4 DEF SpliceRanges
  <2>2. PICK l \in k .. Len(Elements), g \in f .. Len(OtherWalk) :
            bson_splice_disjoint_ranges(Elements, k, l, f, g, alloc)
    BY <2>1
  <2> QED BY <2>2, SpliceKeeps
<1>5. CASE \E size \in Reserves : Reserve(size, alloc)
  BY <1>5, ReserveKeeps
<1> QED BY <1>1, <1>2, <1>3, <1>4, <1>5

\* Every step keeps the invariant.
LEMMA NextKeeps ==
    ASSUME Inv, [Next]_vars
    PROVE  Inv'
<1>1. CASE \E alloc \in AllocOutcomes :
        \/ \E n \in DOMAIN Elements : Relabel(Elements, RunsOut(Elements, n, alloc))
        \/ SpliceRanges(Elements, alloc)
        \/ \E k \in DOMAIN Elements, key \in Keys, v \in Values : Insert(Elements, k, key, v, alloc)
        \/ \E k \in 1 .. (Len(Elements) - 1), key \in Keys : SetKey(Elements, k, key, alloc)
        \/ \E size \in Reserves : Reserve(size, alloc)
  BY <1>1, EditKeeps
<1>2. CASE \E k \in DOMAIN Elements : Child(k)
  BY <1>2, ChildKeeps
<1>3. CASE Leave
  BY <1>3, LeaveKeeps
<1>4. CASE \E alloc \in Surplus : CopyMade(alloc)
  BY <1>4, CopyKeeps
<1>5. CASE UNCHANGED <<data, cap, shared, chain, docs, path, ret>>
  BY <1>5 DEF Inv, StateOk, Store, StoreOk, Reference, Home
<1>6. CASE Copy
  <2>1. CASE CopyRefused
    BY <2>1, <1>5 DEF CopyRefused
  <2> QED BY <2>1, <1>4, <1>6 DEF Copy
<1>7. CASE UNCHANGED vars
  BY <1>7, <1>5 DEF vars
<1>8. CASE Next
  BY <1>8, <1>1, <1>2, <1>3, <1>6, Zenon DEF Next
<1> QED BY <1>7, <1>8

(* The inductive invariant: in every reachable state the buffer holds a    *)
(* valid document, and so does the region of every mutator in use; each    *)
(* mutator is linked to its parent by the element at `path'; the reference *)
(* is what the bytes read as; the last result is where a walk would be.    *)
THEOREM DocumentsStayValid == Spec => []Inv
<1>1. Init => Inv
  BY InitKeeps
<1>2. Inv /\ [Next]_vars => Inv'
  BY NextKeeps
<1> QED BY <1>1, <1>2, PTL DEF Spec

\* The walk over a valid document, with its end.
LEMMA WalkParts ==
    ASSUME NEW b \in Buffer, Len(b) <= MaxInt, NEW p, NEW a, Whole(b, p, a), NEW k \in 1 .. Len(a)
    PROVE  /\ Len(foreach(b, p)) = Len(a) /\ DOMAIN foreach(b, p) = 1 .. Len(a) /\ Len(a) \in Nat
           /\ foreach(b, p)[k] = IteratorOf(b, p, a, k)
<1>1. IsLayout(b, p, a)
  BY DEF Whole
<1>2. Len(a) \in Nat
  BY <1>1, LayoutOrder
<1> DEFINE n == Len(a)
           w == foreach(b, p)
<1>3. w = [j \in 1 .. n |-> IteratorOf(b, p, a, j)] /\ n \in Nat
  BY <1>1, <1>2, WalkIs DEF WalkOver
<1> HIDE DEF w, n
<1>4. DOMAIN w = 1 .. n /\ Len(w) = n
  BY <1>3
<1> QED BY <1>3, <1>4 DEF w, n

(* What ReturnsPosition says holds of every document: the iterator that an *)
(* edit computes is the one a walk over the edited bytes finds.            *)
THEOREM EditsReturnTheirPosition == Spec => []ReturnsPosition
<1>1. ASSUME Inv PROVE ReturnsPosition
  <2>1. /\ data \in Buffer /\ Len(data) <= MaxInt /\ chain[Top].at = Home(Store) /\ Store.data = data
    BY <1>1, ElementsWalk DEF WalkAt
  <2>2. Lands(data, Home(Store), ret.it, ~ret.ok)
    BY <1>1, <2>1 DEF Inv, StateOk
  <2>3. PICK a, k : /\ Whole(data, Home(Store), a) /\ k \in 1 .. Len(a)
                    /\ ret.it = IteratorOf(data, Home(Store), a, k) /\ (~ret.ok => k = Len(a))
    BY <2>2 DEF Lands
  <2>4. /\ Len(Elements) = Len(a) /\ DOMAIN Elements = 1 .. Len(a)
        /\ Elements[k] = IteratorOf(data, Home(Store), a, k)
    BY <2>1, <2>3, WalkParts DEF Elements
  <2> QED BY <2>3, <2>4 DEF ReturnsPosition
<1> QED BY <1>1, DocumentsStayValid, PTL

\* A mutator of a nested document and the element it comes from.
LEMMA ParentFound ==
    ASSUME NEW i \in 2 .. Len(chain), data \in Buffer, Len(data) <= MaxInt,
           chain[i - 1] \in Mutators, chain[i] \in Mutators,
           Link(data, chain[i - 1], chain[i], path[i - 1])
    PROVE  /\ bson_mut_parent_iterator(i) = _bson_recover_iterator(data, chain[i - 1].at, chain[i].off)
           /\ bson_mut_parent_iterator(i) = foreach(data, chain[i - 1].at)[path[i - 1]]
<1> DEFINE m == chain[i - 1]
           n == chain[i]
           k == path[i - 1]
           p == m.at
<1>1. PICK a : /\ Whole(data, p, a) /\ k \in 1 .. (Len(a) - 1) /\ Nests(data, a[k])
               /\ n.at = ValueAt(data, a[k]) /\ n.off = a[k] - p
  BY DEF Link
<1> DEFINE x == a[k]
           z == Size(data, p)
<1>2. IsLayout(data, p, a)
  BY <1>1 DEF Whole
<1>3. Len(a) \in Nat /\ p \in Nat /\ z \in Nat
  BY <1>2, LayoutOrder
<1>4. k \in 1 .. Len(a) /\ k # Len(a)
  BY <1>1, <1>3
<1>5. Elem(data, x, a[k + 1])
  BY <1>1 DEF Whole, GoodElem
<1>6. x \in Nat /\ KeyLen(data, x) \in Nat /\ n.at = x + KeyLen(data, x) + 2
  BY <1>1, <1>5, ElemParts
<1>7. foreach(data, p)[k] = IteratorOf(data, p, a, k)
  BY <1>1, <1>4, WalkParts
<1>8. _bson_iterator_at(data, x, (p + z) - x) = IteratorOf(data, p, a, k)
  BY <1>2, <1>4, IteratorsOf
<1>9. IteratorOf(data, p, a, k) = Iterator(x, KeyLen(data, x), (p + z) - x)
  BY <1>4 DEF IteratorOf
<1>10. /\ bson_mut_parent_iterator(i) = Iterator(p + n.off, (n.at - (p + n.off)) - 2, z - n.off)
       /\ _bson_recover_iterator(data, p, n.off) = _bson_iterator_at(data, p + n.off, z - n.off)
  BY DEF bson_mut_parent_iterator, _bson_recover_iterator
<1> HIDE DEF m, n, k, p, x, z
<1>11. p + n.off = x /\ z - n.off = (p + z) - x /\ (n.at - (p + n.off)) - 2 = KeyLen(data, x)
  BY <1>1, <1>3, <1>6, SMTT(30) DEF x
<1>12. /\ bson_mut_parent_iterator(i) = IteratorOf(data, p, a, k)
       /\ _bson_recover_iterator(data, p, n.off) = IteratorOf(data, p, a, k)
  BY <1>8, <1>9, <1>10, <1>11
<1> QED BY <1>7, <1>12 DEF m, n, k, p

(* What MutatorsPointHome says holds at every depth and of every document: *)
(* after any number of reallocations each mutator points into the          *)
(* allocated buffer at the value of the element it was made from.          *)
THEOREM MutatorsSurviveEdits == Spec => []MutatorsPointHome
<1>1. ASSUME Inv PROVE MutatorsPointHome
  <2> DEFINE N == Len(chain)
  <2>1. StoreOk(Store, path) /\ data \in Buffer /\ Len(data) <= MaxInt
    BY <1>1, ElementsWalk DEF WalkAt
  <2>2. IsChain(data, chain, path) /\ docs = [i \in 1 .. N |-> Document(data, chain[i].at)]
    BY <1>1, <2>1, StoreFields DEF StoreOk, Inv, StateOk, Reference
  <2>3. /\ N \in Nat /\ DOMAIN chain = 1 .. N
        /\ \A i \in 1 .. N : chain[i] \in Mutators /\ chain[i].live = TRUE
    <3>1. chain \in Seq(Mutators)
      BY <2>2 DEF IsChain
    <3>2. DOMAIN chain = 1 .. N
      BY <3>1
    <3> QED BY <2>1, <2>2, <3>2, ChainParts
  <2>4. ASSUME NEW i \in 1 .. N, i > 1
        PROVE  LET it == bson_mut_parent_iterator(i)
               IN /\ docs[i] = docs[i - 1][path[i - 1]].val
                  /\ it = _bson_recover_iterator(data, chain[i - 1].at, chain[i].off)
                  /\ it = foreach(data, chain[i - 1].at)[path[i - 1]]
    <3> DEFINE j == i - 1
    <3>1. j \in 1 .. (N - 1) /\ j \in 1 .. N /\ j + 1 = i /\ i \in 2 .. N
      BY <2>3, <2>4
    <3>2. /\ Link(data, chain[j], chain[j + 1], path[j])
          /\ Row(Document(data, chain[j].at), path[j], Document(data, chain[j + 1].at))
      BY <2>1, <3>1, StoreLinks, StoreFields
    <3>3. Document(data, chain[j].at)[path[j]].val = Document(data, chain[j + 1].at)
      BY <3>2 DEF Row
    <3>4. docs[i] = docs[j][path[j]].val
      BY <3>1, <3>3, <2>2
    <3>5. /\ bson_mut_parent_iterator(i) = _bson_recover_iterator(data, chain[j].at, chain[i].off)
          /\ bson_mut_parent_iterator(i) = foreach(data, chain[j].at)[path[j]]
      BY <2>1, <2>3, <3>1, <3>2, ParentFound
    <3> QED BY <3>4, <3>5
  <2> QED BY <2>2, <2>3, <2>4 DEF MutatorsPointHome
<1> QED BY <1>1, DocumentsStayValid, PTL

\* What bson_mut_capacity() sums up on the way to the root.
LEMMA CapacityIs ==
    ASSUME Inv, NEW i \in 1 .. Len(chain)
    PROVE  bson_mut_capacity(i) = cap - (Size(data, 0) - Size(data, chain[i].at))
<1> DEFINE S(j) == Size(data, chain[j].at)
           C(f, j) == IF chain[j].off = 0 THEN cap
                      ELSE LET before == -chain[j].off
                               after == (Size(data, chain[j - 1].at) - before) - Size(data, chain[j].at)
                           IN f[j - 1] - (before + after)
           Cap(f) == f = [j \in 1 .. i |-> C(f, j)]
           up == CHOOSE f : Cap(f)
           g == [j \in 1 .. i |-> cap - (S(1) - S(j))]
<1>1. data \in Buffer /\ IsChain(data, chain, path) /\ cap \in Nat
  BY RootParts, StoreFields DEF StoreOk, Fits
<1>2. /\ Len(chain) \in Nat /\ chain[1].at = 0 /\ chain[1].off = 0
      /\ \A j \in 1 .. Len(chain) : S(j) \in Nat /\ chain[j].off \in Nat /\ (chain[j].off > 0 <=> j > 1)
  BY <1>1, ChainParts
<1>3. i \in Nat /\ i >= 1 /\ \A j \in 1 .. i : j \in 1 .. Len(chain) /\ j \in Nat
  BY <1>2
<1>4. bson_mut_capacity(i) = up[i]
  BY DEF bson_mut_capacity
<1>5. ASSUME NEW f, NEW j \in 1 .. i, j # 1, f[j - 1] = cap - (S(1) - S(j - 1))
      PROVE  C(f, j) = cap - (S(1) - S(j))
  <2>1. chain[j].off # 0 /\ chain[j].off \in Nat /\ S(j) \in Nat /\ S(j - 1) \in Nat /\ S(1) \in Nat
    <3>1. j \in 1 .. Len(chain) /\ j - 1 \in 1 .. Len(chain) /\ 1 \in 1 .. Len(chain) /\ j > 1
      BY <1>3, <1>5, <1>2
    <3> HIDE DEF S
    <3> QED BY <3>1, <1>2
  <2> DEFINE o == chain[j].off
  <2>2. C(f, j) = f[j - 1] - ((-o) + ((S(j - 1) - (-o)) - S(j)))
    BY <2>1
  <2> HIDE DEF C, S, o
  <2>3. f[j - 1] - ((-o) + ((S(j - 1) - (-o)) - S(j))) = cap - (S(1) - S(j))
    BY <1>1, <1>5, <2>1, SMTT(30) DEF o
  <2> QED BY <2>2, <2>3
<1>6. \A f : C(f, 1) = cap
  BY <1>2
<1>7. g = [j \in 1 .. i |-> g[j]] /\ \A j \in 1 .. i : g[j] = cap - (S(1) - S(j))
  BY Zenon DEF g
<1>8. S(1) \in Nat /\ cap - (S(1) - S(1)) = cap /\ 1 \in 1 .. i
  <2>1. S(1) \in Nat /\ 1 \in 1 .. i
    <3> HIDE DEF S
    <3> QED BY <1>2, <1>3
  <2> HIDE DEF S
  <2> QED BY <2>1, <1>1
<1> HIDE DEF g, C, S
<1>9. \A j \in 1 .. i : g[j] = C(g, j)
  <2> TAKE j \in 1 .. i
  <2>1. CASE j = 1
    BY <2>1, <1>6, <1>7, <1>8
  <2>2. CASE j # 1
    <3>1. j - 1 \in 1 .. i
      BY <2>2, <1>3
    <3> QED BY <3>1, <2>2, <1>5, <1>7
  <2> QED BY <2>1, <2>2
<1>10. Cap(g)
  BY <1>7, <1>9
<1>11. Cap(up)
  <2> HIDE DEF Cap
  <2> QED BY <1>10
<1>12. \A j \in 1 .. i : up[j] = C(up, j)
  <2> HIDE DEF up
  <2> QED BY <1>11
<1> HIDE DEF up, Cap
<1>13. \A j \in 1 .. i : up[j] = cap - (S(1) - S(j))
  <2> DEFINE T == {j \in 1 .. i : up[j] # cap - (S(1) - S(j))}
  <2> SUFFICES ASSUME T # {} PROVE FALSE
    OBVIOUS
  <2>1. T \in SUBSET Nat
    BY <1>3
  <2>2. PICK n \in T : \A k \in T : n <= k
    <3> HIDE DEF T
    <3> QED BY <2>1, LeastNatural
  <2>3. n # 1
    BY <2>2, <1>6, <1>8, <1>12
  <2>4. n - 1 \in 1 .. i /\ n - 1 \notin T
    BY <2>2, <2>3, <1>3
  <2>5. up[n - 1] = cap - (S(1) - S(n - 1))
    BY <2>4
  <2>6. C(up, n) = cap - (S(1) - S(n))
    BY <2>2, <2>3, <2>5, <1>5
  <2> QED BY <2>2, <2>6, <1>12
<1>14. i \in 1 .. i
  BY <1>3
<1> QED BY <1>2, <1>4, <1>13, <1>14 DEF S

(* What CapacityIsHonest says holds at every depth: the capacity cookie    *)
(* covers the document and stays within int32, and what a nested mutator   *)
(* computes from it is what the bytes around its document leave.           *)
THEOREM CapacityStaysHonest == Spec => []CapacityIsHonest
<1>1. ASSUME Inv PROVE CapacityIsHonest
  <2>1. /\ Size(data, 0) <= cap /\ cap + 4 <= MaxInt /\ DOMAIN chain = 1 .. Len(chain)
    BY <1>1, RootParts DEF Fits
  <2> QED BY <1>1, <2>1, CapacityIs DEF CapacityIsHonest
<1> QED BY <1>1, DocumentsStayValid, PTL

\* bson_find() gives the first element of a key, or else the end.
FirstFound(b, p, D, key) ==
    LET w == foreach(b, p)
        hits == {k \in DOMAIN D : D[k].key = key}
    IN \E k \in DOMAIN w :
        /\ w[k] = _bson_find(b, p, key)
        /\ IF hits = {} THEN k = Len(w) ELSE k \in hits /\ \A j \in hits : k <= j

\* So it does in a valid document.
LEMMA FindFinds ==
    ASSUME NEW b \in Buffer, Len(b) <= MaxInt, NEW p, Valid(b, p), NEW D, D = Document(b, p), NEW key
    PROVE  FirstFound(b, p, D, key)
<1>1. PICK a : Whole(b, p, a)
  BY ValidUnfolds
<1>2. IsLayout(b, p, a)
  BY <1>1 DEF Whole
<1> DEFINE w == foreach(b, p)
           n == Len(a)
           hits == {k \in DOMAIN D : D[k].key = key}
           found == {k \in 1 .. (Len(w) - 1) : bson_key(b, w[k]) = key}
           z == (p + Size(b, p)) - 1
<1>3. n \in Nat /\ n >= 1 /\ p \in Nat /\ Size(b, p) \in Nat /\ n \in 1 .. n /\ a[n] = z
  <2>1. n \in Nat /\ n >= 1 /\ p \in Nat /\ Size(b, p) \in Nat
    BY <1>2, LayoutOrder
  <2>2. a[n] = z
    BY <1>2 DEF IsLayout
  <2> QED BY <2>1, <2>2
<1>4. Len(w) = n /\ DOMAIN w = 1 .. n /\ \A k \in 1 .. n : w[k] = IteratorOf(b, p, a, k)
  BY <1>1, <1>3, WalkParts
<1>5. D = [k \in 1 .. (n - 1) |-> ElementAt(b, a[k])]
  BY <1>2, DocumentIs, SMTT(30)
<1>6. w[n] = bson_end(b, p)
  <2>1. p + Size(b, p) - 1 = z /\ (p + Size(b, p)) - z = 1
    BY <1>3
  <2>2. bson_end(b, p) = Iterator(z, 0, 1)
    BY <2>1, IteratorAtEnd DEF bson_end
  <2> QED BY <1>3, <1>4, <2>1, <2>2 DEF IteratorOf
<1>7. ASSUME NEW k \in 1 .. (n - 1) PROVE bson_key(b, w[k]) = D[k].key
  <2>1. k \in 1 .. n /\ k # n
    BY <1>3, SMTT(30)
  <2>2. w[k] = Iterator(a[k], KeyLen(b, a[k]), (p + Size(b, p)) - a[k])
    BY <2>1, <1>4 DEF IteratorOf
  <2>3. bson_key(b, w[k]) = Bytes(b, a[k] + 1, KeyLen(b, a[k]))
    <3> HIDE DEF w
    <3> QED BY <2>2 DEF bson_key, Iterator
  <2>4. D[k].key = Bytes(b, a[k] + 1, KeyLen(b, a[k]))
    BY <1>5 DEF ElementAt
  <2> QED BY <2>3, <2>4
<1>8. found = hits /\ hits \in SUBSET (1 .. (n - 1))
  <2>1. DOMAIN D = 1 .. (n - 1)
    BY <1>5
  <2> HIDE DEF w
  <2> QED BY <2>1, <1>4, <1>7
<1>9. _bson_find(b, p, key) = IF found = {} THEN bson_end(b, p) ELSE w[CHOOSE k \in found : \A j \in found : k <= j]
  BY DEF _bson_find
<1> HIDE DEF w, hits, found, z, n
<1>10. CASE hits = {}
  <2>1. w[n] = _bson_find(b, p, key) /\ n \in DOMAIN w /\ n = Len(w)
    BY <1>10, <1>3, <1>4, <1>6, <1>8, <1>9
  <2> QED BY <1>10, <2>1 DEF FirstFound, w, hits
<1>11. CASE hits # {}
  <2>1. hits \in SUBSET Nat
    BY <1>3, <1>8
  <2>2. \E k \in hits : \A j \in hits : k <= j
    BY <2>1, <1>11, LeastNatural
  <2> DEFINE m == CHOOSE k \in hits : \A j \in hits : k <= j
  <2>3. m \in hits /\ \A j \in hits : m <= j
    BY <2>2
  <2>4. w[m] = _bson_find(b, p, key)
    BY <1>8, <1>9, <1>11
  <2> HIDE DEF m
  <2>5. m \in DOMAIN w
    BY <2>3, <1>3, <1>4, <1>8
  <2> QED BY <1>11, <2>3, <2>4, <2>5 DEF FirstFound, w, hits
<1> QED BY <1>10, <1>11

(* What ReadsBack says holds of every sequence of edits, of every document *)
(* and at every depth: the bytes read as the elements that the successful  *)
(* edits denote, and bson_find() finds the first element of a key.         *)
THEOREM EditsReadBack == Spec => []ReadsBack
<1>1. ASSUME Inv PROVE ReadsBack
  <2>1. /\ data \in Buffer /\ Len(data) <= MaxInt /\ Size(data, 0) = Len(data) /\ Valid(data, 0)
        /\ docs[1] = Document(data, 0)
    <3>1. Fits(data, cap) /\ Valid(data, 0) /\ docs[1] = Document(data, 0)
      BY <1>1, RootParts
    <3>2. Len(data) <= MaxInt
      BY <1>1, ElementsWalk DEF WalkAt
    <3> QED BY <3>1, <3>2 DEF Fits
  <2>2. \A key \in Keys : FirstFound(data, 0, docs[1], key)
    BY <2>1, FindFinds
  <2> QED BY <2>1, <2>2, Zenon DEF ReadsBack, FirstFound
<1> QED BY <1>1, DocumentsStayValid, PTL
=============================================================================
