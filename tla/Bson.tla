-------------------------------- MODULE Bson --------------------------------
(***************************************************************************)
(* BSON documents: bson_doc, the iterators that read it and the mutators   *)
(* that edit it in place (bson/doc.h, bson/mut.h, bson/iterator.h).        *)
(*                                                                         *)
(* A document is one buffer of bytes.  A nested document is a region of    *)
(* its parent's bytes with a size header of its own, and a mutator of a    *)
(* nested document holds a raw pointer into the buffer of the root: each   *)
(* edit moves the bytes behind it, must correct the header of every        *)
(* document around it, and may reallocate the buffer under all of them.    *)
(*                                                                         *)
(* `docs' is the reference: what the sequence of edits means for documents *)
(* that are sequences of elements.  A pointer is an offset in the buffer   *)
(* and whether it points into the buffer that is now allocated.            *)
(***************************************************************************)
EXTENDS Integers, Sequences, SequencesExt

CONSTANTS
    MaxInt,       \* stands for INT32_MAX, the bound of every checked size
    Slack,        \* stands for the 512 bytes a growing document adds
    Keys,         \* the keys of elements: sequences of non-zero bytes
    Values,       \* the values inserted: [tag |-> a bson_type, val |-> data];
                  \* of a document or an array, the bytes of the view
    Reserves,     \* the arguments of bson_new() and bson_doc_reserve()
    Surplus,      \* what an allocator may grant beyond the size it is asked for
    Other,        \* the bytes of another document, the source of ranges
    MaxDepth      \* bound on nested mutators

VARIABLES
    data,         \* the bytes of the root document, up to its end
    cap,          \* the capacity cookie in front of the buffer
    shared,       \* the buffer is the static constant empty document
    chain,        \* the mutators in use: the root, a child of it, ...
    docs,         \* docs[i]: the elements that the edits made so far denote
                  \* for the document of chain[i]
    path,         \* the element of chain[i] that chain[i + 1] mutates
    ret,          \* the result of the last operation
    fatal         \* "assertion": BV_ASSERT() has failed and aborted the process;
                  \* "constant": the static constant empty document was written to

vars == <<data, cap, shared, chain, docs, path, ret, fatal>>

eod == 0
utf8 == 2
document == 3
array == 4
binary == 5
bool == 8
null == 10
regex == 11
dbpointer == 12
int32 == 16

\* mlibMathInt32(), mlibMathNonNegativeInt32(), mlibMathPositiveInt32()
Int32(n) == n \in (-MaxInt - 1) .. MaxInt
NonNegativeInt32(n) == n \in 0 .. MaxInt
PositiveInt32(n) == n \in 1 .. MaxInt

\* The bytes of b at the addresses p .. p + n - 1.
Bytes(b, p, n) == SubSeq(b, p + 1, p + n)

read_u32le(b, p) ==
    b[p + 1] + 256 * (b[p + 2] + 256 * (b[p + 3] + 256 * b[p + 4]))

u32le(n) ==
    LET q == n \div 256
        r == q \div 256
    IN <<n % 256, q % 256, r % 256, r \div 256>>

write_u32le(b, p, n) == Bytes(b, 0, p) \o u32le(n) \o Bytes(b, p + 4, Len(b) - p - 4)

\* strnlen32(), whose callers refuse a string that reaches their bound.
strlen(b, p) == CHOOSE n \in 0 .. (Len(b) - p) :
    /\ n = Len(b) - p \/ b[p + n + 1] = 0
    /\ \A k \in 0 .. (n - 1) : b[p + k + 1] # 0

\* bson_size() of the document at p.
Size(b, p) == read_u32le(b, p)

-----------------------------------------------------------------------------
(***************************************************************************)
(* Iteration.                                                              *)
(***************************************************************************)

\* const_sizes[]: the bytes of a value that its length prefix does not count.
ConstSize(tag) ==
    CASE tag \in {utf8, 13, 14, int32} -> 4
      [] tag \in {1, 9, 17, 18} -> 8
      [] tag = binary -> 5
      [] tag \in {7, dbpointer} -> 12
      [] tag = bool -> 1
      [] tag = 15 -> 8
      [] tag = 19 -> 16
      [] tag \in {eod, document, array, 6, null, 127, 255} -> 0
      [] OTHER -> MaxInt

HasVarsizePrefix(tag) == tag \in {utf8, document, array, binary, dbpointer, 13, 14, 15}

short_read == -1
invalid_type == -2
invalid_length == -3
invalid_document == -4

\* A regular expression is two C strings.
_bson_value_re_len(b, p, maxlen) ==
    LET rx == strlen(b, p) + 1
        opt == strlen(b, p + rx)
    IN IF rx > maxlen THEN invalid_length
       ELSE IF (maxlen - rx) - opt < 2 THEN short_read
       ELSE rx + opt + 1

_bson_valsize(b, tag, p, maxlen) ==
    LET prefix == HasVarsizePrefix(tag)
        full == ConstSize(tag) + (IF prefix THEN read_u32le(b, p) ELSE 0)
    IN IF prefix /\ maxlen <= 4 THEN invalid_length
       ELSE IF full < maxlen THEN full
       ELSE IF tag = regex THEN _bson_value_re_len(b, p, maxlen)
       ELSE IF ConstSize(tag) = MaxInt THEN invalid_type
       ELSE invalid_length

Iterator(at, keylen, rlen) == [at |-> at, keylen |-> keylen, rlen |-> rlen]
_bson_iterator_error(err) == Iterator(-1, 0, err)

\* The iterator at address p of a document that ends after maxlen bytes.
_bson_iterator_at(b, p, maxlen) ==
    LET keylen == strlen(b, p + 1)
        valptr == p + keylen + 2
        val_maxlen == maxlen - keylen - 2
        vallen == _bson_valsize(b, b[p + 1], valptr, val_maxlen)
    IN IF maxlen = 1 THEN Iterator(p, 0, 1)
       ELSE IF val_maxlen < 1 THEN _bson_iterator_error(short_read)
       ELSE IF vallen < 0 THEN _bson_iterator_error(vallen)
       ELSE IF b[p + 1] \in {document, array} /\ b[valptr + vallen] # 0
       THEN _bson_iterator_error(invalid_document)
       ELSE Iterator(p, keylen, maxlen)

_bson_recover_iterator(b, p, offset) ==
    _bson_iterator_at(b, p + offset, Size(b, p) - offset)

bson_begin(b, p) == _bson_iterator_at(b, p + 4, Size(b, p) - 4)
bson_end(b, p) == _bson_iterator_at(b, p + Size(b, p) - 1, 1)
bson_stop(it) == it.rlen <= 1
bson_key(b, it) == Bytes(b, it.at + 1, it.keylen)
ValuePtr(it) == it.at + it.keylen + 2

bson_iterator_data_size(b, it) ==
    it.keylen + 2 + _bson_valsize(b, b[it.at + 1], ValuePtr(it), MaxInt)

bson_next(b, it) ==
    LET skip == bson_iterator_data_size(b, it)
    IN _bson_iterator_at(b, it.at + skip, it.rlen - skip)

\* The iterators of bson_foreach: every element, then the end (or an error).
WalkOn(b, w) == IF bson_stop(w[Len(w)]) THEN w ELSE Append(w, bson_next(b, w[Len(w)]))
foreach(b, p) ==
    LET walk[n \in 0 .. (Len(b) \div 2)] ==
            IF n = 0 THEN <<bson_begin(b, p)>> ELSE WalkOn(b, walk[n - 1])
    IN walk[Len(b) \div 2]

_bson_find(b, p, key) ==
    LET w == foreach(b, p)
        hits == {k \in 1 .. (Len(w) - 1) : bson_key(b, w[k]) = key}
    IN IF hits = {} THEN bson_end(b, p) ELSE w[CHOOSE k \in hits : \A j \in hits : k <= j]

bson_view_from_data(b, p, len) ==
    /\ len >= 5
    /\ Size(b, p) \in 5 .. len
    /\ b[p + Size(b, p)] = 0

\* What bson_iterator_value() reads: the bytes, or the document it views,
\* where views[v] is what the document at v reads as.
bson_iterator_value(b, it, views) ==
    LET tag == b[it.at + 1]
        v == ValuePtr(it)
        len == IF HasVarsizePrefix(tag) THEN read_u32le(b, v) ELSE 0
    IN CASE tag \in {document, array} ->
              IF bson_view_from_data(b, v, it.rlen - (v - it.at)) THEN views[v] ELSE <<-1>>
         [] tag \in {utf8, 13, 14} -> Bytes(b, v + 4, len - 1)
         [] tag = binary -> Bytes(b, v + 4, len + 1)
         [] tag = bool -> IF b[v + 1] # 0 THEN <<1>> ELSE <<0>>
         [] tag = regex -> <<Bytes(b, v, strlen(b, v)),
                             Bytes(b, v + strlen(b, v) + 1, strlen(b, v + strlen(b, v) + 1))>>
         [] tag = dbpointer -> <<Bytes(b, v + 4, len - 1), Bytes(b, v + 4 + len, 12)>>
         [] OTHER -> Bytes(b, v, ConstSize(tag))

\* The elements of the document at p, whose nested documents lie behind it.
ReadElements(b, p, views) ==
    LET w == foreach(b, p)
    IN [k \in 1 .. (Len(w) - 1) |->
            [key |-> bson_key(b, w[k]), tag |-> b[w[k].at + 1],
             val |-> bson_iterator_value(b, w[k], [v \in (p + 1) .. Len(b) |-> views[v]])]]

Document(b, p) ==
    LET views[q \in 0 .. Len(b)] == ReadElements(b, q, views)
    IN views[p]

-----------------------------------------------------------------------------
(***************************************************************************)
(* Writing.                                                                *)
(***************************************************************************)

\* Values of a fixed size are their bytes.
FixedPayload(v) == v.val

\* The bytes _bson_insert_value() leaves in the region of a value.
Payload(v) ==
    CASE v.tag \in {document, array} -> Bytes(v.val, 0, Size(v.val, 0))
      [] v.tag \in {utf8, 13, 14} -> u32le(Len(v.val) + 1) \o v.val \o <<0>>
      [] v.tag = binary -> u32le(Len(v.val) - 1) \o v.val
      [] v.tag = regex -> v.val[1] \o <<0>> \o v.val[2] \o <<0, 88, 88, 88>>
      [] v.tag = dbpointer -> u32le(Len(v.val[1]) + 1) \o v.val[1] \o <<0>> \o v.val[2]
      [] OTHER -> FixedPayload(v)

Element(key, v) == <<v.tag>> \o key \o <<0>> \o Payload(v)

\* The element that this denotes.
Denoted(key, v) ==
    [key |-> key, tag |-> v.tag,
     val |-> IF v.tag \in {document, array} THEN Document(v.val, 0) ELSE v.val]

\* A document that bson_foreach walks to its end, and so for those in it.  It has
\* no element that cannot be read: an empty string (_bson_iterator_stringlike()
\* asserts), code with scope (aborts), a DBPointer (reads behind its size).
IsDocument(b, p) ==
    LET w == foreach(b, p)
    IN /\ Size(b, p) \in 5 .. (Len(b) - p)
       /\ b[p + Size(b, p)] = 0
       /\ w[Len(w)] = bson_end(b, p)
       /\ \A k \in 1 .. (Len(w) - 1) :
            /\ b[w[k].at + 1] \notin {dbpointer, 15}
            /\ b[w[k].at + 1] \in {utf8, 13, 14} => read_u32le(b, ValuePtr(w[k])) > 1
Nested(b, p) ==
    LET w == foreach(b, p)
    IN {ValuePtr(w[k]) : k \in {j \in 1 .. (Len(w) - 1) : b[w[j].at + 1] \in {document, array}}}
IsView(b) ==
    /\ b \in Seq(0 .. 255) /\ Len(b) \in 5 .. MaxInt /\ Size(b, 0) = Len(b)
    /\ \E D \in SUBSET (0 .. (Len(b) - 5)) :
        0 \in D /\ \A p \in D : IsDocument(b, p) /\ Nested(b, p) \subseteq D

\* What can be inserted and read again.  Not among it: regular expressions,
\* DBPointers and code with scope, whose size _bson_valsize() sees otherwise.
IsValue(v) ==
    CASE v.tag \in {document, array} -> IsView(v.val)
      [] v.tag \in {utf8, 13, 14, binary} -> v.val \in Seq(0 .. 255) /\ v.val # << >>
      [] v.tag = bool -> v.val \in {<<0>>, <<1>>}
      [] OTHER -> /\ v.tag \in {1, 6, 7, 9, null, int32, 17, 18, 19, 127, 255}
                  /\ v.val \in Seq(0 .. 255) /\ Len(v.val) = ConstSize(v.tag)

ASSUME SizesAssumption ==
    /\ MaxInt \in Nat /\ 17 <= MaxInt /\ MaxInt <= 2147483647
    /\ Slack \in Nat /\ Reserves \subseteq Nat /\ Surplus \subseteq Nat
ASSUME KeysAssumption == Keys \subseteq Seq(1 .. 255)
ASSUME ViewsAssumption == (\A v \in Values : IsValue(v)) /\ IsView(Other)

\* A mutator: its _bson_document_data and its _offset_within_parent_data.
Mutator(at, off, live) == [at |-> at, off |-> off, live |-> live]
bson_mutate == Mutator(0, 0, TRUE)

Store == [data |-> data, cap |-> cap, shared |-> shared, chain |-> chain,
          ok |-> TRUE]
Fails(s) == [s EXCEPT !.ok = FALSE]

\* The allocator's answer: it refuses, or grants so much more than is asked for.
\* BV_ASSERT() holds it to no less than is asked for and no more than INT32_MAX.
Refused == -1
GotSize(size, alloc) ==
    IF size + alloc \in size .. (MaxInt - 4) THEN size + alloc ELSE MaxInt - 4

\* _bson_realloc(): the cookie remembers what the allocator gave, and every
\* pointer into the old buffer dies with it.
_bson_realloc(s, size, alloc) ==
    IF size > MaxInt - 4 \/ alloc = Refused THEN Fails(s)
    ELSE [s EXCEPT !.cap = GotSize(size, alloc), !.shared = FALSE,
                   !.chain = [k \in DOMAIN @ |-> [@[k] EXCEPT !.live = FALSE]]]

bson_doc_reserve(s, size, alloc) ==
    IF s.cap >= size THEN s ELSE _bson_realloc(s, size, alloc)

\* The root: make room, move the tail, fill the gap.
SpliceRoot(s, at, n_delete, insert, new_size, alloc) ==
    LET size == Size(s.data, s.chain[1].at)
        grow == new_size > s.cap
        r == IF grow THEN bson_doc_reserve(s, new_size + Slack, alloc) ELSE s
    IN IF n_delete > size - at \/ (grow /\ ~NonNegativeInt32(new_size + Slack)) \/ ~r.ok
       THEN Fails(s)
       ELSE [r EXCEPT !.data = Bytes(@, 0, at) \o insert \o Bytes(@, at + n_delete, size - at - n_delete),
                      !.chain[1].live = TRUE]

\* Mutant: the child keeps its pointer into the old buffer.
ChildKeepsPointer(s, r, i) == r

\* The child: its parent does the work, then it finds itself again.
RefreshChild(s, r, i) ==
    [r EXCEPT !.chain[i].at = r.chain[i - 1].at + (s.chain[i].at - s.chain[i - 1].at),
              !.chain[i].live = r.chain[i - 1].live]

\* Mutant: only the root's header is corrected.
WriteRootHeader(s, i, new_size) ==
    IF i = 1 THEN [s EXCEPT !.data = write_u32le(@, s.chain[i].at, new_size)] ELSE s

\* Our document header, at every level on the way back.
WriteHeader(s, i, new_size) == [s EXCEPT !.data = write_u32le(@, s.chain[i].at, new_size)]

\* What level i makes of the result r of its parent or of the root.
SpliceLevel(s, i, r, diff) ==
    LET new_size == Size(s.data, s.chain[i].at) + diff
    IN IF ~Int32(diff) \/ ~NonNegativeInt32(new_size) \/ ~r.ok THEN Fails(s)
       ELSE WriteHeader(IF s.chain[i].off > 0 THEN RefreshChild(s, r, i) ELSE r, i, new_size)

_bson_splice_region(s, i, at, n_delete, insert, alloc) ==
    LET diff == Len(insert) - n_delete
        root(j) == SpliceRoot(s, at, n_delete, insert, Size(s.data, s.chain[j].at) + diff, alloc)
        region[j \in 1 .. i] ==
            SpliceLevel(s, j, IF s.chain[j].off > 0 THEN region[j - 1] ELSE root(j), diff)
    IN region[i]

-----------------------------------------------------------------------------
(***************************************************************************)
(* Operations on the innermost mutator.  The reference edits the sequence  *)
(* of elements at `path'.                                                  *)
(***************************************************************************)

Top == Len(chain)
Home(s) == s.chain[Len(s.chain)].at
Elements == foreach(data, chain[Top].at)

Here == docs[Top]

\* The reference after an edit that makes t of the innermost document.
Graft(t) ==
    LET up[n \in 0 .. (Top - 1)] ==
            IF n = 0 THEN t ELSE [docs[Top - n] EXCEPT ![path[Top - n]].val = up[n - 1]]
    IN [i \in 1 .. Top |-> up[Top - i]]

\* The operation leaves s and returns it; the reference becomes t if it worked.
Apply(s, it, t) ==
    /\ data' = s.data /\ cap' = s.cap /\ shared' = s.shared /\ chain' = s.chain
    /\ ret' = [ok |-> s.ok, it |-> IF s.ok THEN it ELSE bson_end(s.data, Home(s))]
    /\ docs' = IF s.ok THEN Graft(t) ELSE docs
    /\ UNCHANGED path

\* Mutant: the remaining length is that of the document before the insertion.
InsertedOldLength(s, at, keylen) ==
    Iterator(at, keylen, Size(data, Home(Store)) - (at - Home(Store)))

\* _bson_prep_element_region() and _bson_insert_value()
InsertedIterator(s, at, keylen) == Iterator(at, keylen, Size(s.data, Home(s)) - (at - Home(s)))
Insert(w, k, key, v, alloc) ==
    LET at == w[k].at
        e == Element(key, v)
        s == IF NonNegativeInt32(Len(e)) THEN _bson_splice_region(Store, Top, at, 0, e, alloc)
             ELSE Fails(Store)
    IN Apply(s, InsertedIterator(s, at, Len(key)),
             InsertAt(Here, k, Denoted(key, v)))

\* _bson_set_key() at the iterator pos of the state s; the result's iterator.
SetKeyIterator(pos, newkey) ==
    Iterator(pos.at, Len(newkey), pos.rlen + Len(newkey) - pos.keylen)
_bson_set_key(s, pos, newkey, alloc) ==
    IF ~PositiveInt32(pos.rlen + Len(newkey) - pos.keylen) THEN Fails(s)
    ELSE _bson_splice_region(s, Len(s.chain), pos.at + 1, pos.keylen, newkey, alloc)
SetKey(w, k, newkey, alloc) ==
    LET pos == w[k]
    IN Apply(_bson_set_key(Store, pos, newkey, alloc), SetKeyIterator(pos, newkey),
             [Here EXCEPT ![k].key = newkey])

\* bson_u32_string_create(idx) in bson_relabel_array_elements(): idx is 0 and
\* nothing increments it.
Label == <<48>>

\* Mutant: the loop advances twice.
RelabelSkips(p, alloc) ==
    LET r == _bson_set_key(p.s, p.pos, Label, alloc)
        n == bson_next(r.data, SetKeyIterator(p.pos, Label))
    IN IF p.failed \/ bson_stop(p.pos) THEN p
       ELSE IF ~r.ok THEN [s |-> p.s, pos |-> p.pos, failed |-> TRUE]
       ELSE [s |-> r, pos |-> IF bson_stop(n) THEN n ELSE bson_next(r.data, n), failed |-> FALSE]

\* bson_set_key() answers a failure with the end iterator, and the loop hands that
\* to bson_next(), which asserts that it is none.
RelabelStep(p, alloc) ==
    LET r == _bson_set_key(p.s, p.pos, Label, alloc)
    IN IF p.failed \/ bson_stop(p.pos) THEN p
       ELSE IF ~r.ok THEN [s |-> p.s, pos |-> p.pos, failed |-> TRUE]
       ELSE [s |-> r, pos |-> bson_next(r.data, SetKeyIterator(p.pos, Label)), failed |-> FALSE]

\* Relabelling keeps the elements, their order, types and values; which keys they
\* get the reference takes from the bytes (for those see RelabelsEveryElement).
Relabel(w, allocs) ==
    LET at[n \in 0 .. Len(w)] ==
            IF n = 0 THEN [s |-> Store, pos |-> w[1], failed |-> FALSE]
            ELSE RelabelStep(at[n - 1], allocs[n])
        r == at[Len(w)]
        read == Document(r.s.data, Home(r.s))
    IN /\ Apply(r.s, _bson_recover_iterator(r.s.data, Home(r.s), 4),
                [k \in DOMAIN Here |-> [Here[k] EXCEPT !.key = read[k].key]])
       /\ fatal' = IF r.failed THEN "assertion" ELSE fatal

\* The allocator grants alloc for the first n elements and refuses from then on.
RunsOut(w, n, alloc) == [k \in 1 .. Len(w) |-> IF k <= n THEN alloc ELSE Refused]

OtherWalk == foreach(Other, 0)
OtherElements == Document(Other, 0)

\* bson_splice_disjoint_ranges(): elements k .. l - 1 give way to elements
\* f .. g - 1 of Other.  bson_erase_range() inserts nothing.
bson_splice_disjoint_ranges(w, k, l, f, g, alloc) ==
    LET pos == w[k]
        delete_end == w[l]
        from == OtherWalk
        copy == Bytes(Other, from[f].at, from[g].at - from[f].at)
        delete_size == delete_end.at - pos.at
        new_rlen == pos.rlen + Len(copy) - delete_size
        s == IF Int32(Len(copy) - delete_size) /\ PositiveInt32(new_rlen)
             THEN _bson_splice_region(Store, Top, pos.at, delete_size, copy, alloc)
             ELSE Fails(Store)
        keylen == IF copy # << >> THEN from[f].keylen ELSE delete_end.keylen
    IN Apply(s, Iterator(pos.at, keylen, new_rlen),
             SubSeq(Here, 1, k - 1) \o SubSeq(OtherElements, f, g - 1) \o SubSeq(Here, l, Len(Here)))

\* A splice of two empty ranges in a document without a buffer of its own does not
\* grow it: the memmove and the header go to the static constant.
SpliceRanges(w, alloc) ==
    \E k \in DOMAIN w, f \in DOMAIN OtherWalk :
        \E l \in k .. Len(w), g \in f .. Len(OtherWalk) :
            /\ bson_splice_disjoint_ranges(w, k, l, f, g, alloc)
            /\ fatal' = IF shared /\ k = l /\ f = g THEN "constant" ELSE fatal

\* No edit of the document at p has been made yet.
NoResult(p) == [ok |-> TRUE, it |-> bson_end(data, p)]

\* bson_mut_child()
Child(k) ==
    LET it == Elements[k]
        m == chain[Top]
    IN /\ k < Len(Elements)
       /\ data[it.at + 1] \in {document, array}
       /\ chain' = Append(chain, Mutator(m.at + (it.at - m.at) + it.keylen + 2,
                                         it.at - m.at, m.live))
       /\ path' = Append(path, k)
       /\ docs' = Append(docs, Here[k].val)
       /\ ret' = NoResult(ValuePtr(it))
       /\ UNCHANGED <<data, cap, shared>>

\* The caller is done with a child and goes on with its parent.
Leave ==
    /\ Top > 1
    /\ chain' = Front(chain)
    /\ path' = Front(path)
    /\ docs' = Front(docs)
    /\ ret' = NoResult(chain[Top - 1].at)
    /\ UNCHANGED <<data, cap, shared>>

\* bson_mut_parent_iterator()
bson_mut_parent_iterator(i) ==
    LET ptr == chain[i - 1].at + chain[i].off
    IN Iterator(ptr, chain[i].at - ptr - 2, Size(data, chain[i - 1].at) - chain[i].off)

\* bson_mut_capacity(): what mutator i can grow to in the buffer of the root.
bson_mut_capacity(i) ==
    LET capacity[j \in 1 .. i] ==
            IF chain[j].off = 0 THEN cap
            ELSE LET before == -chain[j].off
                     after == (Size(data, chain[j - 1].at) - before) - Size(data, chain[j].at)
                 IN capacity[j - 1] - (before + after)
    IN capacity[i]

Start(s) ==
    /\ data' = s.data /\ cap' = s.cap /\ shared' = s.shared
    /\ chain' = <<bson_mutate>> /\ path' = << >>
    /\ ret' = [ok |-> s.ok, it |-> bson_end(s.data, 0)]

\* The caller reserves and, as every pointer may be dead, starts over.
Reserve(size, alloc) ==
    /\ Start(bson_doc_reserve(Store, size, alloc))
    /\ docs' = <<docs[1]>>

\* _bson_copy_view_with_allocator(): the document of the innermost mutator is
\* copied and the copy is edited from now on.
CopyMade(alloc) ==
    LET size == Size(data, chain[Top].at)
    IN /\ Start([Store EXCEPT !.data = Bytes(data, chain[Top].at, size),
                              !.cap = IF size > 5 THEN GotSize(size, alloc) ELSE 5,
                              !.shared = (size = 5)])
       /\ docs' = <<Here>>
       /\ UNCHANGED fatal

\* _bson_new() tests the -1 of a failed bson_doc_reserve() with `!', takes it for
\* success and fills the "new" buffer, which is still the static constant.
CopyRefused ==
    /\ Size(data, chain[Top].at) > 5
    /\ fatal' = "constant"
    /\ UNCHANGED <<data, cap, shared, chain, docs, path, ret>>

Copy == CopyRefused \/ \E alloc \in Surplus : CopyMade(alloc)

\* _bson_new(), whose allocation succeeds.  (For one that fails, see CopyRefused.)
Init ==
    \E reserve \in Reserves, alloc \in Surplus :
        /\ reserve <= MaxInt - 4
        /\ data = <<5, 0, 0, 0, 0>>
        /\ shared = (reserve <= 5)
        /\ cap = IF reserve > 5 THEN GotSize(reserve, alloc) ELSE 5
        /\ chain = <<bson_mutate>>
        /\ docs = << << >> >>
        /\ path = << >>
        /\ ret = [ok |-> TRUE, it |-> Iterator(4, 0, 1)]
        /\ fatal = "no"

\* The answers of the allocator that make a difference.
AllocOutcomes == {Refused} \cup (IF cap = MaxInt - 4 THEN {} ELSE Surplus)

Next ==
    /\ fatal = "no"
    /\ \/ \E alloc \in AllocOutcomes, w \in {Elements} :
            \/ \E n \in DOMAIN w : Relabel(w, RunsOut(w, n, alloc))
            \/ SpliceRanges(w, alloc)
            \/ /\ \/ \E k \in DOMAIN w, key \in Keys, v \in Values : Insert(w, k, key, v, alloc)
                  \/ \E k \in 1 .. (Len(w) - 1), key \in Keys : SetKey(w, k, key, alloc)
                  \/ \E size \in Reserves : Reserve(size, alloc)
               /\ UNCHANGED fatal
       \/ Copy
       \/ /\ (\E k \in DOMAIN Elements : Top < MaxDepth /\ Child(k)) \/ Leave
          /\ UNCHANGED fatal

Spec == Init /\ [][Next]_vars

-----------------------------------------------------------------------------
(***************************************************************************)
(* Properties.                                                             *)
(***************************************************************************)

(* Whatever was inserted, renamed, erased, spliced and copied, at whatever *)
(* depth, and whichever of it failed for want of memory or of int32 sizes, *)
(* iterating over the bytes gives the elements that the successful edits   *)
(* denote, and bson_find() the first element of a key: the headers of all  *)
(* the documents around an edit agree with the bytes that moved.  Of       *)
(* relabelling it says that the elements around, their types, values and   *)
(* order are kept, also when it is cut short and aborts; its keys are the  *)
(* matter of RelabelsEveryElement.                                         *)
ReadsBack ==
    /\ Size(data, 0) = Len(data)
    /\ Document(data, 0) = docs[1]
    /\ \A key \in Keys :
        LET w == foreach(data, 0)
            hits == {k \in DOMAIN docs[1] : docs[1][k].key = key}
        IN \E k \in DOMAIN w :
            /\ w[k] = _bson_find(data, 0, key)
            /\ IF hits = {} THEN k = Len(w) ELSE k \in hits /\ \A j \in hits : k <= j

(* The iterator an edit returns, put together from the old one and the     *)
(* change of size, is the iterator that a fresh walk finds at its place;   *)
(* after a failure it is the end of the edited document.                   *)
ReturnsPosition ==
    LET w == Elements
    IN \E k \in DOMAIN w : ret.it = w[k] /\ (~ret.ok => k = Len(w))

(* No mutator is left behind by a reallocation: each one points into the   *)
(* allocated buffer, at the value of the element that its parent iterator  *)
(* names, and mutates the document that the caller asked for.              *)
MutatorsPointHome ==
    \A i \in DOMAIN chain :
        /\ chain[i].live
        /\ Document(data, chain[i].at) = docs[i]
        /\ i > 1 =>
            LET it == bson_mut_parent_iterator(i)
            IN /\ docs[i] = docs[i - 1][path[i - 1]].val
               /\ it = _bson_recover_iterator(data, chain[i - 1].at, chain[i].off)
               /\ it = foreach(data, chain[i - 1].at)[path[i - 1]]

(* The capacity cookie stays within int32 together with its own four bytes *)
(* and covers the document; a nested mutator's capacity is exactly what    *)
(* the bytes around its document leave of it.                              *)
CapacityIsHonest ==
    /\ Size(data, 0) <= cap
    /\ cap + 4 <= MaxInt
    /\ \A i \in DOMAIN chain :
        bson_mut_capacity(i) = cap - (Size(data, 0) - Size(data, chain[i].at))

(* A relabelling that completes has given its key to every element and     *)
(* skipped none, although each step moves the elements after it and may    *)
(* reallocate.  The key is the same for all: mut.h:425 says "monotonically *)
(* increasing decimal integers beginning from zero" and mut.rst:254 "by    *)
(* incrementing this index for each element", but nothing increments it.   *)
RelabelsEveryElement ==
    [][LET w == Elements IN
       /\ Len(chain') = Len(chain) /\ Len(Here') = Len(Here) /\ fatal' = "no"
       /\ ret'.ok /\ ret'.it.at = chain'[Top'].at + 4
       /\ \E alloc \in AllocOutcomes : Relabel(w, RunsOut(w, Len(w), alloc))
       => \A k \in DOMAIN Here' : Here'[k].key = Label]_vars
=============================================================================
