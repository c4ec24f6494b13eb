------------------------------ MODULE Encoding ------------------------------
(***************************************************************************)
(* The OTLP encoder of the fragmenter (internal/fragmenter: protoenc.go,   *)
(* spanenc.go).  It writes protobuf in two passes: a Size operator says    *)
(* how long a message will be, so that its length prefix can be written    *)
(* first, and a Put operator writes it.  The two are separate walks over   *)
(* the same data and nothing but their agreement makes the output          *)
(* readable.                                                               *)
(*                                                                         *)
(* A buffer is a sequence of bytes.  Strings, ids and byte values are      *)
(* sequences of bytes too.  The 64-bit word is scaled down to Word, as TLC *)
(* has no larger integers.                                                 *)
(***************************************************************************)
EXTENDS Integers, Sequences, SequencesExt

CONSTANT Word       \* 2^w for the width w of the code's uint64

(* The wire types. *)
wVarint  == 0
wFixed64 == 1
wBytes   == 2
wFixed32 == 5

SumOf(size(_), seq) == FoldLeft(LAMBDA n, x : n + size(x), 0, seq)
PutAll(put(_), seq) == FlattenSeq([i \in DOMAIN seq |-> put(seq[i])])

(* i64wire: the two's complement of v. *)
I64wire(v) == IF v >= 0 THEN v ELSE Word + v

RECURSIVE Uvarint(_)
Uvarint(v) == IF v < 128 THEN <<v>> ELSE <<(v % 128) + 128>> \o Uvarint(v \div 128)

(* Mutant of SizeUvarint: the loop ends one value late. *)
RECURSIVE SizeUvarintLate(_)
SizeUvarintLate(v) == IF v <= 128 THEN 1 ELSE 1 + SizeUvarintLate(v \div 128)

RECURSIVE SizeUvarint(_)
SizeUvarint(v) == IF v < 128 THEN 1 ELSE 1 + SizeUvarint(v \div 128)

Key(field, wire) == Uvarint(8 * field + wire)
SizeKey(field)   == SizeUvarint(8 * field)

(* The key and length prefix of a message, or of a byte string, of n bytes. *)
Msg(field, n)     == Key(field, wBytes) \o Uvarint(n)
SizeLen(field, n) == SizeKey(field) + SizeUvarint(n) + n

(* Scalar fields of a message: proto3 leaves out a zero value. *)
BytesF(field, s)   == IF s = << >> THEN << >> ELSE Msg(field, Len(s)) \o s
SizeStr(field, s)  == IF s = << >> THEN 0 ELSE SizeLen(field, Len(s))

VarintF(field, v)     == IF v = 0 THEN << >> ELSE Key(field, wVarint) \o Uvarint(v)
SizeVarintF(field, v) == IF v = 0 THEN 0 ELSE SizeKey(field) + SizeUvarint(v)

(* n bytes, little endian. *)
RECURSIVE LittleEndian(_, _)
LittleEndian(v, n) == IF n = 0 THEN << >> ELSE <<v % 256>> \o LittleEndian(v \div 256, n - 1)

Fixed64F(field, v)     == IF v = 0 THEN << >> ELSE Key(field, wFixed64) \o LittleEndian(v, 8)
SizeFixed64F(field, v) == IF v = 0 THEN 0 ELSE SizeKey(field) + 8
Fixed32F(field, v)     == IF v = 0 THEN << >> ELSE Key(field, wFixed32) \o LittleEndian(v, 4)
SizeFixed32F(field, v) == IF v = 0 THEN 0 ELSE SizeKey(field) + 4

-----------------------------------------------------------------------------
(* An attribute value is a record of its type and v; a map, and a set of   *)
(* attributes, is a sequence of key-value pairs.  A oneof is written at    *)
(* its zero value too; a double is its bit pattern.                        *)
RECURSIVE SizeValue(_), SizeKeyValue(_)
SizeKeyValue(x) == SizeStr(1, x.k) + SizeLen(2, SizeValue(x.v))

SizeValue(a) ==
    CASE a.type = "str"    -> SizeLen(1, Len(a.v))
      [] a.type = "bool"   -> SizeKey(2) + 1
      [] a.type = "int"    -> SizeKey(3) + SizeUvarint(I64wire(a.v))
      [] a.type = "double" -> SizeKey(4) + 8
      [] a.type = "slice"  -> SizeLen(5, SumOf(LAMBDA x : SizeLen(1, SizeValue(x)), a.v))
      [] a.type = "map"    -> SizeLen(6, SumOf(LAMBDA x : SizeLen(1, SizeKeyValue(x)), a.v))
      [] a.type = "bytes"  -> SizeLen(7, Len(a.v))
      [] a.type = "empty"  -> 0

RECURSIVE PutValue(_), PutKeyValue(_)
PutKeyValue(x) == BytesF(1, x.k) \o Msg(2, SizeValue(x.v)) \o PutValue(x.v)

PutValue(a) ==
    CASE a.type = "str"    -> Msg(1, Len(a.v)) \o a.v
      [] a.type = "bool"   -> Key(2, wVarint) \o (IF a.v THEN <<1>> ELSE <<0>>)
      [] a.type = "int"    -> Key(3, wVarint) \o Uvarint(I64wire(a.v))
      [] a.type = "double" -> Key(4, wFixed64) \o LittleEndian(a.v, 8)
      [] a.type = "slice"  -> Msg(5, SumOf(LAMBDA x : SizeLen(1, SizeValue(x)), a.v))
                                \o PutAll(LAMBDA x : Msg(1, SizeValue(x)) \o PutValue(x), a.v)
      [] a.type = "map"    -> Msg(6, SumOf(LAMBDA x : SizeLen(1, SizeKeyValue(x)), a.v))
                                \o PutAll(LAMBDA x : Msg(1, SizeKeyValue(x)) \o PutKeyValue(x), a.v)
      [] a.type = "bytes"  -> BytesF(7, a.v)
      [] a.type = "empty"  -> << >>

SizeAttrs(field, m) == SumOf(LAMBDA x : SizeLen(field, SizeKeyValue(x)), m)
PutAttrs(field, m)  == PutAll(LAMBDA x : Msg(field, SizeKeyValue(x)) \o PutKeyValue(x), m)

-----------------------------------------------------------------------------
(* An id of zeroes is absent. *)
IsEmpty(id) == \A i \in DOMAIN id : id[i] = 0
SizeId(field, id, n) == IF IsEmpty(id) THEN 0 ELSE SizeLen(field, n)
PutId(field, id)     == IF IsEmpty(id) THEN << >> ELSE BytesF(field, id)

SizeStatus(st) == SizeStr(2, st.msg) + SizeVarintF(3, I64wire(st.code))
PutStatus(st)  == BytesF(2, st.msg) \o VarintF(3, I64wire(st.code))

SizeEvent(ev) == SizeFixed64F(1, ev.at) + SizeStr(2, ev.name) + SizeAttrs(3, ev.attrs)
                     + SizeVarintF(4, ev.dropped)
PutEvent(ev)  == Fixed64F(1, ev.at) \o BytesF(2, ev.name) \o PutAttrs(3, ev.attrs)
                     \o VarintF(4, ev.dropped)

SizeLink(lk) == SizeId(1, lk.trace, 16) + SizeId(2, lk.span, 8) + SizeStr(3, lk.state)
                    + SizeAttrs(4, lk.attrs) + SizeVarintF(5, lk.dropped)
                    + SizeFixed32F(6, lk.flags)
PutLink(lk)  == PutId(1, lk.trace) \o PutId(2, lk.span) \o BytesF(3, lk.state)
                    \o PutAttrs(4, lk.attrs) \o VarintF(5, lk.dropped)
                    \o Fixed32F(6, lk.flags)

SizeSpan(sp) ==
    LET status == SizeStatus(sp.status) IN
    SizeId(1, sp.trace, 16) + SizeId(2, sp.span, 8) + SizeStr(3, sp.state)
      + SizeId(4, sp.parent, 8) + SizeStr(5, sp.name) + SizeVarintF(6, I64wire(sp.kind))
      + SizeFixed64F(7, sp.start) + SizeFixed64F(8, sp.end)
      + SizeAttrs(9, sp.attrs) + SizeVarintF(10, sp.dropped)
      + SumOf(LAMBDA ev : SizeLen(11, SizeEvent(ev)), sp.events) + SizeVarintF(12, sp.droppedEvents)
      + SumOf(LAMBDA lk : SizeLen(13, SizeLink(lk)), sp.links) + SizeVarintF(14, sp.droppedLinks)
      + (IF status > 0 THEN SizeLen(15, status) ELSE 0)
      + SizeFixed32F(16, sp.flags)

PutSpan(sp) ==
    LET status == SizeStatus(sp.status) IN
    PutId(1, sp.trace) \o PutId(2, sp.span) \o BytesF(3, sp.state)
      \o PutId(4, sp.parent) \o BytesF(5, sp.name) \o VarintF(6, I64wire(sp.kind))
      \o Fixed64F(7, sp.start) \o Fixed64F(8, sp.end)
      \o PutAttrs(9, sp.attrs) \o VarintF(10, sp.dropped)
      \o PutAll(LAMBDA ev : Msg(11, SizeEvent(ev)) \o PutEvent(ev), sp.events)
      \o VarintF(12, sp.droppedEvents)
      \o PutAll(LAMBDA lk : Msg(13, SizeLink(lk)) \o PutLink(lk), sp.links)
      \o VarintF(14, sp.droppedLinks)
      \o (IF status > 0 THEN Msg(15, status) \o PutStatus(sp.status) ELSE << >>)
      \o Fixed32F(16, sp.flags)

SizeResource(res) == SizeAttrs(1, res.attrs) + SizeVarintF(2, res.dropped)
PutResource(res)  == PutAttrs(1, res.attrs) \o VarintF(2, res.dropped)

SizeScope(sc) == SizeStr(1, sc.name) + SizeStr(2, sc.version) + SizeAttrs(3, sc.attrs)
                     + SizeVarintF(4, sc.dropped)
PutScope(sc)  == BytesF(1, sc.name) \o BytesF(2, sc.version) \o PutAttrs(3, sc.attrs)
                     \o VarintF(4, sc.dropped)

-----------------------------------------------------------------------------
(* A batch is a sequence of resources with a sequence of scopes each,      *)
(* which have a sequence of spans each; a ref names a span by its three    *)
(* positions.  refs is cut into its runs of equal resource, and those into *)
(* their runs of equal scope.                                              *)
Runs(refs, key) ==
    LET first == {i \in DOMAIN refs : i = 1 \/ refs[i][key] # refs[i - 1][key]}
        starts == SetToSortSeq(first, <)
    IN [n \in DOMAIN starts |->
          SubSeq(refs, starts[n], IF n = Len(starts) THEN Len(refs) ELSE starts[n + 1] - 1)]

SizeSSRun(ss, refs) ==
    SizeLen(1, SizeScope(ss)) + SumOf(LAMBDA r : SizeLen(2, SizeSpan(ss.spans[r.sp])), refs)
      + SizeStr(3, ss.schema)

SizeRSRun(rs, refs) ==
    SizeLen(1, SizeResource(rs))
      + SumOf(LAMBDA run : SizeLen(2, SizeSSRun(rs.scopes[run[1].ss], run)), Runs(refs, "ss"))
      + SizeStr(3, rs.schema)

PutSSRun(ss, refs) ==
    Msg(2, SizeSSRun(ss, refs)) \o Msg(1, SizeScope(ss)) \o PutScope(ss)
      \o PutAll(LAMBDA r : Msg(2, SizeSpan(ss.spans[r.sp])) \o PutSpan(ss.spans[r.sp]), refs)
      \o BytesF(3, ss.schema)

PutRSRun(rs, refs) ==
    Msg(1, SizeRSRun(rs, refs)) \o Msg(1, SizeResource(rs)) \o PutResource(rs)
      \o PutAll(LAMBDA run : PutSSRun(rs.scopes[run[1].ss], run), Runs(refs, "ss"))
      \o BytesF(3, rs.schema)

PutGroup(td, refs) == PutAll(LAMBDA run : PutRSRun(td[run[1].rs], run), Runs(refs, "rs"))
=============================================================================
