-------------------------------- MODULE Otlp --------------------------------
(***************************************************************************)
(* How the OTLP unmarshaler that fragmenter.Decode calls reads bytes back  *)
(* (pdata's, an external library): a message is a sequence of keyed        *)
(* fields, absent scalars are zero, unknown fields are skipped, and a      *)
(* length that runs past the end is an error.                              *)
(*                                                                         *)
(* ReadsX(b, x) says that the bytes b read as the message x, so that an    *)
(* encoder is right when ReadsX(PutX(x), x) for every x.                   *)
(***************************************************************************)
EXTENDS Integers, Sequences, SequencesExt

CONSTANT Word       \* 2^w for the width w of a 64-bit integer

(* The varint at the head of b: its value and the bytes it takes. *)
RECURSIVE ReadUvarint(_)
ReadUvarint(b) ==
    IF b = << >> THEN [ok |-> FALSE, v |-> 0, n |-> 0]
    ELSE IF b[1] < 128 THEN [ok |-> TRUE, v |-> b[1], n |-> 1]
    ELSE LET rest == ReadUvarint(Tail(b))
         IN [ok |-> rest.ok, v |-> (b[1] - 128) + 128 * rest.v, n |-> rest.n + 1]

RECURSIVE ReadLittleEndian(_)
ReadLittleEndian(b) == IF b = << >> THEN 0 ELSE b[1] + 256 * ReadLittleEndian(Tail(b))

Drop(b, n) == SubSeq(b, n + 1, Len(b))

(* The fields of a message, in order, each with its number, wire type and  *)
(* value; one of number 0 where the bytes make no sense.                   *)
Garbage == <<[f |-> 0, w |-> 0, v |-> 0]>>

RECURSIVE Fields(_)
Fields(b) ==
    IF b = << >> THEN << >>
    ELSE
    LET key  == ReadUvarint(b)
        rest == Drop(b, key.n)
        f    == key.v \div 8
        w    == key.v % 8
        int  == ReadUvarint(rest)
        body == Drop(rest, int.n)
        fixed == IF w = 1 THEN 8 ELSE 4
    IN CASE key.ok /\ f > 0 /\ w = 0 /\ int.ok ->
              <<[f |-> f, w |-> w, v |-> int.v]>> \o Fields(body)
         [] key.ok /\ f > 0 /\ w = 2 /\ int.ok /\ int.v <= Len(body) ->
              <<[f |-> f, w |-> w, v |-> SubSeq(body, 1, int.v)]>> \o Fields(Drop(body, int.v))
         [] key.ok /\ f > 0 /\ w \in {1, 5} /\ fixed <= Len(rest) ->
              <<[f |-> f, w |-> w, v |-> ReadLittleEndian(SubSeq(rest, 1, fixed))]>>
                \o Fields(Drop(rest, fixed))
         [] OTHER -> Garbage

Sound(fs) == \A i \in DOMAIN fs : fs[i].f # 0

(* Field f of wire type w: the last one counts, and none is the default. *)
Every(fs, f, w)  == LET of == SelectSeq(fs, LAMBDA x : x.f = f /\ x.w = w)
                    IN [i \in DOMAIN of |-> of[i].v]
Read(fs, f, w, zero) == IF Every(fs, f, w) = << >> THEN zero ELSE Last(Every(fs, f, w))
Str(fs, f)     == Read(fs, f, 2, << >>)
Varint(fs, f)  == Read(fs, f, 0, 0)
Fixed64(fs, f) == Read(fs, f, 1, 0)
Fixed32(fs, f) == Read(fs, f, 5, 0)
Signed(v)      == IF v >= Word \div 2 THEN v - Word ELSE v
Id(fs, f, n)   == Read(fs, f, 2, [i \in 1 .. n |-> 0])

(* The repeated message field f reads as xs, one by one. *)
Repeated(fs, f, xs, reads(_, _)) ==
    LET of == Every(fs, f, 2)
    IN Len(of) = Len(xs) /\ \A i \in DOMAIN of : reads(of[i], xs[i])

-----------------------------------------------------------------------------
RECURSIVE ReadsValue(_, _), ReadsKeyValue(_, _)
ReadsKeyValue(b, x) ==
    LET fs == Fields(b)
    IN Sound(fs) /\ Str(fs, 1) = x.k /\ ReadsValue(Str(fs, 2), x.v)

ReadsValue(b, a) ==
    LET fs == Fields(b)
        Only(f, w) == Len(fs) = 1 /\ fs[1].f = f /\ fs[1].w = w
        inner == Fields(fs[1].v)
    IN CASE a.type = "str"    -> Only(1, 2) /\ fs[1].v = a.v
         [] a.type = "bool"   -> Only(2, 0) /\ (fs[1].v = 1) = a.v
         [] a.type = "int"    -> Only(3, 0) /\ Signed(fs[1].v) = a.v
         [] a.type = "double" -> Only(4, 1) /\ fs[1].v = a.v
         [] a.type = "slice"  -> Only(5, 2) /\ Sound(inner) /\ Repeated(inner, 1, a.v, ReadsValue)
         [] a.type = "map"    -> Only(6, 2) /\ Sound(inner) /\ Repeated(inner, 1, a.v, ReadsKeyValue)
         [] a.type = "bytes"  -> Only(7, 2) /\ fs[1].v = a.v
         [] a.type = "empty"  -> fs = << >>

ReadsStatus(b, st) ==
    LET fs == Fields(b)
    IN Sound(fs) /\ Str(fs, 2) = st.msg /\ Signed(Varint(fs, 3)) = st.code

ReadsEvent(b, ev) ==
    LET fs == Fields(b)
    IN /\ Sound(fs)
       /\ Fixed64(fs, 1) = ev.at /\ Str(fs, 2) = ev.name
       /\ Repeated(fs, 3, ev.attrs, ReadsKeyValue) /\ Varint(fs, 4) = ev.dropped

ReadsLink(b, lk) ==
    LET fs == Fields(b)
    IN /\ Sound(fs)
       /\ Id(fs, 1, 16) = lk.trace /\ Id(fs, 2, 8) = lk.span /\ Str(fs, 3) = lk.state
       /\ Repeated(fs, 4, lk.attrs, ReadsKeyValue) /\ Varint(fs, 5) = lk.dropped
       /\ Fixed32(fs, 6) = lk.flags

ReadsSpan(b, sp) ==
    LET fs == Fields(b)
    IN /\ Sound(fs)
       /\ Id(fs, 1, 16) = sp.trace /\ Id(fs, 2, 8) = sp.span /\ Str(fs, 3) = sp.state
       /\ Id(fs, 4, 8) = sp.parent /\ Str(fs, 5) = sp.name
       /\ Signed(Varint(fs, 6)) = sp.kind
       /\ Fixed64(fs, 7) = sp.start /\ Fixed64(fs, 8) = sp.end
       /\ Repeated(fs, 9, sp.attrs, ReadsKeyValue) /\ Varint(fs, 10) = sp.dropped
       /\ Repeated(fs, 11, sp.events, ReadsEvent) /\ Varint(fs, 12) = sp.droppedEvents
       /\ Repeated(fs, 13, sp.links, ReadsLink) /\ Varint(fs, 14) = sp.droppedLinks
       /\ ReadsStatus(Str(fs, 15), sp.status)
       /\ Fixed32(fs, 16) = sp.flags

ReadsResource(b, rs) ==
    LET fs == Fields(b)
    IN Sound(fs) /\ Repeated(fs, 1, rs.attrs, ReadsKeyValue) /\ Varint(fs, 2) = rs.dropped

ReadsScope(b, ss) ==
    LET fs == Fields(b)
    IN /\ Sound(fs)
       /\ Str(fs, 1) = ss.name /\ Str(fs, 2) = ss.version
       /\ Repeated(fs, 3, ss.attrs, ReadsKeyValue) /\ Varint(fs, 4) = ss.dropped

ReadsScopeSpans(b, ss) ==
    LET fs == Fields(b)
    IN /\ Sound(fs)
       /\ ReadsScope(Str(fs, 1), ss)
       /\ Repeated(fs, 2, ss.spans, ReadsSpan) /\ Str(fs, 3) = ss.schema

ReadsResourceSpans(b, rs) ==
    LET fs == Fields(b)
    IN /\ Sound(fs)
       /\ ReadsResource(Str(fs, 1), rs)
       /\ Repeated(fs, 2, rs.scopes, ReadsScopeSpans) /\ Str(fs, 3) = rs.schema

ReadsTraces(b, td) ==
    LET fs == Fields(b) IN Sound(fs) /\ Repeated(fs, 1, td, ReadsResourceSpans)
=============================================================================
