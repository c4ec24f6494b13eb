------------------------------- MODULE Ingest -------------------------------
(***************************************************************************)
(* One call of processTraces after another on one pooled fragmenter        *)
(* (processor.go, internal/fragmenter, internal/detect): group the spans   *)
(* of a batch by trace, encode each group, and hand every fragment and     *)
(* every verdict to the shard set, which may refuse either.                *)
(*                                                                         *)
(* A batch is a sequence of resources, a resource a record whose scopes    *)
(* are a sequence, and a scope a record whose spans are one.  What the     *)
(* shard set does with what it takes is module ShardSet; here it says yes  *)
(* or no.  Two calls never share a fragmenter, which is the pool's         *)
(* promise, so one is enough.                                              *)
(***************************************************************************)
EXTENDS Detect

CONSTANTS
    Configs,        \* the detection configurations
    Batches,        \* a sequence of sets of batches, from which calls draw in turn
    Now             \* the clock, in milliseconds, as the calls read it

VARIABLES
    det,            \* the detector
    frag,           \* the fragmenter, its state reused from call to call
    td,             \* the batch of the current call
    turn,           \* the place in Batches the next call draws from
    at,             \* the group being handed over; 0 between calls
    refused,        \* pf.refused
    out,            \* what fn was given in the current call, and the answers
    result          \* what the last call returned

vars == <<det, frag, td, turn, at, refused, out, result>>

E == INSTANCE Encoding
O == INSTANCE Otlp

EmptyFragmenter ==
    [groups |-> << >>, ids |-> << >>, heads |-> << >>, tails |-> << >>,
     reasons |-> << >>, bases |-> << >>, refs |-> << >>]

Init ==
    /\ \E cfg \in Configs : det = Build(cfg)
    /\ frag = EmptyFragmenter
    /\ td = << >>
    /\ turn = 1
    /\ at = 0
    /\ refused = FALSE
    /\ out = << >>
    /\ result = "none"

-----------------------------------------------------------------------------
SpanAt(b, r) == b[r.rs].scopes[r.ss].spans[r.sp]

(* The refs of a batch in iteration order. *)
Refs(b) ==
    LET InScope(i, j) == [k \in DOMAIN b[i].scopes[j].spans |-> [rs |-> i, ss |-> j, sp |-> k, next |-> 0]]
        InResource(i) == FlattenSeq([j \in DOMAIN b[i].scopes |-> InScope(i, j)])
    IN FlattenSeq([i \in DOMAIN b |-> InResource(i)])

(* A detector with nothing to detect is not called. *)
DetectFn(sp) == IF Enabled(det) THEN Eval(det, sp, Now) ELSE 0
BaseFn(id)   == Enabled(det) /\ Baseline(det, id)

(* A trace's first span founds its group, and a later one is linked to the *)
(* tail of the group's chain.                                              *)
Found(f, id, ref, reason) ==
    LET r == Len(f.refs) + 1
        g == Len(f.ids) + 1
    IN [groups  |-> (id :> g) @@ f.groups,
        ids     |-> Append(f.ids, id),
        heads   |-> Append(f.heads, r),
        tails   |-> Append(f.tails, r),
        reasons |-> Append(f.reasons, reason),
        bases   |-> Append(f.bases, BaseFn(id)),
        refs    |-> Append(f.refs, ref)]

Link(f, g, ref) ==
    LET r == Len(f.refs) + 1
    IN [f EXCEPT !.refs = Append([@ EXCEPT ![f.tails[g]].next = r], ref), !.tails[g] = r]

(* The span of a ref joins the group of its trace; a group with a verdict  *)
(* pays no further detection.                                              *)
Join(f, b, ref) ==
    LET sp == SpanAt(b, ref)
        g  == f.groups[sp.trace]
    IN IF sp.trace \notin DOMAIN f.groups THEN Found(f, sp.trace, ref, DetectFn(sp))
       ELSE [Link(f, g, ref) EXCEPT !.reasons[g] = IF @ = 0 THEN DetectFn(sp) ELSE @]

(* Fragment's first half: forget the last batch and group this one. *)
Reset(f) == EmptyFragmenter

Group(f, b) == FoldLeft(LAMBDA acc, ref : Join(acc, b, ref), Reset(f), Refs(b))

(* A trace's chain, flattened. *)
Flat(f, g) ==
    LET Chain[r \in 0 .. Len(f.refs)] ==
          IF r = 0 THEN << >> ELSE <<f.refs[r]>> \o Chain[f.refs[r].next]
    IN Chain[f.heads[g]]

-----------------------------------------------------------------------------
Begin(b) ==
    /\ at = 0
    /\ turn' = (turn % Len(Batches)) + 1
    /\ td' = b
    /\ refused' = FALSE
    /\ frag' = Group(frag, b)
    /\ at' = 1
    /\ out' = << >>
    /\ result' = "none"
    /\ UNCHANGED det

(* What fn is called with for group g. *)
Fragment(g) ==
    [id |-> frag.ids[g], bytes |-> E!PutGroup(td, Flat(frag, g)),
     reason |-> frag.reasons[g], base |-> frag.bases[g]]

(* The keep a group asks for: a detected one is broadcast, a baseline one  *)
(* is not, and a group with neither asks for none.                         *)
KeepAsked(g) ==
    CASE frag.reasons[g] # 0 -> "Keep"
      [] frag.reasons[g] = 0 /\ frag.bases[g] -> "KeepLocalOnly"
      [] OTHER -> "none"

(* Mutant of Refusal: a later group's answer replaces an earlier one's. *)
RefusalOfLast(offered, kept) == ~offered \/ ~kept

Refusal(offered, kept) == refused \/ ~offered \/ ~kept

(* fn: the fragment is offered, and the verdict is tried even when the     *)
(* fragment was refused.                                                   *)
Hand(offered, kept) ==
    /\ at \in DOMAIN frag.ids
    /\ KeepAsked(at) = "none" => kept
    /\ out' = Append(out, Fragment(at) @@ [offered |-> offered, keep |-> KeepAsked(at), kept |-> kept])
    /\ refused' = Refusal(offered, kept)
    /\ at' = at + 1
    /\ UNCHANGED <<det, frag, td, turn, result>>

Return ==
    /\ at > Len(frag.ids)
    /\ at > 0
    /\ at' = 0
    /\ result' = IF refused THEN "overloaded" ELSE "taken"
    /\ UNCHANGED <<det, frag, td, turn, refused, out>>

Next ==
    \/ \E b \in Batches[turn] : Begin(b)
    \/ \E offered, kept \in BOOLEAN : Hand(offered, kept)
    \/ Return

Spec == Init /\ [][Next]_vars

-----------------------------------------------------------------------------
(* The part of a batch that belongs to one trace: its spans, under the     *)
(* scopes and the resources that have any.                                 *)
Only(b, id) ==
    LET Scope(ss) == [ss EXCEPT !.spans = SelectSeq(@, LAMBDA sp : sp.trace = id)]
        Scopes(scopes) == SelectSeq([j \in DOMAIN scopes |-> Scope(scopes[j])], LAMBDA ss : ss.spans # << >>)
        Resource(rs) == [rs EXCEPT !.scopes = Scopes(@)]
    IN SelectSeq([i \in DOMAIN b |-> Resource(b[i])], LAMBDA rs : rs.scopes # << >>)

SpansOf(b, id) == LET Of(r) == SpanAt(b, r)
                  IN SelectSeq([i \in DOMAIN Refs(b) |-> Of(Refs(b)[i])], LAMBDA sp : sp.trace = id)
TracesOf(b) == {SpanAt(b, Refs(b)[i]).trace : i \in DOMAIN Refs(b)}

(* Every fragment handed over reads back, with the stock OTLP reader, as   *)
(* exactly the spans of its trace in the batch, in batch order, under      *)
(* their own resource and scope, every attribute, event, link and count    *)
(* included (Fragment, putGroup).                                          *)
FragmentsFaithful == \A i \in DOMAIN out : O!ReadsTraces(out[i].bytes, Only(td, out[i].id))

(* The reasons a span gives a detector, by their meaning rather than by    *)
(* the chain: integers are unbounded and strings are numerals.             *)
Numeral(s) == FoldLeft(LAMBDA n, c : IF n > Word THEN n ELSE 10 * n + (c - 48), 0, s)
Quantity(attrs, key) ==
    LET first == SelectSeq(attrs, LAMBDA x : x.k = key)[1].v
    IN IF \A i \in DOMAIN attrs : attrs[i].k # key THEN {}
       ELSE IF first.type = "int" THEN {first.v}
       ELSE IF first.type # "str" \/ first.v = << >> \/ \E i \in DOMAIN first.v : ~IsDigit(first.v[i]) THEN {}
       ELSE {Numeral(first.v)} \intersect 0 .. MaxInt

ReasonsFor(sp) ==
    {r \in {ReasonError} : det.keepOnError /\ sp.status.code = StatusCodeError}
    \union {r \in {ReasonSpanLatency} : det.spanLatencyNS > 0 /\ sp.end > sp.start + det.spanLatencyNS}
    \union {r \in {ReasonTraceLatency} : det.traceLatMS > 0 /\
              \E q \in Quantity(sp.attrs, det.elapsedKey) : q > det.traceLatMS}
    \union {r \in {ReasonTraceAge} : det.traceAgeMS > 0 /\
              \E q \in Quantity(sp.attrs, det.t0Key) : Now - q > det.traceAgeMS}
    \union {r \in {ReasonPolicy} : \E i \in DOMAIN det.policies : sp.ottl[det.policies[i]] = "match"}

FirstReason(b, id) ==
    LET spans == SpansOf(b, id)
        with  == {i \in DOMAIN spans : ReasonsFor(spans[i]) # {}}
    IN IF with = {} THEN 0 ELSE Min(ReasonsFor(spans[Min(with)]))

(* Each trace of a batch is handed over once, and its verdict is the       *)
(* strongest reason of its first span that has one: a clock running        *)
(* backwards, a numeral past an int64, a failing policy or the verdict of  *)
(* an earlier batch on the same fragmenter change nothing (Eval,           *)
(* Fragment).  Baseline keeps are never broadcast.                         *)
VerdictsRight ==
    /\ \A i \in DOMAIN out :
         /\ out[i].reason = FirstReason(td, out[i].id)
         /\ (out[i].keep = "Keep") = (FirstReason(td, out[i].id) # 0)
    /\ \A i, j \in DOMAIN out : i # j => out[i].id # out[j].id
    /\ result # "none" => {out[i].id : i \in DOMAIN out} = TracesOf(td)

(* A batch that is not sent back for a retry was taken whole: every trace  *)
(* in it had its fragment accepted, and its keep where a span or the       *)
(* baseline asks for one (newPooledFrag, processTraces).                   *)
TakenWhole ==
    result = "taken" =>
      \A id \in TracesOf(td) :
         \E i \in DOMAIN out :
           /\ out[i].id = id /\ out[i].offered
           /\ FirstReason(td, id) # 0 \/ BaseFn(id) => out[i].keep # "none" /\ out[i].kept
=============================================================================
