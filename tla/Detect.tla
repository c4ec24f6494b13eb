------------------------------- MODULE Detect -------------------------------
(***************************************************************************)
(* Keep detection (internal/detect): the chain of conditions a span is     *)
(* held against at ingest, and the baseline verdict of a trace.            *)
(*                                                                         *)
(* A detector is what Build makes of a configuration.  The chain is a      *)
(* function of the span and the time of the batch; its counters only feed  *)
(* telemetry and are left out.  Whether a policy's OTTL condition matches  *)
(* a span is the OTTL library's to say: a span carries the outcomes.       *)
(***************************************************************************)
EXTENDS Integers, Sequences, SequencesExt

CONSTANTS
    Word,       \* 2^w for the width w of the code's 64-bit integers
    Ms          \* a millisecond, in nanoseconds (scaled)

MaxInt == (Word \div 2) - 1

(* The int64 a sum or difference ends up as. *)
Wrap(x) == ((x + Word \div 2) % Word) - (Word \div 2)

(* The verdicts; 0 is none. *)
ReasonError        == 1
ReasonSpanLatency  == 2
ReasonTraceLatency == 3
ReasonTraceAge     == 4
ReasonPolicy       == 5
ReasonBaseline     == 6

StatusCodeError == 2

-----------------------------------------------------------------------------
(* Whole milliseconds, but never zero for a threshold that was asked for. *)
ThresholdMillis(d) == IF d >= Ms THEN d \div Ms ELSE IF d > 0 THEN 1 ELSE 0

Build(cfg) ==
    [keepOnError       |-> cfg.keepOnError,
     spanLatencyNS     |-> IF cfg.spanLatency > 0 THEN cfg.spanLatency ELSE 0,
     traceLatMS        |-> ThresholdMillis(cfg.traceLatency),
     traceAgeMS        |-> ThresholdMillis(cfg.traceAge),
     elapsedKey        |-> cfg.elapsedKey,
     t0Key             |-> cfg.t0Key,
     baselineThreshold |-> cfg.baselineThreshold,
     policies          |-> cfg.policies]

ReadBaggage(d) == d.traceLatMS > 0 \/ d.traceAgeMS > 0

(* A threshold and an id's randomness are eight bytes, big endian. *)
Zero8 == [i \in 1 .. 8 |-> 0]
LessBytes(a, b) == \E i \in DOMAIN a : a[i] < b[i] /\ \A j \in 1 .. i - 1 : a[j] = b[j]

Enabled(d) ==
    d.keepOnError \/ d.spanLatencyNS > 0 \/ ReadBaggage(d)
      \/ d.baselineThreshold # Zero8 \/ d.policies # << >>

(* The last 56 bits of the trace id. *)
Baseline(d, id) == LessBytes(<<0>> \o SubSeq(id, 10, 16), d.baselineThreshold)

-----------------------------------------------------------------------------
(* A millisecond quantity among the attributes: an int as it is, a string  *)
(* of decimal digits that fits an int64, nothing else.                     *)
Absent    == [ok |-> FALSE, v |-> 0]
IsDigit(c) == c \in 48 .. 57

(* Mutant of ParseMillis: no overflow test. *)
ParseMillisWrapping(s) ==
    LET Digit(acc, c) ==
          IF ~acc.ok \/ ~IsDigit(c) THEN Absent
          ELSE [ok |-> TRUE, v |-> Wrap(10 * acc.v + (c - 48))]
    IN IF s = << >> THEN Absent ELSE FoldLeft(Digit, [ok |-> TRUE, v |-> 0], s)

ParseMillis(s) ==
    LET Digit(acc, c) ==
          IF ~acc.ok \/ ~IsDigit(c) \/ acc.v > (MaxInt - (c - 48)) \div 10 THEN Absent
          ELSE [ok |-> TRUE, v |-> 10 * acc.v + (c - 48)]
    IN IF s = << >> THEN Absent ELSE FoldLeft(Digit, [ok |-> TRUE, v |-> 0], s)

ReadMillis(attrs, key) ==
    LET at == SelectInSeq(attrs, LAMBDA x : x.k = key)
        a  == attrs[at].v
    IN IF at = 0 THEN Absent
       ELSE CASE a.type = "int" -> [ok |-> TRUE, v |-> a.v]
              [] a.type = "str" -> ParseMillis(a.v)
              [] OTHER          -> Absent

AtLeast0(x) == IF x < 0 THEN 0 ELSE x

EvalBaggage(d, sp, now) ==
    LET elapsed == ReadMillis(sp.attrs, d.elapsedKey)
        t0      == ReadMillis(sp.attrs, d.t0Key)
    IN IF d.traceLatMS > 0 /\ elapsed.ok /\ AtLeast0(elapsed.v) > d.traceLatMS
         THEN ReasonTraceLatency
       ELSE IF d.traceAgeMS > 0 /\ t0.ok /\ AtLeast0(Wrap(now - t0.v)) > d.traceAgeMS
         THEN ReasonTraceAge
       ELSE 0

(* The policies in order: an evaluation error is not a match, and does not *)
(* end the walk.                                                           *)
EvalPolicies(d, sp) ==
    IF \E i \in DOMAIN d.policies : sp.ottl[d.policies[i]] = "match" THEN ReasonPolicy ELSE 0

(* Timestamps are unsigned: the difference is only taken when it is not    *)
(* negative.                                                               *)
SlowSpan(d, sp) ==
    d.spanLatencyNS > 0 /\ sp.end >= sp.start /\ sp.end - sp.start > d.spanLatencyNS

Eval(d, sp, now) ==
    IF d.keepOnError /\ sp.status.code = StatusCodeError THEN ReasonError
    ELSE IF SlowSpan(d, sp) THEN ReasonSpanLatency
    ELSE IF ReadBaggage(d) /\ EvalBaggage(d, sp, now) # 0 THEN EvalBaggage(d, sp, now)
    ELSE EvalPolicies(d, sp)
=============================================================================
