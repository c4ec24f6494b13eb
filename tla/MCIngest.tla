------------------------------ MODULE MCIngest ------------------------------
(***************************************************************************)
(* A small fleet of spans: one for every kind of field and every condition *)
(* of the detection chain, on two traces, over batches that spread a trace *)
(* across scopes and resources.                                            *)
(***************************************************************************)
EXTENDS Ingest

CONSTANT BytesValues        \* the values of the byte attributes in use

S(s) == [type |-> "str", v |-> s]
I(n) == [type |-> "int", v |-> n]
KV(k, v) == [k |-> k, v |-> v]
Zeroes(n) == [i \in 1 .. n |-> 0]
Ones(n)   == [i \in 1 .. n |-> i]
LongText  == [i \in 1 .. 130 |-> 97]

(* Two trace ids; the randomness of t2 is below a small threshold, though  *)
(* the byte before it is not zero.                                         *)
t1 == [i \in 1 .. 16 |-> 255]
t2 == [i \in 1 .. 16 |-> IF i = 9 THEN 200 ELSE IF i = 16 THEN 5 ELSE 0]

t0Key == <<116>>
elKey == <<101>>

Plain == [trace |-> t1, span |-> Ones(8), state |-> << >>, parent |-> Zeroes(8),
          name |-> <<110>>, kind |-> 1, start |-> 10, end |-> 12,
          attrs |-> << >>, dropped |-> 0, events |-> << >>, droppedEvents |-> 0,
          links |-> << >>, droppedLinks |-> 0,
          status |-> [msg |-> << >>, code |-> 0], flags |-> 0,
          ottl |-> [p1 |-> "no", p2 |-> "no"]]

Event == [at |-> 11, name |-> <<120>>, attrs |-> <<KV(<<107>>, I(-1))>>, dropped |-> 300]
Link1 == [trace |-> t2, span |-> Zeroes(8), state |-> <<115>>, attrs |-> <<KV(<<107>>, I(3))>>,
          dropped |-> 1, flags |-> 256]

(* Every field set, and a value of every type. *)
Rich(b) ==
    [Plain EXCEPT !.state = <<115>>, !.parent = Ones(8), !.name = LongText, !.dropped = 127,
       !.attrs = <<KV(<<>>, S(<<>>)), KV(<<1>>, [type |-> "bool", v |-> FALSE]), KV(<<2>>, I(-2)),
                   KV(<<3>>, [type |-> "double", v |-> 0]), KV(<<4>>, [type |-> "bytes", v |-> b]),
                   KV(<<5>>, [type |-> "slice", v |-> <<S(LongText), [type |-> "empty", v |-> 0]>>]),
                   KV(<<6>>, [type |-> "map", v |-> <<KV(<<107>>, I(128)), KV(<<108>>, S(<<1>>))>>])>>,
       !.events = <<Event, [Event EXCEPT !.attrs = << >>, !.dropped = 0]>>, !.droppedEvents = 2,
       !.links = <<Link1, [Link1 EXCEPT !.trace = Zeroes(16), !.span = Ones(8)]>>, !.droppedLinks = 3,
       !.status = [msg |-> <<109>>, code |-> 1], !.flags = 257]

Digits(s) == [i \in DOMAIN s |-> s[i] + 48]

(* One span for each turn of the chain, on either side of its edge. *)
Turns ==
    {Plain,
     [Plain EXCEPT !.status.code = 2],
     [Plain EXCEPT !.end = 30], [Plain EXCEPT !.end = 15], [Plain EXCEPT !.start = 40],
     [Plain EXCEPT !.attrs = <<KV(elKey, S(Digits(<<6>>)))>>],
     [Plain EXCEPT !.attrs = <<KV(elKey, S(Digits(<<3, 2, 7, 6, 7>>)))>>],
     [Plain EXCEPT !.attrs = <<KV(elKey, S(Digits(<<7, 0, 0, 0, 0>>))), KV(t0Key, I(Now + 9))>>],
     [Plain EXCEPT !.attrs = <<KV(elKey, I(-4)), KV(t0Key, I(Now - 8))>>],
     [Plain EXCEPT !.attrs = <<KV(t0Key, S(<<45>>)), KV(t0Key, I(1))>>],
     [Plain EXCEPT !.attrs = <<KV(t0Key, S(<< >>))>>],
     [Plain EXCEPT !.ottl.p1 = "error", !.ottl.p2 = "match", !.attrs = <<KV(elKey, [type |-> "bool", v |-> TRUE])>>]}

On(t, sp) == [sp EXCEPT !.trace = t]

Resource(n, scopes) == [attrs |-> <<KV(<<114>>, I(n))>>, dropped |-> n, schema |-> <<117, n>>, scopes |-> scopes]
Scope(n, spans) == [name |-> <<n>>, version |-> << >>, attrs |-> <<KV(<<115>>, I(n))>>, dropped |-> 0,
                    schema |-> IF n = 1 THEN << >> ELSE <<117>>, spans |-> spans]

(* Three spans: one scope, two scopes, and three resources. *)
Together(a, b, c) == <<Resource(1, <<Scope(1, <<a, b, c>>)>>)>>
Apart(a, b, c)    == <<Resource(1, <<Scope(1, <<a>>), Scope(2, <<b, c>>)>>), Resource(2, <<Scope(1, << >>)>>)>>
Spread(a, b, c)   == <<Resource(0, <<Scope(1, <<a>>)>>), Resource(1, <<Scope(2, <<b>>)>>), Resource(2, <<Scope(1, <<c>>)>>)>>

Triples == {<<sp, On(t, sq), On(u, Plain)>> : sp \in Turns, sq \in Turns, t \in {t1, t2}, u \in {t1, t2}}

(* The two sets of batches take turns: what a first one leaves in the      *)
(* fragmenter must not show in the second.                                 *)
MCBatches ==
    <<{Together([Plain EXCEPT !.status.code = 2], On(t2, Plain), On(t2, [Plain EXCEPT !.end = 30])), << >>},
      {Together(x[1], x[2], x[3]) : x \in Triples}
        \union {Apart(Rich(b), On(t2, Plain), Plain) : b \in BytesValues}
        \union {Spread(On(t2, Plain), Rich(b), On(t2, Plain)) : b \in BytesValues}
        \union {Together(On(t2, Rich(b)), Rich(b), On(t2, Plain)) : b \in BytesValues}>>

SomeBytes == {<<7>>}
AnyBytes  == {<< >>, <<7>>}

Threshold(n) == [i \in 1 .. 8 |-> IF i = 8 THEN n ELSE 0]
Off == [keepOnError |-> FALSE, spanLatency |-> 0, traceLatency |-> 0, traceAge |-> 0,
        elapsedKey |-> elKey, t0Key |-> t0Key, baselineThreshold |-> Zero8, policies |-> << >>]

MCConfigs ==
    {Off,
     [Off EXCEPT !.keepOnError = TRUE, !.baselineThreshold = Threshold(6)],
     [Off EXCEPT !.traceLatency = 1, !.traceAge = 70],
     [Off EXCEPT !.keepOnError = TRUE, !.spanLatency = 5, !.traceLatency = 50,
                 !.baselineThreshold = Threshold(5), !.policies = <<"p1", "p2">>]}
=============================================================================
