---------------------------- MODULE FleetProofs ----------------------------
(***************************************************************************)
(* Proofs, for any collectors, traces, routes and window and any number of *)
(* faults, of the contract of Publish and of the safety properties of      *)
(* Fleet.                                                                  *)
(***************************************************************************)
EXTENDS Fleet, FiniteSetTheorems, SequenceTheorems, TLAPS

-----------------------------------------------------------------------------
(***************************************************************************)
(* One call of Publish, as a value.                                        *)
(***************************************************************************)

(* The end of the chunk in hand. *)
LEMMA ChunkEndIs ==
    ASSUME NEW p \in Calls
    PROVE  /\ ChunkEnd(p) \in Nat
           /\ ChunkEnd(p) <= Len(p.keeps)
           /\ ChunkEnd(p) <= p.start + asyncMaxPending
           /\ p.start < Len(p.keeps) => p.start < ChunkEnd(p)
<1>1. p.start + asyncMaxPending \in Nat /\ Len(p.keeps) \in Nat
  BY WindowHolds DEF Calls
<1>2. ChunkEnd(p) = IF p.start + asyncMaxPending <= Len(p.keeps)
                    THEN p.start + asyncMaxPending ELSE Len(p.keeps)
  BY <1>1 DEF ChunkEnd, Min
<1>3. QED
  BY <1>1, <1>2, WindowHolds DEF Calls

(* What it has sent. *)
LEMMA SentIs ==
    ASSUME NEW p \in Calls
    PROVE  Sent(p) \in Nat /\ Sent(p) = p.start + Len(p.futs) /\ Len(p.futs) \in Nat /\ p.start \in Nat
  BY DEF Calls, Sent

(* More in the stream, or a dead context, leave a call as good as it was. *)
LEMMA CallMonotone ==
    ASSUME NEW p \in Calls, NEW dead, NEW dead2, dead => dead2, NEW landed, NEW landed2,
           landed \subseteq landed2, CallOK(p, dead, landed)
    PROVE  CallOK(p, dead2, landed2)
<1>1. CallResolved(p, dead2)
  BY DEF CallOK, CallResolved
<1>2. CallCovered(p, landed2) /\ CallDone(p, landed2)
  BY DEF CallOK, CallCovered, CallDone
<1>3. QED
  BY <1>1, <1>2 DEF CallOK

(* A keep appended to the failed ones is in, and so are the others. *)
LEMMA AppendToSet ==
    ASSUME NEW S, NEW s \in Seq(S), NEW e \in S
    PROVE  /\ ToSet(Append(s, e)) = ToSet(s) \union {e}
           /\ Append(s, e) \in Seq(S)
           /\ Append(s, e) # << >>
           /\ DOMAIN Append(s, e) = 1 .. Len(s) + 1
           /\ Append(s, e)[Len(s) + 1] = e
           /\ \A i \in DOMAIN s : i \in DOMAIN Append(s, e) /\ Append(s, e)[i] = s[i]
<1>1. /\ Append(s, e) \in Seq(S)
      /\ Len(Append(s, e)) = Len(s) + 1
      /\ \A i \in 1 .. Len(s) : Append(s, e)[i] = s[i]
      /\ Append(s, e)[Len(s) + 1] = e
  BY AppendProperties
<1>2. DOMAIN s = 1 .. Len(s) /\ DOMAIN Append(s, e) = 1 .. Len(s) + 1 /\ Len(s) \in Nat
  BY <1>1
<1>3. ToSet(Append(s, e)) = ToSet(s) \union {e}
  <2>1. ASSUME NEW x \in ToSet(Append(s, e))
        PROVE  x \in ToSet(s) \union {e}
    <3>1. PICK i \in 1 .. Len(s) + 1 : x = Append(s, e)[i]
      BY <1>2 DEF ToSet
    <3>2. i \in 1 .. Len(s) \/ i = Len(s) + 1
      BY <1>2
    <3>3. QED
      BY <1>1, <1>2, <3>1, <3>2 DEF ToSet
  <2>2. ASSUME NEW x \in ToSet(s) \union {e}
        PROVE  x \in ToSet(Append(s, e))
    <3>1. CASE x = e
      <4>1. Len(s) + 1 \in 1 .. Len(s) + 1
        BY <1>2
      <4>2. QED
        BY <1>1, <1>2, <3>1, <4>1 DEF ToSet
    <3>2. CASE x \in ToSet(s)
      <4>1. PICK i \in 1 .. Len(s) : x = s[i]
        BY <1>2, <3>2 DEF ToSet
      <4>2. i \in 1 .. Len(s) + 1 /\ x = Append(s, e)[i]
        BY <1>1, <1>2, <4>1
      <4>3. QED
        BY <1>2, <4>2 DEF ToSet
    <3>3. QED
      BY <2>2, <3>1, <3>2
  <2>3. QED
    BY <2>1, <2>2
<1>4. Append(s, e) # << >>
  BY <1>1, <1>2, EmptySeq
<1>5. QED
  BY <1>1, <1>2, <1>3, <1>4

(* ... and without repeats when it was not in before. *)
LEMMA AppendFresh ==
    ASSUME NEW S, NEW s \in Seq(S), NEW e \in S, e \notin ToSet(s), IsInjective(s)
    PROVE  IsInjective(Append(s, e))
<1>1. \A i \in DOMAIN s : s[i] # e
  BY DEF ToSet
<1>2. \A i \in DOMAIN Append(s, e) : i \in DOMAIN s \/ i = Len(s) + 1
  BY AppendToSet
<1>3. /\ Append(s, e)[Len(s) + 1] = e
      /\ \A i \in DOMAIN s : Append(s, e)[i] = s[i]
  BY AppendToSet
<1> SUFFICES ASSUME NEW i \in DOMAIN Append(s, e), NEW j \in DOMAIN Append(s, e),
                    Append(s, e)[i] = Append(s, e)[j]
             PROVE  i = j
  BY DEF IsInjective
<1>4. CASE i \in DOMAIN s /\ j \in DOMAIN s
  BY <1>3, <1>4 DEF IsInjective
<1>5. CASE i = Len(s) + 1 \/ j = Len(s) + 1
  BY <1>1, <1>2, <1>3, <1>5
<1>6. QED
  BY <1>2, <1>4, <1>5

(* A call begins with nothing sent. *)
LEMMA CallBegins ==
    ASSUME NEW q \in Calls, q.pc \in {"idle", "send", "returned"}, q.pc = "send" <=> q.keeps # << >>,
           IsInjective(q.keeps), q.start = 0, q.futs = << >>, q.joined = 0, q.failed = << >>,
           q.err = FALSE, NEW dead, NEW landed
    PROVE  CallOK(q, dead, landed)
<1> USE DEF Running
<1>1. Sent(q) = 0 /\ ChunkEnd(q) \in Nat
  BY ChunkEndIs DEF Sent, Calls
<1>2. IsInjective(q.failed)
  BY DEF IsInjective
<1>3. CallShape(q)
  BY <1>1, <1>2 DEF CallShape, Calls
<1>4. CallReported(q) /\ CallCovered(q, landed) /\ CallResolved(q, dead)
  BY <1>1 DEF CallReported, CallCovered, CallResolved
<1>5. CallDone(q, landed)
  BY DEF CallDone, ToSet
<1>6. QED
  BY <1>3, <1>4, <1>5 DEF CallOK

(* The next keep of the chunk is on the wire. *)
LEMMA CallSends ==
    ASSUME NEW p \in Calls, NEW q \in Calls, NEW dead, NEW landed, CallOK(p, dead, landed),
           p.pc = "send", Sent(p) < ChunkEnd(p),
           q = [p EXCEPT !.futs = Append(@, "sent")]
    PROVE  CallOK(q, dead, landed)
<1> USE DEF Running
<1>0. CallShape(p) /\ CallReported(p) /\ CallCovered(p, landed)
  BY DEF CallOK
<1>1. /\ q.pc = "send" /\ q.keeps = p.keeps /\ q.start = p.start /\ q.joined = p.joined
      /\ q.failed = p.failed /\ q.err = p.err /\ q.futs = Append(p.futs, "sent")
  BY DEF Calls
<1>2. p.futs \in Seq(Futures) /\ "sent" \in Futures
  BY DEF Calls, Futures
<1>3. /\ Len(q.futs) = Len(p.futs) + 1 /\ q.futs[Len(p.futs) + 1] = "sent"
      /\ \A i \in 1 .. Len(p.futs) : q.futs[i] = p.futs[i]
  BY <1>1, <1>2, AppendProperties
<1>4. Sent(q) = Sent(p) + 1 /\ ChunkEnd(q) = ChunkEnd(p) /\ Sent(p) \in Nat /\ ChunkEnd(p) \in Nat
      /\ Sent(p) = p.start + Len(p.futs) /\ Len(p.futs) \in Nat /\ p.start \in Nat
  <2>1. ChunkEnd(q) = ChunkEnd(p)
    BY <1>1 DEF ChunkEnd
  <2>2. Sent(p) \in Nat /\ Sent(p) = p.start + Len(p.futs) /\ Len(p.futs) \in Nat /\ p.start \in Nat
    BY SentIs
  <2>3. Sent(q) = Sent(p) + 1
    BY <1>1, <1>3, <2>2 DEF Sent
  <2>4. QED
    BY <2>1, <2>2, <2>3, ChunkEndIs
<1>5. CallShape(q)
  BY <1>0, <1>1, <1>3, <1>4 DEF CallShape
<1>6. CallReported(q)
  <2>1. ASSUME NEW k \in DOMAIN q.failed
        PROVE  \E m \in 1 .. Sent(q) :
                 /\ q.failed[k] = q.keeps[m]
                 /\ m <= q.start + q.joined \/ q.futs[m - q.start] = "none"
    <3>1. PICK m \in 1 .. Sent(p) :
            /\ p.failed[k] = p.keeps[m]
            /\ m <= p.start + p.joined \/ p.futs[m - p.start] = "none"
      BY <1>0, <1>1 DEF CallReported
    <3>2. m \in 1 .. Sent(q) /\ (m > p.start => m - p.start \in 1 .. Len(p.futs))
      BY <1>4
    <3>3. m <= p.start + p.joined \/ q.futs[m - p.start] = "none"
      BY <1>0, <1>3, <1>4, <3>1, <3>2 DEF CallShape
    <3>4. QED
      BY <1>1, <3>1, <3>2, <3>3
  <2>2. QED
    BY <2>1 DEF CallReported
<1>7. CallCovered(q, landed)
  <2>1. p.joined = 0
    BY <1>0 DEF CallShape
  <2>2. ASSUME NEW i \in 1 .. Len(q.futs)
        PROVE  /\ q.futs[i] = "none" => q.keeps[q.start + i] \in ToSet(q.failed)
               /\ q.futs[i] = "ok" => q.keeps[q.start + i] \in landed
    <3>1. i \in 1 .. Len(p.futs) \/ i = Len(p.futs) + 1
      BY <1>3, <1>4
    <3>2. QED
      BY <1>0, <1>1, <1>3, <2>1, <3>1 DEF CallCovered
  <2>3. QED
    BY <1>0, <1>1, <2>1, <2>2 DEF CallCovered
<1>8. CallResolved(q, dead) /\ CallDone(q, landed)
  BY <1>1 DEF CallResolved, CallDone
<1>9. QED
  BY <1>5, <1>6, <1>7, <1>8 DEF CallOK

(* A keep of the batch that lies ahead of all that was reported has not    *)
(* been reported.                                                          *)
LEMMA NotReported ==
    ASSUME NEW p \in Calls, Running(p), CallShape(p), CallReported(p),
           NEW n \in 1 .. Len(p.keeps), n > p.start + p.joined,
           n > Sent(p) \/ p.futs[n - p.start] # "none"
    PROVE  p.keeps[n] \notin ToSet(p.failed)
<1> SUFFICES ASSUME p.keeps[n] \in ToSet(p.failed) PROVE FALSE
  OBVIOUS
<1>1. PICK k \in DOMAIN p.failed : p.failed[k] = p.keeps[n]
  BY DEF ToSet
<1>2. PICK m \in 1 .. Sent(p) :
        /\ p.failed[k] = p.keeps[m]
        /\ m <= p.start + p.joined \/ p.futs[m - p.start] = "none"
  BY <1>1 DEF CallReported
<1>3. m \in 1 .. Len(p.keeps) /\ Sent(p) \in Nat
  BY SentIs, ChunkEndIs DEF CallShape, Calls
<1>4. DOMAIN p.keeps = 1 .. Len(p.keeps)
  BY DEF Calls
<1>5. m = n
  <2>1. \A a, b \in 1 .. Len(p.keeps) : p.keeps[a] = p.keeps[b] => a = b
    BY <1>4 DEF CallShape, IsInjective
  <2>2. QED
    BY <1>1, <1>2, <1>3, <2>1
<1>6. QED
  BY <1>2, <1>3, <1>5 DEF Calls

(* PublishAsync fails at once, and the keep is reported. *)
LEMMA CallRefused ==
    ASSUME NEW p \in Calls, NEW q \in Calls, NEW dead, NEW landed, CallOK(p, dead, landed),
           p.pc = "send", Sent(p) < ChunkEnd(p),
           q = [p EXCEPT !.futs = Append(@, "none"), !.failed = Append(@, p.keeps[Sent(p) + 1]),
                         !.err = TRUE]
    PROVE  CallOK(q, dead, landed)
<1> DEFINE n == Sent(p) + 1
<1> DEFINE t == p.keeps[n]
<1> USE DEF Running
<1>0. CallShape(p) /\ CallReported(p) /\ CallCovered(p, landed)
  BY DEF CallOK
<1>1. /\ q.pc = "send" /\ q.keeps = p.keeps /\ q.start = p.start /\ q.joined = p.joined
      /\ q.failed = Append(p.failed, t) /\ q.err = TRUE /\ q.futs = Append(p.futs, "none")
  BY DEF Calls
<1>2. p.futs \in Seq(Futures) /\ "none" \in Futures
  BY DEF Calls, Futures
<1>3. /\ Len(q.futs) = Len(p.futs) + 1 /\ q.futs[Len(p.futs) + 1] = "none"
      /\ \A i \in 1 .. Len(p.futs) : q.futs[i] = p.futs[i]
  BY <1>1, <1>2, AppendProperties
<1>4. Sent(q) = Sent(p) + 1 /\ ChunkEnd(q) = ChunkEnd(p) /\ Sent(p) \in Nat /\ ChunkEnd(p) \in Nat
      /\ Sent(p) = p.start + Len(p.futs) /\ Len(p.futs) \in Nat /\ p.start \in Nat
      /\ ChunkEnd(p) <= Len(p.keeps)
  <2>1. ChunkEnd(q) = ChunkEnd(p)
    BY <1>1 DEF ChunkEnd
  <2>2. Sent(p) \in Nat /\ Sent(p) = p.start + Len(p.futs) /\ Len(p.futs) \in Nat /\ p.start \in Nat
    BY SentIs
  <2>3. Sent(q) = Sent(p) + 1
    BY <1>1, <1>3, <2>2 DEF Sent
  <2>4. QED
    BY <2>1, <2>2, <2>3, ChunkEndIs
<1>5. p.joined = 0 /\ n \in 1 .. Len(p.keeps) /\ n - p.start = Len(p.futs) + 1
  <2>1. p.joined = 0
    BY <1>0 DEF CallShape
  <2>2. Len(p.keeps) \in Nat
    BY DEF Calls
  <2>3. QED
    BY <1>4, <2>1, <2>2
<1>6. t \in Traces /\ p.failed \in Seq(Traces) /\ p.keeps \in Seq(Traces)
  <2>1. p.failed \in Seq(Traces) /\ p.keeps \in Seq(Traces)
    BY DEF Calls
  <2>2. QED
    BY <1>5, <2>1, ElementOfSeq
<1>7. t \notin ToSet(p.failed)
  BY SMTT(40), <1>0, <1>4, <1>5, NotReported
<1>8. IsInjective(q.failed) /\ q.failed # << >> /\ ToSet(q.failed) = ToSet(p.failed) \union {t}
  BY <1>0, <1>1, <1>6, <1>7, AppendFresh, AppendToSet DEF CallShape
<1>9. CallShape(q)
  <2>1. q.err = (q.failed # << >>)
    BY <1>1, <1>8, Zenon
  <2>2. IsInjective(q.keeps)
    BY <1>0, <1>1 DEF CallShape
  <2>3. Sent(q) <= ChunkEnd(q) /\ q.joined <= Len(q.futs) /\ q.joined = 0
    BY <1>1, <1>3, <1>4, <1>5
  <2>4. QED
    BY <1>8, <2>1, <2>2, <2>3, Zenon DEF CallShape
<1>10. CallReported(q)
  <2>1. ASSUME NEW k \in DOMAIN q.failed
        PROVE  \E m \in 1 .. Sent(q) :
                 /\ q.failed[k] = q.keeps[m]
                 /\ m <= q.start + q.joined \/ q.futs[m - q.start] = "none"
    <3>1. (k \in DOMAIN p.failed /\ q.failed[k] = p.failed[k]) \/ q.failed[k] = t
      <4>1. DOMAIN q.failed = 1 .. Len(p.failed) + 1 /\ q.failed[Len(p.failed) + 1] = t
            /\ \A i \in DOMAIN p.failed : q.failed[i] = p.failed[i]
        BY <1>1, <1>6, AppendToSet
      <4>2. DOMAIN p.failed = 1 .. Len(p.failed) /\ Len(p.failed) \in Nat
        BY <1>6
      <4>3. QED
        BY <4>1, <4>2
    <3>2. CASE q.failed[k] = t
      <4>1. n \in 1 .. Sent(q) /\ q.futs[n - q.start] = "none"
        BY <1>1, <1>3, <1>4, <1>5
      <4>2. QED
        BY <1>1, <3>2, <4>1
    <3>3. CASE k \in DOMAIN p.failed /\ q.failed[k] = p.failed[k]
      <4>1. PICK m \in 1 .. Sent(p) :
              /\ p.failed[k] = p.keeps[m]
              /\ m <= p.start + p.joined \/ p.futs[m - p.start] = "none"
        BY <1>0, <3>3 DEF CallReported
      <4>2. m \in 1 .. Sent(q) /\ (m > p.start => m - p.start \in 1 .. Len(p.futs))
        BY <1>4
      <4>3. m <= q.start + q.joined \/ q.futs[m - q.start] = "none"
        BY SMTT(40), <1>1, <1>3, <1>4, <1>5, <4>1, <4>2
      <4>4. QED
        BY <1>1, <3>3, <4>1, <4>2, <4>3
    <3>4. QED
      BY <3>1, <3>2, <3>3
  <2>2. QED
    BY <2>1 DEF CallReported
<1>11. CallCovered(q, landed)
  <2>1. ASSUME NEW i \in 1 .. Len(q.futs)
        PROVE  /\ q.futs[i] = "none" => q.keeps[q.start + i] \in ToSet(q.failed)
               /\ q.futs[i] = "ok" => q.keeps[q.start + i] \in landed
    <3>1. i \in 1 .. Len(p.futs) \/ i = Len(p.futs) + 1
      BY <1>3, <1>4
    <3>2. CASE i = Len(p.futs) + 1
      <4>1. q.start + i = n
        BY SMTT(40), <1>1, <1>4, <3>2
      <4>2. QED
        BY <1>1, <1>3, <1>8, <3>2, <4>1
    <3>3. CASE i \in 1 .. Len(p.futs)
      BY <1>0, <1>1, <1>3, <1>5, <1>8, <3>3 DEF CallCovered
    <3>4. QED
      BY <3>1, <3>2, <3>3
  <2>2. QED
    BY <1>0, <1>1, <1>5, <1>8, <2>1 DEF CallCovered
<1>12. CallResolved(q, dead) /\ CallDone(q, landed)
  BY <1>1 DEF CallResolved, CallDone
<1>13. QED
  BY <1>9, <1>10, <1>11, <1>12 DEF CallOK

(* The join begins. *)
LEMMA CallJoins ==
    ASSUME NEW p \in Calls, NEW q \in Calls, NEW dead, NEW landed, CallOK(p, dead, landed),
           p.pc = "send", q = [p EXCEPT !.pc = "join"],
           dead \/ (Sent(p) = ChunkEnd(p) /\ \A i \in DOMAIN p.futs : p.futs[i] # "sent")
    PROVE  CallOK(q, dead, landed)
<1> USE DEF Running
<1>0. CallShape(p) /\ CallReported(p) /\ CallCovered(p, landed)
  BY DEF CallOK
<1>1. /\ q.pc = "join" /\ q.keeps = p.keeps /\ q.start = p.start /\ q.joined = p.joined
      /\ q.failed = p.failed /\ q.err = p.err /\ q.futs = p.futs
  BY DEF Calls
<1>2. Sent(q) = Sent(p) /\ ChunkEnd(q) = ChunkEnd(p)
  BY <1>1 DEF Sent, ChunkEnd
<1>3. CallShape(q)
  BY <1>0, <1>1, <1>2 DEF CallShape
<1>4. CallResolved(q, dead)
  BY <1>1, <1>2 DEF CallResolved
<1>5. CallReported(q)
  BY <1>0, <1>1, <1>2 DEF CallReported
<1>6. CallCovered(q, landed) /\ CallDone(q, landed)
  BY <1>0, <1>1 DEF CallCovered, CallDone
<1>7. QED
  BY <1>3, <1>4, <1>5, <1>6 DEF CallOK

(* The join reads an ack, or passes over a keep reported before. *)
LEMMA CallReads ==
    ASSUME NEW p \in Calls, NEW q \in Calls, NEW dead, NEW landed, CallOK(p, dead, landed),
           p.pc = "join", p.joined < Len(p.futs), p.futs[p.joined + 1] \in {"none", "ok"},
           q = [p EXCEPT !.joined = @ + 1]
    PROVE  CallOK(q, dead, landed)
<1> USE DEF Running
<1>0. CallShape(p) /\ CallReported(p) /\ CallCovered(p, landed) /\ CallResolved(p, dead)
  BY DEF CallOK
<1>1. /\ q.pc = "join" /\ q.keeps = p.keeps /\ q.start = p.start /\ q.joined = p.joined + 1
      /\ q.failed = p.failed /\ q.err = p.err /\ q.futs = p.futs
  BY DEF Calls
<1>2. Sent(q) = Sent(p) /\ ChunkEnd(q) = ChunkEnd(p)
  BY <1>1 DEF Sent, ChunkEnd
<1>3. Sent(p) = p.start + Len(p.futs) /\ Len(p.futs) \in Nat /\ p.start \in Nat /\ p.joined \in Nat
  BY SentIs DEF Calls
<1>4. CallShape(q)
  BY <1>0, <1>1, <1>2, <1>3 DEF CallShape
<1>5. CallResolved(q, dead)
  BY <1>0, <1>1, <1>2 DEF CallResolved
<1>6. CallReported(q)
  <2>1. ASSUME NEW j \in DOMAIN q.failed
        PROVE  \E m \in 1 .. Sent(q) :
                 /\ q.failed[j] = q.keeps[m]
                 /\ m <= q.start + q.joined \/ q.futs[m - q.start] = "none"
    <3>1. PICK m \in 1 .. Sent(p) :
            /\ p.failed[j] = p.keeps[m]
            /\ m <= p.start + p.joined \/ p.futs[m - p.start] = "none"
      BY <1>0, <1>1 DEF CallReported
    <3>2. m <= q.start + q.joined \/ q.futs[m - q.start] = "none"
      BY <1>1, <1>3, <3>1
    <3>3. QED
      BY <1>1, <1>2, <3>1, <3>2
  <2>2. QED
    BY <2>1 DEF CallReported
<1>7. CallCovered(q, landed)
  <2>1. p.joined + 1 \in p.joined + 1 .. Len(p.futs)
    BY <1>3
  <2>2. p.keeps[p.start + (p.joined + 1)] \in ToSet(p.failed) \union landed
    BY <1>0, <2>1 DEF CallCovered
  <2>3. ASSUME NEW m \in 1 .. q.start + q.joined
        PROVE  q.keeps[m] \in ToSet(q.failed) \union landed
    <3>1. m \in 1 .. p.start + p.joined \/ m = p.start + (p.joined + 1)
      BY <1>1, <1>3
    <3>2. QED
      BY <1>0, <1>1, <2>2, <3>1 DEF CallCovered
  <2>4. ASSUME NEW i \in q.joined + 1 .. Len(q.futs)
        PROVE  /\ q.futs[i] = "none" => q.keeps[q.start + i] \in ToSet(q.failed)
               /\ q.futs[i] = "ok" => q.keeps[q.start + i] \in landed
    <3>1. i \in p.joined + 1 .. Len(p.futs)
      BY <1>1, <1>3
    <3>2. QED
      BY <1>0, <1>1, <3>1 DEF CallCovered
  <2>5. QED
    BY <2>3, <2>4 DEF CallCovered
<1>8. CallDone(q, landed)
  BY <1>1 DEF CallDone
<1>9. QED
  BY <1>4, <1>5, <1>6, <1>7, <1>8 DEF CallOK

(* The join reads an error, or a future that the context has left open. *)
LEMMA CallReports ==
    ASSUME NEW p \in Calls, NEW q \in Calls, NEW dead \in BOOLEAN, NEW landed,
           CallOK(p, dead, landed), p.pc = "join", p.joined < Len(p.futs),
           p.futs[p.joined + 1] \in {"err", "sent"},
           q = [p EXCEPT !.joined = @ + 1,
                         !.failed = Append(@, p.keeps[p.start + p.joined + 1]),
                         !.err = @ \/ p.futs[p.joined + 1] = "err" \/ dead]
    PROVE  CallOK(q, dead, landed)
<1> DEFINE n == p.start + p.joined + 1
<1> DEFINE t == p.keeps[n]
<1> USE DEF Running
<1>0. CallShape(p) /\ CallReported(p) /\ CallCovered(p, landed) /\ CallResolved(p, dead)
  BY DEF CallOK
<1>1. /\ q.pc = "join" /\ q.keeps = p.keeps /\ q.start = p.start /\ q.joined = p.joined + 1
      /\ q.failed = Append(p.failed, t) /\ q.futs = p.futs
      /\ q.err = (p.err \/ p.futs[p.joined + 1] = "err" \/ dead)
  BY DEF Calls
<1>2. Sent(q) = Sent(p) /\ ChunkEnd(q) = ChunkEnd(p) /\ ChunkEnd(p) <= Len(p.keeps)
      /\ ChunkEnd(p) \in Nat
  <2>1. Sent(q) = Sent(p) /\ ChunkEnd(q) = ChunkEnd(p)
    BY <1>1 DEF Sent, ChunkEnd
  <2>2. QED
    BY <2>1, ChunkEndIs
<1>3. Sent(p) = p.start + Len(p.futs) /\ Len(p.futs) \in Nat /\ p.start \in Nat /\ p.joined \in Nat
      /\ p.failed \in Seq(Traces) /\ p.keeps \in Seq(Traces) /\ Len(p.keeps) \in Nat
  BY SentIs DEF Calls
<1>4. n \in 1 .. Len(p.keeps) /\ n <= Sent(p) /\ n - p.start = p.joined + 1
  BY SMTT(40), <1>0, <1>2, <1>3 DEF CallShape
<1>5. t \in Traces
  BY <1>3, <1>4, ElementOfSeq
<1>6. t \notin ToSet(p.failed)
  <2>1. n > p.start + p.joined /\ p.futs[n - p.start] # "none"
    BY SMTT(40), <1>3, <1>4
  <2>2. QED
    BY <1>0, <1>4, <2>1, NotReported
<1>7. IsInjective(q.failed) /\ q.failed # << >> /\ ToSet(q.failed) = ToSet(p.failed) \union {t}
  BY SMTT(40), <1>0, <1>1, <1>3, <1>5, <1>6, AppendFresh, AppendToSet DEF CallShape
<1>8. p.futs[p.joined + 1] = "err" \/ dead
  BY <1>0, <1>3 DEF CallResolved, Calls
<1>9. CallShape(q)
  <2>1. q.err = (q.failed # << >>)
    <3>1. q.err \in BOOLEAN
      BY DEF Calls
    <3>2. q.err
      BY <1>1, <1>8, Zenon
    <3>3. QED
      BY <1>7, <3>1, <3>2, Zenon
  <2>2. IsInjective(q.keeps)
    BY <1>0, <1>1 DEF CallShape
  <2>3. Sent(q) <= ChunkEnd(q) /\ q.joined <= Len(q.futs) /\ q.pc # "send"
    BY <1>0, <1>1, <1>2, <1>3 DEF CallShape
  <2>4. QED
    BY <1>7, <2>1, <2>2, <2>3, Zenon DEF CallShape
<1>10. CallResolved(q, dead)
  BY <1>0, <1>1, <1>2 DEF CallResolved
<1>11. CallReported(q)
  <2>1. ASSUME NEW j \in DOMAIN q.failed
        PROVE  \E m \in 1 .. Sent(q) :
                 /\ q.failed[j] = q.keeps[m]
                 /\ m <= q.start + q.joined \/ q.futs[m - q.start] = "none"
    <3>1. (j \in DOMAIN p.failed /\ q.failed[j] = p.failed[j]) \/ q.failed[j] = t
      <4>1. DOMAIN q.failed = 1 .. Len(p.failed) + 1 /\ q.failed[Len(p.failed) + 1] = t
            /\ \A i \in DOMAIN p.failed : q.failed[i] = p.failed[i]
        BY <1>1, <1>3, <1>5, AppendToSet
      <4>2. DOMAIN p.failed = 1 .. Len(p.failed) /\ Len(p.failed) \in Nat
        BY <1>3
      <4>3. QED
        BY <4>1, <4>2
    <3>2. CASE q.failed[j] = t
      <4>1. n \in 1 .. Sent(q) /\ n <= q.start + q.joined
        BY <1>1, <1>2, <1>3, <1>4
      <4>2. QED
        BY <1>1, <3>2, <4>1
    <3>3. CASE j \in DOMAIN p.failed /\ q.failed[j] = p.failed[j]
      <4>1. PICK m \in 1 .. Sent(p) :
              /\ p.failed[j] = p.keeps[m]
              /\ m <= p.start + p.joined \/ p.futs[m - p.start] = "none"
        BY <1>0, <3>3 DEF CallReported
      <4>2. m <= q.start + q.joined \/ q.futs[m - q.start] = "none"
        BY <1>1, <1>3, <4>1
      <4>3. QED
        BY <1>1, <1>2, <3>3, <4>1, <4>2
    <3>4. QED
      BY <3>1, <3>2, <3>3
  <2>2. QED
    BY <2>1 DEF CallReported
<1>12. CallCovered(q, landed)
  <2>1. ASSUME NEW m \in 1 .. q.start + q.joined
        PROVE  q.keeps[m] \in ToSet(q.failed) \union landed
    <3>1. m \in 1 .. p.start + p.joined \/ m = n
      <4>1. q.start + q.joined = n
        BY <1>1, <1>3
      <4>2. QED
        BY <1>3, <4>1
    <3>2. QED
      BY <1>0, <1>1, <1>7, <3>1 DEF CallCovered
  <2>2. ASSUME NEW i \in q.joined + 1 .. Len(q.futs)
        PROVE  /\ q.futs[i] = "none" => q.keeps[q.start + i] \in ToSet(q.failed)
               /\ q.futs[i] = "ok" => q.keeps[q.start + i] \in landed
    <3>1. i \in p.joined + 1 .. Len(p.futs)
      BY <1>1, <1>3
    <3>2. QED
      BY <1>0, <1>1, <1>7, <3>1 DEF CallCovered
  <2>3. QED
    BY <2>1, <2>2 DEF CallCovered
<1>13. CallDone(q, landed)
  BY <1>1 DEF CallDone
<1>14. QED
  BY <1>9, <1>10, <1>11, <1>12, <1>13 DEF CallOK

(* What a dead context leaves untried is the batch beyond what was sent. *)
LEMMA UnattemptedIs ==
    ASSUME NEW p \in Calls, Sent(p) <= Len(p.keeps)
    PROVE  /\ Unattempted(p) \in Seq(Traces)
           /\ Len(Unattempted(p)) = Len(p.keeps) - Sent(p)
           /\ \A i \in 1 .. Len(Unattempted(p)) : Unattempted(p)[i] = p.keeps[Sent(p) + i]
<1>1. Sent(p) \in Nat /\ p.keeps \in Seq(Traces) /\ Len(p.keeps) \in Nat
  BY SentIs DEF Calls
<1>2. Unattempted(p) = SubSeq(p.keeps, Sent(p) + 1, Len(p.keeps))
  BY DEF Unattempted
<1>3. \A i \in Sent(p) + 1 .. Len(p.keeps) : p.keeps[i] \in Traces
  BY <1>1
<1>4. Sent(p) + 1 \in Int /\ Len(p.keeps) \in Int
  BY <1>1
<1>5. /\ Unattempted(p) \in Seq(Traces)
      /\ Len(Unattempted(p)) = IF Sent(p) + 1 <= Len(p.keeps) THEN Len(p.keeps) - (Sent(p) + 1) + 1 ELSE 0
      /\ \A i \in 1 .. Len(p.keeps) - (Sent(p) + 1) + 1 :
           Unattempted(p)[i] = p.keeps[(Sent(p) + 1) + i - 1]
  BY <1>2, <1>3, <1>4, SubSeqProperties
<1>6. Len(Unattempted(p)) = Len(p.keeps) - Sent(p)
  BY <1>1, <1>5
<1>7. ASSUME NEW i \in 1 .. Len(Unattempted(p))
      PROVE  Unattempted(p)[i] = p.keeps[Sent(p) + i]
  <2>1. i \in 1 .. Len(p.keeps) - (Sent(p) + 1) + 1 /\ (Sent(p) + 1) + i - 1 = Sent(p) + i
    BY <1>1, <1>6
  <2>2. QED
    BY <1>5, <2>1
<1>8. QED
  BY <1>5, <1>6, <1>7

(* An index into the tail of a batch of k keeps, s of them sent. *)
LEMMA TailIndex ==
    ASSUME NEW s \in Nat, NEW k \in Nat, NEW f \in Nat, NEW l, l = k - s,
           NEW a \in Int, a - f \in 1 .. l
    PROVE  s + (a - f) \in 1 .. k /\ s + (a - f) > s
  OBVIOUS

(* The context is dead: the call returns, and reports what it never tried. *)
LEMMA CallAbandons ==
    ASSUME NEW p \in Calls, NEW q \in Calls, NEW dead, NEW landed, CallOK(p, dead, landed),
           p.pc = "join", p.joined = Len(p.futs),
           q.pc = "returned", q.futs = << >>, q.joined = 0, q.keeps = p.keeps,
           q.failed = p.failed \o Unattempted(p), q.err = (p.err \/ q.failed # << >>)
    PROVE  CallOK(q, dead, landed)
<1> DEFINE u == Unattempted(p)
<1> USE DEF Running
<1>0. CallShape(p) /\ CallReported(p) /\ CallCovered(p, landed)
  BY DEF CallOK
<1>1. /\ Sent(p) = p.start + p.joined /\ Sent(p) \in Nat
      /\ p.failed \in Seq(Traces) /\ p.keeps \in Seq(Traces)
      /\ Len(p.keeps) \in Nat /\ Len(p.failed) \in Nat
  BY SentIs DEF Calls
<1>2. Sent(p) <= Len(p.keeps)
  BY <1>0, <1>1, ChunkEndIs DEF CallShape
<1>3. /\ u \in Seq(Traces) /\ Len(u) = Len(p.keeps) - Sent(p)
      /\ \A i \in 1 .. Len(u) : u[i] = p.keeps[Sent(p) + i]
  BY <1>2, UnattemptedIs
<1>17. Len(u) = Len(p.keeps) - Sent(p) /\ Len(u) \in Nat
  BY <1>3
<1>4. /\ Len(q.failed) = Len(p.failed) + Len(u)
      /\ \A i \in 1 .. Len(p.failed) : q.failed[i] = p.failed[i]
      /\ \A i \in 1 .. Len(u) : q.failed[Len(p.failed) + i] = u[i]
      /\ DOMAIN q.failed = 1 .. Len(q.failed) /\ Len(u) \in Nat
  <2>1. /\ q.failed \in Seq(Traces) /\ Len(q.failed) = Len(p.failed) + Len(u)
        /\ \A i \in 1 .. Len(p.failed) + Len(u) :
             q.failed[i] = IF i <= Len(p.failed) THEN p.failed[i] ELSE u[i - Len(p.failed)]
    <3>1. p.failed \in Seq(Traces) /\ u \in Seq(Traces) /\ q.failed = p.failed \o u
      BY <1>1, <1>3
    <3> HIDE DEF u
    <3>2. QED
      BY <3>1, ConcatProperties
  <2>2. Len(u) \in Nat /\ DOMAIN q.failed = 1 .. Len(q.failed)
    BY <1>3, <2>1
  <2>3. \A i \in 1 .. Len(p.failed) : q.failed[i] = p.failed[i]
    BY <1>1, <2>1, <2>2
  <2>4. ASSUME NEW i \in 1 .. Len(u)
        PROVE  q.failed[Len(p.failed) + i] = u[i]
    <3>1. /\ Len(p.failed) + i \in 1 .. Len(p.failed) + Len(u)
          /\ ~(Len(p.failed) + i <= Len(p.failed)) /\ Len(p.failed) + i - Len(p.failed) = i
      BY <1>1, <2>2
    <3>2. QED
      BY <2>1, <3>1
  <2>5. QED
    BY <2>1, <2>2, <2>3, <2>4
<1>5. DOMAIN p.keeps = 1 .. Len(p.keeps) /\ DOMAIN p.failed = 1 .. Len(p.failed)
  BY <1>1
<1>6. ASSUME NEW i \in DOMAIN q.failed
      PROVE  \/ i \in 1 .. Len(p.failed) /\ \E m \in 1 .. Sent(p) : q.failed[i] = p.keeps[m]
             \/ /\ i - Len(p.failed) \in 1 .. Len(u)
                /\ q.failed[i] = p.keeps[Sent(p) + (i - Len(p.failed))]
  <2>1. CASE i <= Len(p.failed)
    <3>1. i \in 1 .. Len(p.failed)
      BY <1>4, <2>1
    <3>2. QED
      BY <1>0, <1>4, <1>5, <3>1 DEF CallReported
  <2>2. CASE ~(i <= Len(p.failed))
    <3>1. i - Len(p.failed) \in 1 .. Len(u) /\ Len(p.failed) + (i - Len(p.failed)) = i
      BY SMTT(40), <1>1, <1>4, <2>2
    <3>2. QED
      BY <1>3, <1>4, <3>1
  <2>3. QED
    BY <2>1, <2>2
<1>7. \A a, b \in 1 .. Len(p.keeps) : p.keeps[a] = p.keeps[b] => a = b
  BY <1>0, <1>5 DEF CallShape, IsInjective
<1>8. \A a, b \in 1 .. Len(p.failed) : p.failed[a] = p.failed[b] => a = b
  BY <1>0, <1>5 DEF CallShape, IsInjective
<1>9. ASSUME NEW i \in DOMAIN q.failed, NEW j \in DOMAIN q.failed, q.failed[i] = q.failed[j]
      PROVE  i = j
  <2>1. CASE i \in 1 .. Len(p.failed) /\ j \in 1 .. Len(p.failed)
    BY <1>4, <1>8, <1>9, <2>1
  <2>2. ASSUME NEW a \in DOMAIN q.failed, NEW b \in DOMAIN q.failed, q.failed[a] = q.failed[b],
               a \in 1 .. Len(p.failed), b \notin 1 .. Len(p.failed)
        PROVE  FALSE
    <3>1. PICK m \in 1 .. Sent(p) : q.failed[a] = p.keeps[m]
      <4>1. a - Len(p.failed) \notin 1 .. Len(u)
        BY <1>1, <1>4, <2>2
      <4>2. QED
        BY <1>6, <4>1
    <3>2. b - Len(p.failed) \in 1 .. Len(u) /\ q.failed[b] = p.keeps[Sent(p) + (b - Len(p.failed))]
      BY <1>6, <2>2
    <3>3. Sent(p) + (b - Len(p.failed)) \in 1 .. Len(p.keeps) /\ m \in 1 .. Len(p.keeps)
          /\ Sent(p) + (b - Len(p.failed)) # m
      <4>1. b \in Int
        BY <1>4
      <4>2. Sent(p) + (b - Len(p.failed)) \in 1 .. Len(p.keeps)
            /\ Sent(p) + (b - Len(p.failed)) > Sent(p)
        BY <1>1, <1>17, <3>2, <4>1, TailIndex
      <4>3. QED
        BY SMTT(40), <1>1, <1>2, <4>2
    <3>4. QED
      BY <1>7, <2>2, <3>1, <3>2, <3>3
  <2>3. CASE i \notin 1 .. Len(p.failed) /\ j \notin 1 .. Len(p.failed)
    <3>1. /\ i - Len(p.failed) \in 1 .. Len(u)
          /\ q.failed[i] = p.keeps[Sent(p) + (i - Len(p.failed))]
      BY <1>6, <2>3
    <3>2. /\ j - Len(p.failed) \in 1 .. Len(u)
          /\ q.failed[j] = p.keeps[Sent(p) + (j - Len(p.failed))]
      BY <1>6, <2>3
    <3>3. /\ Sent(p) + (i - Len(p.failed)) \in 1 .. Len(p.keeps)
          /\ Sent(p) + (j - Len(p.failed)) \in 1 .. Len(p.keeps)
      <4>1. i \in Int /\ j \in Int
        BY <1>4
      <4>2. QED
        BY <1>1, <1>17, <3>1, <3>2, <4>1, TailIndex
    <3>4. Sent(p) + (i - Len(p.failed)) = Sent(p) + (j - Len(p.failed))
      BY <1>7, <1>9, <3>1, <3>2, <3>3
    <3>5. QED
      BY <1>1, <1>4, <3>4
  <2>4. QED
    BY <1>9, <2>1, <2>2, <2>3
<1>10. IsInjective(q.failed)
  BY <1>9 DEF IsInjective
<1>11. ToSet(q.failed) \subseteq ToSet(q.keeps)
  <2>1. ASSUME NEW i \in DOMAIN q.failed
        PROVE  \E m \in DOMAIN p.keeps : q.failed[i] = p.keeps[m]
    <3>1. CASE \E m \in 1 .. Sent(p) : q.failed[i] = p.keeps[m]
      <4>1. PICK m \in 1 .. Sent(p) : q.failed[i] = p.keeps[m]
        BY <3>1
      <4>2. m \in 1 .. Len(p.keeps)
        BY <1>1, <1>2
      <4>3. QED
        BY <1>5, <4>1, <4>2
    <3>2. CASE /\ i - Len(p.failed) \in 1 .. Len(u)
               /\ q.failed[i] = p.keeps[Sent(p) + (i - Len(p.failed))]
      <4>1. Sent(p) + (i - Len(p.failed)) \in 1 .. Len(p.keeps)
        BY <1>1, <1>2, <1>3, <3>2
      <4>2. QED
        BY <1>5, <3>2, <4>1
    <3>3. QED
      BY <1>6, <3>1, <3>2
  <2>2. QED
    BY <2>1 DEF ToSet
<1>12. ToSet(q.keeps) \subseteq ToSet(q.failed) \union landed
  <2>1. ASSUME NEW m \in 1 .. Len(p.keeps)
        PROVE  p.keeps[m] \in ToSet(q.failed) \union landed
    <3>1. CASE m <= Sent(p)
      <4>1. p.keeps[m] \in ToSet(p.failed) \union landed
        BY <1>0, <1>1, <3>1 DEF CallCovered
      <4>2. ASSUME p.keeps[m] \in ToSet(p.failed)
            PROVE  p.keeps[m] \in ToSet(q.failed)
        <5>1. PICK i \in 1 .. Len(p.failed) : p.failed[i] = p.keeps[m]
          BY <1>5, <4>2 DEF ToSet
        <5>2. i \in DOMAIN q.failed /\ q.failed[i] = p.keeps[m]
          BY <1>1, <1>4, <5>1
        <5>3. QED
          BY <5>2 DEF ToSet
      <4>3. QED
        BY <4>1, <4>2
    <3>2. CASE ~(m <= Sent(p))
      <4>1. m - Sent(p) \in 1 .. Len(u) /\ Sent(p) + (m - Sent(p)) = m
        BY <1>1, <1>3, <3>2
      <4>2. /\ Len(p.failed) + (m - Sent(p)) \in DOMAIN q.failed
            /\ q.failed[Len(p.failed) + (m - Sent(p))] = p.keeps[m]
        <5>1. Len(p.failed) + (m - Sent(p)) \in 1 .. Len(p.failed) + Len(u)
          BY SMTT(40), <1>1, <1>17, <4>1
        <5>2. q.failed[Len(p.failed) + (m - Sent(p))] = u[m - Sent(p)]
          BY <1>4, <4>1
        <5>3. u[m - Sent(p)] = p.keeps[m]
          BY <1>3, <4>1
        <5>4. QED
          BY <1>4, <5>1, <5>2, <5>3
      <4>3. QED
        BY <4>2 DEF ToSet
    <3>3. QED
      BY <3>1, <3>2
  <2>2. QED
    BY <1>5, <2>1 DEF ToSet
<1>13. q.err = (q.failed # << >>)
  <2>1. p.err \in BOOLEAN /\ q.err \in BOOLEAN
    BY DEF Calls
  <2>2. p.err => p.failed # << >>
    BY <1>0, Zenon DEF CallShape
  <2>3. p.failed # << >> => q.failed # << >>
    BY <1>1, <1>3
  <2>4. QED
    BY <2>1, <2>2, <2>3, Zenon
<1>14. CallShape(q)
  <2>1. IsInjective(q.keeps)
    BY <1>0 DEF CallShape
  <2>2. q.joined <= Len(q.futs) /\ ~Running(q) /\ q.pc # "send"
    OBVIOUS
  <2>3. QED
    BY <1>10, <1>13, <2>1, <2>2, Zenon DEF CallShape
<1>15. CallResolved(q, dead) /\ CallReported(q) /\ CallCovered(q, landed)
  BY DEF CallResolved, CallReported, CallCovered
<1>16. QED
  BY <1>11, <1>12, <1>14, <1>15 DEF CallOK, CallDone

(* The context lives: the call goes on to the next chunk, or is through. *)
LEMMA CallProceeds ==
    ASSUME NEW p \in Calls, NEW q \in Calls, NEW dead, NEW landed, CallOK(p, dead, landed), ~dead,
           p.pc = "join", p.joined = Len(p.futs),
           q.pc = IF ChunkEnd(p) = Len(p.keeps) THEN "returned" ELSE "send",
           q.start = ChunkEnd(p), q.futs = << >>, q.joined = 0, q.keeps = p.keeps,
           q.failed = p.failed, q.err = p.err
    PROVE  CallOK(q, dead, landed)
<1> USE DEF Running
<1>0. CallShape(p) /\ CallReported(p) /\ CallCovered(p, landed) /\ CallResolved(p, dead)
  BY DEF CallOK
<1>1. /\ Sent(p) = ChunkEnd(p) /\ Sent(p) = p.start + p.joined /\ Sent(p) \in Nat
      /\ ChunkEnd(p) <= Len(p.keeps) /\ Len(p.keeps) \in Nat
  BY <1>0, SentIs, ChunkEndIs DEF CallResolved, Calls
<1>2. Sent(q) = Sent(p)
  BY <1>1 DEF Sent, Calls
<1>3. q.pc = "send" => Sent(q) <= ChunkEnd(q)
  <2>1. q.pc = "send" => q.start < Len(q.keeps)
    BY <1>1
  <2>2. ChunkEnd(q) \in Nat /\ (q.start < Len(q.keeps) => q.start < ChunkEnd(q))
    BY ChunkEndIs
  <2>3. QED
    BY <1>1, <1>2, <2>1, <2>2
<1>4. CallShape(q)
  BY <1>0, <1>3 DEF CallShape
<1>5. \A m \in 1 .. Sent(p) : p.keeps[m] \in ToSet(p.failed) \union landed
  BY <1>0, <1>1 DEF CallCovered
<1>6. ASSUME NEW j \in DOMAIN p.failed
      PROVE  \E m \in 1 .. Sent(p) : p.failed[j] = p.keeps[m]
  BY <1>0 DEF CallReported
<1>7. CallReported(q)
  <2>1. ASSUME NEW j \in DOMAIN q.failed
        PROVE  \E m \in 1 .. Sent(q) : q.failed[j] = q.keeps[m] /\ m <= q.start + q.joined
    <3>1. PICK m \in 1 .. Sent(p) : p.failed[j] = p.keeps[m]
      BY <1>6
    <3>2. m <= q.start + q.joined
      BY <1>1, <3>1
    <3>3. QED
      BY <1>2, <3>1, <3>2
  <2>2. QED
    BY <2>1 DEF CallReported
<1>8. CallCovered(q, landed)
  BY <1>1, <1>5 DEF CallCovered
<1>9. CallDone(q, landed)
  <2>1. SUFFICES ASSUME q.pc = "returned"
                 PROVE  /\ ToSet(p.failed) \subseteq ToSet(p.keeps)
                        /\ ToSet(p.keeps) \subseteq ToSet(p.failed) \union landed
    BY DEF CallDone
  <2>2. Sent(p) = Len(p.keeps) /\ DOMAIN p.keeps = 1 .. Len(p.keeps)
    BY <1>1, <2>1 DEF Calls
  <2>3. QED
    BY <1>5, <1>6, <2>2 DEF ToSet
<1>10. QED
  BY <1>4, <1>7, <1>8, <1>9 DEF CallOK, CallResolved

(* Futures resolve, with an ack only for what has landed. *)
LEMMA CallResolves ==
    ASSUME NEW p \in Calls, NEW q \in Calls, NEW dead, NEW landed, CallOK(p, dead, landed),
           NEW g \in Seq(Futures), q = [p EXCEPT !.futs = g], Len(g) = Len(p.futs),
           \A i \in 1 .. Len(p.futs) :
             \/ g[i] = p.futs[i]
             \/ p.futs[i] = "sent" /\ g[i] = "err"
             \/ p.futs[i] = "sent" /\ g[i] = "ok" /\ p.keeps[p.start + i] \in landed
    PROVE  CallOK(q, dead, landed)
<1> USE DEF Running
<1>0. CallShape(p) /\ CallReported(p) /\ CallCovered(p, landed) /\ CallResolved(p, dead)
      /\ CallDone(p, landed)
  BY DEF CallOK
<1>1. /\ q.pc = p.pc /\ q.keeps = p.keeps /\ q.start = p.start /\ q.joined = p.joined
      /\ q.failed = p.failed /\ q.err = p.err /\ q.futs = g
  BY DEF Calls
<1>2. Sent(q) = Sent(p) /\ ChunkEnd(q) = ChunkEnd(p)
  BY <1>1 DEF Sent, ChunkEnd
<1>3. Sent(p) = p.start + Len(p.futs) /\ Len(p.futs) \in Nat /\ p.start \in Nat /\ p.joined \in Nat
      /\ DOMAIN p.futs = 1 .. Len(p.futs) /\ DOMAIN g = 1 .. Len(p.futs)
  BY SentIs DEF Calls
<1>4. CallShape(q)
  BY <1>0, <1>1, <1>2 DEF CallShape
<1>5. CallResolved(q, dead)
  BY <1>0, <1>1, <1>2, <1>3 DEF CallResolved
<1>6. CallReported(q)
  <2>1. ASSUME Running(q), NEW j \in DOMAIN q.failed
        PROVE  \E m \in 1 .. Sent(q) :
                 /\ q.failed[j] = q.keeps[m]
                 /\ m <= q.start + q.joined \/ q.futs[m - q.start] = "none"
    <3>1. PICK m \in 1 .. Sent(p) :
            /\ p.failed[j] = p.keeps[m]
            /\ m <= p.start + p.joined \/ p.futs[m - p.start] = "none"
      BY <1>0, <1>1, <2>1 DEF CallReported
    <3>2. m <= p.start + p.joined \/ m - p.start \in 1 .. Len(p.futs)
      BY <1>3
    <3>3. m <= p.start + p.joined \/ g[m - p.start] = "none"
      BY <3>1, <3>2
    <3>4. QED
      BY <1>1, <1>2, <3>1, <3>3
  <2>2. QED
    BY <2>1 DEF CallReported
<1>7. CallCovered(q, landed)
  <2>1. ASSUME Running(q), NEW i \in q.joined + 1 .. Len(q.futs)
        PROVE  /\ q.futs[i] = "none" => q.keeps[q.start + i] \in ToSet(q.failed)
               /\ q.futs[i] = "ok" => q.keeps[q.start + i] \in landed
    <3>1. i \in p.joined + 1 .. Len(p.futs) /\ i \in 1 .. Len(p.futs)
      BY <1>1, <1>3
    <3>2. QED
      BY <1>0, <1>1, <2>1, <3>1 DEF CallCovered
  <2>2. QED
    BY <1>0, <1>1, <2>1 DEF CallCovered
<1>8. CallDone(q, landed)
  BY <1>0, <1>1 DEF CallDone
<1>9. QED
  BY <1>4, <1>5, <1>6, <1>7, <1>8 DEF CallOK

-----------------------------------------------------------------------------
(***************************************************************************)
(* The client and the stream.                                              *)
(***************************************************************************)

(* The invariant after a step that touches one collector's call and leaves *)
(* the stream, the acknowledgements and the subscriptions alone.           *)
LEMMA OneCall ==
    ASSUME BusInv, NEW c \in Collectors, NEW q \in Calls,
           pub' = [pub EXCEPT ![c] = q],
           ctx' \in [Collectors -> BOOLEAN], \A d \in Collectors \ {c} : ctx'[d] = ctx[d],
           CallOK(q, ctx'[c], ToSet(stream)),
           late' \in [Collectors -> SUBSET Traces], wire' \subseteq Collectors \X Traces,
           UNCHANGED <<acks, stream, cursor>>
    PROVE  BusInv'
<1>1. pub' \in [Collectors -> Calls]
  BY DEF BusInv, BusTypeOK
<1>2. BusTypeOK'
  BY <1>1 DEF BusInv, BusTypeOK
<1>3. ASSUME NEW d \in Collectors
      PROVE  CallOK(pub[d], ctx[d], ToSet(stream))'
  <2>1. CASE d = c
    <3>1. pub'[c] = q
      BY DEF BusInv, BusTypeOK
    <3>2. QED
      BY <2>1, <3>1
  <2>2. CASE d # c
    <3>1. pub'[d] = pub[d] /\ ctx'[d] = ctx[d] /\ CallOK(pub[d], ctx[d], ToSet(stream))
      BY <2>2 DEF BusInv, BusTypeOK
    <3>2. QED
      BY <3>1
  <2>3. QED
    BY <2>1, <2>2
<1>4. QED
  BY <1>2, <1>3 DEF BusInv

(* Publish is called, with keeps that do not repeat. *)
LEMMA BusPublishBegin ==
    ASSUME BusInv, NEW c \in Collectors, NEW keeps \in Seq(Traces), IsInjective(keeps),
           PublishBegin(c, keeps)
    PROVE  BusInv'
<1> DEFINE q == [NoCall EXCEPT !.pc = IF keeps = << >> THEN "returned" ELSE "send", !.keeps = keeps]
<1>1. /\ q.pc = (IF keeps = << >> THEN "returned" ELSE "send") /\ q.keeps = keeps /\ q.start = 0
      /\ q.futs = << >> /\ q.joined = 0 /\ q.failed = << >> /\ q.err = FALSE
  BY DEF NoCall
<1>2. q \in Calls
  <2>1. NoCall \in Calls
    BY DEF NoCall, Calls
  <2>2. QED
    BY <2>1 DEF Calls
<1>3. CallOK(q, FALSE, ToSet(stream))
  <2> HIDE DEF q
  <2>1. q.pc \in {"idle", "send", "returned"} /\ (q.pc = "send" <=> q.keeps # << >>)
    BY <1>1
  <2>2. QED
    BY <1>1, <1>2, <2>1, CallBegins
<1>4. pub' = [pub EXCEPT ![c] = q] /\ ctx' = [ctx EXCEPT ![c] = FALSE]
      /\ UNCHANGED <<late, wire, acks, stream, cursor>>
  BY DEF PublishBegin, subVars
<1>5. ctx' \in [Collectors -> BOOLEAN] /\ ctx'[c] = FALSE /\ \A d \in Collectors \ {c} : ctx'[d] = ctx[d]
  BY <1>4 DEF BusInv, BusTypeOK
<1> HIDE DEF q
<1>6. QED
  BY <1>2, <1>3, <1>4, <1>5, OneCall DEF BusInv, BusTypeOK

(* A call that does not run is as good as none. *)
LEMMA NoCallOK ==
    ASSUME NEW dead, NEW landed
    PROVE  NoCall \in Calls /\ CallOK(NoCall, dead, landed)
<1>1. NoCall \in Calls
  BY DEF NoCall, Calls
<1>2. /\ NoCall.pc = "idle" /\ NoCall.keeps = << >> /\ NoCall.start = 0 /\ NoCall.futs = << >>
      /\ NoCall.joined = 0 /\ NoCall.failed = << >> /\ NoCall.err = FALSE
  BY DEF NoCall
<1>3. IsInjective(NoCall.keeps)
  BY <1>2 DEF IsInjective
<1>4. QED
  BY <1>1, <1>2, <1>3, CallBegins

(* A step of publishDurable. *)
LEMMA BusClientStep ==
    ASSUME BusInv, NEW c \in Collectors, ClientStep(c)
    PROVE  BusInv'
<1> DEFINE p == pub[c]
<1>0. /\ p \in Calls /\ CallOK(p, ctx[c], ToSet(stream)) /\ ctx[c] \in BOOLEAN
      /\ pub \in [Collectors -> Calls]
  BY DEF BusInv, BusTypeOK
<1>1. /\ p.keeps \in Seq(Traces) /\ p.failed \in Seq(Traces) /\ p.futs \in Seq(Futures)
      /\ p.start \in Nat /\ p.joined \in Nat /\ Len(p.keeps) \in Nat /\ Len(p.futs) \in Nat
      /\ DOMAIN p.futs = 1 .. Len(p.futs)
  BY <1>0 DEF Calls
<1>2. UNCHANGED <<ctx, acks, stream, cursor>>
  BY DEF ClientStep, SendNext, JoinBegin, JoinNext, JoinEnd, subVars
<1>3. ctx' \in [Collectors -> BOOLEAN] /\ ctx'[c] = ctx[c]
      /\ \A d \in Collectors \ {c} : ctx'[d] = ctx[d]
  BY <1>2 DEF BusInv, BusTypeOK
<1>4. late \in [Collectors -> SUBSET Traces] /\ wire \subseteq Collectors \X Traces
  BY DEF BusInv, BusTypeOK
<1>5. CASE SendNext(c)
  <2> DEFINE t == p.keeps[Sent(p) + 1]
  <2>1. p.pc = "send" /\ Sent(p) < ChunkEnd(p) /\ UNCHANGED late
    BY <1>5 DEF SendNext
  <2>2. t \in Traces
    <3>1. Sent(p) + 1 \in 1 .. Len(p.keeps)
      BY <1>0, <1>1, <2>1, SentIs, ChunkEndIs
    <3>2. QED
      BY <1>1, <3>1, ElementOfSeq
  <2>3. CASE /\ pub' = [pub EXCEPT ![c].futs = Append(@, "sent")]
             /\ wire' = wire \union {<<c, t>>}
    <3> DEFINE q == [p EXCEPT !.futs = Append(@, "sent")]
    <3>1. Append(p.futs, "sent") \in Seq(Futures)
      BY <1>1 DEF Futures
    <3>2. q \in Calls
      BY <1>0, <3>1 DEF Calls
    <3>3. CallOK(q, ctx[c], ToSet(stream))
      BY <1>0, <2>1, <3>2, CallSends
    <3>4. pub' = [pub EXCEPT ![c] = q]
      BY <2>3
    <3>5. wire' \subseteq Collectors \X Traces
      BY <1>4, <2>2, <2>3
    <3> HIDE DEF q
    <3>6. QED
      BY <1>2, <1>3, <1>4, <2>1, <3>2, <3>3, <3>4, <3>5, OneCall
  <2>4. CASE /\ pub' = [pub EXCEPT ![c].futs = Append(@, "none"),
                                   ![c].failed = Append(@, t), ![c].err = TRUE]
             /\ wire' = wire
    <3> DEFINE q == [p EXCEPT !.futs = Append(@, "none"), !.failed = Append(@, t), !.err = TRUE]
    <3>1. Append(p.futs, "none") \in Seq(Futures) /\ Append(p.failed, t) \in Seq(Traces)
      BY <1>1, <2>2 DEF Futures
    <3>2. q \in Calls
      BY <1>0, <3>1 DEF Calls
    <3>3. CallOK(q, ctx[c], ToSet(stream))
      BY <1>0, <2>1, <3>2, CallRefused
    <3>4. pub' = [pub EXCEPT ![c] = q]
      BY <1>0, <2>4
    <3> HIDE DEF q
    <3>5. QED
      BY <1>2, <1>3, <1>4, <2>1, <2>4, <3>2, <3>3, <3>4, OneCall
  <2>5. QED
    BY <1>5, <2>3, <2>4 DEF SendNext
<1>6. CASE JoinBegin(c)
  <2> DEFINE q == [p EXCEPT !.pc = "join"]
  <2>1. q \in Calls
    BY <1>0 DEF Calls
  <2>2. ctx[c] \/ (Sent(p) = ChunkEnd(p) /\ \A i \in DOMAIN p.futs : p.futs[i] # "sent")
    BY <1>6 DEF JoinBegin, Complete, Open
  <2>3. p.pc = "send" /\ UNCHANGED <<late, wire>>
    BY <1>6 DEF JoinBegin
  <2>4. CallOK(q, ctx[c], ToSet(stream))
    BY <1>0, <2>1, <2>2, <2>3, CallJoins
  <2>5. pub' = [pub EXCEPT ![c] = q]
    BY <1>6 DEF JoinBegin
  <2> HIDE DEF q
  <2>6. QED
    BY <1>2, <1>3, <1>4, <2>1, <2>3, <2>4, <2>5, OneCall
<1>7. CASE JoinNext(c)
  <2> DEFINE f == p.futs[p.joined + 1]
  <2> DEFINE t == p.keeps[p.start + p.joined + 1]
  <2>1. p.pc = "join" /\ p.joined < Len(p.futs) /\ UNCHANGED <<late, wire>>
    BY <1>7 DEF JoinNext
  <2>2. CASE f \in {"none", "ok"} /\ pub' = [pub EXCEPT ![c].joined = @ + 1]
    <3> DEFINE q == [p EXCEPT !.joined = @ + 1]
    <3>1. q \in Calls
      <4>1. p.joined + 1 \in Nat
        BY <1>1
      <4>2. QED
        BY <1>0, <4>1 DEF Calls
    <3>2. CallOK(q, ctx[c], ToSet(stream))
      BY <1>0, <2>1, <2>2, <3>1, CallReads
    <3>3. pub' = [pub EXCEPT ![c] = q]
      BY <2>2
    <3> HIDE DEF q
    <3>4. QED
      BY <1>2, <1>3, <1>4, <2>1, <3>1, <3>2, <3>3, OneCall
  <2>3. CASE /\ f \in {"err", "sent"}
             /\ pub' = [pub EXCEPT ![c].joined = @ + 1, ![c].failed = Append(@, t),
                                   ![c].err = @ \/ f = "err" \/ ctx[c]]
    <3> DEFINE q == [p EXCEPT !.joined = @ + 1, !.failed = Append(@, t),
                              !.err = @ \/ f = "err" \/ ctx[c]]
    <3>1. t \in Traces
      <4>1. Running(p) /\ Sent(p) <= ChunkEnd(p)
        BY <1>0, <2>1 DEF Running, CallOK, CallShape
      <4>2. p.start + p.joined + 1 \in 1 .. Len(p.keeps)
        BY <1>0, <1>1, <2>1, <4>1, SentIs, ChunkEndIs
      <4>3. QED
        BY <1>1, <4>2, ElementOfSeq
    <3>2. q \in Calls
      <4>1. (p.err \/ f = "err" \/ ctx[c]) \in BOOLEAN
        OBVIOUS
      <4>2. Append(p.failed, t) \in Seq(Traces) /\ p.joined + 1 \in Nat
        BY <1>1, <3>1
      <4>3. QED
        BY <1>0, <4>1, <4>2 DEF Calls
    <3>3. CallOK(q, ctx[c], ToSet(stream))
      BY <1>0, <2>1, <2>3, <3>2, CallReports
    <3>4. pub' = [pub EXCEPT ![c] = q]
      BY <1>0, <2>3
    <3> HIDE DEF q
    <3>5. QED
      BY <1>2, <1>3, <1>4, <2>1, <3>2, <3>3, <3>4, OneCall
  <2>4. QED
    BY <1>7, <2>2, <2>3 DEF JoinNext
<1>8. CASE JoinEnd(c)
  <2>1. p.pc = "join" /\ p.joined = Len(p.futs) /\ UNCHANGED wire
    BY <1>8 DEF JoinEnd
  <2>2. Running(p) /\ Sent(p) <= ChunkEnd(p)
    BY <1>0, <2>1 DEF Running, CallOK, CallShape
  <2>3. late' \in [Collectors -> SUBSET Traces]
    <3>1. ASSUME NEW i \in Open(c)
          PROVE  p.keeps[p.start + i] \in Traces
      <4>1. i \in 1 .. Len(p.futs)
        BY <1>1, <3>1 DEF Open
      <4>2. p.start + i \in 1 .. Len(p.keeps)
        BY <1>0, <1>1, <2>2, <4>1, SentIs, ChunkEndIs
      <4>3. QED
        BY <1>1, <4>2, ElementOfSeq
    <3>2. {p.keeps[p.start + i] : i \in Open(c)} \subseteq Traces
      BY <3>1
    <3>3. late' = [late EXCEPT ![c] = @ \union {p.keeps[p.start + i] : i \in Open(c)}]
      BY <1>8 DEF JoinEnd
    <3>4. QED
      BY <1>4, <3>2, <3>3
  <2>4. << >> \in Seq(Futures)
    BY EmptySeq
  <2> DEFINE qa == [p EXCEPT !.pc = "returned", !.futs = << >>, !.joined = 0,
                             !.failed = p.failed \o Unattempted(p),
                             !.err = @ \/ p.failed \o Unattempted(p) # << >>]
  <2> DEFINE qb == [p EXCEPT !.pc = IF ChunkEnd(p) = Len(p.keeps) THEN "returned" ELSE "send",
                             !.start = ChunkEnd(p), !.futs = << >>, !.joined = 0]
  <2>5. pub' = [pub EXCEPT ![c] = IF ctx[c] THEN qa ELSE qb]
    BY <1>8, Zenon DEF JoinEnd
  <2>6. (ctx[c] => pub' = [pub EXCEPT ![c] = qa]) /\ (~ctx[c] => pub' = [pub EXCEPT ![c] = qb])
    <3> HIDE DEF qa, qb
    <3>1. QED
      BY <2>5
  <2>7. CASE ctx[c]
    <3> DEFINE q == qa
    <3>1. Sent(p) <= Len(p.keeps)
      BY <1>0, <1>1, <2>2, SentIs, ChunkEndIs
    <3>2. p.failed \o Unattempted(p) \in Seq(Traces)
      BY <1>0, <1>1, <3>1, UnattemptedIs, ConcatProperties
    <3>3. (p.err \/ p.failed \o Unattempted(p) # << >>) \in BOOLEAN
      OBVIOUS
    <3>4. q \in Calls
      BY <1>0, <2>4, <3>2, <3>3 DEF Calls
    <3>5. /\ q.pc = "returned" /\ q.futs = << >> /\ q.joined = 0 /\ q.keeps = p.keeps
          /\ q.failed = p.failed \o Unattempted(p) /\ q.err = (p.err \/ q.failed # << >>)
      BY <1>0 DEF Calls
    <3>6. pub' = [pub EXCEPT ![c] = q]
      BY <2>7, <2>6
    <3> HIDE DEF q
    <3>7. CallOK(q, ctx[c], ToSet(stream))
      BY <1>0, <2>1, <3>4, <3>5, CallAbandons
    <3>8. QED
      BY <1>2, <1>3, <1>4, <2>1, <2>3, <3>4, <3>6, <3>7, OneCall
  <2>8. CASE ~ctx[c]
    <3> DEFINE q == qb
    <3>1. ChunkEnd(p) \in Nat
      BY <1>0, ChunkEndIs
    <3>2. q \in Calls
      BY <1>0, <2>4, <3>1 DEF Calls
    <3>3. /\ q.pc = (IF ChunkEnd(p) = Len(p.keeps) THEN "returned" ELSE "send")
          /\ q.start = ChunkEnd(p) /\ q.futs = << >> /\ q.joined = 0 /\ q.keeps = p.keeps
          /\ q.failed = p.failed /\ q.err = p.err
      BY <1>0 DEF Calls
    <3>4. pub' = [pub EXCEPT ![c] = q]
      BY <2>8, <2>6
    <3> HIDE DEF q
    <3>5. CallOK(q, ctx[c], ToSet(stream))
      BY <1>0, <2>1, <2>8, <3>2, <3>3, CallProceeds
    <3>6. QED
      BY <1>2, <1>3, <1>4, <2>1, <2>3, <3>2, <3>4, <3>5, OneCall
  <2>9. QED
    BY <2>7, <2>8
<1>9. QED
  BY <1>5, <1>6, <1>7, <1>8 DEF ClientStep

(* The context ends. *)
LEMMA BusCtxDone ==
    ASSUME BusInv, NEW c \in Collectors, CtxDone(c)
    PROVE  BusInv'
<1>1. ctx' = [ctx EXCEPT ![c] = TRUE] /\ UNCHANGED <<pub, late, wire, acks, stream, cursor>>
  BY DEF CtxDone, subVars
<1>2. pub[c] \in Calls /\ CallOK(pub[c], ctx[c], ToSet(stream))
  BY DEF BusInv, BusTypeOK
<1>3. CallOK(pub[c], TRUE, ToSet(stream))
  BY <1>2, CallMonotone
<1>4. ctx' \in [Collectors -> BOOLEAN] /\ ctx'[c] = TRUE /\ \A d \in Collectors \ {c} : ctx'[d] = ctx[d]
  BY <1>1 DEF BusInv, BusTypeOK
<1>5. pub' = [pub EXCEPT ![c] = pub[c]]
  BY <1>1 DEF BusInv, BusTypeOK
<1>6. QED
  BY <1>1, <1>2, <1>3, <1>4, <1>5, OneCall DEF BusInv, BusTypeOK

(* A message lands: the stream grows by it, and its ack sets out. *)
LEMMA BusLand ==
    ASSUME BusInv, NEW c \in Collectors, NEW t \in Traces, Land(c, t)
    PROVE  BusInv' /\ ToSet(stream) \subseteq ToSet(stream') /\ Len(stream') = Len(stream) + 1
           /\ \A i \in 1 .. Len(stream) : stream'[i] = stream[i]
<1>1. /\ wire' = wire \ {<<c, t>>} /\ acks' = acks \union {<<c, t>>} /\ stream' = Append(stream, t)
      /\ UNCHANGED <<pub, ctx, late, cursor>>
  BY DEF Land, subVars
<1>2. stream \in Seq(Traces)
  BY DEF BusInv, BusTypeOK
<1>3. stream' \in Seq(Traces) /\ ToSet(stream') = ToSet(stream) \union {t} /\ Len(stream') = Len(stream) + 1
      /\ \A i \in 1 .. Len(stream) : stream'[i] = stream[i]
  BY <1>1, <1>2, AppendToSet, AppendProperties
<1>4. BusTypeOK'
  BY <1>1, <1>3 DEF BusInv, BusTypeOK
<1>5. (\A a \in acks : a[2] \in ToSet(stream))'
  BY <1>1, <1>3 DEF BusInv
<1>6. (\A d \in Collectors : cursor[d] <= Len(stream))'
  <2>1. Len(stream) \in Nat /\ cursor \in [Collectors -> Nat] /\ \A d \in Collectors : cursor[d] <= Len(stream)
    BY <1>2 DEF BusInv, BusTypeOK
  <2>2. QED
    BY <1>1, <1>3, <2>1
<1>7. ASSUME NEW d \in Collectors
      PROVE  CallOK(pub[d], ctx[d], ToSet(stream))'
  <2>1. pub[d] \in Calls /\ CallOK(pub[d], ctx[d], ToSet(stream))
    BY DEF BusInv, BusTypeOK
  <2>2. CallOK(pub[d], ctx[d], ToSet(stream'))
    BY <1>3, <2>1, CallMonotone
  <2>3. QED
    BY <1>1, <2>2
<1>8. QED
  BY <1>3, <1>4, <1>5, <1>6, <1>7 DEF BusInv

(* A future resolves: "ok" only for a keep that is in the stream. *)
LEMMA BusResolve ==
    ASSUME BusInv, NEW c \in Collectors, NEW t \in Traces, NEW how \in {"ok", "err"},
           how = "ok" => t \in ToSet(stream), Resolve(c, t, how),
           wire' \subseteq wire, acks' \subseteq acks, UNCHANGED <<ctx, stream, cursor>>
    PROVE  BusInv'
<1> DEFINE p == pub[c]
<1> DEFINE g == [i \in DOMAIN p.futs |->
                   IF p.futs[i] = "sent" /\ p.keeps[p.start + i] = t THEN how ELSE p.futs[i]]
<1> DEFINE q == [p EXCEPT !.futs = g]
<1>1. /\ p \in Calls /\ CallOK(p, ctx[c], ToSet(stream)) /\ pub \in [Collectors -> Calls]
      /\ late \in [Collectors -> SUBSET Traces] /\ wire \subseteq Collectors \X Traces
      /\ acks \subseteq Collectors \X Traces
  BY DEF BusInv, BusTypeOK
<1>2. p.futs \in Seq(Futures) /\ DOMAIN p.futs = 1 .. Len(p.futs) /\ Len(p.futs) \in Nat
  BY <1>1 DEF Calls
<1>3. g \in Seq(Futures) /\ Len(g) = Len(p.futs)
  <2>1. ASSUME NEW i \in 1 .. Len(p.futs)
        PROVE  p.futs[i] \in Futures
    BY <1>2
  <2>2. g \in [1 .. Len(p.futs) -> Futures]
    BY <1>2, <2>1 DEF Futures
  <2>3. QED
    BY <1>2, <2>2
<1>4. q \in Calls
  <2> HIDE DEF g
  <2>1. QED
    BY <1>1, <1>3 DEF Calls
<1>5. \A i \in 1 .. Len(p.futs) :
        \/ g[i] = p.futs[i]
        \/ p.futs[i] = "sent" /\ g[i] = "err"
        \/ p.futs[i] = "sent" /\ g[i] = "ok" /\ p.keeps[p.start + i] \in ToSet(stream)
  BY <1>2
<1>6. CallOK(q, ctx[c], ToSet(stream))
  <2> HIDE DEF g
  <2>1. QED
    BY <1>1, <1>3, <1>4, <1>5, CallResolves
<1>7. pub' = [pub EXCEPT ![c] = q] /\ late' = [late EXCEPT ![c] = @ \ {t}]
  BY DEF Resolve
<1> HIDE DEF g, q
<1>8. pub' \in [Collectors -> Calls] /\ pub'[c] = q /\ \A d \in Collectors \ {c} : pub'[d] = pub[d]
  BY <1>1, <1>4, <1>7
<1>9. late' \in [Collectors -> SUBSET Traces]
  BY <1>1, <1>7
<1>10. BusTypeOK'
  BY <1>1, <1>8, <1>9 DEF BusInv, BusTypeOK
<1>11. \A d \in Collectors : CallOK(pub[d], ctx[d], ToSet(stream))'
  <2>1. ASSUME NEW d \in Collectors
        PROVE  CallOK(pub'[d], ctx[d], ToSet(stream))
    <3>1. CallOK(pub[d], ctx[d], ToSet(stream))
      BY DEF BusInv
    <3>2. QED
      BY <1>6, <1>8, <3>1
  <2>2. QED
    BY <2>1
<1>12. QED
  BY <1>10, <1>11 DEF BusInv

(* A reconnect fails every open future, on every collector. *)
LEMMA BusServerBack ==
    ASSUME BusInv, ServerBack
    PROVE  BusInv'
<1> DEFINE g(c) == [i \in DOMAIN pub[c].futs |-> IF pub[c].futs[i] = "sent" THEN "err" ELSE pub[c].futs[i]]
<1> DEFINE q(c) == [pub[c] EXCEPT !.futs = g(c)]
<1>1. /\ pub' = [c \in Collectors |-> q(c)] /\ late' = [c \in Collectors |-> {}]
      /\ UNCHANGED <<ctx, wire, acks, stream, cursor>>
  BY DEF ServerBack, subVars
<1>2. ASSUME NEW c \in Collectors
      PROVE  q(c) \in Calls /\ CallOK(q(c), ctx[c], ToSet(stream))
  <2>1. pub[c] \in Calls /\ CallOK(pub[c], ctx[c], ToSet(stream))
    BY DEF BusInv, BusTypeOK
  <2>2. /\ pub[c].futs \in Seq(Futures) /\ DOMAIN pub[c].futs = 1 .. Len(pub[c].futs)
        /\ Len(pub[c].futs) \in Nat
    BY <2>1 DEF Calls
  <2>3. \A i \in 1 .. Len(pub[c].futs) : pub[c].futs[i] \in Futures
    BY <2>2
  <2>4. g(c) \in [1 .. Len(pub[c].futs) -> Futures]
    BY <2>2, <2>3 DEF Futures
  <2>5. g(c) \in Seq(Futures) /\ Len(g(c)) = Len(pub[c].futs)
    BY <2>2, <2>4
  <2>6. \A i \in 1 .. Len(pub[c].futs) : g(c)[i] = pub[c].futs[i] \/ (pub[c].futs[i] = "sent" /\ g(c)[i] = "err")
    <3>1. ASSUME NEW i \in 1 .. Len(pub[c].futs)
          PROVE  g(c)[i] = IF pub[c].futs[i] = "sent" THEN "err" ELSE pub[c].futs[i]
      BY <2>2
    <3>2. QED
      BY <3>1
  <2> HIDE DEF g
  <2>7. q(c) \in Calls
    BY <2>1, <2>5 DEF Calls
  <2>8. QED
    BY <2>1, <2>5, <2>6, <2>7, CallResolves
<1> HIDE DEF q
<1>3. pub' \in [Collectors -> Calls] /\ late' \in [Collectors -> SUBSET Traces]
  BY <1>1, <1>2
<1>4. BusTypeOK'
  BY <1>1, <1>3 DEF BusInv, BusTypeOK
<1>5. \A c \in Collectors : CallOK(pub[c], ctx[c], ToSet(stream))'
  <2>1. ASSUME NEW c \in Collectors
        PROVE  CallOK(pub'[c], ctx[c], ToSet(stream))
    <3>1. pub'[c] = q(c) /\ CallOK(q(c), ctx[c], ToSet(stream))
      BY <1>1, <1>2
    <3>2. QED
      BY <3>1
  <2>2. QED
    BY <1>1, <2>1
<1>6. QED
  BY <1>1, <1>4, <1>5 DEF BusInv

(* What the stream held it still holds, at the same place. *)
StreamKept ==
    ToSet(stream) \subseteq ToSet(stream') /\ \A i \in 1 .. Len(stream) : stream'[i] = stream[i]

(* A step of the server or of the connection. *)
LEMMA BusServerStep ==
    ASSUME BusInv, ServerStep
    PROVE  BusInv' /\ StreamKept /\ UNCHANGED cursor
<1>1. UNCHANGED cursor
  BY DEF ServerStep, Land, Ack, Refuse, ServerBack, ServerGone, subVars
<1>2. ASSUME NEW c \in Collectors, NEW t \in Traces, Land(c, t)
      PROVE  BusInv' /\ StreamKept
  BY <1>2, BusLand DEF StreamKept
<1>3. ASSUME NEW c \in Collectors, NEW t \in Traces, Ack(c, t)
      PROVE  BusInv' /\ StreamKept
  <2>1. /\ <<c, t>> \in acks /\ acks' \subseteq acks /\ wire' = wire /\ Resolve(c, t, "ok")
        /\ UNCHANGED <<ctx, stream, cursor>>
    BY <1>3 DEF Ack, subVars
  <2>2. t \in ToSet(stream)
    BY <2>1 DEF BusInv
  <2>3. QED
    BY <2>1, <2>2, BusResolve DEF StreamKept
<1>4. ASSUME NEW c \in Collectors, NEW t \in Traces, Refuse(c, t)
      PROVE  BusInv' /\ StreamKept
  <2>1. /\ wire' \subseteq wire /\ acks' = acks /\ Resolve(c, t, "err") /\ UNCHANGED <<ctx, stream, cursor>>
    BY <1>4 DEF Refuse, subVars
  <2>2. QED
    BY <2>1, BusResolve DEF StreamKept
<1>5. CASE ServerBack
  <2>1. UNCHANGED stream
    BY <1>5 DEF ServerBack
  <2>2. QED
    <3>1. BusInv'
      BY <1>5, BusServerBack
    <3>2. QED
      BY <1>1, <2>1, <3>1 DEF StreamKept
<1>6. CASE ServerGone
  <2>1. wire' \subseteq wire /\ acks' = {} /\ UNCHANGED <<pub, ctx, late, stream, cursor>>
    <3>1. PICK lost \in SUBSET wire : wire' = wire \ lost
      BY <1>6 DEF ServerGone
    <3>2. QED
      BY <1>6, <3>1 DEF ServerGone, subVars
  <2>2. BusTypeOK'
    BY <2>1 DEF BusInv, BusTypeOK
  <2>3. QED
    BY <2>1, <2>2 DEF BusInv, StreamKept
<1>7. QED
  BY <1>1, <1>2, <1>3, <1>4, <1>5, <1>6 DEF ServerStep

(* A step that leaves the calls, the stream and the acks alone moves at    *)
(* most a cursor.                                                          *)
LEMMA BusCursor ==
    ASSUME BusInv, NEW c \in Collectors, NEW n \in Nat, n <= Len(stream),
           cursor' = [cursor EXCEPT ![c] = n], UNCHANGED <<pubVars, stream>>
    PROVE  BusInv'
<1>1. /\ UNCHANGED <<pub, ctx, late, wire, acks, stream>> /\ cursor' \in [Collectors -> Nat]
      /\ \A d \in Collectors : cursor'[d] = IF d = c THEN n ELSE cursor[d]
  BY DEF pubVars, BusInv, BusTypeOK
<1>2. BusTypeOK'
  BY <1>1 DEF BusInv, BusTypeOK
<1>3. \A d \in Collectors : cursor'[d] <= Len(stream)
  BY <1>1 DEF BusInv
<1>4. QED
  BY <1>1, <1>2, <1>3 DEF BusInv

(* A collector's process is gone. *)
LEMMA BusClientGone ==
    ASSUME BusInv, NEW c \in Collectors, ClientGone(c)
    PROVE  BusInv' /\ UNCHANGED stream /\ cursor'[c] = 0 /\ \A d \in Collectors \ {c} : cursor'[d] = cursor[d]
<1>1. /\ pub' = [pub EXCEPT ![c] = NoCall] /\ ctx' = [ctx EXCEPT ![c] = FALSE]
      /\ late' = [late EXCEPT ![c] = {}] /\ cursor' = [cursor EXCEPT ![c] = 0]
      /\ acks' \subseteq acks /\ UNCHANGED <<wire, stream>>
  BY DEF ClientGone
<1>2. NoCall \in Calls /\ CallOK(NoCall, FALSE, ToSet(stream))
  BY NoCallOK
<1>3. BusTypeOK'
  BY <1>1, <1>2 DEF BusInv, BusTypeOK
<1>4. \A d \in Collectors : cursor'[d] = IF d = c THEN 0 ELSE cursor[d]
  BY <1>1 DEF BusInv, BusTypeOK
<1>5. \A d \in Collectors : cursor'[d] <= Len(stream')
  <2>1. stream \in Seq(Traces) /\ Len(stream) \in Nat
    BY DEF BusInv, BusTypeOK
  <2>2. QED
    BY <1>1, <1>4, <2>1 DEF BusInv
<1>6. ASSUME NEW d \in Collectors
      PROVE  CallOK(pub[d], ctx[d], ToSet(stream))'
  <2>1. pub'[d] = (IF d = c THEN NoCall ELSE pub[d]) /\ ctx'[d] = (IF d = c THEN FALSE ELSE ctx[d])
    BY <1>1 DEF BusInv, BusTypeOK
  <2>2. CallOK(pub[d], ctx[d], ToSet(stream))
    BY DEF BusInv
  <2>3. QED
    BY <1>1, <1>2, <2>1, <2>2
<1>7. QED
  BY <1>1, <1>3, <1>4, <1>5, <1>6 DEF BusInv

-----------------------------------------------------------------------------
(***************************************************************************)
(* The fleet.                                                              *)
(***************************************************************************)

(* processBatch hands Publish some of the owed keeps, each once. *)
LEMMA FleetPublishOwed ==
    ASSUME FleetInv, NEW c \in Collectors, PublishOwed(c)
    PROVE  BusInv' /\ UNCHANGED <<stream, cursor, fleetVars>>
<1>1. PICK batch \in SUBSET owed[c] \ {{}} : \E keeps \in SetToSeqs(batch) : PublishBegin(c, keeps)
  BY DEF PublishOwed
<1>2. PICK keeps \in SetToSeqs(batch) : PublishBegin(c, keeps)
  BY <1>1
<1>3. IsFiniteSet(owed[c]) /\ owed[c] \subseteq Traces
  BY DEF FleetInv, FleetTypeOK
<1>4. Cardinality(batch) \in Nat
  BY <1>1, <1>3, FS_Subset, FS_CardinalityType
<1>5. /\ keeps \in [1 .. Cardinality(batch) -> batch]
      /\ \A i, j \in 1 .. Cardinality(batch) : i # j => keeps[i] # keeps[j]
  BY <1>2 DEF SetToSeqs
<1>6. keeps \in Seq(Traces)
  <2>1. keeps \in [1 .. Cardinality(batch) -> Traces]
    BY <1>1, <1>3, <1>5
  <2>2. QED
    BY <1>4, <2>1
<1>7. IsInjective(keeps)
  BY <1>5 DEF IsInjective
<1>8. BusInv'
  BY <1>2, <1>6, <1>7, BusPublishBegin DEF FleetInv
<1>9. UNCHANGED <<stream, cursor>>
  BY <1>2 DEF PublishBegin, subVars
<1>10. UNCHANGED fleetVars
  BY DEF PublishOwed
<1>11. QED
  BY <1>8, <1>9, <1>10

(* The collectors' state, after a step that leaves it alone. *)
LEMMA FleetBusStep ==
    ASSUME FleetInv, BusInv', StreamKept, UNCHANGED fleetVars,
           \A c \in Collectors : cursor'[c] = cursor[c] \/ cursor'[c] = 0
    PROVE  FleetInv'
<1>1. UNCHANGED <<disk, decided, owed, detected, forgotten, missed>>
  BY DEF fleetVars
<1>2. FleetTypeOK'
  BY <1>1 DEF FleetInv, FleetTypeOK
<1>3. KeepSurvives'
  BY <1>1 DEF FleetInv, KeepSurvives, StreamKept
<1>4. Delivered'
  <2>1. ASSUME NEW c \in Collectors, NEW i \in 1 .. cursor'[c]
        PROVE  stream'[i] \in decided[c] \union missed[c]
    <3>1. cursor[c] <= Len(stream) /\ Len(stream) \in Nat /\ cursor[c] \in Nat
      BY DEF FleetInv, BusInv, BusTypeOK
    <3>2. i \in 1 .. cursor[c] /\ i \in 1 .. Len(stream)
      BY <2>1, <3>1
    <3>3. QED
      BY <3>2 DEF FleetInv, Delivered, StreamKept
  <2>2. QED
    BY <1>1, <2>1 DEF Delivered
<1>5. QED
  BY <1>2, <1>3, <1>4 DEF FleetInv

(* A fragment comes in, with a verdict or without one. *)
LEMMA FleetIngest ==
    ASSUME FleetInv, NEW c \in Collectors, NEW t \in Traces, NEW verdict \in BOOLEAN, Ingest(c, t, verdict)
    PROVE  FleetInv'
<1>1. UNCHANGED <<pub, ctx, late, wire, acks, stream, cursor, flushed, forgotten, missed>>
      /\ disk' = [disk EXCEPT ![c] = @ \union {t}]
  BY DEF Ingest, busVars, pubVars, subVars
<1>2. BusInv'
  BY <1>1 DEF FleetInv, BusInv, BusTypeOK
<1>3. disk' \in [Collectors -> SUBSET Traces]
  BY <1>1 DEF FleetInv, FleetTypeOK
<1>4. CASE UNCHANGED <<decided, owed, detected>>
  <2>1. FleetTypeOK' /\ Delivered' /\ KeepSurvives'
    BY <1>1, <1>3, <1>4 DEF FleetInv, FleetTypeOK, Delivered, KeepSurvives
  <2>2. QED
    BY <1>2, <2>1 DEF FleetInv
<1>5. CASE /\ decided' = [decided EXCEPT ![c] = @ \union {t}]
           /\ owed' = [owed EXCEPT ![c] = @ \union {t}]
           /\ detected' = [detected EXCEPT ![c] = @ \union {t}]
  <2>1. /\ decided \in [Collectors -> SUBSET Traces] /\ owed \in [Collectors -> SUBSET Traces]
        /\ detected \in [Collectors -> SUBSET Traces] /\ \A d \in Collectors : IsFiniteSet(owed[d])
    BY DEF FleetInv, FleetTypeOK
  <2>2. \A d \in Collectors :
          /\ decided'[d] = IF d = c THEN decided[d] \union {t} ELSE decided[d]
          /\ owed'[d] = IF d = c THEN owed[d] \union {t} ELSE owed[d]
          /\ detected'[d] = IF d = c THEN detected[d] \union {t} ELSE detected[d]
    BY <1>5, <2>1
  <2>3. \A d \in Collectors : IsFiniteSet(owed'[d])
    <3>1. \A d \in Collectors : IsFiniteSet(owed[d] \union {t})
      BY <2>1, FS_AddElement
    <3>2. QED
      BY <2>1, <2>2, <3>1
  <2>4. /\ decided' \in [Collectors -> SUBSET Traces] /\ owed' \in [Collectors -> SUBSET Traces]
        /\ detected' \in [Collectors -> SUBSET Traces]
    BY <1>5, <2>1
  <2>5. FleetTypeOK'
    BY <1>1, <1>3, <2>3, <2>4 DEF FleetInv, FleetTypeOK
  <2>6. Delivered'
    BY <1>1, <2>2 DEF FleetInv, Delivered
  <2>7. KeepSurvives'
    BY <1>1, <2>2 DEF FleetInv, KeepSurvives
  <2>8. QED
    BY <1>2, <2>5, <2>6, <2>7 DEF FleetInv
<1>6. QED
  BY <1>4, <1>5 DEF Ingest

(* The call is over: what it did not report failed is no longer owed, and  *)
(* is in the stream.                                                       *)
LEMMA FleetPublishSettled ==
    ASSUME FleetInv, NEW c \in Collectors, PublishSettled(c)
    PROVE  FleetInv'
<1>1. /\ pub[c].pc = "returned" /\ owed' = [owed EXCEPT ![c] = @ \ Settled(pub[c])]
      /\ pub' = [pub EXCEPT ![c] = NoCall]
      /\ UNCHANGED <<ctx, late, wire, acks, stream, cursor, disk, decided, detected, forgotten, missed>>
  BY DEF PublishSettled, subVars
<1>2. BusInv
  BY DEF FleetInv
<1>3. BusInv'
  <2>1. ctx \in [Collectors -> BOOLEAN] /\ late \in [Collectors -> SUBSET Traces] /\ wire \subseteq Collectors \X Traces
    BY <1>2 DEF BusInv, BusTypeOK
  <2>2. NoCall \in Calls /\ CallOK(NoCall, ctx'[c], ToSet(stream))
    BY NoCallOK
  <2>3. QED
    BY <1>1, <1>2, <2>1, <2>2, OneCall
<1>4. Settled(pub[c]) \subseteq ToSet(stream)
  <2>1. CallDone(pub[c], ToSet(stream))
    BY <1>2 DEF BusInv, CallOK
  <2>2. QED
    BY <1>1, <2>1 DEF CallDone, Settled
<1>5. owed \in [Collectors -> SUBSET Traces] /\ \A d \in Collectors : IsFiniteSet(owed[d])
  BY DEF FleetInv, FleetTypeOK
<1>6. \A d \in Collectors : owed'[d] = IF d = c THEN owed[d] \ Settled(pub[c]) ELSE owed[d]
  BY <1>1, <1>5
<1>7. FleetTypeOK'
  <2>1. owed' \in [Collectors -> SUBSET Traces]
    BY <1>1, <1>5
  <2>2. \A d \in Collectors : owed'[d] \subseteq owed[d]
    BY <1>6
  <2>3. \A d \in Collectors : IsFiniteSet(owed'[d])
    BY <1>5, <2>2, FS_Subset
  <2>4. QED
    BY <1>1, <2>1, <2>3 DEF FleetInv, FleetTypeOK
<1>8. Delivered'
  BY <1>1 DEF FleetInv, Delivered
<1>9. KeepSurvives'
  BY <1>1, <1>4, <1>6 DEF FleetInv, KeepSurvives
<1>10. QED
  BY <1>3, <1>7, <1>8, <1>9 DEF FleetInv

(* The stream's next entry is decided, or missed by a collector that has   *)
(* not stored its set.                                                     *)
LEMMA FleetReceive ==
    ASSUME FleetInv, NEW c \in Collectors, NEW t \in Traces, Receive(c, t)
    PROVE  FleetInv'
<1>1. /\ cursor[c] < Len(stream) /\ t = stream[cursor[c] + 1] /\ cursor' = [cursor EXCEPT ![c] = @ + 1]
      /\ UNCHANGED <<pubVars, stream, disk, owed, detected, forgotten>>
  BY DEF Receive, Deliver
<1>2. BusInv /\ cursor \in [Collectors -> Nat] /\ Len(stream) \in Nat
  BY DEF FleetInv, BusInv, BusTypeOK
<1>3. BusInv'
  <2>1. cursor[c] + 1 \in Nat /\ cursor[c] + 1 <= Len(stream)
    BY <1>1, <1>2
  <2>2. QED
    BY <1>1, <1>2, <2>1, BusCursor
<1>4. decided \in [Collectors -> SUBSET Traces] /\ missed \in [Collectors -> SUBSET Traces]
  BY DEF FleetInv, FleetTypeOK
<1>5. \/ /\ decided' = [decided EXCEPT ![c] = @ \union {t}]
         /\ missed' = [missed EXCEPT ![c] = @ \ {t}]
      \/ /\ decided' = decided
         /\ missed' = [missed EXCEPT ![c] = @ \union {t}]
  BY DEF Receive
<1>6. /\ decided' \in [Collectors -> SUBSET Traces] /\ missed' \in [Collectors -> SUBSET Traces]
      /\ \A d \in Collectors : decided[d] \union missed[d] \subseteq decided'[d] \union missed'[d]
      /\ t \in decided'[c] \union missed'[c]
  BY <1>4, <1>5
<1>7. FleetTypeOK'
  BY <1>1, <1>6 DEF FleetInv, FleetTypeOK
<1>8. KeepSurvives'
  BY <1>1 DEF FleetInv, KeepSurvives
<1>9. Delivered'
  <2>1. ASSUME NEW d \in Collectors, NEW i \in 1 .. cursor'[d]
        PROVE  stream[i] \in decided'[d] \union missed'[d]
    <3>1. i \in 1 .. cursor[d] \/ (d = c /\ i = cursor[c] + 1)
      BY <1>1, <1>2, <2>1
    <3>2. CASE i \in 1 .. cursor[d]
      BY <1>6, <3>2 DEF FleetInv, Delivered
    <3>3. CASE d = c /\ i = cursor[c] + 1
      BY <1>1, <1>6, <3>3
    <3>4. QED
      BY <3>1, <3>2, <3>3
  <2>2. QED
    BY <1>1, <2>1 DEF Delivered
<1>10. QED
  BY <1>3, <1>7, <1>8, <1>9 DEF FleetInv

(* A process dies: what it owed is forgotten, what it consumed it will     *)
(* consume again.                                                          *)
LEMMA FleetCrash ==
    ASSUME FleetInv, NEW c \in Collectors, Crash(c)
    PROVE  FleetInv'
<1>1. /\ ClientGone(c) /\ decided' = [decided EXCEPT ![c] = {}] /\ owed' = [owed EXCEPT ![c] = {}]
      /\ forgotten' = [forgotten EXCEPT ![c] = @ \union owed[c]] /\ missed' = [missed EXCEPT ![c] = {}]
      /\ UNCHANGED <<disk, detected>>
  BY DEF Crash
<1>2. BusInv' /\ UNCHANGED stream /\ cursor'[c] = 0 /\ \A d \in Collectors \ {c} : cursor'[d] = cursor[d]
  BY <1>1, BusClientGone DEF FleetInv
<1>3. FleetTypeOK
  BY DEF FleetInv
<1>4. \A d \in Collectors :
        /\ owed'[d] = IF d = c THEN {} ELSE owed[d]
        /\ forgotten'[d] = IF d = c THEN forgotten[d] \union owed[d] ELSE forgotten[d]
        /\ d # c => decided'[d] = decided[d] /\ missed'[d] = missed[d]
  BY <1>1, <1>3 DEF FleetTypeOK
<1>5. FleetTypeOK'
  <2>1. \A d \in Collectors : IsFiniteSet(owed'[d])
    BY <1>3, <1>4, FS_EmptySet DEF FleetTypeOK
  <2>2. QED
    BY <1>1, <1>3, <2>1 DEF FleetTypeOK
<1>6. KeepSurvives'
  BY <1>1, <1>2, <1>4 DEF FleetInv, KeepSurvives
<1>7. Delivered'
  <2>1. ASSUME NEW d \in Collectors, NEW i \in 1 .. cursor'[d]
        PROVE  stream[i] \in decided'[d] \union missed'[d]
    <3>1. d # c
      BY <1>2, <2>1
    <3>2. QED
      BY <1>2, <1>4, <2>1, <3>1 DEF FleetInv, Delivered
  <2>2. QED
    BY <1>2, <2>1 DEF Delivered
<1>8. QED
  BY <1>2, <1>5, <1>6, <1>7 DEF FleetInv

(* The invariant of the fleet holds at first, and each step keeps it. *)
LEMMA FleetInit == Init => FleetInv
<1> SUFFICES ASSUME Init PROVE FleetInv
  OBVIOUS
<1>1. BusInit
  BY DEF Init
<1>2. stream = << >> /\ stream \in Seq(Traces) /\ Len(stream) = 0 /\ acks = {}
  BY <1>1, EmptySeq DEF BusInit
<1>3. pub = [c \in Collectors |-> NoCall] /\ NoCall \in Calls
  BY <1>1, NoCallOK DEF BusInit
<1>4. BusTypeOK
  BY <1>1, <1>2, <1>3 DEF BusInit, BusTypeOK
<1>5. \A c \in Collectors : CallOK(pub[c], ctx[c], ToSet(stream))
  <2>1. ASSUME NEW c \in Collectors
        PROVE  CallOK(pub[c], ctx[c], ToSet(stream))
    <3>1. pub[c] = NoCall
      BY <1>3
    <3>2. QED
      BY <3>1, NoCallOK
  <2>2. QED
    BY <2>1
<1>6. \A c \in Collectors : cursor[c] = 0
  BY <1>1 DEF BusInit
<1>7. BusInv
  BY <1>2, <1>4, <1>5, <1>6 DEF BusInv
<1>8. FleetTypeOK
  BY FS_EmptySet DEF Init, FleetTypeOK
<1>9. Delivered
  BY <1>6 DEF Delivered
<1>10. KeepSurvives
  BY DEF Init, KeepSurvives
<1>11. QED
  BY <1>7, <1>8, <1>9, <1>10 DEF FleetInv

(* FleetInv is inductive. *)
LEMMA FleetStep == FleetInv /\ [Next]_vars => FleetInv'
<1> SUFFICES ASSUME FleetInv, [Next]_vars PROVE FleetInv'
  OBVIOUS
<1>0. BusInv
  BY DEF FleetInv
<1>1. ASSUME UNCHANGED <<busVars, disk, decided, owed, detected, forgotten, missed>>
      PROVE  FleetInv'
  <2>1. UNCHANGED <<pub, ctx, late, wire, acks, stream, cursor>>
    BY <1>1 DEF busVars, pubVars, subVars
  <2>2. BusInv'
    BY <1>0, <2>1 DEF BusInv, BusTypeOK
  <2>3. FleetTypeOK' /\ Delivered' /\ KeepSurvives'
    BY <1>1, <2>1 DEF FleetInv, FleetTypeOK, Delivered, KeepSurvives
  <2>4. QED
    BY <2>2, <2>3 DEF FleetInv
<1>2. ASSUME NEW c \in Collectors, StartSubscribe(c)
      PROVE  FleetInv'
  <2>1. UNCHANGED <<pub, ctx, late, wire, acks, stream, cursor, disk, decided, owed, detected, forgotten, missed>>
    BY <1>2 DEF StartSubscribe, Subscribe, pubVars
  <2>2. BusInv'
    BY <1>0, <2>1 DEF BusInv, BusTypeOK
  <2>3. FleetTypeOK' /\ Delivered' /\ KeepSurvives'
    BY <2>1 DEF FleetInv, FleetTypeOK, Delivered, KeepSurvives
  <2>4. QED
    BY <2>2, <2>3 DEF FleetInv
<1>3. ASSUME NEW c \in Collectors, StartStore(c)
      PROVE  FleetInv'
  BY <1>1, <1>3 DEF StartStore
<1>4. ASSUME NEW c \in Collectors, NEW t \in Traces, Flush(c, t)
      PROVE  FleetInv'
  BY <1>1, <1>4 DEF Flush
<1>5. ASSUME NEW c \in Collectors, PublishOwed(c)
      PROVE  FleetInv'
  BY <1>5, FleetPublishOwed, FleetBusStep DEF StreamKept
<1>6. ASSUME NEW c \in Collectors, BusStep(ClientStep(c))
      PROVE  FleetInv'
  <2>1. UNCHANGED <<stream, cursor, fleetVars>>
    BY <1>6 DEF BusStep, ClientStep, SendNext, JoinBegin, JoinNext, JoinEnd, subVars
  <2>2. BusInv'
    BY <1>0, <1>6, BusClientStep DEF BusStep
  <2>3. QED
    BY <2>1, <2>2, FleetBusStep DEF StreamKept
<1>7. ASSUME NEW c \in Collectors, BusStep(CtxDone(c))
      PROVE  FleetInv'
  <2>1. UNCHANGED <<stream, cursor, fleetVars>>
    BY <1>7 DEF BusStep, CtxDone, subVars
  <2>2. BusInv'
    BY <1>0, <1>7, BusCtxDone DEF BusStep
  <2>3. QED
    BY <2>1, <2>2, FleetBusStep DEF StreamKept
<1>8. ASSUME NEW c \in Collectors, BusStep(ConsumeOnce(c))
      PROVE  FleetInv'
  <2>1. cursor' = [cursor EXCEPT ![c] = 0] /\ UNCHANGED <<pubVars, stream, fleetVars>>
    BY <1>8 DEF BusStep, ConsumeOnce
  <2>2. cursor \in [Collectors -> Nat] /\ 0 <= Len(stream)
    BY <1>0 DEF BusInv, BusTypeOK
  <2>3. BusInv'
    BY <1>0, <2>1, <2>2, BusCursor
  <2>4. \A d \in Collectors : cursor'[d] = cursor[d] \/ cursor'[d] = 0
    BY <2>1, <2>2
  <2>5. QED
    BY <2>1, <2>3, <2>4, FleetBusStep DEF StreamKept
<1>9. ASSUME NEW c \in Collectors, BusStep(ConsumeEnds(c))
      PROVE  FleetInv'
  <2>1. UNCHANGED <<pub, ctx, late, wire, acks, stream, cursor, fleetVars>>
    BY <1>9 DEF BusStep, ConsumeEnds, pubVars
  <2>2. BusInv'
    BY <1>0, <2>1 DEF BusInv, BusTypeOK
  <2>3. QED
    BY <2>1, <2>2, FleetBusStep DEF StreamKept
<1>10. CASE BusStep(ServerStep)
  <2>1. BusInv' /\ StreamKept /\ UNCHANGED cursor
    BY <1>0, <1>10, BusServerStep DEF BusStep
  <2>2. UNCHANGED fleetVars
    BY <1>10 DEF BusStep
  <2>3. QED
    BY <2>1, <2>2, FleetBusStep
<1>11. CASE UNCHANGED vars
  BY <1>1, <1>11 DEF vars, fleetVars
<1>12. QED
  BY <1>2, <1>3, <1>4, <1>5, <1>6, <1>7, <1>8, <1>9, <1>10, <1>11, FleetIngest, FleetPublishSettled,
     FleetReceive, FleetCrash DEF Next

-----------------------------------------------------------------------------
(* The invariant of the fleet: BusInv says of each call of Publish what of *)
(* its batch is reported, landed or still open.                            *)
THEOREM FleetInvariant == Spec => []FleetInv
<1>1. QED
  BY FleetInit, FleetStep, PTL DEF Spec

(* Publish keeps its contract through every interleaving of sends, acks,   *)
(* refusals, outages and the end of its context: what it does not report   *)
(* failed is in the stream, and err is set exactly when something failed.  *)
THEOREM PublishKeepsItsContract == Spec => []PublishContract
<1>1. FleetInv => PublishContract
  BY DEF FleetInv, BusInv, CallOK, CallShape, CallDone, PublishContract
<1>2. QED
  BY <1>1, FleetInvariant, PTL

(* A verdict is owed, in the stream, or was owed by a process that died.   *)
THEOREM VerdictsSurvive == Spec => []KeepSurvives
<1>1. FleetInv => KeepSurvives
  BY DEF FleetInv
<1>2. QED
  BY <1>1, FleetInvariant, PTL

(* What the subscription has delivered is decided, or came before the set  *)
(* was stored.                                                             *)
THEOREM DeliveriesDecided == Spec => []DecidedCoversStream
<1>1. FleetInv => DecidedCoversStream
  BY DEF FleetInv, Delivered, DecidedCoversStream
<1>2. QED
  BY <1>1, FleetInvariant, PTL
=============================================================================
