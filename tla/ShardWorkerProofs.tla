------------------------- MODULE ShardWorkerProofs -------------------------
(***************************************************************************)
(* Proofs, for any traces, window, queue depths and bounds, of the safety  *)
(* properties of ShardWorker.                                              *)
(***************************************************************************)
EXTENDS ShardWorker, FiniteSetTheorems, FunctionTheorems, SequenceTheorems, WellFoundedInduction, TLAPS

-----------------------------------------------------------------------------
(***************************************************************************)
(* The inductive invariant, in parts.                                      *)
(***************************************************************************)

(* What is owed is owed to the flush, and to the bus besides or not: no    *)
(* intent is for the bus alone, so the sweep leaves no tombstone.          *)
OwedNeeds == {{NeedFlush}, {NeedFlush, NeedPublish}}

NeedsInv ==
    /\ \A id \in Ids : IF pend[id].queued THEN pend[id].need \in OwedNeeds ELSE pend[id] = NoReq
    /\ \A j \in JobsUnderWay \cup Retries : j.need \in OwedNeeds
    /\ wpc = "select" => left = 0

(* A fragment is waiting in the queue or has been stored, under a number   *)
(* of its own; a job holds stored fragments of its own trace.              *)
Waiting == {e \in Elements(queue) : e.kind = "evFrag"}
Unstored == (inputs + 1 .. MaxInputs) \cup {e.n : e \in Waiting}

StoredInv ==
    /\ \A i, k \in 1 .. Len(queue) :
          queue[i].kind = "evFrag" /\ queue[k].kind = "evFrag" /\ queue[i].n = queue[k].n => i = k
    /\ \A e \in Waiting : e.n <= inputs
    /\ kept \cap Unstored = {}
    /\ \A f \in Elements(disk) : f.n \notin Unstored
    /\ \A j \in JobsUnderWay : j.frags \cap Unstored = {}
    /\ \A f, g \in Elements(disk) : f.n = g.n => f.id = g.id
    /\ \A f \in Elements(disk), j \in JobsUnderWay : f.n \in j.frags => f.id = j.id

(* The flusher has a batch exactly when it is at work on one. *)
BatchInv ==
    /\ fpc = "idle" <=> batch = << >>
    /\ fpc # "process" => failed = {}

(* The broadcasts still to be made: the batch's count until they are acked. *)
Unacked == {j \in Elements(batch) : fpc = "publish" \/ j.id \in failed}

OutstandingInv ==
    \A id \in Ids : outstanding[id] =>
        \/ NeedPublish \in pend[id].need
        \/ \E j \in Elements(jobs) \cup Unacked \cup Retries : j.id = id /\ NeedPublish \in j.need

(* Each of them was a local decision: there is credit for it. *)
JobPlaces(s, id)   == {i \in 1 .. Len(s) : s[i].id = id /\ NeedPublish \in s[i].need}
RetryPlaces(id)    == {i \in 1 .. Len(queue) : queue[i].kind = "evRetry" /\ queue[i].id = id
                                                /\ NeedPublish \in queue[i].need}
BatchOwes(id)      == IF fpc = "publish" \/ id \in failed THEN Cardinality(JobPlaces(batch, id)) ELSE 0
Broadcasts(id)     == (IF NeedPublish \in pend[id].need THEN 1 ELSE 0) + Cardinality(JobPlaces(jobs, id))
                        + BatchOwes(id) + Cardinality(RetryPlaces(id))

CreditInv == \A id \in Ids : credit[id] >= Broadcasts(id)

(* The latest decision of a trace is in the ring until its deadline. *)
DecidedInv ==
    \A id \in Ids : lastDeadline[id] > now =>
        \E i \in 1 .. Len(ring) : ring[i] = [id |-> id, deadline |-> lastDeadline[id]]

(* Honest stamps are out of order by StampLag at most, on the queue and in *)
(* the ring.                                                               *)
Keeps == {i \in 1 .. Len(queue) : queue[i].kind = "evKeep"}

LagInv ==
    StampSkew = 0 =>
      /\ \A i \in Keeps : queue[i].at <= now
      /\ \A i, k \in Keeps : i < k => queue[i].at <= queue[k].at + StampLag
      /\ \A i \in 1 .. Len(ring) : ring[i].deadline <= now + Window
      /\ \A i \in 1 .. Len(ring), k \in Keeps : ring[i].deadline <= queue[k].at + StampLag + Window
      /\ \A i, k \in 1 .. Len(ring) : i < k => ring[i].deadline <= ring[k].deadline + StampLag

WorkerInv ==
    /\ PendqCoherent
    /\ NeedsInv
    /\ PublishAgesFromDecision
    /\ NothingFromTheFuture
    /\ BatchInv
    /\ StoredInv
    /\ KeptNeverLost
    /\ OutstandingInv
    /\ CreditInv
    /\ DecidedInv
    /\ LagInv

-----------------------------------------------------------------------------
(***************************************************************************)
(* Sequences.                                                              *)
(***************************************************************************)

(* A nonempty set of natural numbers has a least element. *)
LEMMA LeastNatural ==
    ASSUME NEW T \in SUBSET Nat, T # {}
    PROVE  \E n \in T : \A m \in T : n <= m
<1>1. \E n \in T : \A m \in T : ~(<<m, n>> \in OpToRel(<, Nat))
  BY NatLessThanWellFounded, WFMin, Zenon
<1>2. \A m, n \in T : m < n => <<m, n>> \in OpToRel(<, Nat)
  BY Zenon DEF OpToRel
<1>3. \E n \in T : \A m \in T : ~(m < n)
  BY <1>1, <1>2, Zenon
<1>4. PICK n \in T : \A m \in T : ~(m < n)
  BY <1>3
<1>5. \A m \in T : n <= m
  BY <1>4
<1>6. QED
  BY <1>5

(* A sequence that grows by an element. *)
LEMMA Appended ==
    ASSUME NEW S, NEW s \in Seq(S), NEW e \in S
    PROVE  /\ Append(s, e) \in Seq(S) /\ Len(Append(s, e)) = Len(s) + 1 /\ Len(s) \in Nat
           /\ \A i \in 1 .. Len(s) : Append(s, e)[i] = s[i]
           /\ Append(s, e)[Len(s) + 1] = e
           /\ Elements(Append(s, e)) = Elements(s) \cup {e}
<1>1. /\ Append(s, e) \in Seq(S) /\ Len(Append(s, e)) = Len(s) + 1 /\ Len(s) \in Nat
      /\ \A i \in 1 .. Len(s) : Append(s, e)[i] = s[i]
      /\ Append(s, e)[Len(s) + 1] = e
  BY AppendProperties
<1>2. \A i \in 1 .. Len(s) + 1 : i \in 1 .. Len(s) \/ i = Len(s) + 1
  BY <1>1
<1>3. Elements(Append(s, e)) \subseteq Elements(s) \cup {e}
  BY <1>1, <1>2 DEF Elements
<1>4. \A i \in 1 .. Len(s) : i \in 1 .. Len(s) + 1
  BY <1>1
<1>5. Len(s) + 1 \in 1 .. Len(s) + 1
  BY <1>1
<1>6. Elements(s) \cup {e} \subseteq Elements(Append(s, e))
  <2>1. Elements(s) \subseteq Elements(Append(s, e))
    BY <1>1, <1>4 DEF Elements
  <2>2. e \in Elements(Append(s, e))
    BY <1>1, <1>5 DEF Elements
  <2>3. QED
    BY <2>1, <2>2
<1>7. QED
  BY <1>1, <1>3, <1>6

(* A sequence that loses its head. *)
LEMMA Tailed ==
    ASSUME NEW S, NEW s \in Seq(S), s # << >>
    PROVE  /\ Head(s) \in S /\ Head(s) = s[1] /\ Len(s) \in Nat \ {0}
           /\ Tail(s) \in Seq(S) /\ Len(Tail(s)) = Len(s) - 1
           /\ \A i \in 1 .. Len(Tail(s)) : Tail(s)[i] = s[i + 1] /\ i + 1 \in 1 .. Len(s)
           /\ Elements(s) = {Head(s)} \cup Elements(Tail(s))
<1>1. /\ Head(s) \in S /\ Head(s) = s[1] /\ Len(s) \in Nat \ {0}
      /\ Tail(s) \in Seq(S) /\ Len(Tail(s)) = Len(s) - 1
      /\ \A i \in 1 .. Len(s) - 1 : Tail(s)[i] = s[i + 1]
  <2>1. Len(s) \in Nat /\ Len(s) # 0
    BY EmptySeq
  <2>2. QED
    BY <2>1, HeadTailProperties
<1>2. \A i \in 1 .. Len(Tail(s)) : Tail(s)[i] = s[i + 1] /\ i + 1 \in 1 .. Len(s)
  BY <1>1
<1>3. \A i \in 1 .. Len(s) : i = 1 \/ (i - 1 \in 1 .. Len(Tail(s)) /\ s[i] = Tail(s)[i - 1])
  BY <1>1
<1>4. Elements(s) \subseteq {Head(s)} \cup Elements(Tail(s))
  BY <1>1, <1>3 DEF Elements
<1>5. 1 \in 1 .. Len(s)
  BY <1>1
<1>6. {Head(s)} \cup Elements(Tail(s)) \subseteq Elements(s)
  BY <1>1, <1>2, <1>5 DEF Elements
<1>7. QED
  BY <1>1, <1>2, <1>4, <1>6

(* A sequence that loses its first k elements. *)
LEMMA Cut ==
    ASSUME NEW S, NEW s \in Seq(S), NEW k \in 0 .. Len(s)
    PROVE  LET r == SubSeq(s, k + 1, Len(s))
           IN /\ r \in Seq(S) /\ Len(r) = Len(s) - k
              /\ \A i \in 1 .. Len(r) : r[i] = s[k + i] /\ k + i \in 1 .. Len(s)
              /\ Elements(r) \subseteq Elements(s)
<1> DEFINE r == SubSeq(s, k + 1, Len(s))
<1>1. Len(s) \in Nat /\ k \in Nat /\ k <= Len(s)
  OBVIOUS
<1>2. \A i \in k + 1 .. Len(s) : s[i] \in S
  BY <1>1
<1>3. k + 1 \in Int /\ Len(s) \in Int
  BY <1>1
<1>4. /\ r \in Seq(S)
      /\ Len(r) = IF k + 1 <= Len(s) THEN Len(s) - (k + 1) + 1 ELSE 0
      /\ \A i \in 1 .. Len(s) - (k + 1) + 1 : r[i] = s[k + 1 + i - 1]
  BY <1>2, <1>3, SubSeqProperties
<1>5. Len(r) = Len(s) - k
  BY <1>1, <1>4
<1>6. \A i \in 1 .. Len(r) : i \in 1 .. Len(s) - (k + 1) + 1 /\ k + 1 + i - 1 = k + i /\ k + i \in 1 .. Len(s)
  BY <1>1, <1>5
<1> HIDE DEF r
<1>7. \A i \in 1 .. Len(r) : r[i] = s[k + i] /\ k + i \in 1 .. Len(s)
  BY <1>4, <1>6
<1>8. Elements(r) \subseteq Elements(s)
  BY <1>7 DEF Elements
<1>9. QED
  BY <1>4, <1>5, <1>7, <1>8 DEF r

(* The elements of a sequence over S are in S. *)
LEMMA ElementsIn ==
    ASSUME NEW S, NEW s \in Seq(S)
    PROVE  Elements(s) \subseteq S
  BY ElementOfSeq DEF Elements

-----------------------------------------------------------------------------
(***************************************************************************)
(* Types.                                                                  *)
(***************************************************************************)

(* The fields of an event, by its kind. *)
LEMMA EventFields ==
    ASSUME NEW e \in Events
    PROVE  /\ e.kind \in {"evFrag", "evKeep", "evRetry"} /\ e.id \in Ids
           /\ e.kind = "evFrag" => e.at \in Nat /\ e.n \in 1 .. MaxInputs
           /\ e.kind = "evKeep" => e.at \in Nat /\ e.origin \in Origins
           /\ e.kind = "evRetry" => e.reason \in {NoReason, Reason} /\ e.need \in Needs /\ e.deadline \in Nat
  BY DEF Events

(* park keeps the types of the pending work. *)
LEMMA ParkTypes ==
    ASSUME TypeOK, NEW id \in Ids, NEW reason \in {NoReason, Reason}, NEW need \in Needs,
           NEW deadline \in Nat, Park(id, reason, need, deadline)
    PROVE  pend' \in [Ids -> Reqs] /\ pendq' \in Seq(Ids)
<1>1. pend \in [Ids -> Reqs] /\ pendq \in Seq(Ids) /\ now \in Nat
  BY WorkerBounds DEF TypeOK
<1>2. Merge(pend[id], reason, need, deadline) \in Reqs
  <2>1. pend[id].reason \in {NoReason, Reason} /\ pend[id].need \in Needs /\ pend[id].deadline \in Nat
    BY <1>1 DEF Reqs
  <2>2. pend[id].need \cup need \in Needs
    BY <2>1 DEF Needs
  <2>3. now + Window \in Nat
    BY <1>1, WindowPositive
  <2>4. QED
    BY <2>1, <2>2, <2>3 DEF Merge, Reqs
<1>3. pend' = [pend EXCEPT ![id] = Merge(pend[id], reason, need, deadline)]
  BY DEF Park
<1>4. pendq' = pendq \/ pendq' = Append(pendq, id)
  BY DEF Park
<1>5. QED
  BY <1>1, <1>2, <1>3, <1>4

(* sendJob keeps the types of the jobs and of the pending work. *)
LEMMA SendTypes ==
    ASSUME TypeOK, NEW j \in Jobs, SendJob(j)
    PROVE  pend' \in [Ids -> Reqs] /\ pendq' \in Seq(Ids) /\ jobs' \in Seq(Jobs)
<1>1. pend \in [Ids -> Reqs] /\ pendq \in Seq(Ids) /\ jobs \in Seq(Jobs)
  BY DEF TypeOK
<1>2. j.id \in Ids /\ j.reason \in {NoReason, Reason} /\ j.need \in Needs /\ j.deadline \in Nat
  BY DEF Jobs
<1>3. CASE Len(jobs) < FlushDepth
  BY <1>1, <1>3 DEF SendJob
<1>4. CASE ~(Len(jobs) < FlushDepth)
  BY <1>1, <1>2, <1>4, ParkTypes DEF SendJob
<1>5. QED
  BY <1>3, <1>4

(* What Collect yields. *)
LEMMA CollectedIs ==
    ASSUME TypeOK, NEW id \in Ids
    PROVE  /\ Collected(id) \subseteq 1 .. MaxInputs
           /\ \A n : n \in Collected(id) <=>
                      n \notin Unreadable /\ \E f \in Elements(disk) : f.id = id /\ f.n = n
<1>1. Elements(disk) \subseteq Fragments
  BY ElementsIn DEF TypeOK
<1>2. QED
  BY <1>1 DEF Collected, Fragments

(* The instant a stamp is clamped to. *)
LEMMA ClampedIs ==
    ASSUME TypeOK, NEW at \in Nat
    PROVE  Clamped(at) \in Nat /\ Clamped(at) <= now /\ Clamped(at) <= at /\ (at <= now => Clamped(at) = at)
  BY WorkerBounds DEF Clamped, Lesser, TypeOK

(* The worker handles a fragment. *)
LEMMA TypeFragment ==
    ASSUME TypeOK, HandleFragment
    PROVE  TypeOK'
<1> DEFINE ev == Head(queue)
<1>1. /\ queue # << >> /\ ev.kind = "evFrag" /\ sealed' \in {sealed, Len(disk)} /\ queue' = Tail(queue)
      /\ UNCHANGED <<now, inputs, ring, wpc, left, tickNow, batch, fpc, failed, settled,
                     lastDeadline, localDeadline, outstanding, credit>>
  BY DEF HandleFragment, flushVars, keepVars, pubVars
<1>2. queue \in Seq(Events) /\ disk \in Seq(Fragments) /\ sealed \in 0 .. Len(disk) /\ kept \subseteq 1 .. MaxInputs
  BY DEF TypeOK
<1>3. ev \in Events /\ queue' \in Seq(Events)
  BY <1>1, <1>2, Tailed
<1>4. ev.id \in Ids /\ ev.n \in 1 .. MaxInputs /\ Clamped(ev.at) \in Nat
  BY <1>1, <1>3, EventFields, ClampedIs
<1> DEFINE g == [id |-> ev.id, n |-> ev.n, at |-> Clamped(ev.at)]
<1>5. CASE UNCHANGED <<disk, jobs, pend, pendq, kept>>
  <2>1. sealed' \in 0 .. Len(disk)
    BY <1>1, <1>2
  <2>2. QED
    BY <1>1, <1>3, <1>5, <2>1 DEF TypeOK
<1>6. CASE disk' = Append(disk, g)
  <2>1. g \in Fragments
    BY <1>4 DEF Fragments
  <2>2. disk' \in Seq(Fragments) /\ Len(disk') = Len(disk) + 1 /\ Len(disk) \in Nat
    BY <1>2, <1>6, <2>1, Appended
  <2>3. sealed' \in 0 .. Len(disk')
    BY <1>1, <1>2, <2>2
  <2>4. pend' \in [Ids -> Reqs] /\ pendq' \in Seq(Ids) /\ jobs' \in Seq(Jobs) /\ kept' \subseteq 1 .. MaxInputs
    <3> DEFINE j == [id |-> ev.id, reason |-> NoReason, need |-> {NeedFlush}, frags |-> {ev.n},
                     deadline |-> NoDeadline]
    <3>1. j \in Jobs
      BY <1>4 DEF Jobs, Needs, NoDeadline
    <3>2. \/ UNCHANGED <<jobs, pend, pendq, kept>>
          \/ SendJob(j) /\ kept' = kept \cup {ev.n}
      BY DEF HandleFragment
    <3> HIDE DEF j
    <3>3. CASE UNCHANGED <<jobs, pend, pendq, kept>>
      BY <3>3 DEF TypeOK
    <3>4. CASE SendJob(j) /\ kept' = kept \cup {ev.n}
      BY <1>2, <1>4, <3>1, <3>4, SendTypes
    <3>5. QED
      BY <3>2, <3>3, <3>4
  <2>5. QED
    BY <1>1, <1>3, <2>2, <2>3, <2>4 DEF TypeOK
<1>7. QED
  BY <1>5, <1>6 DEF HandleFragment

(* The worker handles a keep. *)
LEMMA TypeKeep ==
    ASSUME TypeOK, HandleKeep
    PROVE  TypeOK'
<1> DEFINE ev == Head(queue)
<1> DEFINE deadline == Clamped(ev.at) + Window
<1> DEFINE need == IF ev.origin = "OriginLocal" THEN {NeedFlush, NeedPublish} ELSE {NeedFlush}
<1> DEFINE frags == Collected(ev.id)
<1> DEFINE j == [id |-> ev.id, reason |-> Reason, need |-> need, frags |-> frags, deadline |-> deadline]
<1>1. /\ queue # << >> /\ ev.kind = "evKeep" /\ queue' = Tail(queue)
      /\ ring' = Append(ring, [id |-> ev.id, deadline |-> deadline]) /\ kept' = kept \cup frags
      /\ lastDeadline' = [lastDeadline EXCEPT ![ev.id] = deadline]
      /\ UNCHANGED <<now, inputs, disk, sealed, wpc, left, tickNow, batch, fpc, failed, settled>>
  BY DEF HandleKeep, diskVars, flushVars
<1>2. queue \in Seq(Events) /\ ring \in Seq([id : Ids, deadline : Nat]) /\ kept \subseteq 1 .. MaxInputs
  BY DEF TypeOK
<1>3. ev \in Events /\ queue' \in Seq(Events)
  BY <1>1, <1>2, Tailed
<1>4. ev.id \in Ids /\ deadline \in Nat
  BY <1>1, <1>3, EventFields, ClampedIs, WindowPositive, SMTT(40)
<1>5. frags \subseteq 1 .. MaxInputs
  BY <1>4, CollectedIs
<1>6. need \in Needs
  BY DEF Needs
<1>7. /\ localDeadline' = localDeadline \/ localDeadline' = [localDeadline EXCEPT ![ev.id] = Greater(@, deadline)]
      /\ outstanding' = outstanding \/ outstanding' = [outstanding EXCEPT ![ev.id] = TRUE]
      /\ credit' = credit \/ credit' = [credit EXCEPT ![ev.id] = @ + 1]
  BY DEF HandleKeep
<1>8. \/ Park(ev.id, Reason, need, deadline) /\ UNCHANGED jobs
      \/ UNCHANGED <<jobs, pend, pendq>>
      \/ SendJob(j)
  BY DEF HandleKeep
<1> HIDE DEF need, deadline, frags
<1>9. j \in Jobs
  BY <1>4, <1>5, <1>6 DEF Jobs
<1>10. pend' \in [Ids -> Reqs] /\ pendq' \in Seq(Ids) /\ jobs' \in Seq(Jobs)
  <2> HIDE DEF j
  <2>1. CASE Park(ev.id, Reason, need, deadline) /\ UNCHANGED jobs
    BY <1>4, <1>6, <2>1, ParkTypes DEF TypeOK
  <2>2. CASE UNCHANGED <<jobs, pend, pendq>>
    BY <2>2 DEF TypeOK
  <2>3. CASE SendJob(j)
    BY <1>9, <2>3, SendTypes
  <2>4. QED
    BY <1>8, <2>1, <2>2, <2>3
<1>11. localDeadline' \in [Ids -> Nat]
  BY <1>4, <1>7 DEF TypeOK, Greater
<1>12. outstanding' \in [Ids -> BOOLEAN] /\ credit' \in [Ids -> Int]
  <2>1. outstanding \in [Ids -> BOOLEAN] /\ credit \in [Ids -> Int]
    BY DEF TypeOK
  <2>2. TRUE \in BOOLEAN /\ credit[ev.id] + 1 \in Int
    BY <1>4, <2>1
  <2> HIDE DEF ev
  <2>3. [outstanding EXCEPT ![ev.id] = TRUE] \in [Ids -> BOOLEAN]
    BY <1>4, <2>1, Zenon
  <2>4. [credit EXCEPT ![ev.id] = credit[ev.id] + 1] \in [Ids -> Int]
    BY <1>4, <2>1, <2>2
  <2>5. QED
    BY <1>7, <2>1, <2>3, <2>4
<1>13. lastDeadline' \in [Ids -> Nat] /\ ring' \in Seq([id : Ids, deadline : Nat]) /\ kept' \subseteq 1 .. MaxInputs
  BY <1>1, <1>2, <1>4, <1>5, SMTT(40) DEF TypeOK
<1>14. QED
  BY <1>1, <1>3, <1>10, <1>11, <1>12, <1>13 DEF TypeOK

(* How many entries evict pops: it is well defined. *)
LEMMA EvictCountIs ==
    ASSUME TypeOK
    PROVE  /\ EvictCount \in 0 .. Len(ring)
           /\ \A i \in 1 .. EvictCount : ring[i].deadline <= now
           /\ EvictCount < Len(ring) => ring[EvictCount + 1].deadline > now
<1> DEFINE P(k) == /\ \A i \in 1 .. k : ring[i].deadline <= now
                   /\ k < Len(ring) => ring[k + 1].deadline > now
<1>1. Len(ring) \in Nat /\ now \in Nat /\ \A i \in 1 .. Len(ring) : ring[i].deadline \in Nat
  <2>1. ring \in Seq([id : Ids, deadline : Nat]) /\ now \in Nat
    BY WorkerBounds DEF TypeOK
  <2>2. \A i \in 1 .. Len(ring) : ring[i] \in [id : Ids, deadline : Nat]
    BY <2>1, ElementOfSeq
  <2>3. QED
    BY <2>1, <2>2
<1>2. \E k \in 0 .. Len(ring) : P(k)
  <2> DEFINE T == {i \in 1 .. Len(ring) : ring[i].deadline > now}
  <2>1. CASE T = {}
    <3>1. Len(ring) \in 0 .. Len(ring) /\ ~(Len(ring) < Len(ring))
      BY <1>1
    <3>2. \A i \in 1 .. Len(ring) : ring[i].deadline <= now
      BY <1>1, <2>1
    <3>3. P(Len(ring))
      BY <3>1, <3>2
    <3>4. QED
      BY <3>1, <3>3
  <2>2. CASE T # {}
    <3>0. T \in SUBSET Nat
      OBVIOUS
    <3>1. PICK m \in T : \A i \in T : m <= i
      <4> HIDE DEF T
      <4>1. QED
        BY <2>2, <3>0, LeastNatural
    <3>2. m - 1 \in 0 .. Len(ring) /\ (m - 1) + 1 = m
      BY <1>1
    <3>3. \A i \in 1 .. m - 1 : ring[i].deadline <= now
      BY <1>1, <3>1
    <3>4. ring[(m - 1) + 1].deadline > now
      BY <3>2
    <3>5. P(m - 1)
      BY <3>3, <3>4, Zenon
    <3>6. QED
      BY <3>2, <3>5
  <2>3. QED
    BY <2>1, <2>2
<1>3. EvictCount \in 0 .. Len(ring) /\ P(EvictCount)
  BY <1>2, Zenon DEF EvictCount
<1>4. QED
  BY <1>3

(* What the sweep makes of an entry. *)
LEMMA SweptTypes ==
    ASSUME NEW req \in Reqs
    PROVE  Swept(req) \in Reqs
<1>1. NoReq \in Reqs
  BY DEF NoReq, Reqs, Needs, NoReason, Reason, NoDeadline
<1>2. req.need \ {NeedPublish} \in Needs /\ NoDeadline \in Nat
  BY DEF Reqs, Needs, NoDeadline
<1>3. [req EXCEPT !.need = @ \ {NeedPublish}, !.deadline = NoDeadline] \in Reqs
  BY <1>2 DEF Reqs
<1>4. QED
  BY <1>1, <1>3 DEF Swept

(* What Expire leaves on disk. *)
LEMMA ExpireIs ==
    ASSUME TypeOK, Expire
    PROVE  /\ disk' \in Seq(Fragments) /\ Elements(disk') \subseteq Elements(disk)
           /\ sealed' \in 0 .. Len(disk')
<1>1. disk \in Seq(Fragments) /\ sealed \in 0 .. Len(disk) /\ Len(disk) \in Nat
  BY DEF TypeOK
<1>2. PICK k \in Cuts(now - Window) :
        /\ disk' = SubSeq(disk, k + 1, Len(disk))
        /\ sealed' = IF \A i \in sealed + 1 .. Len(disk) : disk[i].at < now - Window
                     THEN Len(disk) - k ELSE sealed - k
  BY DEF Expire
<1>3. k \in 0 .. sealed /\ k \in 0 .. Len(disk)
  BY <1>1 DEF Cuts
<1>4. disk' \in Seq(Fragments) /\ Len(disk') = Len(disk) - k /\ Elements(disk') \subseteq Elements(disk)
  BY <1>1, <1>2, <1>3, Cut
<1>5. sealed' = Len(disk) - k \/ sealed' = sealed - k
  BY <1>2
<1>6. Len(disk) - k \in 0 .. Len(disk) - k /\ sealed - k \in 0 .. Len(disk) - k
  BY <1>1, <1>3
<1>7. QED
  BY <1>4, <1>5, <1>6

(* What the watermark rung leaves. *)
LEMMA SacrificeIs ==
    ASSUME TypeOK, Sacrifice
    PROVE  /\ disk' \in Seq(Fragments) /\ Elements(disk') \subseteq Elements(disk)
           /\ sealed' \in 0 .. Len(disk')
<1>1. disk \in Seq(Fragments) /\ sealed \in 0 .. Len(disk) /\ Len(disk) \in Nat
  BY DEF TypeOK
<1>2. PICK k \in Cuts(tickNow - WindowFloor) : disk' = SubSeq(disk, k + 1, Len(disk)) /\ sealed' = sealed - k
  BY DEF Sacrifice
<1>3. k \in 0 .. sealed /\ k \in 0 .. Len(disk)
  BY <1>1 DEF Cuts
<1>4. disk' \in Seq(Fragments) /\ Len(disk') = Len(disk) - k /\ Elements(disk') \subseteq Elements(disk)
  BY <1>1, <1>2, <1>3, Cut
<1>5. sealed' \in 0 .. Len(disk')
  BY <1>1, <1>2, <1>3, <1>4
<1>6. QED
  BY <1>4, <1>5

(* A tick begins. *)
LEMMA TypeTick ==
    ASSUME TypeOK, TickBegin
    PROVE  TypeOK'
<1>1. /\ wpc' = "drain" /\ tickNow' = now /\ Expire /\ ring' = SubSeq(ring, EvictCount + 1, Len(ring))
      /\ pend' = [id \in Ids |-> Swept(pend[id])] /\ left' = Len(pendq)
      /\ outstanding' = [id \in Ids |-> outstanding[id] /\ ~Abandoned(pend[id])]
      /\ UNCHANGED <<now, inputs, queue, pendq, jobs, kept, settled, credit, fpc, batch, failed,
                     lastDeadline, localDeadline>>
  BY DEF TickBegin, flushVars, keepVars
<1>2. pend' \in [Ids -> Reqs]
  BY <1>1, SweptTypes DEF TypeOK
<1>3. outstanding' \in [Ids -> BOOLEAN]
  BY <1>1, Zenon DEF TypeOK
<1>4. ring' \in Seq([id : Ids, deadline : Nat])
  BY <1>1, EvictCountIs, Cut DEF TypeOK
<1>5. left' \in Nat /\ tickNow' \in 0 .. now'
  BY <1>1 DEF TypeOK
<1>6. QED
  BY <1>1, <1>2, <1>3, <1>4, <1>5, ExpireIs DEF TypeOK

(* The clock, the arrivals and a duplicate keep. *)
LEMMA TypeArrivals ==
    ASSUME TypeOK,
           \/ Advance
           \/ \E id \in Ids, at \in Stamps : ArriveFragment(id, at)
           \/ \E id \in Ids, at \in Stamps, o \in Origins : ArriveKeep(id, o, at)
           \/ HandleDuplicateKeep
    PROVE  TypeOK'
<1>1. now \in Nat /\ inputs \in Nat /\ queue \in Seq(Events)
  BY WorkerBounds DEF TypeOK
<1>2. \A at \in Stamps : at \in Nat
  BY <1>1, StampBounds DEF Stamps
<1>3. inputs < MaxInputs => inputs + 1 \in 1 .. MaxInputs /\ inputs + 1 \in 0 .. MaxInputs
  BY <1>1, WorkerBounds DEF TypeOK
<1>4. CASE Advance
  <2>1. now' \in 0 .. MaxTime /\ tickNow' \in 0 .. now'
    BY <1>1, <1>4, WorkerBounds DEF Advance, TypeOK, workVars
  <2>2. QED
    BY <1>4, <2>1 DEF Advance, TypeOK, workVars, diskVars, flushVars, keepVars, pubVars
<1>5. ASSUME NEW id \in Ids, NEW at \in Stamps, ArriveFragment(id, at)
      PROVE  TypeOK'
  <2> DEFINE e == [kind |-> "evFrag", id |-> id, at |-> at, n |-> inputs + 1]
  <2>1. e \in Events
    BY <1>2, <1>3, <1>5 DEF Events, ArriveFragment
  <2>2. inputs' \in 0 .. MaxInputs /\ queue' = Append(queue, e)
    BY <1>3, <1>5 DEF ArriveFragment
  <2> HIDE DEF e
  <2>3. queue' \in Seq(Events)
    BY <1>1, <2>1, <2>2
  <2>4. QED
    BY <1>5, <2>2, <2>3 DEF ArriveFragment, TypeOK, workVars, diskVars, flushVars, keepVars, pubVars
<1>6. ASSUME NEW id \in Ids, NEW at \in Stamps, NEW o \in Origins, ArriveKeep(id, o, at)
      PROVE  TypeOK'
  <2> DEFINE e == [kind |-> "evKeep", id |-> id, at |-> at, origin |-> o]
  <2>1. e \in Events
    BY <1>2 DEF Events
  <2>2. inputs' \in 0 .. MaxInputs /\ queue' = Append(queue, e)
    BY <1>3, <1>6 DEF ArriveKeep
  <2> HIDE DEF e
  <2>3. queue' \in Seq(Events)
    BY <1>1, <2>1, <2>2
  <2>4. QED
    BY <1>6, <2>2, <2>3 DEF ArriveKeep, TypeOK, workVars, diskVars, flushVars, keepVars, pubVars
<1>7. CASE HandleDuplicateKeep
  <2>1. queue' \in Seq(Events)
    BY <1>1, <1>7, Tailed DEF HandleDuplicateKeep
  <2>2. QED
    BY <1>7, <2>1 DEF HandleDuplicateKeep, TypeOK, workVars, diskVars, flushVars, keepVars, pubVars
<1>8. QED
  BY <1>4, <1>5, <1>6, <1>7

(* The worker parks a retry. *)
LEMMA TypeRetry ==
    ASSUME TypeOK, HandleRetry
    PROVE  TypeOK'
<1> DEFINE ev == Head(queue)
<1>1. ev \in Events /\ queue' \in Seq(Events) /\ ev.kind = "evRetry"
  BY Tailed DEF HandleRetry, TypeOK
<1>2. ev.id \in Ids /\ ev.reason \in {NoReason, Reason} /\ ev.need \in Needs /\ ev.deadline \in Nat
  BY <1>1, EventFields
<1>3. Park(ev.id, ev.reason, ev.need, ev.deadline)
  BY DEF HandleRetry
<1>4. pend' \in [Ids -> Reqs] /\ pendq' \in Seq(Ids)
  <2> HIDE DEF ev
  <2>1. QED
    BY <1>2, <1>3, ParkTypes
<1>5. QED
  BY <1>1, <1>4 DEF HandleRetry, TypeOK, diskVars, flushVars, keepVars, pubVars

(* The drain's head. *)
LEMMA DrainHead ==
    ASSUME PendqCoherent, left > 0
    PROVE  /\ pendq # << >> /\ Head(pendq) \in Ids /\ Head(pendq) = pendq[1] /\ Len(pendq) \in Nat \ {0}
           /\ Tail(pendq) \in Seq(Ids) /\ Len(Tail(pendq)) = Len(pendq) - 1
           /\ pend[Head(pendq)] \in Reqs /\ pend[Head(pendq)].queued
           /\ left - 1 \in Nat /\ left - 1 <= Len(Tail(pendq))
<1>0. pendq \in Seq(Ids) /\ left \in Nat /\ left <= Len(pendq) /\ pend \in [Ids -> Reqs]
  BY DEF PendqCoherent, TypeOK
<1>1. pendq \in Seq(Ids) /\ left \in Nat /\ left <= Len(pendq) /\ pend \in [Ids -> Reqs] /\ Len(pendq) \in Nat
  BY <1>0
<1>2. pendq # << >>
  BY <1>1, EmptySeq
<1>3. Head(pendq) \in Ids /\ Head(pendq) = pendq[1] /\ Tail(pendq) \in Seq(Ids) /\ Len(Tail(pendq)) = Len(pendq) - 1
      /\ Elements(pendq) = {Head(pendq)} \cup Elements(Tail(pendq)) /\ Len(pendq) \in Nat \ {0}
  BY <1>1, <1>2, Tailed
<1>4. Head(pendq) \in {id \in Ids : pend[id].queued}
  BY <1>3 DEF PendqCoherent
<1>5. left - 1 \in Nat /\ left - 1 <= Len(Tail(pendq))
  BY <1>1, <1>3
<1>6. QED
  BY <1>1, <1>2, <1>3, <1>4, <1>5

(* drainPending, step by step. *)
LEMMA TypeDrain ==
    ASSUME PendqCoherent, Drain
    PROVE  TypeOK'
<1>1. TypeOK
  BY DEF PendqCoherent
<1>2. NoReq \in Reqs
  BY DEF NoReq, Reqs, Needs, NoReason, Reason, NoDeadline
<1> DEFINE id == Head(pendq)
<1>3. 0 \in 0 .. now
  BY <1>1, WorkerBounds DEF TypeOK
<1>4. CASE DrainDone
  BY <1>1, <1>3, <1>4, SacrificeIs DEF DrainDone, TypeOK, flushVars, keepVars, pubVars
<1>5. CASE DrainFull
  <2>1. /\ Sacrifice /\ wpc' = "select" /\ left' = 0 /\ tickNow' = 0
        /\ UNCHANGED <<now, inputs, queue, ring, pend, pendq, jobs, kept, settled, fpc, batch, failed,
                       lastDeadline, localDeadline, outstanding, credit>>
    BY <1>5 DEF DrainFull, flushVars, keepVars, pubVars
  <2>2. QED
    BY <1>1, <1>3, <2>1, SacrificeIs DEF TypeOK
<1>6. CASE DrainDrop
  <2>1. id \in Ids /\ Tail(pendq) \in Seq(Ids) /\ left - 1 \in Nat
    BY <1>6, DrainHead DEF DrainDrop
  <2>2. pend' \in [Ids -> Reqs] /\ pendq' \in Seq(Ids) /\ left' \in Nat
    BY <1>1, <1>2, <1>6, <2>1 DEF DrainDrop, TypeOK
  <2>3. QED
    BY <1>1, <1>6, <2>2 DEF DrainDrop, TypeOK, diskVars, flushVars, keepVars, pubVars
<1>7. CASE DrainSend
  <2>1. id \in Ids /\ Tail(pendq) \in Seq(Ids) /\ left - 1 \in Nat /\ pend[id] \in Reqs
    BY <1>7, DrainHead DEF DrainSend
  <2>2. pend' \in [Ids -> Reqs] /\ pendq' \in Seq(Ids) /\ left' \in Nat
    BY <1>1, <1>2, <1>7, <2>1 DEF DrainSend, TypeOK
  <2> DEFINE j == [id |-> id, reason |-> pend[id].reason, need |-> pend[id].need,
                   frags |-> Collected(id), deadline |-> pend[id].deadline]
  <2>3. Collected(id) \subseteq 1 .. MaxInputs
    BY <1>1, <2>1, CollectedIs
  <2>4. j \in Jobs
    BY <2>1, <2>3 DEF Jobs, Reqs
  <2>5. jobs' = Append(jobs, j)
    BY <1>7 DEF DrainSend
  <2> HIDE DEF j
  <2>6. jobs' \in Seq(Jobs)
    BY <1>1, <2>4, <2>5 DEF TypeOK
  <2>7. QED
    BY <1>1, <1>7, <2>2, <2>6 DEF DrainSend, TypeOK, diskVars, flushVars, keepVars, pubVars
<1>8. CASE DrainCollectErr
  <2>1. id \in Ids /\ Tail(pendq) \in Seq(Ids) /\ left - 1 \in Nat /\ pend[id] \in Reqs
    BY <1>8, DrainHead DEF DrainCollectErr
  <2> DEFINE m == Merge(NoReq, pend[id].reason, pend[id].need, pend[id].deadline)
  <2>2. m \in Reqs
    <3>1. now + Window \in Nat
      BY <1>1, WindowPositive, WorkerBounds DEF TypeOK
    <3>2. {} \cup pend[id].need = pend[id].need
      OBVIOUS
    <3>3. QED
      BY <1>2, <2>1, <3>1, <3>2 DEF Merge, Reqs, NoReq
  <2>3. pend' = [pend EXCEPT ![id] = m] /\ pendq' = Append(Tail(pendq), id) /\ left' = left - 1
    BY <1>8 DEF DrainCollectErr
  <2> HIDE DEF m, id
  <2>4. pend' \in [Ids -> Reqs] /\ pendq' \in Seq(Ids) /\ left' \in Nat
    BY <1>1, <2>1, <2>2, <2>3 DEF TypeOK
  <2>5. QED
    BY <1>1, <1>8, <2>4 DEF DrainCollectErr, TypeOK, diskVars, flushVars, keepVars, pubVars
<1>9. QED
  BY <1>4, <1>5, <1>6, <1>7, <1>8 DEF Drain

(* The job the flusher is at. *)
LEMMA BatchHead ==
    ASSUME TypeOK, BatchInv, fpc = "process"
    PROVE  /\ batch # << >> /\ Head(batch) \in Jobs /\ Tail(batch) \in Seq(Jobs)
           /\ Len(batch) \in Nat \ {0} /\ Len(Tail(batch)) = Len(batch) - 1
           /\ Elements(batch) = {Head(batch)} \cup Elements(Tail(batch))
           /\ Head(batch).id \in Ids /\ Head(batch).reason \in {NoReason, Reason}
           /\ Head(batch).need \in Needs /\ Head(batch).deadline \in Nat
           /\ Head(batch).frags \subseteq 1 .. MaxInputs
<1>1. batch \in Seq(Jobs) /\ batch # << >>
  BY DEF TypeOK, BatchInv
<1>2. Head(batch) \in Jobs
  BY <1>1, Tailed
<1>3. QED
  BY <1>1, <1>2, Tailed DEF Jobs

(* The flusher moves on to its next job. *)
LEMMA NextJobIs ==
    ASSUME TypeOK, BatchInv, fpc = "process", NextJob
    PROVE  /\ batch' = Tail(batch) /\ batch' \in Seq(Jobs) /\ fpc' \in {"idle", "process"} /\ failed' \subseteq Ids
           /\ BatchInv' /\ failed' \subseteq failed
           /\ fpc' = "process" => failed' = failed
<1>1. batch' = Tail(batch) /\ batch' \in Seq(Jobs) /\ Len(batch') = Len(batch) - 1 /\ Len(batch) \in Nat
  BY BatchHead DEF NextJob
<1>2. batch' = << >> <=> Len(batch') = 0
  BY <1>1, EmptySeq
<1>3. CASE Len(batch) = 1
  BY <1>1, <1>2, <1>3 DEF NextJob, BatchInv
<1>4. CASE Len(batch) # 1
  <2>1. fpc' = fpc /\ failed' = failed
    BY <1>4 DEF NextJob
  <2>2. batch' # << >>
    BY <1>1, <1>2, <1>4
  <2>3. QED
    BY <1>1, <2>1, <2>2 DEF BatchInv, TypeOK
<1>5. QED
  BY <1>3, <1>4

(* A retry on the queue. *)
LEMMA RetryIs ==
    ASSUME TypeOK, NEW j \in Jobs, NEW need \in Needs, Retry(j, need)
    PROVE  LET e == [kind |-> "evRetry", id |-> j.id, reason |-> j.reason, need |-> need, deadline |-> j.deadline]
           IN e \in Events /\ queue' = Append(queue, e) /\ queue' \in Seq(Events)
<1> DEFINE e == [kind |-> "evRetry", id |-> j.id, reason |-> j.reason, need |-> need, deadline |-> j.deadline]
<1>1. e \in Events
  BY DEF Jobs, Events
<1>2. queue' = Append(queue, e)
  BY DEF Retry
<1> HIDE DEF e
<1>3. queue' \in Seq(Events)
  BY <1>1, <1>2 DEF TypeOK
<1>4. QED
  BY <1>1, <1>2, <1>3 DEF e

(* The bus's answer to a batch. *)
Owing == {j.id : j \in {k \in Elements(batch) : NeedPublish \in k.need}}

(* Publish acks the ids that owe a broadcast, but for the failed ones. *)
LEMMA PublishIs ==
    ASSUME TypeOK, Publish
    PROVE  \E F \in SUBSET Owing :
              /\ Owing \subseteq Ids
              /\ failed' = F
              /\ outstanding' = [id \in Ids |-> outstanding[id] /\ id \notin Owing \ F]
              /\ credit' = [id \in Ids |-> IF id \in Owing \ F THEN credit[id] - 1 ELSE credit[id]]
              /\ outstanding' \in [Ids -> BOOLEAN] /\ credit' \in [Ids -> Int]
<1>1. Owing \subseteq Ids
  <2>1. Elements(batch) \subseteq Jobs
    BY ElementsIn DEF TypeOK
  <2>2. QED
    BY <2>1 DEF Jobs, Owing
<1>2. PICK F \in SUBSET Owing :
        /\ failed' = F
        /\ outstanding' = [id \in Ids |-> outstanding[id] /\ id \notin Owing \ F]
        /\ credit' = [id \in Ids |-> IF id \in Owing \ F THEN credit[id] - 1 ELSE credit[id]]
  BY DEF Publish, Owing
<1>3. outstanding' \in [Ids -> BOOLEAN]
  BY <1>2, Zenon
<1>4. credit' \in [Ids -> Int]
  BY <1>2 DEF TypeOK
<1>5. QED
  BY <1>1, <1>2, <1>3, <1>4, Zenon

(* The flusher, step by step. *)
LEMMA TypeFlush ==
    ASSUME TypeOK, BatchInv, Flush
    PROVE  TypeOK' /\ BatchInv'
<1>1. CASE Gather
  <2>1. << >> \in Seq(Jobs)
    BY EmptySeq
  <2>2. QED
    BY <1>1, <2>1 DEF Gather, TypeOK, BatchInv, workVars, diskVars, keepVars, pubVars
<1>2. CASE Publish
  <2>1. failed' \subseteq Ids /\ outstanding' \in [Ids -> BOOLEAN] /\ credit' \in [Ids -> Int]
    BY <1>2, PublishIs
  <2>2. fpc = "publish" /\ fpc' = "process"
        /\ UNCHANGED <<now, inputs, queue, disk, sealed, ring, pend, pendq, wpc, left, tickNow, jobs, batch,
                       kept, settled, lastDeadline, localDeadline>>
    BY <1>2 DEF Publish, workVars, diskVars, keepVars
  <2>3. BatchInv'
    BY <2>2 DEF BatchInv
  <2>4. QED
    BY <2>1, <2>2, <2>3 DEF TypeOK
<1>3. CASE RetryPublish
  <2>1. /\ fpc = "process" /\ Retry(Head(batch), Head(batch).need) /\ NextJob
        /\ UNCHANGED <<now, inputs, jobs, kept, settled, disk, sealed, ring, pend, pendq, wpc, left, tickNow,
                       lastDeadline, localDeadline, outstanding, credit>>
    BY <1>3 DEF RetryPublish, workVars, diskVars, keepVars, pubVars
  <2>2. queue' \in Seq(Events)
    BY <2>1, BatchHead, RetryIs
  <2>3. QED
    BY <2>1, <2>2, NextJobIs DEF TypeOK
<1>4. CASE ConsumeRefused
  <2>1. /\ fpc = "process" /\ Retry(Head(batch), {NeedFlush}) /\ NextJob
        /\ UNCHANGED <<now, inputs, jobs, kept, settled, disk, sealed, ring, pend, pendq, wpc, left, tickNow,
                       lastDeadline, localDeadline, outstanding, credit>>
    BY <1>4 DEF ConsumeRefused, workVars, diskVars, keepVars, pubVars
  <2>2. {NeedFlush} \in Needs
    BY DEF Needs
  <2>3. queue' \in Seq(Events)
    BY <2>1, <2>2, BatchHead, RetryIs
  <2>4. QED
    BY <2>1, <2>3, NextJobIs DEF TypeOK
<1>5. CASE Consume
  <2>1. /\ fpc = "process" /\ NextJob
        /\ UNCHANGED <<now, inputs, queue, jobs, kept, disk, sealed, ring, pend, pendq, wpc, left, tickNow,
                       lastDeadline, localDeadline, outstanding, credit>>
        /\ settled' = settled \/ settled' = settled \cup Head(batch).frags
    BY <1>5 DEF Consume, workVars, diskVars, keepVars, pubVars
  <2>2. settled' \subseteq 1 .. MaxInputs
    BY <2>1, BatchHead DEF TypeOK
  <2>3. QED
    BY <2>1, <2>2, NextJobIs DEF TypeOK
<1>6. QED
  BY <1>1, <1>2, <1>3, <1>4, <1>5 DEF Flush

-----------------------------------------------------------------------------
(***************************************************************************)
(* The pending queue: PendqCoherent, with NeedsInv.                        *)
(***************************************************************************)
Distinct(s) == \A i, k \in 1 .. Len(s) : s[i] = s[k] => i = k

Coherent ==
    /\ Distinct(pendq)
    /\ Elements(pendq) = {id \in Ids : pend[id].queued}
    /\ \A id \in Ids : IF pend[id].queued THEN pend[id].need \in OwedNeeds ELSE pend[id] = NoReq

FlowNeeds == \A j \in JobsUnderWay \cup Retries : j.need \in OwedNeeds

(* The two invariants by these names. *)
LEMMA CoherentIs ==
    /\ PendqCoherent /\ NeedsInv
          <=> TypeOK /\ Coherent /\ FlowNeeds /\ left <= Len(pendq) /\ (wpc = "select" => left = 0)
  BY DEF PendqCoherent, NeedsInv, Coherent, FlowNeeds, Distinct

(* A sequence without repetitions stays one when it gets a new element... *)
LEMMA DistinctAppend ==
    ASSUME NEW S, NEW s \in Seq(S), NEW e \in S, Distinct(s), e \notin Elements(s)
    PROVE  Distinct(Append(s, e))
<1>1. /\ Len(Append(s, e)) = Len(s) + 1 /\ Len(s) \in Nat
      /\ \A i \in 1 .. Len(s) : Append(s, e)[i] = s[i]
      /\ Append(s, e)[Len(s) + 1] = e
  BY Appended
<1>2. \A i \in 1 .. Len(s) + 1 : i \in 1 .. Len(s) \/ i = Len(s) + 1
  BY <1>1
<1>3. \A i \in 1 .. Len(s) : s[i] # e
  BY DEF Elements
<1>4. SUFFICES ASSUME NEW i \in 1 .. Len(s) + 1, NEW k \in 1 .. Len(s) + 1, Append(s, e)[i] = Append(s, e)[k]
               PROVE  i = k
  BY <1>1 DEF Distinct
<1>5. QED
  BY <1>1, <1>2, <1>3, <1>4 DEF Distinct

(* ... and when it loses its head. *)
LEMMA DistinctTail ==
    ASSUME NEW S, NEW s \in Seq(S), s # << >>, Distinct(s)
    PROVE  Distinct(Tail(s)) /\ Head(s) \notin Elements(Tail(s))
<1>1. /\ Head(s) = s[1] /\ Len(s) \in Nat \ {0} /\ Len(Tail(s)) = Len(s) - 1
      /\ \A i \in 1 .. Len(Tail(s)) : Tail(s)[i] = s[i + 1] /\ i + 1 \in 1 .. Len(s)
  BY Tailed
<1>2. 1 \in 1 .. Len(s)
  BY <1>1
<1>3. \A i \in 1 .. Len(Tail(s)) : i \in Nat /\ i + 1 # 1
  BY <1>1
<1>4. \A i \in 1 .. Len(Tail(s)) : Tail(s)[i] # Head(s)
  BY <1>1, <1>2, <1>3 DEF Distinct
<1>5. ASSUME NEW i \in 1 .. Len(Tail(s)), NEW k \in 1 .. Len(Tail(s)), Tail(s)[i] = Tail(s)[k]
      PROVE  i = k
  <2>1. i + 1 = k + 1
    BY <1>1, <1>5 DEF Distinct
  <2>2. QED
    BY <1>3, <2>1
<1>6. QED
  BY <1>4, <1>5 DEF Distinct, Elements

(* What park leaves of an entry. *)
LEMMA MergeIs ==
    ASSUME TypeOK, NEW req \in Reqs, req.need = {} \/ req.need \in OwedNeeds,
           NEW reason, NEW need \in OwedNeeds, NEW deadline
    PROVE  /\ Merge(req, reason, need, deadline).queued
           /\ Merge(req, reason, need, deadline).need \in OwedNeeds
           /\ Merge(req, reason, need, deadline).need = req.need \cup need
<1>1. Merge(req, reason, need, deadline).need = req.need \cup need /\ Merge(req, reason, need, deadline).queued
  BY DEF Merge
<1>2. req.need \cup need \in OwedNeeds
  BY DEF OwedNeeds, NeedFlush, NeedPublish
<1>3. QED
  BY <1>1, <1>2

(* What is owed are need-bits. *)
LEMMA OwedAreNeeds == OwedNeeds \subseteq Needs
  BY DEF OwedNeeds, Needs

(* park keeps the queue and the entries in step. *)
LEMMA ParkCoherent ==
    ASSUME TypeOK, Coherent, NEW id \in Ids, NEW reason, NEW need \in OwedNeeds, NEW deadline,
           Park(id, reason, need, deadline)
    PROVE  Coherent' /\ Len(pendq') \in Nat /\ Len(pendq) <= Len(pendq')
<1>1. pend \in [Ids -> Reqs] /\ pendq \in Seq(Ids)
  BY DEF TypeOK
<1> DEFINE m == Merge(pend[id], reason, need, deadline)
<1>2. pend[id].need = {} \/ pend[id].need \in OwedNeeds
  BY DEF Coherent, NoReq
<1>3. m.queued /\ m.need \in OwedNeeds
  BY <1>1, <1>2, MergeIs
<1>4. pend' = [pend EXCEPT ![id] = m]
  BY DEF Park
<1> HIDE DEF m
<1>5. pend'[id] = m /\ \A d \in Ids : d # id => pend'[d] = pend[d]
  BY <1>1, <1>4
<1>6. {d \in Ids : pend'[d].queued} = {d \in Ids : pend[d].queued} \cup {id}
  BY <1>3, <1>5
<1>7. \A d \in Ids : IF pend'[d].queued THEN pend'[d].need \in OwedNeeds ELSE pend'[d] = NoReq
  BY <1>3, <1>5 DEF Coherent
<1>8. CASE pend[id].queued
  <2>1. pendq' = pendq
    BY <1>8 DEF Park
  <2>2. {d \in Ids : pend'[d].queued} = {d \in Ids : pend[d].queued}
    BY <1>6, <1>8
  <2>3. QED
    BY <1>1, <1>7, <2>1, <2>2 DEF Coherent
<1>9. CASE ~pend[id].queued
  <2>1. pendq' = Append(pendq, id)
    BY <1>9 DEF Park
  <2>2. id \notin Elements(pendq)
    BY <1>9 DEF Coherent
  <2>3. Elements(pendq') = Elements(pendq) \cup {id} /\ Len(pendq') = Len(pendq) + 1 /\ Len(pendq) \in Nat
    BY <1>1, <2>1, Appended
  <2>4. Distinct(pendq')
    BY <1>1, <2>1, <2>2, DistinctAppend DEF Coherent
  <2>5. Elements(pendq') = {d \in Ids : pend'[d].queued}
    BY <1>6, <2>3 DEF Coherent
  <2>6. QED
    BY <1>7, <2>3, <2>4, <2>5 DEF Coherent
<1>10. QED
  BY <1>8, <1>9

(* Nothing of the pending work moves. *)
LEMMA CoherentUnmoved ==
    ASSUME Coherent, UNCHANGED <<pend, pendq>>
    PROVE  Coherent'
  BY DEF Coherent

(* sendJob keeps them in step. *)
LEMMA SendCoherent ==
    ASSUME TypeOK, Coherent, NEW j, j.id \in Ids, j.need \in OwedNeeds, SendJob(j)
    PROVE  Coherent' /\ Len(pendq') \in Nat /\ Len(pendq) <= Len(pendq')
<1>1. CASE Len(jobs) < FlushDepth
  <2>1. pend' = pend /\ pendq' = pendq
    BY <1>1 DEF SendJob
  <2>2. Len(pendq) \in Nat
    BY DEF TypeOK
  <2>3. QED
    BY <2>1, <2>2, CoherentUnmoved
<1>2. CASE ~(Len(jobs) < FlushDepth)
  <2>1. Park(j.id, j.reason, j.need, j.deadline)
    BY <1>2 DEF SendJob
  <2>2. QED
    BY <2>1, ParkCoherent
<1>3. QED
  BY <1>1, <1>2

(* The sweep leaves no tombstone. *)
LEMMA SweepCoherent ==
    ASSUME TypeOK, Coherent, pendq' = pendq, pend' = [id \in Ids |-> Swept(pend[id])]
    PROVE  Coherent'
<1>1. ASSUME NEW id \in Ids
      PROVE  /\ pend'[id].queued <=> pend[id].queued
             /\ IF pend'[id].queued THEN pend'[id].need \in OwedNeeds ELSE pend'[id] = NoReq
  <2>1. pend[id] \in Reqs /\ pend'[id] = Swept(pend[id])
    BY DEF TypeOK
  <2>2. CASE ~Abandoned(pend[id])
    BY <2>1, <2>2 DEF Coherent, Swept
  <2>3. CASE Abandoned(pend[id])
    <3>1. NeedPublish \in pend[id].need
      BY <2>3 DEF Abandoned
    <3>2. pend[id].need = {NeedFlush, NeedPublish} /\ pend[id].queued
      BY <3>1 DEF Coherent, OwedNeeds, NoReq, NeedPublish, NeedFlush
    <3>3. pend[id].need # {NeedPublish} /\ pend[id].need \ {NeedPublish} = {NeedFlush}
      BY <3>2 DEF NeedPublish, NeedFlush
    <3>4. pend'[id] = [pend[id] EXCEPT !.need = @ \ {NeedPublish}, !.deadline = NoDeadline]
      BY <2>1, <2>3, <3>3 DEF Swept
    <3>5. pend'[id].queued = pend[id].queued /\ pend'[id].need = {NeedFlush}
      BY <2>1, <3>3, <3>4 DEF Reqs
    <3>6. QED
      BY <3>2, <3>5 DEF OwedNeeds
  <2>4. QED
    BY <2>2, <2>3
<1>2. QED
  BY <1>1 DEF Coherent

(* The head leaves the queue, its entry with it. *)
LEMMA PopCoherent ==
    ASSUME TypeOK, Coherent, pendq # << >>, pend' = [pend EXCEPT ![Head(pendq)] = NoReq], pendq' = Tail(pendq)
    PROVE  Coherent'
<1> DEFINE id == Head(pendq)
<1>1. pend \in [Ids -> Reqs] /\ pendq \in Seq(Ids)
  BY DEF TypeOK
<1>2. id \in Ids /\ Elements(pendq) = {id} \cup Elements(Tail(pendq))
  BY <1>1, Tailed
<1>3. Distinct(Tail(pendq)) /\ id \notin Elements(Tail(pendq))
  BY <1>1, DistinctTail DEF Coherent
<1> HIDE DEF id
<1>4. pend'[id] = NoReq /\ ~NoReq.queued /\ \A d \in Ids : d # id => pend'[d] = pend[d]
  BY <1>1, <1>2 DEF NoReq, id
<1>5. {d \in Ids : pend'[d].queued} = {d \in Ids : pend[d].queued} \ {id}
  BY <1>4
<1>6. Elements(Tail(pendq)) = Elements(pendq) \ {id}
  BY <1>2, <1>3
<1>7. QED
  BY <1>3, <1>4, <1>5, <1>6 DEF Coherent

(* The head goes to the back. *)
LEMMA RotateCoherent ==
    ASSUME TypeOK, Coherent, pendq # << >>, NEW m, m.queued, m.need \in OwedNeeds,
           pend[Head(pendq)].queued,
           pend' = [pend EXCEPT ![Head(pendq)] = m], pendq' = Append(Tail(pendq), Head(pendq))
    PROVE  Coherent'
<1> DEFINE id == Head(pendq)
<1>1. pend \in [Ids -> Reqs] /\ pendq \in Seq(Ids)
  BY DEF TypeOK
<1>2. id \in Ids /\ Elements(pendq) = {id} \cup Elements(Tail(pendq)) /\ Tail(pendq) \in Seq(Ids)
  BY <1>1, Tailed
<1>3. Distinct(Tail(pendq)) /\ id \notin Elements(Tail(pendq))
  BY <1>1, DistinctTail DEF Coherent
<1> HIDE DEF id
<1>4. pend'[id] = m /\ \A d \in Ids : d # id => pend'[d] = pend[d]
  BY <1>1, <1>2 DEF id
<1>5. {d \in Ids : pend'[d].queued} = {d \in Ids : pend[d].queued}
  BY <1>4 DEF id
<1>6. Distinct(pendq') /\ Elements(pendq') = Elements(pendq)
  <2>1. pendq' = Append(Tail(pendq), id)
    BY DEF id
  <2>2. Distinct(pendq')
    BY <1>2, <1>3, <2>1, DistinctAppend
  <2>3. Elements(Append(Tail(pendq), id)) = Elements(Tail(pendq)) \cup {id}
    <3> DEFINE t == Tail(pendq)
    <3>1. t \in Seq(Ids)
      BY <1>2
    <3> HIDE DEF t
    <3>2. Elements(Append(t, id)) = Elements(t) \cup {id}
      BY <1>2, <3>1, Appended
    <3>3. QED
      BY <3>2, Zenon DEF t
  <2>4. Elements(pendq') = Elements(Append(Tail(pendq), id))
    BY <2>1
  <2>5. QED
    BY <1>2, <2>2, <2>3, <2>4
<1>7. \A d \in Ids : IF pend'[d].queued THEN pend'[d].need \in OwedNeeds ELSE pend'[d] = NoReq
  BY <1>4 DEF Coherent
<1>8. QED
  BY <1>5, <1>6, <1>7 DEF Coherent

-----------------------------------------------------------------------------
(***************************************************************************)
(* Where work travels: the queue, the jobs channel and the batch.          *)
(***************************************************************************)

(* An event joins the queue. *)
LEMMA QueueGrows ==
    ASSUME TypeOK, NEW e \in Events, queue' = Append(queue, e)
    PROVE  /\ Retries' = Retries \cup {d \in {e} : d.kind = "evRetry"}
           /\ Waiting' = Waiting \cup {d \in {e} : d.kind = "evFrag"}
           /\ Elements(queue') = Elements(queue) \cup {e}
<1>1. Elements(queue') = Elements(queue) \cup {e}
  BY Appended DEF TypeOK
<1>2. QED
  BY <1>1 DEF Retries, Waiting

(* The worker takes the queue's head. *)
LEMMA QueueShrinks ==
    ASSUME TypeOK, queue # << >>, queue' = Tail(queue)
    PROVE  /\ Retries = Retries' \cup {d \in {Head(queue)} : d.kind = "evRetry"}
           /\ Waiting = Waiting' \cup {d \in {Head(queue)} : d.kind = "evFrag"}
           /\ Elements(queue) = Elements(queue') \cup {Head(queue)}
           /\ Head(queue) \in Events
<1>1. Elements(queue) = {Head(queue)} \cup Elements(queue') /\ Head(queue) \in Events
  BY Tailed DEF TypeOK
<1>2. QED
  BY <1>1 DEF Retries, Waiting

(* What is under way keeps its place. *)
LEMMA FlowUnmoved ==
    /\ UNCHANGED queue => Retries' = Retries /\ Waiting' = Waiting
    /\ UNCHANGED <<jobs, batch>> => JobsUnderWay' = JobsUnderWay
  BY DEF Retries, Waiting, JobsUnderWay, Elements

(* A job is handed over. *)
LEMMA JobsGrow ==
    ASSUME TypeOK, NEW j \in Jobs, jobs' = Append(jobs, j), batch' = batch
    PROVE  JobsUnderWay' = JobsUnderWay \cup {j} /\ Elements(jobs') = Elements(jobs) \cup {j}
<1>1. Elements(jobs') = Elements(jobs) \cup {j} /\ Elements(batch') = Elements(batch)
  BY Appended DEF TypeOK
<1>2. QED
  BY <1>1 DEF JobsUnderWay

(* The flusher gathers its batch. *)
LEMMA GatherIs ==
    ASSUME TypeOK, BatchInv, Gather
    PROVE  /\ JobsUnderWay' = JobsUnderWay /\ Elements(batch) = {} /\ Elements(jobs') = {}
           /\ Elements(batch') = Elements(jobs)
<1>1. batch = << >> /\ jobs' = << >> /\ batch' = jobs
  BY DEF Gather, BatchInv
<1>2. Elements(<< >>) = {}
  BY DEF Elements
<1>3. QED
  BY <1>1, <1>2 DEF JobsUnderWay

(* The flusher is done with a job. *)
LEMMA BatchShrinks ==
    ASSUME TypeOK, BatchInv, fpc = "process", NextJob, jobs' = jobs
    PROVE  JobsUnderWay = JobsUnderWay' \cup {Head(batch)} /\ Head(batch) \in JobsUnderWay
<1>1. Elements(batch) = {Head(batch)} \cup Elements(batch') /\ Elements(jobs') = Elements(jobs)
  BY BatchHead, NextJobIs
<1>2. QED
  BY <1>1 DEF JobsUnderWay

(* sendJob hands the job over or parks it. *)
LEMMA SendIs ==
    ASSUME TypeOK, NEW j \in Jobs, SendJob(j), batch' = batch
    PROVE  \/ /\ JobsUnderWay' = JobsUnderWay \cup {j} /\ UNCHANGED <<pend, pendq>>
              /\ jobs' = Append(jobs, j)
           \/ JobsUnderWay' = JobsUnderWay /\ Park(j.id, j.reason, j.need, j.deadline) /\ UNCHANGED jobs
<1>1. CASE Len(jobs) < FlushDepth
  BY <1>1, JobsGrow DEF SendJob
<1>2. CASE ~(Len(jobs) < FlushDepth)
  BY <1>2, FlowUnmoved DEF SendJob
<1>3. QED
  BY <1>1, <1>2

-----------------------------------------------------------------------------
(***************************************************************************)
(* What each of the worker's steps does, by name.                          *)
(***************************************************************************)
FragmentJob(e) == [id |-> e.id, reason |-> NoReason, need |-> {NeedFlush}, frags |-> {e.n}, deadline |-> NoDeadline]
Stored(e) == [id |-> e.id, n |-> e.n, at |-> Clamped(e.at)]

(* A fragment is lost, stored, or stored and forwarded. *)
LEMMA FragmentIs ==
    ASSUME TypeOK, HandleFragment
    PROVE  LET e == Head(queue) IN
           /\ wpc = "select" /\ queue # << >> /\ e \in Events /\ e.kind = "evFrag" /\ queue' = Tail(queue)
           /\ e.id \in Ids /\ e.n \in 1 .. MaxInputs /\ FragmentJob(e) \in Jobs /\ Stored(e) \in Fragments
           /\ e \in Waiting /\ Retries' = Retries /\ Waiting = Waiting' \cup {e}
           /\ UNCHANGED <<now, inputs, ring, wpc, left, tickNow, settled, fpc, batch, failed,
                          lastDeadline, localDeadline, outstanding, credit>>
           /\ \/ UNCHANGED <<disk, jobs, pend, pendq, kept>>
              \/ disk' = Append(disk, Stored(e)) /\ ~Has(e.id) /\ UNCHANGED <<jobs, pend, pendq, kept>>
              \/ /\ disk' = Append(disk, Stored(e)) /\ SendJob(FragmentJob(e)) /\ kept' = kept \cup {e.n}
<1> DEFINE e == Head(queue)
<1>1. wpc = "select" /\ queue # << >> /\ e.kind = "evFrag" /\ queue' = Tail(queue)
  BY DEF HandleFragment
<1>2. e \in Events /\ Retries = Retries' /\ Waiting = Waiting' \cup {e}
  BY <1>1, QueueShrinks
<1>3. e.id \in Ids /\ e.n \in 1 .. MaxInputs /\ Clamped(e.at) \in Nat
  BY <1>1, <1>2, EventFields, ClampedIs
<1>4. FragmentJob(e) \in Jobs /\ Stored(e) \in Fragments
  BY <1>3 DEF FragmentJob, Stored, Jobs, Fragments, Needs, NoDeadline
<1>5. \/ UNCHANGED <<disk, jobs, pend, pendq, kept>>
      \/ disk' = Append(disk, Stored(e)) /\ ~Has(e.id) /\ UNCHANGED <<jobs, pend, pendq, kept>>
      \/ /\ disk' = Append(disk, Stored(e)) /\ SendJob(FragmentJob(e)) /\ kept' = kept \cup {e.n}
  BY DEF HandleFragment, FragmentJob, Stored
<1>6. UNCHANGED <<now, inputs, ring, wpc, left, tickNow, settled, fpc, batch, failed,
                  lastDeadline, localDeadline, outstanding, credit>>
  BY DEF HandleFragment, flushVars, keepVars, pubVars
<1>7. QED
  BY <1>1, <1>2, <1>3, <1>4, <1>5, <1>6

KeepDeadline(e) == Clamped(e.at) + Window
KeepNeed(e) == IF e.origin = "OriginLocal" THEN {NeedFlush, NeedPublish} ELSE {NeedFlush}
KeepJob(e) == [id |-> e.id, reason |-> Reason, need |-> KeepNeed(e), frags |-> Collected(e.id),
               deadline |-> KeepDeadline(e)]

(* A keep is handed over, parked, or has nothing to flush. *)
LEMMA KeepIs ==
    ASSUME TypeOK, HandleKeep
    PROVE  LET e == Head(queue) IN
           /\ wpc = "select" /\ queue # << >> /\ e \in Events /\ e.kind = "evKeep" /\ queue' = Tail(queue)
           /\ e.id \in Ids /\ KeepDeadline(e) \in Nat /\ KeepDeadline(e) <= now + Window
           /\ KeepDeadline(e) <= e.at + Window /\ KeepDeadline(e) # 0 /\ KeepNeed(e) \in OwedNeeds
           /\ KeepJob(e) \in Jobs /\ ~Has(e.id)
           /\ Retries' = Retries /\ Waiting' = Waiting
           /\ ring' = Append(ring, [id |-> e.id, deadline |-> KeepDeadline(e)])
           /\ kept' = kept \cup Collected(e.id)
           /\ lastDeadline' = [lastDeadline EXCEPT ![e.id] = KeepDeadline(e)]
           /\ UNCHANGED <<now, inputs, disk, sealed, wpc, left, tickNow, settled, fpc, batch, failed>>
           /\ \/ Park(e.id, Reason, KeepNeed(e), KeepDeadline(e)) /\ UNCHANGED jobs
              \/ /\ Collected(e.id) = {} /\ NeedPublish \notin KeepNeed(e) /\ UNCHANGED <<jobs, pend, pendq>>
              \/ SendJob(KeepJob(e))
<1> DEFINE e == Head(queue)
<1>1. wpc = "select" /\ queue # << >> /\ e.kind = "evKeep" /\ queue' = Tail(queue) /\ ~Has(e.id)
  BY DEF HandleKeep
<1>2. e \in Events /\ Retries = Retries' /\ Waiting = Waiting'
  BY <1>1, QueueShrinks
<1>3. e.id \in Ids /\ Clamped(e.at) \in Nat /\ Clamped(e.at) <= now /\ Clamped(e.at) <= e.at /\ e.at \in Nat
  BY <1>1, <1>2, EventFields, ClampedIs
<1>4. now \in Nat
  BY WorkerBounds DEF TypeOK
<1>5. KeepDeadline(e) \in Nat /\ KeepDeadline(e) <= now + Window /\ KeepDeadline(e) <= e.at + Window /\ KeepDeadline(e) # 0
  <2> HIDE DEF e
  <2>1. QED
    BY <1>3, <1>4, WindowPositive DEF KeepDeadline
<1>6. KeepNeed(e) \in OwedNeeds
  BY DEF KeepNeed, OwedNeeds
<1>7. KeepJob(e) \in Jobs
  <2>1. KeepNeed(e) \in Needs /\ Collected(e.id) \subseteq 1 .. MaxInputs
    BY <1>3, <1>6, OwedAreNeeds, CollectedIs
  <2> HIDE DEF e
  <2>2. QED
    BY <1>3, <1>5, <2>1 DEF KeepJob, Jobs
<1>8. /\ ring' = Append(ring, [id |-> e.id, deadline |-> KeepDeadline(e)])
      /\ kept' = kept \cup Collected(e.id)
      /\ lastDeadline' = [lastDeadline EXCEPT ![e.id] = KeepDeadline(e)]
  BY DEF HandleKeep, KeepDeadline
<1>9. UNCHANGED <<now, inputs, disk, sealed, wpc, left, tickNow, settled, fpc, batch, failed>>
  BY DEF HandleKeep, diskVars, flushVars
<1>10. \/ Park(e.id, Reason, KeepNeed(e), KeepDeadline(e)) /\ UNCHANGED jobs
       \/ /\ Collected(e.id) = {} /\ NeedPublish \notin KeepNeed(e) /\ UNCHANGED <<jobs, pend, pendq>>
       \/ SendJob(KeepJob(e))
  BY DEF HandleKeep, KeepDeadline, KeepNeed, KeepJob
<1> HIDE DEF e
<1>11. QED
  BY <1>1, <1>2, <1>3, <1>5, <1>6, <1>7, <1>8, <1>9, <1>10 DEF e

-----------------------------------------------------------------------------
(***************************************************************************)
(* The types, the pending queue and the flusher's batch, action by action. *)
(***************************************************************************)
Base == PendqCoherent /\ NeedsInv /\ BatchInv

BaseParts ==
    /\ TypeOK /\ Coherent /\ FlowNeeds /\ BatchInv
    /\ left <= Len(pendq) /\ (wpc = "select" => left = 0)

(* Base by its parts. *)
LEMMA BaseIs == Base <=> BaseParts
  BY CoherentIs DEF Base, BaseParts

(* The clock and the arrivals touch no work under way. *)
LEMMA ArrivalsIs ==
    ASSUME TypeOK,
           \/ Advance
           \/ \E id \in Ids, at \in Stamps : ArriveFragment(id, at)
           \/ \E id \in Ids, at \in Stamps, o \in Origins : ArriveKeep(id, o, at)
           \/ HandleDuplicateKeep
    PROVE  /\ Retries' = Retries /\ JobsUnderWay' = JobsUnderWay
           /\ UNCHANGED <<disk, sealed, ring, pend, pendq, wpc, left, tickNow, jobs, fpc, batch, failed, kept, settled,
                          lastDeadline, localDeadline, outstanding, credit>>
<1>0. TypeOK
  OBVIOUS
<1>1. UNCHANGED <<disk, sealed, ring, pend, pendq, wpc, left, tickNow, jobs, fpc, batch, failed, kept, settled,
                  lastDeadline, localDeadline, outstanding, credit>>
  BY DEF Advance, ArriveFragment, ArriveKeep, HandleDuplicateKeep, workVars, diskVars, flushVars, keepVars, pubVars
<1>2. JobsUnderWay' = JobsUnderWay
  BY <1>1, FlowUnmoved
<1>3. Retries' = Retries
  <2>1. CASE Advance
    BY <2>1, FlowUnmoved DEF Advance
  <2>2. ASSUME NEW id \in Ids, NEW at \in Stamps, ArriveFragment(id, at)
        PROVE  Retries' = Retries
    <3> DEFINE e == [kind |-> "evFrag", id |-> id, at |-> at, n |-> inputs + 1]
    <3>1. queue' = Append(queue, e) /\ e.kind # "evRetry"
      BY <2>2 DEF ArriveFragment
    <3>2. e \in Events
      <4>1. inputs + 1 \in 1 .. MaxInputs
        BY <1>0, <2>2, WorkerBounds DEF ArriveFragment, TypeOK
      <4>2. at \in Nat
        BY <1>0, WorkerBounds, StampBounds DEF TypeOK, Stamps
      <4>3. QED
        BY <4>1, <4>2 DEF Events
    <3> HIDE DEF e
    <3>3. QED
      BY <1>0, <3>1, <3>2, QueueGrows
  <2>3. ASSUME NEW id \in Ids, NEW at \in Stamps, NEW o \in Origins, ArriveKeep(id, o, at)
        PROVE  Retries' = Retries
    <3> DEFINE e == [kind |-> "evKeep", id |-> id, at |-> at, origin |-> o]
    <3>1. queue' = Append(queue, e) /\ e.kind # "evRetry"
      BY <2>3 DEF ArriveKeep
    <3>2. e \in Events
      BY <2>3, WorkerBounds, StampBounds, <1>0 DEF Events, TypeOK, Stamps
    <3> HIDE DEF e
    <3>3. QED
      BY <1>0, <3>1, <3>2, QueueGrows
  <2>4. CASE HandleDuplicateKeep
    BY <1>0, <2>4, QueueShrinks DEF HandleDuplicateKeep
  <2>5. QED
    BY <2>1, <2>2, <2>3, <2>4
<1>4. QED
  BY <1>1, <1>2, <1>3

(* The same equivalence of the next state. *)
LEMMA BaseIsNext == Base' <=> BaseParts'
  BY DEF Base, BaseParts, PendqCoherent, NeedsInv, Coherent, FlowNeeds, Distinct

(* Arrivals, the clock and duplicate keeps move no intent. *)
LEMMA BaseArrivals ==
    ASSUME Base,
           \/ Advance
           \/ \E id \in Ids, at \in Stamps : ArriveFragment(id, at)
           \/ \E id \in Ids, at \in Stamps, o \in Origins : ArriveKeep(id, o, at)
           \/ HandleDuplicateKeep
    PROVE  Base'
<1>0. BaseParts
  BY BaseIs
<1>1. TypeOK /\ TypeOK'
  BY <1>0, TypeArrivals DEF BaseParts
<1>2. UNCHANGED <<pend, pendq, left, wpc, jobs, batch, fpc, failed>>
  BY DEF Advance, ArriveFragment, ArriveKeep, HandleDuplicateKeep, workVars, flushVars
<1>3. Retries' = Retries
  BY <1>1, ArrivalsIs
<1>4. FlowNeeds'
  BY <1>0, <1>2, <1>3, FlowUnmoved DEF FlowNeeds, BaseParts
<1>5. Coherent' /\ BatchInv'
  BY <1>0, <1>2, CoherentUnmoved DEF BaseParts, BatchInv
<1>6. BaseParts'
  BY <1>0, <1>1, <1>2, <1>4, <1>5 DEF BaseParts
<1>7. QED
  BY <1>6, BaseIsNext

(* What the worker handles is handed over or parked, once. *)
LEMMA BaseHandle ==
    ASSUME Base, Handle
    PROVE  Base'
<1>0. BaseParts /\ TypeOK /\ Coherent
  BY BaseIs DEF BaseParts
<1> DEFINE e == Head(queue)
<1>1. CASE HandleDuplicateKeep
  BY <1>1, BaseArrivals
<1>2. CASE HandleFragment
  <2>1. /\ wpc = "select" /\ e.id \in Ids /\ FragmentJob(e) \in Jobs /\ Retries' = Retries
        /\ UNCHANGED <<wpc, left, fpc, batch, failed>>
        /\ (UNCHANGED <<jobs, pend, pendq>> \/ SendJob(FragmentJob(e)))
    BY <1>0, <1>2, FragmentIs
  <2> DEFINE j == FragmentJob(e)
  <2>2. j.id = e.id /\ j.need \in OwedNeeds
    BY DEF FragmentJob, OwedNeeds
  <2>3. TypeOK'
    BY <1>0, <1>2, TypeFragment
  <2> HIDE DEF j, e
  <2>4. CASE UNCHANGED <<jobs, pend, pendq>>
    <3>1. Coherent' /\ FlowNeeds' /\ Len(pendq') = Len(pendq)
      BY <1>0, <2>1, <2>4, CoherentUnmoved, FlowUnmoved DEF FlowNeeds, BaseParts
    <3>2. BaseParts'
      BY <1>0, <2>1, <2>3, <3>1 DEF BaseParts, BatchInv
    <3>3. QED
      BY <3>2, BaseIsNext
  <2>5. CASE SendJob(j)
    <3>1. Coherent' /\ Len(pendq') \in Nat /\ left' <= Len(pendq')
      <4>1. Coherent' /\ Len(pendq') \in Nat /\ Len(pendq) <= Len(pendq')
        BY <1>0, <2>1, <2>2, <2>5, SendCoherent
      <4>2. left' = 0
        BY <1>0, <2>1 DEF BaseParts
      <4>3. QED
        BY <4>1, <4>2
    <3>2. JobsUnderWay' \subseteq JobsUnderWay \cup {j}
      BY <1>0, <2>1, <2>5, SendIs DEF j
    <3>3. FlowNeeds'
      BY <1>0, <2>1, <2>2, <3>2 DEF FlowNeeds, BaseParts
    <3>4. BaseParts'
      BY <1>0, <2>1, <2>3, <3>1, <3>3 DEF BaseParts, BatchInv
    <3>5. QED
      BY <3>4, BaseIsNext
  <2>6. QED
    BY <2>1, <2>4, <2>5 DEF j
<1>3. CASE HandleKeep
  <2>1. /\ wpc = "select" /\ e.id \in Ids /\ KeepJob(e) \in Jobs /\ Retries' = Retries /\ KeepNeed(e) \in OwedNeeds
        /\ UNCHANGED <<wpc, left, fpc, batch, failed>>
        /\ \/ Park(e.id, Reason, KeepNeed(e), KeepDeadline(e)) /\ UNCHANGED jobs
           \/ UNCHANGED <<jobs, pend, pendq>>
           \/ SendJob(KeepJob(e))
    BY <1>0, <1>3, KeepIs
  <2> DEFINE j == KeepJob(e)
  <2>2. j.id = e.id /\ j.need \in OwedNeeds
    BY <2>1 DEF KeepJob
  <2>3. TypeOK'
    BY <1>0, <1>3, TypeKeep
  <2> HIDE DEF j, e
  <2>4. Coherent' /\ left' <= Len(pendq')
    <3>1. Coherent' /\ Len(pendq') \in Nat /\ Len(pendq) <= Len(pendq')
      <4>0. Len(pendq) \in Nat
        BY <1>0 DEF TypeOK
      <4>1. CASE Park(e.id, Reason, KeepNeed(e), KeepDeadline(e))
        BY <1>0, <2>1, <4>1, ParkCoherent
      <4>2. CASE UNCHANGED <<jobs, pend, pendq>>
        BY <1>0, <4>0, <4>2, CoherentUnmoved
      <4>3. CASE SendJob(j)
        BY <1>0, <2>1, <2>2, <4>3, SendCoherent
      <4>4. QED
        BY <2>1, <4>1, <4>2, <4>3 DEF j
    <3>2. left' = 0
      BY <1>0, <2>1 DEF BaseParts
    <3>3. QED
      BY <3>1, <3>2
  <2>5. JobsUnderWay' \subseteq JobsUnderWay \cup {j}
    BY <1>0, <2>1, SendIs, FlowUnmoved DEF j
  <2>6. FlowNeeds'
    BY <1>0, <2>1, <2>2, <2>5 DEF FlowNeeds, BaseParts
  <2>7. BaseParts'
    BY <1>0, <2>1, <2>3, <2>4, <2>6 DEF BaseParts, BatchInv
  <2>8. QED
    BY <2>7, BaseIsNext
<1>4. CASE HandleRetry
  <2>1. /\ wpc = "select" /\ queue # << >> /\ e.kind = "evRetry" /\ queue' = Tail(queue)
        /\ Park(e.id, e.reason, e.need, e.deadline)
        /\ UNCHANGED <<wpc, left, fpc, batch, failed, jobs>>
    BY <1>4 DEF HandleRetry, flushVars
  <2>2. TypeOK'
    BY <1>0, <1>4, TypeRetry
  <2>3. e \in Events /\ Retries = Retries' \cup {e}
    BY <1>0, <2>1, QueueShrinks
  <2> HIDE DEF e
  <2>4. e.id \in Ids /\ e.need \in OwedNeeds
    BY <1>0, <2>3, EventFields DEF BaseParts, FlowNeeds
  <2>5. Coherent' /\ Len(pendq') \in Nat
    BY <1>0, <2>1, <2>4, ParkCoherent
  <2>6. left' <= Len(pendq')
    BY <1>0, <2>1, <2>5 DEF BaseParts
  <2>7. FlowNeeds'
    BY <1>0, <2>1, <2>3, FlowUnmoved DEF BaseParts, FlowNeeds
  <2>8. BaseParts'
    BY <1>0, <2>1, <2>2, <2>5, <2>6, <2>7 DEF BaseParts, BatchInv
  <2>9. QED
    BY <2>8, BaseIsNext
<1>5. QED
  BY <1>1, <1>2, <1>3, <1>4 DEF Handle

(* The sweep leaves every queued intent with something owed. *)
LEMMA BaseTick ==
    ASSUME Base, TickBegin
    PROVE  Base'
<1>0. BaseParts /\ TypeOK /\ Coherent
  BY BaseIs DEF BaseParts
<1>1. /\ wpc' = "drain" /\ pend' = [id \in Ids |-> Swept(pend[id])] /\ left' = Len(pendq)
      /\ UNCHANGED <<queue, pendq, jobs, fpc, batch, failed>>
  BY DEF TickBegin, flushVars
<1>2. TypeOK' /\ Coherent'
  BY <1>0, <1>1, TypeTick, SweepCoherent
<1>3. FlowNeeds'
  BY <1>0, <1>1, FlowUnmoved DEF BaseParts, FlowNeeds
<1>4. left' <= Len(pendq')
  BY <1>0, <1>1 DEF TypeOK
<1>5. BaseParts'
  BY <1>0, <1>1, <1>2, <1>3, <1>4 DEF BaseParts, BatchInv
<1>6. QED
  BY <1>5, BaseIsNext

(* An attempt of the drain pops the head or moves it to the back. *)
LEMMA BaseDrain ==
    ASSUME Base, Drain
    PROVE  Base'
<1>0. BaseParts /\ TypeOK /\ Coherent /\ PendqCoherent
  BY BaseIs DEF BaseParts, Base
<1>1. TypeOK' /\ UNCHANGED <<queue, fpc, batch, failed>>
  BY <1>0, TypeDrain DEF Drain, DrainDone, DrainDrop, DrainSend, DrainFull, DrainCollectErr, flushVars
<1> DEFINE id == Head(pendq)
<1>2. CASE DrainDone \/ DrainFull
  <2>1. left' = 0 /\ wpc' = "select" /\ UNCHANGED <<pend, pendq, jobs>>
    BY <1>2 DEF DrainDone, DrainFull
  <2>2. Coherent' /\ FlowNeeds'
    BY <1>0, <1>1, <2>1, CoherentUnmoved, FlowUnmoved DEF BaseParts, FlowNeeds
  <2>3. left' <= Len(pendq')
    BY <1>0, <2>1 DEF TypeOK
  <2>4. BaseParts'
    BY <1>0, <1>1, <2>1, <2>2, <2>3 DEF BaseParts, BatchInv
  <2>5. QED
    BY <2>4, BaseIsNext
<1>3. CASE DrainDrop \/ DrainSend
  <2>1. /\ wpc = "drain" /\ left > 0 /\ pend' = [pend EXCEPT ![id] = NoReq] /\ pendq' = Tail(pendq)
        /\ left' = left - 1 /\ wpc' = "drain"
    BY <1>3 DEF DrainDrop, DrainSend
  <2>2. pendq # << >> /\ left - 1 <= Len(Tail(pendq)) /\ id \in Ids /\ pend[id] \in Reqs /\ pend[id].queued
    BY <1>0, <2>1, DrainHead
  <2>3. Coherent'
    BY <1>0, <2>1, <2>2, PopCoherent
  <2>4. left' <= Len(pendq')
    BY <2>1, <2>2
  <2>5. FlowNeeds'
    <3>1. CASE UNCHANGED jobs
      BY <1>0, <1>1, <3>1, FlowUnmoved DEF BaseParts, FlowNeeds
    <3>2. CASE DrainSend
      <4> DEFINE j == [id |-> id, reason |-> pend[id].reason, need |-> pend[id].need,
                       frags |-> Collected(id), deadline |-> pend[id].deadline]
      <4>1. jobs' = Append(jobs, j)
        BY <3>2 DEF DrainSend
      <4>2. Collected(id) \subseteq 1 .. MaxInputs
        BY <1>0, <2>2, CollectedIs
      <4>3. j \in Jobs
        BY <2>2, <4>2 DEF Jobs, Reqs
      <4>4. j.need \in OwedNeeds
        BY <1>0, <2>2 DEF Coherent
      <4> HIDE DEF j
      <4>5. JobsUnderWay' = JobsUnderWay \cup {j}
        BY <1>0, <1>1, <4>1, <4>3, JobsGrow
      <4>6. QED
        BY <1>0, <1>1, <4>4, <4>5, FlowUnmoved DEF BaseParts, FlowNeeds
    <3>3. QED
      BY <1>3, <3>1, <3>2 DEF DrainDrop
  <2>6. BaseParts'
    BY <1>0, <1>1, <2>1, <2>3, <2>4, <2>5 DEF BaseParts, BatchInv
  <2>7. QED
    BY <2>6, BaseIsNext
<1>4. CASE DrainCollectErr
  <2> DEFINE m == Merge(NoReq, pend[id].reason, pend[id].need, pend[id].deadline)
  <2>1. /\ wpc = "drain" /\ left > 0 /\ pend' = [pend EXCEPT ![id] = m] /\ pendq' = Append(Tail(pendq), id)
        /\ left' = left - 1 /\ wpc' = "drain" /\ UNCHANGED jobs
    BY <1>4 DEF DrainCollectErr
  <2>2. /\ pendq # << >> /\ left - 1 <= Len(Tail(pendq)) /\ left - 1 \in Nat /\ id \in Ids /\ pend[id] \in Reqs
        /\ pend[id].queued /\ Tail(pendq) \in Seq(Ids)
    BY <1>0, <2>1, DrainHead
  <2>3. NoReq \in Reqs /\ NoReq.need = {}
    BY DEF NoReq, Reqs, Needs, NoReason, Reason, NoDeadline
  <2>4. pend[id].need \in OwedNeeds
    BY <1>0, <2>2 DEF Coherent
  <2>5. m.queued /\ m.need \in OwedNeeds
    <3> HIDE DEF id
    <3>1. QED
      BY <1>0, <2>3, <2>4, MergeIs
  <2> HIDE DEF m
  <2>6. Coherent'
    BY <1>0, <2>1, <2>2, <2>5, RotateCoherent
  <2>7. left' <= Len(pendq')
    <3>1. Len(Append(Tail(pendq), id)) = Len(Tail(pendq)) + 1 /\ Len(Tail(pendq)) \in Nat
      BY <2>2, AppendProperties
    <3>2. QED
      BY <2>1, <2>2, <3>1
  <2>8. FlowNeeds'
    BY <1>0, <1>1, <2>1, FlowUnmoved DEF BaseParts, FlowNeeds
  <2>9. BaseParts'
    BY <1>0, <1>1, <2>1, <2>6, <2>7, <2>8 DEF BaseParts, BatchInv
  <2>10. QED
    BY <2>9, BaseIsNext
<1>5. QED
  BY <1>2, <1>3, <1>4 DEF Drain

(* The flusher sends back what is owed, through the queue. *)
LEMMA BaseFlush ==
    ASSUME Base, Flush
    PROVE  Base'
<1>0. BaseParts /\ TypeOK /\ Coherent /\ BatchInv
  BY BaseIs DEF BaseParts
<1>1. TypeOK' /\ BatchInv' /\ UNCHANGED <<pend, pendq, left, wpc>>
  BY <1>0, TypeFlush DEF Flush, Gather, Publish, RetryPublish, Consume, ConsumeRefused, workVars
<1>2. Coherent'
  BY <1>0, <1>1, CoherentUnmoved
<1>3. FlowNeeds'
  <2>1. CASE Gather
    BY <1>0, <2>1, GatherIs, FlowUnmoved DEF Gather, BaseParts, FlowNeeds
  <2>2. CASE Publish
    BY <1>0, <2>2, FlowUnmoved DEF Publish, BaseParts, FlowNeeds
  <2>3. CASE Consume
    <3>1. fpc = "process" /\ NextJob /\ UNCHANGED <<queue, jobs>>
      BY <2>3 DEF Consume
    <3>2. QED
      BY <1>0, <3>1, BatchShrinks, FlowUnmoved DEF BaseParts, FlowNeeds
  <2>4. ASSUME NEW need \in OwedNeeds, fpc = "process", NextJob, Retry(Head(batch), need), UNCHANGED jobs
        PROVE  FlowNeeds'
    <3> DEFINE j == Head(batch)
    <3>1. j \in Jobs /\ JobsUnderWay' \subseteq JobsUnderWay
      BY <1>0, <2>4, BatchHead, BatchShrinks
    <3> DEFINE e == [kind |-> "evRetry", id |-> j.id, reason |-> j.reason, need |-> need, deadline |-> j.deadline]
    <3>2. e \in Events /\ queue' = Append(queue, e)
      <4>1. need \in Needs
        BY OwedAreNeeds
      <4> HIDE DEF j
      <4>2. Retry(j, need)
        BY <2>4 DEF j
      <4>3. QED
        BY <1>0, <3>1, <4>1, <4>2, RetryIs
    <3>3. e.need = need
      OBVIOUS
    <3> HIDE DEF e
    <3>4. Retries' \subseteq Retries \cup {e}
      BY <1>0, <3>2, QueueGrows
    <3>5. QED
      BY <1>0, <3>1, <3>3, <3>4 DEF BaseParts, FlowNeeds
  <2>5. CASE RetryPublish
    <3>1. fpc = "process" /\ NextJob /\ Retry(Head(batch), Head(batch).need) /\ UNCHANGED jobs
      BY <2>5 DEF RetryPublish
    <3>2. Head(batch).need \in OwedNeeds
      BY <1>0, <3>1, BatchShrinks DEF BaseParts, FlowNeeds
    <3>3. QED
      BY <2>4, <3>1, <3>2
  <2>6. CASE ConsumeRefused
    <3>1. fpc = "process" /\ NextJob /\ Retry(Head(batch), {NeedFlush}) /\ UNCHANGED jobs /\ {NeedFlush} \in OwedNeeds
      BY <2>6 DEF ConsumeRefused, OwedNeeds
    <3>2. QED
      BY <2>4, <3>1
  <2>7. QED
    BY <2>1, <2>2, <2>3, <2>5, <2>6 DEF Flush
<1>4. BaseParts'
  BY <1>0, <1>1, <1>2, <1>3 DEF BaseParts
<1>5. QED
  BY <1>4, BaseIsNext

(* At the start nothing is parked. *)
LEMMA BaseInit ==
    ASSUME Init
    PROVE  Base
<1>1. NoReq \in Reqs /\ NoDeadline \in Nat
  BY DEF NoReq, Reqs, Needs, NoReason, Reason, NoDeadline
<1>2. Elements(<< >>) = {} /\ ~NoReq.queued /\ Len(<< >>) = 0
  BY DEF Elements, NoReq
<1>3. /\ << >> \in Seq(Events) /\ << >> \in Seq(Fragments) /\ << >> \in Seq([id : Ids, deadline : Nat])
      /\ << >> \in Seq(Ids) /\ << >> \in Seq(Jobs)
  BY EmptySeq
<1>4. TypeOK
  BY <1>1, <1>2, <1>3, WorkerBounds DEF Init, TypeOK
<1>5. Coherent
  BY <1>2 DEF Init, Coherent, Distinct
<1>6. FlowNeeds /\ BatchInv
  BY <1>2 DEF Init, FlowNeeds, BatchInv, JobsUnderWay, Retries
<1>7. BaseParts
  BY <1>2, <1>4, <1>5, <1>6 DEF Init, BaseParts
<1>8. QED
  BY <1>7, BaseIs

(* Base is inductive. *)
LEMMA BaseNext ==
    ASSUME Base, [Next]_vars
    PROVE  Base'
<1>1. CASE UNCHANGED vars
  <2>1. BaseParts
    BY BaseIs
  <2>2. UNCHANGED <<pend, pendq, left, wpc, jobs, batch, fpc, failed, queue>> /\ TypeOK'
    BY <1>1, <2>1 DEF vars, BaseParts, TypeOK
  <2>3. Coherent' /\ FlowNeeds' /\ BatchInv'
    BY <2>1, <2>2, CoherentUnmoved, FlowUnmoved DEF BaseParts, FlowNeeds, BatchInv
  <2>4. BaseParts'
    BY <2>1, <2>2, <2>3 DEF BaseParts
  <2>5. QED
    BY <2>4, BaseIsNext
<1>2. CASE Next
  BY <1>2, BaseArrivals, BaseHandle, BaseTick, BaseDrain, BaseFlush DEF Next
<1>3. QED
  BY <1>1, <1>2

(* Whatever fills up, fails or expires, every parked intent is in the      *)
(* drain's queue exactly once and nothing else is.                         *)
THEOREM ParkedOnce == Spec => []PendqCoherent
<1>1. Init => Base
  BY BaseInit
<1>2. Base /\ [Next]_vars => Base'
  BY BaseNext
<1>3. Base => PendqCoherent
  BY DEF Base
<1>4. QED
  BY <1>1, <1>2, <1>3, PTL DEF Spec

-----------------------------------------------------------------------------
(***************************************************************************)
(* NothingFromTheFuture.                                                   *)
(***************************************************************************)

(* What a step does to the disk, the ring and the clock. *)
LEMMA DiskAndRing ==
    ASSUME Base, [Next]_vars
    PROVE  /\ now \in Nat /\ now' \in Nat /\ now <= now'
           /\ \/ Elements(disk') \subseteq Elements(disk)
              \/ HandleFragment /\ disk' = Append(disk, Stored(Head(queue)))
           /\ \/ Elements(ring') \subseteq Elements(ring)
              \/ HandleKeep
<1>0. TypeOK /\ PendqCoherent
  BY DEF Base, PendqCoherent
<1>1. now \in Nat
  BY <1>0, WorkerBounds DEF TypeOK
<1>2. ring \in Seq([id : Ids, deadline : Nat])
  BY <1>0 DEF TypeOK
<1>3. CASE Advance
  BY <1>1, <1>3 DEF Advance, workVars, diskVars, Elements
<1>4. CASE \/ \E id \in Ids, at \in Stamps : ArriveFragment(id, at)
           \/ \E id \in Ids, at \in Stamps, o \in Origins : ArriveKeep(id, o, at)
           \/ HandleDuplicateKeep \/ HandleRetry \/ Flush \/ UNCHANGED vars
  <2>1. UNCHANGED <<now, disk, ring>>
    BY <1>4 DEF ArriveFragment, ArriveKeep, HandleDuplicateKeep, HandleRetry, Flush, Gather, Publish, RetryPublish,
                Consume, ConsumeRefused, workVars, diskVars, vars
  <2>2. QED
    BY <1>1, <2>1
<1>5. CASE HandleFragment
  <2>1. UNCHANGED <<now, ring>> /\ (disk' = disk \/ disk' = Append(disk, Stored(Head(queue))))
    BY <1>0, <1>5, FragmentIs
  <2>2. QED
    BY <1>1, <1>5, <2>1
<1>6. CASE HandleKeep
  <2>1. UNCHANGED <<now, disk>>
    BY <1>0, <1>6, KeepIs
  <2>2. QED
    BY <1>1, <1>6, <2>1
<1>7. CASE TickBegin
  <2>1. UNCHANGED now /\ Expire /\ ring' = SubSeq(ring, EvictCount + 1, Len(ring))
    BY <1>7 DEF TickBegin
  <2>2. Elements(disk') \subseteq Elements(disk)
    BY <1>0, <2>1, ExpireIs
  <2>3. Elements(ring') \subseteq Elements(ring)
    BY <1>0, <1>2, <2>1, EvictCountIs, Cut
  <2>4. QED
    BY <1>1, <2>1, <2>2, <2>3
<1>8. CASE Drain
  <2>1. UNCHANGED <<now, ring>> /\ (disk' = disk \/ Sacrifice)
    BY <1>8 DEF Drain, DrainDone, DrainDrop, DrainSend, DrainFull, DrainCollectErr, diskVars
  <2>2. Elements(disk') \subseteq Elements(disk)
    BY <1>0, <2>1, SacrificeIs
  <2>3. QED
    BY <1>1, <2>1, <2>2
<1>9. QED
  BY <1>3, <1>4, <1>5, <1>6, <1>7, <1>8 DEF Next, Handle

(* A clamped stamp is not in the future, and time only passes. *)
LEMMA FutureNext ==
    ASSUME Base, NothingFromTheFuture, [Next]_vars
    PROVE  NothingFromTheFuture'
<1>0. TypeOK
  BY DEF Base, PendqCoherent
<1>1. now \in Nat /\ now' \in Nat /\ now <= now'
  BY DiskAndRing
<1>2. Elements(disk) \subseteq Fragments /\ Elements(ring) \subseteq [id : Ids, deadline : Nat]
  BY <1>0, ElementsIn DEF TypeOK
<1>3. \A f \in Elements(disk) : f.at <= now'
  <2>1. \A f \in Elements(disk) : f.at \in Nat /\ f.at <= now
    BY <1>2 DEF NothingFromTheFuture, Fragments
  <2>2. QED
    BY <1>1, <2>1
<1>4. \A r \in Elements(ring) : r.deadline <= now' + Window
  <2>1. \A r \in Elements(ring) : r.deadline \in Nat /\ r.deadline <= now + Window
    BY <1>2 DEF NothingFromTheFuture
  <2>2. QED
    BY <1>1, <2>1, WindowPositive
<1>5. \A f \in Elements(disk') : f.at <= now'
  <2>1. CASE Elements(disk') \subseteq Elements(disk)
    BY <1>3, <2>1
  <2>2. CASE HandleFragment /\ disk' = Append(disk, Stored(Head(queue)))
    <3> DEFINE e == Head(queue)
    <3>1. e \in Events /\ e.kind = "evFrag" /\ Stored(e) \in Fragments /\ now' = now
      BY <1>0, <2>2, FragmentIs
    <3>2. Clamped(e.at) <= now
      BY <1>0, <3>1, EventFields, ClampedIs
    <3>3. Stored(e).at <= now'
      BY <3>1, <3>2 DEF Stored
    <3> HIDE DEF e
    <3>4. Elements(disk') = Elements(disk) \cup {Stored(e)}
      BY <1>0, <2>2, <3>1, Appended DEF TypeOK, e
    <3>5. QED
      BY <1>3, <3>3, <3>4
  <2>3. QED
    BY <2>1, <2>2, DiskAndRing
<1>6. \A r \in Elements(ring') : r.deadline <= now' + Window
  <2>1. CASE Elements(ring') \subseteq Elements(ring)
    BY <1>4, <2>1
  <2>2. CASE HandleKeep
    <3> DEFINE e == Head(queue)
    <3> DEFINE r == [id |-> e.id, deadline |-> KeepDeadline(e)]
    <3>1. /\ e.id \in Ids /\ KeepDeadline(e) \in Nat /\ KeepDeadline(e) <= now + Window /\ now' = now
          /\ ring' = Append(ring, r)
      BY <1>0, <2>2, KeepIs
    <3> HIDE DEF e
    <3>2. r \in [id : Ids, deadline : Nat] /\ r.deadline <= now' + Window
      BY <3>1
    <3> HIDE DEF r
    <3>3. Elements(ring') = Elements(ring) \cup {r}
      <4> DEFINE E == [id : Ids, deadline : Nat]
      <4>1. ring \in Seq(E) /\ r \in E
        BY <1>0, <3>2 DEF TypeOK
      <4> HIDE DEF E
      <4>2. QED
        BY <3>1, <4>1, Appended
    <3>4. QED
      BY <1>4, <3>2, <3>3
  <2>3. QED
    BY <2>1, <2>2, DiskAndRing
<1>7. QED
  BY <1>5, <1>6 DEF NothingFromTheFuture

(* A clock that runs ahead pins nothing: no fragment is stamped later than *)
(* now and no decided entry outlives now + W.                              *)
THEOREM ClampHolds == Spec => []NothingFromTheFuture
<1>1. Init => Base /\ NothingFromTheFuture
  BY BaseInit DEF Init, NothingFromTheFuture, Elements
<1>2. Base /\ NothingFromTheFuture /\ [Next]_vars => Base' /\ NothingFromTheFuture'
  BY BaseNext, FutureNext
<1>3. QED
  BY <1>1, <1>2, PTL DEF Spec

-----------------------------------------------------------------------------
(***************************************************************************)
(* PublishAgesFromDecision.                                                *)
(***************************************************************************)
Ages(r, id) ==
    IF NeedPublish \in r.need THEN r.deadline # NoDeadline /\ r.deadline <= localDeadline[id]
    ELSE r.deadline = NoDeadline

JobAges(j) == NeedPublish \in j.need => j.deadline # NoDeadline /\ j.deadline <= localDeadline[j.id]

JobAgesNext(j) == NeedPublish \in j.need => j.deadline # NoDeadline /\ j.deadline <= localDeadline'[j.id]

(* The invariant by these names. *)
LEMMA AgesIs ==
    PublishAgesFromDecision <=> /\ \A id \in Ids : Ages(pend[id], id)
                                /\ \A j \in JobsUnderWay \cup Retries : JobAges(j)
  BY DEF PublishAgesFromDecision, Ages, JobAges

(* The same of the next state. *)
LEMMA AgesIsNext ==
    PublishAgesFromDecision' <=> /\ \A id \in Ids : Ages(pend[id], id)'
                                 /\ \A j \in JobsUnderWay' \cup Retries' : JobAgesNext(j)
  BY DEF PublishAgesFromDecision, Ages, JobAges, JobAgesNext

(* A local decision's deadline only moves on. *)
LEMMA LocalDeadlineGrows ==
    ASSUME Base, [Next]_vars, NEW id \in Ids
    PROVE  localDeadline[id] \in Nat /\ localDeadline'[id] \in Nat /\ localDeadline[id] <= localDeadline'[id]
<1>0. TypeOK
  BY DEF Base, PendqCoherent
<1>1. localDeadline \in [Ids -> Nat] /\ localDeadline[id] \in Nat
  BY <1>0 DEF TypeOK
<1>2. CASE HandleKeep
  <2> DEFINE e == Head(queue)
  <2>1. e.id \in Ids /\ KeepDeadline(e) \in Nat
    BY <1>0, <1>2, KeepIs
  <2>2. \/ localDeadline' = localDeadline
        \/ localDeadline' = [localDeadline EXCEPT ![e.id] = Greater(@, KeepDeadline(e))]
    BY <1>2 DEF HandleKeep, KeepDeadline
  <2> HIDE DEF e
  <2>3. QED
    BY <1>1, <2>1, <2>2 DEF Greater
<1>3. CASE ~HandleKeep
  <2>1. localDeadline' = localDeadline
    BY <1>3 DEF Next, vars, Advance, ArriveFragment, ArriveKeep, Handle, HandleFragment, HandleDuplicateKeep, HandleRetry,
                TickBegin, Drain, DrainDone, DrainDrop, DrainSend, DrainFull, DrainCollectErr,
                Flush, Gather, Publish, RetryPublish, Consume, ConsumeRefused, keepVars
  <2>2. QED
    BY <1>1, <2>1
<1>4. QED
  BY <1>2, <1>3

(* What has aged well goes on doing so. *)
LEMMA AgesKept ==
    ASSUME Base, PublishAgesFromDecision, [Next]_vars
    PROVE  /\ \A id \in Ids : pend'[id] = pend[id] => Ages(pend[id], id)'
           /\ \A j \in JobsUnderWay \cup Retries : JobAgesNext(j)
<1>0. TypeOK
  BY DEF Base, PendqCoherent
<1>1. \A id \in Ids : pend[id].deadline \in Nat
  BY <1>0 DEF TypeOK, Reqs
<1>2. \A id \in Ids : pend'[id] = pend[id] => Ages(pend[id], id)'
  <2> SUFFICES ASSUME NEW id \in Ids, pend'[id] = pend[id]
               PROVE  Ages(pend[id], id)'
    OBVIOUS
  <2>1. Ages(pend[id], id) /\ pend[id].deadline \in Nat
    BY <1>1, AgesIs
  <2>2. localDeadline[id] \in Nat /\ localDeadline'[id] \in Nat /\ localDeadline[id] <= localDeadline'[id]
    BY LocalDeadlineGrows
  <2>3. QED
    BY <2>1, <2>2 DEF Ages
<1>3. \A j \in JobsUnderWay \cup Retries : JobAgesNext(j)
  <2> SUFFICES ASSUME NEW j \in JobsUnderWay \cup Retries
               PROVE  JobAgesNext(j)
    OBVIOUS
  <2>1. j.id \in Ids /\ j.deadline \in Nat
    <3>1. Elements(jobs) \subseteq Jobs /\ Elements(batch) \subseteq Jobs /\ Elements(queue) \subseteq Events
      BY <1>0, ElementsIn DEF TypeOK
    <3>2. CASE j \in JobsUnderWay
      BY <3>1, <3>2 DEF JobsUnderWay, Jobs
    <3>3. CASE j \in Retries
      BY <3>1, <3>3, EventFields DEF Retries
    <3>4. QED
      BY <3>2, <3>3
  <2>2. JobAges(j)
    BY AgesIs
  <2>3. localDeadline[j.id] \in Nat /\ localDeadline'[j.id] \in Nat /\ localDeadline[j.id] <= localDeadline'[j.id]
    BY <2>1, LocalDeadlineGrows
  <2>4. QED
    BY <2>1, <2>2, <2>3 DEF JobAges, JobAgesNext
<1>4. QED
  BY <1>2, <1>3

(* park merges deadlines and none gets later. *)
LEMMA ParkAges ==
    ASSUME Base, PublishAgesFromDecision, [Next]_vars, NEW id \in Ids, NEW reason, NEW need \in OwedNeeds,
           NEW deadline \in Nat, Park(id, reason, need, deadline),
           NeedPublish \in need => deadline # NoDeadline /\ deadline <= localDeadline'[id]
    PROVE  \A d \in Ids : Ages(pend[d], d)'
<1>0. TypeOK
  BY DEF Base, PendqCoherent
<1>1. pend \in [Ids -> Reqs] /\ pend[id].deadline \in Nat
  BY <1>0 DEF TypeOK, Reqs
<1> DEFINE m == Merge(pend[id], reason, need, deadline)
<1>2. pend' = [pend EXCEPT ![id] = m]
  BY DEF Park
<1>3. m.need = pend[id].need \cup need
  BY DEF Merge
<1>4. m.deadline = IF NeedPublish \notin need THEN pend[id].deadline
                   ELSE IF pend[id].deadline # NoDeadline THEN pend[id].deadline
                   ELSE IF deadline # NoDeadline THEN deadline
                   ELSE now + Window
  BY DEF Merge
<1> HIDE DEF m
<1>5. pend'[id] = m /\ \A d \in Ids : d # id => pend'[d] = pend[d]
  BY <1>1, <1>2
<1>6. Ages(pend[id], id)
  BY AgesIs
<1>7. localDeadline[id] \in Nat /\ localDeadline'[id] \in Nat /\ localDeadline[id] <= localDeadline'[id]
  BY LocalDeadlineGrows
<1>8. pend[id].deadline # NoDeadline => NeedPublish \in pend[id].need /\ pend[id].deadline <= localDeadline'[id]
  BY <1>1, <1>6, <1>7 DEF Ages
<1>9. Ages(pend[id], id)'
  <2>1. CASE NeedPublish \in need
    BY <1>3, <1>4, <1>5, <1>8, <2>1 DEF Ages
  <2>2. CASE NeedPublish \notin need
    BY <1>3, <1>4, <1>5, <1>6, <1>8, <2>2 DEF Ages
  <2>3. QED
    BY <2>1, <2>2
<1>10. QED
  BY <1>5, <1>9, AgesKept

(* sendJob's too. *)
LEMMA SendAges ==
    ASSUME Base, PublishAgesFromDecision, [Next]_vars, NEW j \in Jobs, j.need \in OwedNeeds, SendJob(j), batch' = batch,
           Retries' \subseteq Retries, JobAgesNext(j)
    PROVE  PublishAgesFromDecision'
<1>0. TypeOK
  BY DEF Base, PendqCoherent
<1>1. j.id \in Ids /\ j.deadline \in Nat
  BY DEF Jobs
<1>2. JobsUnderWay' \subseteq JobsUnderWay \cup {j}
  BY <1>0, SendIs
<1>3. \A d \in Ids : Ages(pend[d], d)'
  <2>1. CASE UNCHANGED pend
    BY <2>1, AgesKept
  <2>2. CASE Park(j.id, j.reason, j.need, j.deadline)
    <3>1. NeedPublish \in j.need => j.deadline # NoDeadline /\ j.deadline <= localDeadline'[j.id]
      BY DEF JobAgesNext
    <3>2. QED
      BY <1>1, <2>2, <3>1, ParkAges
  <2>3. QED
    BY <1>0, <2>1, <2>2, SendIs
<1>4. QED
  BY <1>2, <1>3, AgesKept, AgesIsNext

(* Nothing new is owed. *)
LEMMA AgesFewer ==
    ASSUME Base, PublishAgesFromDecision, [Next]_vars, \A id \in Ids : pend'[id] = pend[id] \/ Ages(pend[id], id)',
           JobsUnderWay' \subseteq JobsUnderWay, Retries' \subseteq Retries
    PROVE  PublishAgesFromDecision'
  BY AgesKept, AgesIsNext

DrainJob(id) == [id |-> id, reason |-> pend[id].reason, need |-> pend[id].need, frags |-> Collected(id),
                 deadline |-> pend[id].deadline]

(* The drain hands over its head. *)
LEMMA DrainSendIs ==
    ASSUME Base, DrainSend
    PROVE  LET id == Head(pendq) IN
           /\ id \in Ids /\ pend[id] \in Reqs /\ pend[id].need \in OwedNeeds /\ DrainJob(id) \in Jobs
           /\ jobs' = Append(jobs, DrainJob(id)) /\ JobsUnderWay' = JobsUnderWay \cup {DrainJob(id)}
           /\ pend' = [pend EXCEPT ![id] = NoReq] /\ pendq # << >>
           /\ Retries' = Retries /\ Waiting' = Waiting
           /\ UNCHANGED <<now, inputs, queue, disk, sealed, ring, kept, settled, fpc, batch, failed,
                          lastDeadline, localDeadline, outstanding, credit>>
<1> DEFINE id == Head(pendq)
<1>0. TypeOK /\ PendqCoherent /\ Coherent
  BY BaseIs DEF Base, BaseParts
<1>1. left > 0 /\ jobs' = Append(jobs, DrainJob(id)) /\ pend' = [pend EXCEPT ![id] = NoReq]
  BY DEF DrainSend, DrainJob
<1>2. UNCHANGED <<now, inputs, queue, disk, sealed, ring, kept, settled, fpc, batch, failed,
                  lastDeadline, localDeadline, outstanding, credit>>
  BY DEF DrainSend, diskVars, flushVars, keepVars, pubVars
<1>3. id \in Ids /\ pend[id] \in Reqs /\ pend[id].queued /\ pendq # << >>
  BY <1>0, <1>1, DrainHead
<1>4. pend[id].need \in OwedNeeds
  BY <1>0, <1>3 DEF Coherent
<1>5. DrainJob(id) \in Jobs
  <2>1. Collected(id) \subseteq 1 .. MaxInputs
    BY <1>0, <1>3, CollectedIs
  <2> HIDE DEF id
  <2>2. QED
    BY <1>3, <2>1 DEF Jobs, Reqs, DrainJob
<1> HIDE DEF id
<1>6. JobsUnderWay' = JobsUnderWay \cup {DrainJob(id)}
  BY <1>0, <1>1, <1>2, <1>5, JobsGrow
<1>7. Retries' = Retries /\ Waiting' = Waiting
  BY <1>2, FlowUnmoved
<1>8. QED
  BY <1>1, <1>2, <1>3, <1>4, <1>5, <1>6, <1>7 DEF id

RetryOf(j, need) == [kind |-> "evRetry", id |-> j.id, reason |-> j.reason, need |-> need, deadline |-> j.deadline]

(* The flusher sends a job back. *)
LEMMA SentBack ==
    ASSUME Base, RetryPublish \/ ConsumeRefused
    PROVE  LET j == Head(batch)
               need == IF RetryPublish THEN j.need ELSE {NeedFlush}
           IN /\ fpc = "process" /\ NextJob /\ j \in Jobs /\ j.id \in Ids /\ j.need \in OwedNeeds /\ need \in OwedNeeds
              /\ PublishFailed(j) <=> RetryPublish
              /\ JobsUnderWay = JobsUnderWay' \cup {j} /\ RetryOf(j, need) \in Events
              /\ queue' = Append(queue, RetryOf(j, need))
              /\ Retries' = Retries \cup {RetryOf(j, need)} /\ Waiting' = Waiting
              /\ UNCHANGED <<now, inputs, jobs, kept, settled, disk, sealed, ring, pend, pendq, wpc, left, tickNow,
                             lastDeadline, localDeadline, outstanding, credit>>
<1> DEFINE j == Head(batch)
<1> DEFINE need == IF RetryPublish THEN j.need ELSE {NeedFlush}
<1>0. TypeOK /\ BatchInv /\ FlowNeeds
  BY BaseIs DEF Base, BaseParts
<1>1. /\ fpc = "process" /\ NextJob /\ Retry(j, need)
      /\ UNCHANGED <<now, inputs, jobs, kept, settled, disk, sealed, ring, pend, pendq, wpc, left, tickNow,
                     lastDeadline, localDeadline, outstanding, credit>>
  <2>1. CASE RetryPublish
    <3>1. need = j.need
      BY <2>1
    <3>2. QED
      BY <2>1, <3>1 DEF RetryPublish, workVars, diskVars, keepVars, pubVars
  <2>2. CASE ~RetryPublish
    <3>1. need = {NeedFlush} /\ ConsumeRefused
      BY <2>2
    <3>2. QED
      BY <3>1 DEF ConsumeRefused, workVars, diskVars, keepVars, pubVars
  <2>3. QED
    BY <2>1, <2>2
<1>2. PublishFailed(j) <=> RetryPublish
  BY DEF RetryPublish, ConsumeRefused
<1>3. JobsUnderWay = JobsUnderWay' \cup {j} /\ j \in JobsUnderWay /\ j \in Jobs /\ j.id \in Ids
  BY <1>0, <1>1, BatchShrinks, BatchHead
<1>4. j.need \in OwedNeeds /\ need \in OwedNeeds
  BY <1>0, <1>3 DEF FlowNeeds, OwedNeeds
<1> HIDE DEF need, j
<1>5. RetryOf(j, need) \in Events /\ queue' = Append(queue, RetryOf(j, need))
  BY <1>0, <1>1, <1>3, <1>4, OwedAreNeeds, RetryIs DEF RetryOf
<1>6. Retries' = Retries \cup {RetryOf(j, need)} /\ Waiting' = Waiting
  <2>1. RetryOf(j, need).kind = "evRetry"
    BY DEF RetryOf
  <2>2. QED
    BY <1>0, <1>5, <2>1, QueueGrows
<1>7. QED
  BY <1>1, <1>2, <1>3, <1>4, <1>5, <1>6 DEF need, j

(* The worker parks a retry. *)
LEMMA RetryParked ==
    ASSUME Base, HandleRetry
    PROVE  LET e == Head(queue) IN
           /\ e \in Events /\ e.kind = "evRetry" /\ e.id \in Ids /\ e.need \in OwedNeeds /\ e.deadline \in Nat
           /\ queue # << >> /\ queue' = Tail(queue)
           /\ Park(e.id, e.reason, e.need, e.deadline)
           /\ Retries = Retries' \cup {e} /\ Waiting' = Waiting /\ JobsUnderWay' = JobsUnderWay
           /\ UNCHANGED <<now, inputs, disk, sealed, ring, wpc, left, tickNow, jobs, kept, settled,
                          fpc, batch, failed, lastDeadline, localDeadline, outstanding, credit>>
<1> DEFINE e == Head(queue)
<1>0. TypeOK /\ FlowNeeds
  BY BaseIs DEF BaseParts
<1>1. /\ e.kind = "evRetry" /\ queue # << >> /\ queue' = Tail(queue) /\ Park(e.id, e.reason, e.need, e.deadline)
      /\ UNCHANGED <<now, inputs, disk, sealed, ring, wpc, left, tickNow, jobs, kept, settled,
                     fpc, batch, failed, lastDeadline, localDeadline, outstanding, credit>>
  BY DEF HandleRetry, diskVars, flushVars, keepVars, pubVars
<1>2. e \in Events /\ Retries = Retries' \cup {e} /\ Waiting' = Waiting
  BY <1>0, <1>1, QueueShrinks
<1>3. e.id \in Ids /\ e.need \in OwedNeeds /\ e.deadline \in Nat
  BY <1>0, <1>1, <1>2, EventFields DEF FlowNeeds
<1>4. JobsUnderWay' = JobsUnderWay
  BY <1>1, FlowUnmoved
<1>5. QED
  BY <1>1, <1>2, <1>3, <1>4

(* Deadlines are handed on, never renewed. *)
LEMMA AgesNext ==
    ASSUME Base, PublishAgesFromDecision, [Next]_vars
    PROVE  PublishAgesFromDecision'
<1>0. TypeOK /\ BatchInv /\ Coherent /\ PendqCoherent /\ FlowNeeds
  BY BaseIs DEF BaseParts, Base
<1>1. CASE UNCHANGED vars
  BY <1>1, FlowUnmoved, AgesFewer DEF vars
<1>2. CASE \/ Advance
           \/ \E id \in Ids, at \in Stamps : ArriveFragment(id, at)
           \/ \E id \in Ids, at \in Stamps, o \in Origins : ArriveKeep(id, o, at)
           \/ HandleDuplicateKeep
  BY <1>0, <1>2, ArrivalsIs, AgesFewer
<1>3. CASE HandleFragment
  <2> DEFINE e == Head(queue)
  <2>1. /\ FragmentJob(e) \in Jobs /\ Retries' = Retries /\ batch' = batch
        /\ (UNCHANGED <<jobs, pend, pendq>> \/ SendJob(FragmentJob(e)))
    BY <1>0, <1>3, FragmentIs
  <2>2. CASE UNCHANGED <<jobs, pend, pendq>>
    BY <2>1, <2>2, FlowUnmoved, AgesFewer
  <2>3. CASE SendJob(FragmentJob(e))
    <3>1. FragmentJob(e).need \in OwedNeeds /\ JobAgesNext(FragmentJob(e))
      BY DEF FragmentJob, OwedNeeds, JobAgesNext, NeedPublish, NeedFlush
    <3>2. QED
      BY <2>1, <2>3, <3>1, SendAges
  <2>4. QED
    BY <2>1, <2>2, <2>3
<1>4. CASE HandleKeep
  <2> DEFINE e == Head(queue)
  <2> DEFINE j == KeepJob(e)
  <2>1. /\ e.id \in Ids /\ KeepDeadline(e) \in Nat /\ KeepDeadline(e) # 0 /\ KeepNeed(e) \in OwedNeeds /\ j \in Jobs
        /\ Retries' = Retries /\ batch' = batch
        /\ \/ Park(e.id, Reason, KeepNeed(e), KeepDeadline(e)) /\ UNCHANGED jobs
           \/ UNCHANGED <<jobs, pend, pendq>>
           \/ SendJob(j)
    BY <1>0, <1>4, KeepIs
  <2>2. NeedPublish \in KeepNeed(e) => localDeadline' = [localDeadline EXCEPT ![e.id] = Greater(@, KeepDeadline(e))]
    BY <1>4 DEF HandleKeep, KeepDeadline, KeepNeed
  <2> HIDE DEF e
  <2>3. NeedPublish \in KeepNeed(e) => KeepDeadline(e) # NoDeadline /\ KeepDeadline(e) <= localDeadline'[e.id]
    <3>1. localDeadline \in [Ids -> Nat] /\ localDeadline[e.id] \in Nat
      BY <1>0, <2>1 DEF TypeOK
    <3>2. QED
      BY <2>1, <2>2, <3>1 DEF Greater, NoDeadline
  <2>4. j.need = KeepNeed(e) /\ JobAgesNext(j)
    BY <2>3 DEF KeepJob, JobAgesNext
  <2> HIDE DEF j
  <2>5. CASE SendJob(j)
    BY <2>1, <2>4, <2>5, SendAges
  <2>6. CASE UNCHANGED <<jobs, pend, pendq>>
    BY <2>1, <2>6, FlowUnmoved, AgesFewer
  <2>7. CASE Park(e.id, Reason, KeepNeed(e), KeepDeadline(e)) /\ UNCHANGED jobs
    <3>1. \A d \in Ids : Ages(pend[d], d)'
      BY <2>1, <2>3, <2>7, ParkAges
    <3>2. QED
      BY <2>1, <2>7, <3>1, FlowUnmoved, AgesFewer
  <2>8. QED
    BY <2>1, <2>5, <2>6, <2>7
<1>5. CASE HandleRetry
  <2> DEFINE e == Head(queue)
  <2>1. /\ e.id \in Ids /\ e.need \in OwedNeeds /\ e.deadline \in Nat /\ Park(e.id, e.reason, e.need, e.deadline)
        /\ Retries = Retries' \cup {e} /\ JobsUnderWay' = JobsUnderWay /\ localDeadline' = localDeadline
    BY <1>5, RetryParked
  <2> HIDE DEF e
  <2>2. JobAges(e)
    BY <2>1, AgesIs
  <2>3. \A d \in Ids : Ages(pend[d], d)'
    BY <2>1, <2>2, ParkAges DEF JobAges
  <2>4. QED
    BY <2>1, <2>3, AgesFewer
<1>6. CASE TickBegin
  <2>1. /\ pend' = [id \in Ids |-> Swept(pend[id])]
        /\ UNCHANGED <<queue, jobs, batch, localDeadline>>
    BY <1>6 DEF TickBegin, flushVars, keepVars
  <2>2. ASSUME NEW id \in Ids
        PROVE  pend'[id] = pend[id] \/ Ages(pend[id], id)'
    <3>1. pend'[id] = Swept(pend[id]) /\ pend[id] \in Reqs
      BY <1>0, <2>1 DEF TypeOK
    <3>2. NoReq.need = {} /\ NoReq.deadline = NoDeadline
      BY DEF NoReq
    <3>3. CASE ~Abandoned(pend[id])
      BY <3>1, <3>3 DEF Swept
    <3>4. CASE Abandoned(pend[id]) /\ pend[id].need = {NeedPublish}
      <4>1. pend'[id] = NoReq
        BY <3>1, <3>4 DEF Swept
      <4>2. QED
        BY <3>2, <4>1 DEF Ages
    <3>5. CASE Abandoned(pend[id]) /\ pend[id].need # {NeedPublish}
      <4>1. pend'[id] = [pend[id] EXCEPT !.need = @ \ {NeedPublish}, !.deadline = NoDeadline]
        BY <3>1, <3>5 DEF Swept
      <4>2. pend'[id].need = pend[id].need \ {NeedPublish} /\ pend'[id].deadline = NoDeadline
        BY <3>1, <4>1 DEF Reqs
      <4>3. QED
        BY <4>2 DEF Ages
    <3>6. QED
      BY <3>3, <3>4, <3>5
  <2>3. QED
    BY <2>1, <2>2, FlowUnmoved, AgesFewer
<1>7. ASSUME NEW id \in Ids, NEW m, pend' = [pend EXCEPT ![id] = m],
             (m.deadline = pend[id].deadline /\ m.need = pend[id].need) \/ m = NoReq
      PROVE  \A d \in Ids : pend'[d] = pend[d] \/ Ages(pend[d], d)'
  <2>1. pend'[id] = m /\ \A d \in Ids : d # id => pend'[d] = pend[d]
    BY <1>0, <1>7 DEF TypeOK
  <2>2. CASE m = NoReq
    BY <2>1, <2>2 DEF Ages, NoReq
  <2>3. CASE m.deadline = pend[id].deadline /\ m.need = pend[id].need
    <3>1. Ages(pend[id], id) /\ pend[id].deadline \in Nat
      BY <1>0, AgesIs DEF TypeOK, Reqs
    <3>2. localDeadline[id] \in Nat /\ localDeadline'[id] \in Nat /\ localDeadline[id] <= localDeadline'[id]
      BY LocalDeadlineGrows
    <3>3. Ages(pend[id], id)'
      BY <2>1, <2>3, <3>1, <3>2 DEF Ages
    <3>4. QED
      BY <2>1, <3>3
  <2>4. QED
    BY <1>7, <2>2, <2>3
<1>8. CASE DrainDone \/ DrainFull
  <2>1. UNCHANGED <<pend, queue, jobs, batch>>
    BY <1>8 DEF DrainDone, DrainFull, flushVars
  <2>2. QED
    BY <2>1, FlowUnmoved, AgesFewer
<1>9. CASE DrainDrop
  <2>1. left > 0 /\ pend' = [pend EXCEPT ![Head(pendq)] = NoReq] /\ UNCHANGED <<queue, jobs, batch>>
    BY <1>9 DEF DrainDrop, flushVars
  <2>2. Head(pendq) \in Ids
    BY <1>0, <2>1, DrainHead
  <2>3. \A d \in Ids : pend'[d] = pend[d] \/ Ages(pend[d], d)'
    BY <1>7, <2>1, <2>2
  <2>4. QED
    BY <2>1, <2>3, FlowUnmoved, AgesFewer
<1>10. CASE DrainSend
  <2> DEFINE id == Head(pendq)
  <2>1. /\ id \in Ids /\ JobsUnderWay' = JobsUnderWay \cup {DrainJob(id)} /\ Retries' = Retries
        /\ pend' = [pend EXCEPT ![id] = NoReq] /\ localDeadline' = localDeadline
    BY <1>10, DrainSendIs
  <2> HIDE DEF id
  <2>2. \A d \in Ids : pend'[d] = pend[d] \/ Ages(pend[d], d)'
    BY <1>7, <2>1
  <2>3. Ages(pend[id], id)
    BY <2>1, AgesIs
  <2>4. JobAgesNext(DrainJob(id))
    <3>1. DrainJob(id).need = pend[id].need /\ DrainJob(id).deadline = pend[id].deadline /\ DrainJob(id).id = id
      BY DEF DrainJob
    <3>2. QED
      BY <2>1, <2>3, <3>1 DEF Ages, JobAgesNext
  <2>5. QED
    BY <2>1, <2>2, <2>4, AgesKept, AgesIsNext
<1>11. CASE DrainCollectErr
  <2> DEFINE id == Head(pendq)
  <2> DEFINE m == Merge(NoReq, pend[id].reason, pend[id].need, pend[id].deadline)
  <2>1. left > 0 /\ pend' = [pend EXCEPT ![id] = m] /\ UNCHANGED <<queue, jobs, batch, localDeadline>>
    BY <1>11 DEF DrainCollectErr, flushVars, keepVars
  <2>2. id \in Ids
    BY <1>0, <2>1, DrainHead
  <2> HIDE DEF id
  <2>3. Ages(pend[id], id)
    BY <2>2, AgesIs
  <2>4. m.need = pend[id].need
    BY DEF Merge, NoReq
  <2>5. m.deadline = pend[id].deadline
    BY <2>3 DEF Merge, NoReq, Ages
  <2> HIDE DEF m
  <2>6. \A d \in Ids : pend'[d] = pend[d] \/ Ages(pend[d], d)'
    BY <1>7, <2>1, <2>2, <2>4, <2>5
  <2>7. QED
    BY <2>1, <2>6, FlowUnmoved, AgesFewer
<1>12. CASE Gather
  <2>1. UNCHANGED <<pend, queue>>
    BY <1>12 DEF Gather, workVars
  <2>2. QED
    BY <1>0, <1>12, <2>1, GatherIs, FlowUnmoved, AgesFewer
<1>13. CASE Publish
  <2>1. UNCHANGED <<pend, queue, jobs, batch>>
    BY <1>13 DEF Publish, workVars
  <2>2. QED
    BY <2>1, FlowUnmoved, AgesFewer
<1>14. CASE Consume
  <2>1. fpc = "process" /\ NextJob /\ UNCHANGED <<pend, queue, jobs>>
    BY <1>14 DEF Consume, workVars
  <2>2. QED
    BY <1>0, <2>1, BatchShrinks, FlowUnmoved, AgesFewer
<1>15. CASE RetryPublish \/ ConsumeRefused
  <2> DEFINE j == Head(batch)
  <2> DEFINE need == IF RetryPublish THEN j.need ELSE {NeedFlush}
  <2>1. /\ JobsUnderWay = JobsUnderWay' \cup {j} /\ Retries' = Retries \cup {RetryOf(j, need)}
        /\ UNCHANGED <<pend, localDeadline>>
    BY <1>15, SentBack
  <2>2. NeedPublish \in need => NeedPublish \in j.need
    BY DEF NeedPublish, NeedFlush
  <2> HIDE DEF j, need
  <2>3. JobAges(j)
    BY <2>1, AgesIs
  <2> DEFINE e == RetryOf(j, need)
  <2>4. e.id = j.id /\ e.need = need /\ e.deadline = j.deadline
    BY DEF RetryOf
  <2> HIDE DEF e
  <2>5. NeedPublish \in e.need => e.deadline # NoDeadline /\ e.deadline <= localDeadline'[e.id]
    BY <2>1, <2>2, <2>3, <2>4 DEF JobAges, JobAgesNext
  <2>6. \A k \in JobsUnderWay' \cup Retries' : JobAgesNext(k)
    BY <2>1, <2>5, AgesKept DEF JobAgesNext, e
  <2>7. QED
    BY <2>1, <2>6, AgesKept, AgesIsNext
<1>16. QED
  BY <1>1, <1>2, <1>3, <1>4, <1>5, <1>6, <1>8, <1>9, <1>10, <1>11, <1>12, <1>13, <1>14, <1>15 DEF Next, Handle, Drain, Flush

(* Whatever cycle of full channels, failed publishes and re-parks a        *)
(* broadcast goes through, its deadline stays the one its decision gave it.*)
THEOREM RetriesAge == Spec => []PublishAgesFromDecision
<1>1. Init => Base /\ PublishAgesFromDecision
  <2>1. Init => PublishAgesFromDecision
    BY DEF Init, PublishAgesFromDecision, NoReq, JobsUnderWay, Retries, Elements
  <2>2. QED
    BY <2>1, BaseInit
<1>2. Base /\ PublishAgesFromDecision /\ [Next]_vars => Base' /\ PublishAgesFromDecision'
  BY BaseNext, AgesNext
<1>3. QED
  BY <1>1, <1>2, PTL DEF Spec

-----------------------------------------------------------------------------
(***************************************************************************)
(* StoredInv: fragments have numbers of their own.                         *)
(***************************************************************************)
Numbered(q) ==
    \A i, k \in 1 .. Len(q) : q[i].kind = "evFrag" /\ q[k].kind = "evFrag" /\ q[i].n = q[k].n => i = k

(* Fragment numbers on the queue stay unique when an event joins it... *)
LEMMA NumberedAppend ==
    ASSUME NEW S, NEW q \in Seq(S), NEW e \in S, Numbered(q),
           e.kind = "evFrag" => \A d \in Elements(q) : d.kind = "evFrag" => d.n # e.n
    PROVE  Numbered(Append(q, e))
<1>1. /\ Len(Append(q, e)) = Len(q) + 1 /\ Len(q) \in Nat
      /\ \A i \in 1 .. Len(q) : Append(q, e)[i] = q[i]
      /\ Append(q, e)[Len(q) + 1] = e
  BY Appended
<1>2. \A i \in 1 .. Len(q) + 1 : i \in 1 .. Len(q) \/ i = Len(q) + 1
  BY <1>1
<1>3. \A i \in 1 .. Len(q) : e.kind = "evFrag" /\ q[i].kind = "evFrag" => q[i].n # e.n
  BY DEF Elements
<1> DEFINE r == Append(q, e)
<1>4. \A i \in 1 .. Len(q) + 1 : (i \in 1 .. Len(q) /\ r[i] = q[i]) \/ (i = Len(q) + 1 /\ r[i] = e)
  BY <1>1, <1>2
<1>5. Len(r) = Len(q) + 1
  BY <1>1
<1> HIDE DEF r
<1>6. SUFFICES ASSUME NEW i \in 1 .. Len(q) + 1, NEW k \in 1 .. Len(q) + 1,
                      r[i].kind = "evFrag", r[k].kind = "evFrag", r[i].n = r[k].n
               PROVE  i = k
  BY <1>5 DEF Numbered, r
<1>7. QED
  BY <1>3, <1>4, <1>6 DEF Numbered

(* ... and when its head is taken. *)
LEMMA NumberedTail ==
    ASSUME NEW S, NEW q \in Seq(S), q # << >>, Numbered(q)
    PROVE  /\ Numbered(Tail(q))
           /\ Head(q).kind = "evFrag" => \A d \in Elements(Tail(q)) : d.kind = "evFrag" => d.n # Head(q).n
<1>1. /\ Head(q) = q[1] /\ Len(q) \in Nat \ {0} /\ Len(Tail(q)) = Len(q) - 1
      /\ \A i \in 1 .. Len(Tail(q)) : Tail(q)[i] = q[i + 1] /\ i + 1 \in 1 .. Len(q)
  BY Tailed
<1>2. 1 \in 1 .. Len(q)
  BY <1>1
<1>3. \A i \in 1 .. Len(Tail(q)) : i \in Nat /\ i + 1 # 1
  BY <1>1
<1> DEFINE t == Tail(q)
<1> HIDE DEF t
<1>4. \A i \in 1 .. Len(t) : Head(q).kind = "evFrag" /\ t[i].kind = "evFrag" => t[i].n # Head(q).n
  BY <1>1, <1>2, <1>3 DEF Numbered, t
<1>5. Numbered(t)
  <2>1. SUFFICES ASSUME NEW i \in 1 .. Len(t), NEW k \in 1 .. Len(t),
                        t[i].kind = "evFrag", t[k].kind = "evFrag", t[i].n = t[k].n
                 PROVE  i = k
    BY DEF Numbered
  <2>2. i + 1 = k + 1
    BY <1>1, <2>1 DEF Numbered, t
  <2>3. QED
    BY <1>3, <2>2 DEF t
<1>6. QED
  BY <1>4, <1>5 DEF Elements, t

(* The numbers waiting, across a step. *)
LEMMA NumbersNext ==
    ASSUME Base, StoredInv, [Next]_vars
    PROVE  /\ Numbered(queue') /\ \A e \in Waiting' : e.n <= inputs'
           /\ Unstored' \subseteq Unstored
           /\ HandleFragment => Head(queue).n \in Unstored /\ Head(queue).n \notin Unstored'
<1>0. TypeOK
  BY DEF Base, PendqCoherent
<1>1. queue \in Seq(Events) /\ inputs \in Nat /\ inputs <= MaxInputs /\ MaxInputs \in Nat
  BY <1>0, WorkerBounds DEF TypeOK
<1>2. Numbered(queue) /\ \A e \in Waiting : e.n <= inputs
  BY DEF StoredInv, Numbered
<1>3. Elements(queue) \subseteq Events
  BY <1>1, ElementsIn
<1>4. \A e \in Waiting : e.n \in 1 .. MaxInputs /\ e \in Elements(queue) /\ e.kind = "evFrag"
  BY <1>3, EventFields DEF Waiting
<1>5. \A e \in Elements(queue) : e.kind = "evFrag" => e \in Waiting
  BY DEF Waiting
<1>6. ASSUME UNCHANGED <<queue, inputs>>
      PROVE  /\ Numbered(queue') /\ \A e \in Waiting' : e.n <= inputs'
             /\ Unstored' \subseteq Unstored
  BY <1>2, <1>6, FlowUnmoved DEF Unstored
<1>7. ASSUME NEW e \in Events, queue' = Append(queue, e), e.kind # "evFrag", inputs' \in {inputs, inputs + 1}
      PROVE  /\ Numbered(queue') /\ \A d \in Waiting' : d.n <= inputs'
             /\ Unstored' \subseteq Unstored
  <2>1. Waiting' = Waiting
    BY <1>0, <1>7, QueueGrows
  <2>2. Numbered(queue')
    BY <1>1, <1>2, <1>7, NumberedAppend
  <2>3. \A d \in Waiting' : d.n <= inputs'
    BY <1>1, <1>2, <1>4, <1>7, <2>1
  <2>4. (inputs' + 1 .. MaxInputs) \subseteq (inputs + 1 .. MaxInputs)
    <3>1. CASE inputs' = inputs
      BY <3>1
    <3>2. CASE inputs' = inputs + 1
      BY <1>1, <3>2
    <3>3. QED
      BY <1>7, <3>1, <3>2
  <2>5. QED
    BY <2>1, <2>2, <2>3, <2>4 DEF Unstored
<1>8. ASSUME NEW id \in Ids, NEW at \in Stamps, ArriveFragment(id, at)
      PROVE  /\ Numbered(queue') /\ \A d \in Waiting' : d.n <= inputs'
             /\ Unstored' \subseteq Unstored
  <2> DEFINE e == [kind |-> "evFrag", id |-> id, at |-> at, n |-> inputs + 1]
  <2>1. queue' = Append(queue, e) /\ inputs' = inputs + 1 /\ inputs < MaxInputs
    BY <1>8 DEF ArriveFragment
  <2>2. inputs + 1 \in 1 .. MaxInputs
    BY <1>1, <2>1
  <2>3. at \in Nat
    BY <1>0, WorkerBounds, StampBounds DEF TypeOK, Stamps
  <2>4. e \in Events /\ e.kind = "evFrag" /\ e.n = inputs + 1
    BY <2>2, <2>3 DEF Events
  <2> HIDE DEF e
  <2>5. Waiting' = Waiting \cup {e}
    BY <1>0, <2>1, <2>4, QueueGrows
  <2>6. \A d \in Waiting : d.n # e.n /\ d.n <= inputs + 1
    BY <1>1, <1>2, <1>4, <2>4
  <2>7. Numbered(queue')
    <3>1. \A d \in Elements(queue) : d.kind = "evFrag" => d.n # e.n
      BY <1>5, <2>6
    <3>2. QED
      BY <1>1, <1>2, <2>1, <2>4, <3>1, NumberedAppend
  <2>8. \A d \in Waiting' : d.n <= inputs'
    BY <1>1, <2>1, <2>4, <2>5, <2>6
  <2>9. (inputs' + 1 .. MaxInputs) \subseteq (inputs + 1 .. MaxInputs) /\ e.n \in inputs + 1 .. MaxInputs
    BY <1>1, <2>1, <2>4
  <2>10. QED
    BY <2>5, <2>7, <2>8, <2>9 DEF Unstored
<1>9. ASSUME queue # << >>, queue' = Tail(queue), UNCHANGED inputs
      PROVE  /\ Numbered(queue') /\ \A d \in Waiting' : d.n <= inputs'
             /\ Unstored' \subseteq Unstored
             /\ Head(queue).kind = "evFrag" => Head(queue).n \in Unstored /\ Head(queue).n \notin Unstored'
  <2> DEFINE e == Head(queue)
  <2>1. Waiting = Waiting' \cup {d \in {e} : d.kind = "evFrag"}
    BY <1>0, <1>9, QueueShrinks
  <2>2. Numbered(queue') /\ (e.kind = "evFrag" => \A d \in Elements(queue') : d.kind = "evFrag" => d.n # e.n)
    BY <1>1, <1>2, <1>9, NumberedTail
  <2> HIDE DEF e
  <2>3. Unstored' \subseteq Unstored /\ \A d \in Waiting' : d.n <= inputs'
    BY <1>2, <1>9, <2>1 DEF Unstored
  <2>4. ASSUME e.kind = "evFrag"
        PROVE  e.n \in Unstored /\ e.n \notin Unstored'
    <3>1. e \in Waiting
      BY <2>1, <2>4
    <3>2. e.n \in Unstored
      BY <3>1 DEF Unstored
    <3>3. e.n \in Nat /\ e.n <= inputs
      BY <1>2, <1>4, <3>1
    <3>4. e.n \notin inputs' + 1 .. MaxInputs
      BY <1>1, <1>9, <3>3
    <3>5. \A d \in Waiting' : d.n # e.n
      BY <2>2, <2>4 DEF Waiting
    <3>6. QED
      BY <3>2, <3>4, <3>5 DEF Unstored
  <2>5. QED
    BY <2>2, <2>3, <2>4 DEF e
<1>10. CASE HandleFragment
  BY <1>0, <1>9, <1>10, FragmentIs
<1>11. ASSUME ~HandleFragment
       PROVE  /\ Numbered(queue') /\ \A d \in Waiting' : d.n <= inputs'
              /\ Unstored' \subseteq Unstored
  <2>1. CASE UNCHANGED vars \/ Advance \/ TickBegin \/ Drain \/ Gather \/ Publish \/ Consume
    <3>1. UNCHANGED <<queue, inputs>>
      BY <2>1 DEF vars, Advance, TickBegin, Drain, DrainDone, DrainDrop, DrainSend, DrainFull, DrainCollectErr,
                  Gather, Publish, Consume
    <3>2. QED
      BY <1>6, <3>1
  <2>2. ASSUME NEW id \in Ids, NEW at \in Stamps, NEW o \in Origins, ArriveKeep(id, o, at)
        PROVE  /\ Numbered(queue') /\ \A d \in Waiting' : d.n <= inputs'
               /\ Unstored' \subseteq Unstored
    <3> DEFINE e == [kind |-> "evKeep", id |-> id, at |-> at, origin |-> o]
    <3>1. at \in Nat
      BY <1>0, WorkerBounds, StampBounds DEF TypeOK, Stamps
    <3>2. e \in Events /\ e.kind # "evFrag"
      BY <3>1 DEF Events
    <3>3. queue' = Append(queue, e) /\ inputs' = inputs + 1
      BY <2>2 DEF ArriveKeep
    <3> HIDE DEF e
    <3>4. QED
      BY <1>7, <3>2, <3>3
  <2>3. CASE HandleDuplicateKeep \/ HandleKeep \/ HandleRetry
    <3>1. queue # << >> /\ queue' = Tail(queue) /\ UNCHANGED inputs
      BY <2>3 DEF HandleDuplicateKeep, HandleKeep, HandleRetry
    <3>2. QED
      BY <1>9, <3>1
  <2>4. CASE RetryPublish \/ ConsumeRefused
    <3> DEFINE j == Head(batch)
    <3> DEFINE need == IF RetryPublish THEN j.need ELSE {NeedFlush}
    <3> DEFINE e == RetryOf(j, need)
    <3>1. e \in Events /\ queue' = Append(queue, e) /\ UNCHANGED inputs
      BY <2>4, SentBack
    <3>2. e.kind # "evFrag"
      BY DEF RetryOf
    <3> HIDE DEF e
    <3>3. QED
      BY <1>7, <3>1, <3>2
  <2>5. QED
    BY <1>8, <1>11, <2>1, <2>2, <2>3, <2>4 DEF Next, Handle, Flush
<1>12. QED
  BY <1>10, <1>11

(* A step that stores nothing, and whose new job, if any, holds fragments  *)
(* collected for its own trace.                                            *)
LEMMA StoredFewer ==
    ASSUME Base, StoredInv, [Next]_vars, NEW j, j.id \in Ids, j.frags \subseteq Collected(j.id), NEW d \in Ids,
           Elements(disk') \subseteq Elements(disk), JobsUnderWay' \subseteq JobsUnderWay \cup {j},
           kept' \subseteq kept \cup Collected(d)
    PROVE  StoredInv'
<1>0. TypeOK
  BY DEF Base, PendqCoherent
<1>1. Numbered(queue') /\ (\A e \in Waiting' : e.n <= inputs') /\ Unstored' \subseteq Unstored
  BY NumbersNext
<1>2. \A id \in Ids : Collected(id) \cap Unstored = {}
  BY <1>0, CollectedIs DEF StoredInv
<1>3. \A f \in Elements(disk) : f.n \in j.frags => f.id = j.id
  <2>1. SUFFICES ASSUME NEW f \in Elements(disk), f.n \in Collected(j.id)
                 PROVE  f.id = j.id
    OBVIOUS
  <2>2. PICK g \in Elements(disk) : g.id = j.id /\ g.n = f.n
    BY <1>0, <2>1, CollectedIs
  <2>3. QED
    BY <2>2 DEF StoredInv
<1>4. kept' \cap Unstored' = {} /\ \A f \in Elements(disk') : f.n \notin Unstored'
  BY <1>1, <1>2 DEF StoredInv
<1>5. \A k \in JobsUnderWay' : k.frags \cap Unstored' = {}
  BY <1>1, <1>2 DEF StoredInv
<1>6. \A f, g \in Elements(disk') : f.n = g.n => f.id = g.id
  BY DEF StoredInv
<1>7. \A f \in Elements(disk'), k \in JobsUnderWay' : f.n \in k.frags => f.id = k.id
  BY <1>3 DEF StoredInv
<1>8. QED
  BY <1>1, <1>4, <1>5, <1>6, <1>7 DEF StoredInv, Numbered

(* Nothing is stored or handed over at all. *)
LEMMA StoredUnmoved ==
    ASSUME Base, StoredInv, [Next]_vars, Elements(disk') \subseteq Elements(disk),
           JobsUnderWay' \subseteq JobsUnderWay, kept' \subseteq kept
    PROVE  StoredInv'
<1>1. Numbered(queue') /\ (\A e \in Waiting' : e.n <= inputs') /\ Unstored' \subseteq Unstored
  BY NumbersNext
<1>2. kept' \cap Unstored' = {} /\ \A f \in Elements(disk') : f.n \notin Unstored'
  BY <1>1 DEF StoredInv
<1>3. \A k \in JobsUnderWay' : k.frags \cap Unstored' = {}
  BY <1>1 DEF StoredInv
<1>4. \A f, g \in Elements(disk') : f.n = g.n => f.id = g.id
  BY DEF StoredInv
<1>5. \A f \in Elements(disk'), k \in JobsUnderWay' : f.n \in k.frags => f.id = k.id
  BY DEF StoredInv
<1>6. QED
  BY <1>1, <1>2, <1>3, <1>4, <1>5 DEF StoredInv, Numbered

(* A fragment is stored under its own number, once. *)
LEMMA StoredNext ==
    ASSUME Base, StoredInv, [Next]_vars
    PROVE  StoredInv'
<1>0. TypeOK /\ BatchInv
  BY DEF Base, PendqCoherent
<1>1. CASE UNCHANGED vars
  <2>1. UNCHANGED <<disk, jobs, batch, kept>>
    BY <1>1 DEF vars
  <2>2. QED
    BY <2>1, FlowUnmoved, StoredUnmoved
<1>2. CASE \/ Advance
           \/ \E id \in Ids, at \in Stamps : ArriveFragment(id, at)
           \/ \E id \in Ids, at \in Stamps, o \in Origins : ArriveKeep(id, o, at)
           \/ HandleDuplicateKeep
  BY <1>0, <1>2, ArrivalsIs, StoredUnmoved
<1>3. CASE HandleFragment
  <2> DEFINE e == Head(queue)
  <2> DEFINE g == Stored(e)
  <2> DEFINE j == FragmentJob(e)
  <2>1. /\ e.id \in Ids /\ j \in Jobs /\ g \in Fragments /\ batch' = batch
        /\ \/ UNCHANGED <<disk, jobs, pend, pendq, kept>>
           \/ disk' = Append(disk, g) /\ UNCHANGED <<jobs, pend, pendq, kept>>
           \/ disk' = Append(disk, g) /\ SendJob(j) /\ kept' = kept \cup {e.n}
    BY <1>0, <1>3, FragmentIs
  <2>2. e.n \in Unstored /\ e.n \notin Unstored' /\ Unstored' \subseteq Unstored
        /\ Numbered(queue') /\ \A d \in Waiting' : d.n <= inputs'
    BY <1>3, NumbersNext
  <2>3. g.n = e.n /\ g.id = e.id /\ j.frags = {e.n} /\ j.id = e.id
    BY DEF Stored, FragmentJob
  <2> HIDE DEF e, g, j
  <2>4. CASE UNCHANGED <<disk, jobs, pend, pendq, kept>>
    BY <2>1, <2>4, FlowUnmoved, StoredUnmoved
  <2>5. CASE disk' = Append(disk, g)
    <3>1. Elements(disk') = Elements(disk) \cup {g}
      BY <1>0, <2>1, <2>5, Appended DEF TypeOK
    <3>2. JobsUnderWay' \subseteq JobsUnderWay \cup {j}
      BY <1>0, <2>1, SendIs, FlowUnmoved
    <3>3. kept' \subseteq kept \cup {e.n}
      BY <2>1
    <3>4. kept' \cap Unstored' = {} /\ \A f \in Elements(disk') : f.n \notin Unstored'
      BY <2>2, <2>3, <3>1, <3>3 DEF StoredInv
    <3>5. \A k \in JobsUnderWay' : k.frags \cap Unstored' = {}
      BY <2>2, <2>3, <3>2 DEF StoredInv
    <3>6. \A f \in Elements(disk) : f.n # e.n
      BY <2>2 DEF StoredInv
    <3>7. \A k \in JobsUnderWay : e.n \notin k.frags
      BY <2>2 DEF StoredInv
    <3>8. \A a, b \in Elements(disk') : a.n = b.n => a.id = b.id
      BY <2>3, <3>1, <3>6 DEF StoredInv
    <3>9. \A f \in Elements(disk'), k \in JobsUnderWay' : f.n \in k.frags => f.id = k.id
      BY <2>3, <3>1, <3>2, <3>6, <3>7 DEF StoredInv
    <3>10. QED
      BY <2>2, <3>4, <3>5, <3>8, <3>9 DEF StoredInv, Numbered
  <2>6. QED
    BY <2>1, <2>4, <2>5
<1>4. CASE HandleKeep
  <2> DEFINE e == Head(queue)
  <2> DEFINE j == KeepJob(e)
  <2>1. /\ e.id \in Ids /\ j \in Jobs /\ batch' = batch /\ disk' = disk /\ kept' = kept \cup Collected(e.id)
        /\ \/ UNCHANGED jobs
           \/ SendJob(j)
    BY <1>0, <1>4, KeepIs
  <2>2. j.id = e.id /\ j.frags = Collected(e.id)
    BY DEF KeepJob
  <2> HIDE DEF e, j
  <2>3. JobsUnderWay' \subseteq JobsUnderWay \cup {j}
    BY <1>0, <2>1, SendIs, FlowUnmoved
  <2>4. QED
    BY <2>1, <2>2, <2>3, StoredFewer
<1>5. CASE HandleRetry
  BY <1>5, RetryParked, StoredUnmoved
<1>6. CASE TickBegin
  <2>1. UNCHANGED <<jobs, batch, kept>> /\ Expire
    BY <1>6 DEF TickBegin, flushVars
  <2>2. QED
    BY <1>0, <2>1, ExpireIs, FlowUnmoved, StoredUnmoved
<1>7. CASE DrainDone \/ DrainFull \/ DrainDrop \/ DrainCollectErr
  <2>1. UNCHANGED <<jobs, batch, kept>> /\ (disk' = disk \/ Sacrifice)
    BY <1>7 DEF DrainDone, DrainFull, DrainDrop, DrainCollectErr, diskVars, flushVars
  <2>2. QED
    BY <1>0, <2>1, SacrificeIs, FlowUnmoved, StoredUnmoved
<1>8. CASE DrainSend
  <2> DEFINE id == Head(pendq)
  <2> DEFINE j == DrainJob(id)
  <2>1. id \in Ids /\ JobsUnderWay' = JobsUnderWay \cup {j} /\ UNCHANGED <<disk, kept>>
    BY <1>8, DrainSendIs
  <2>2. j.id = id /\ j.frags = Collected(id)
    BY DEF DrainJob
  <2> HIDE DEF id, j
  <2>3. QED
    BY <2>1, <2>2, StoredFewer
<1>9. CASE Gather
  <2>1. UNCHANGED <<disk, kept>>
    BY <1>9 DEF Gather, workVars, diskVars
  <2>2. QED
    BY <1>0, <1>9, <2>1, GatherIs, StoredUnmoved
<1>10. CASE Publish
  <2>1. UNCHANGED <<disk, kept, jobs, batch>>
    BY <1>10 DEF Publish, workVars, diskVars
  <2>2. QED
    BY <2>1, FlowUnmoved, StoredUnmoved
<1>11. CASE Consume
  <2>1. UNCHANGED <<disk, kept, jobs>> /\ fpc = "process" /\ NextJob
    BY <1>11 DEF Consume, workVars, diskVars
  <2>2. QED
    BY <1>0, <2>1, BatchShrinks, StoredUnmoved
<1>12. CASE RetryPublish \/ ConsumeRefused
  BY <1>12, SentBack, StoredUnmoved
<1>13. QED
  BY <1>1, <1>2, <1>3, <1>4, <1>5, <1>6, <1>7, <1>8, <1>9, <1>10, <1>11, <1>12 DEF Next, Handle, Drain, Flush

-----------------------------------------------------------------------------
(***************************************************************************)
(* KeptNeverLost.                                                          *)
(***************************************************************************)

(* What is owed stays owed while its carriers stay. *)
LEMMA OwedStays ==
    ASSUME NEW f, FlushOwed(f), NeedFlush \in pend[f.id].need => NeedFlush \in pend'[f.id].need,
           Retries \subseteq Retries', JobsUnderWay \subseteq JobsUnderWay'
    PROVE  FlushOwed(f)'
  BY DEF FlushOwed

(* park adds to what is owed. *)
LEMMA ParkOwes ==
    ASSUME TypeOK, NEW id \in Ids, NEW reason, NEW need \in OwedNeeds, NEW deadline, Park(id, reason, need, deadline)
    PROVE  /\ NeedFlush \in pend'[id].need
           /\ \A d \in Ids : pend[d].need \subseteq pend'[d].need
<1> DEFINE m == Merge(pend[id], reason, need, deadline)
<1>1. pend' = [pend EXCEPT ![id] = m] /\ pend \in [Ids -> Reqs]
  BY DEF Park, TypeOK
<1>2. m.need = pend[id].need \cup need /\ NeedFlush \in need
  BY DEF Merge, OwedNeeds
<1> HIDE DEF m
<1>3. pend'[id] = m /\ \A d \in Ids : d # id => pend'[d] = pend[d]
  BY <1>1
<1>4. QED
  BY <1>2, <1>3

(* sendJob: the job is under way, or its trace is parked. *)
LEMMA SendOwes ==
    ASSUME TypeOK, NEW j \in Jobs, j.need \in OwedNeeds, SendJob(j), batch' = batch
    PROVE  /\ j \in JobsUnderWay' \/ NeedFlush \in pend'[j.id].need
           /\ JobsUnderWay \subseteq JobsUnderWay'
           /\ \A d \in Ids : pend[d].need \subseteq pend'[d].need
<1>1. j.id \in Ids
  BY DEF Jobs
<1>2. CASE JobsUnderWay' = JobsUnderWay \cup {j} /\ UNCHANGED <<pend, pendq>>
  BY <1>2
<1>3. CASE JobsUnderWay' = JobsUnderWay /\ Park(j.id, j.reason, j.need, j.deadline)
  BY <1>1, <1>3, ParkOwes
<1>4. QED
  BY <1>2, <1>3, SendIs

(* Every step leaves a kept fragment settled, expired or owed. *)
LEMMA KeptNext ==
    ASSUME Base, StoredInv, KeptNeverLost, [Next]_vars
    PROVE  KeptNeverLost'
<1>0. TypeOK /\ BatchInv /\ Coherent /\ PendqCoherent /\ FlowNeeds
  BY BaseIs DEF BaseParts, Base
<1>1. SUFFICES ASSUME NEW f \in Elements(disk'), f.n \in kept', f.n \notin Unreadable
               PROVE  f.n \in settled' \/ FlushOwed(f)'
  BY DEF KeptNeverLost
<1>2. f \in Elements(disk) => f.id \in Ids
  <2>1. Elements(disk) \subseteq Fragments
    BY <1>0, ElementsIn DEF TypeOK
  <2>2. QED
    BY <2>1 DEF Fragments
<1>3. f \in Elements(disk) /\ f.n \in kept => f.n \in settled \/ FlushOwed(f)
  BY <1>1 DEF KeptNeverLost
<1>4. ASSUME f \in Elements(disk), f.n \in kept, settled \subseteq settled',
             \A d \in Ids : NeedFlush \in pend[d].need => NeedFlush \in pend'[d].need,
             Retries \subseteq Retries', JobsUnderWay \subseteq JobsUnderWay'
      PROVE  f.n \in settled' \/ FlushOwed(f)'
  BY <1>2, <1>3, <1>4, OwedStays
<1>5. CASE UNCHANGED vars
  <2>1. UNCHANGED <<disk, kept, settled, pend, queue, jobs, batch>>
    BY <1>5 DEF vars
  <2>2. f \in Elements(disk) /\ f.n \in kept
    BY <1>1, <2>1
  <2>3. QED
    BY <1>4, <2>1, <2>2, FlowUnmoved
<1>6. CASE \/ Advance
           \/ \E id \in Ids, at \in Stamps : ArriveFragment(id, at)
           \/ \E id \in Ids, at \in Stamps, o \in Origins : ArriveKeep(id, o, at)
           \/ HandleDuplicateKeep
  <2>1. UNCHANGED <<disk, kept, settled, pend>> /\ Retries' = Retries /\ JobsUnderWay' = JobsUnderWay
    BY <1>0, <1>6, ArrivalsIs
  <2>2. f \in Elements(disk) /\ f.n \in kept
    BY <1>1, <2>1
  <2>3. QED
    BY <1>4, <2>1, <2>2
<1>7. CASE HandleFragment
  <2> DEFINE e == Head(queue)
  <2> DEFINE g == Stored(e)
  <2> DEFINE j == FragmentJob(e)
  <2>1. /\ e.id \in Ids /\ j \in Jobs /\ g \in Fragments /\ batch' = batch /\ settled' = settled /\ Retries' = Retries
        /\ \/ UNCHANGED <<disk, jobs, pend, pendq, kept>>
           \/ disk' = Append(disk, g) /\ UNCHANGED <<jobs, pend, pendq, kept>>
           \/ disk' = Append(disk, g) /\ SendJob(j) /\ kept' = kept \cup {e.n}
    BY <1>0, <1>7, FragmentIs
  <2>2. e.n \in Unstored
    BY <1>7, NumbersNext
  <2>3. g.n = e.n /\ g.id = e.id /\ j.frags = {e.n} /\ j.id = e.id /\ j.need = {NeedFlush} /\ j.need \in OwedNeeds
    BY DEF Stored, FragmentJob, OwedNeeds
  <2> HIDE DEF e, g, j
  <2>4. e.n \notin kept /\ \A d \in Elements(disk) : d.n # e.n
    BY <2>2 DEF StoredInv
  <2>5. CASE UNCHANGED <<disk, jobs, pend, pendq, kept>>
    <3>1. f \in Elements(disk) /\ f.n \in kept
      BY <1>1, <2>5
    <3>2. QED
      BY <1>4, <2>1, <2>5, <3>1, FlowUnmoved
  <2>6. CASE disk' = Append(disk, g) /\ UNCHANGED <<jobs, pend, pendq, kept>>
    <3>1. Elements(disk') = Elements(disk) \cup {g}
      BY <1>0, <2>1, <2>6, Appended DEF TypeOK
    <3>2. f \in Elements(disk) /\ f.n \in kept
      BY <1>1, <2>3, <2>4, <2>6, <3>1
    <3>3. QED
      BY <1>4, <2>1, <2>6, <3>2, FlowUnmoved
  <2>7. CASE disk' = Append(disk, g) /\ SendJob(j) /\ kept' = kept \cup {e.n}
    <3>1. Elements(disk') = Elements(disk) \cup {g}
      BY <1>0, <2>1, <2>7, Appended DEF TypeOK
    <3>2. /\ j \in JobsUnderWay' \/ NeedFlush \in pend'[j.id].need
          /\ JobsUnderWay \subseteq JobsUnderWay'
          /\ \A d \in Ids : pend[d].need \subseteq pend'[d].need
      BY <1>0, <2>1, <2>3, <2>7, SendOwes
    <3>3. CASE f = g
      BY <2>3, <3>2, <3>3 DEF FlushOwed
    <3>4. CASE f # g
      <4>1. f \in Elements(disk) /\ f.n \in kept
        BY <1>1, <2>4, <2>7, <3>1, <3>4
      <4>2. QED
        BY <1>4, <2>1, <3>2, <4>1
    <3>5. QED
      BY <3>3, <3>4
  <2>8. QED
    BY <2>1, <2>5, <2>6, <2>7
<1>8. CASE HandleKeep
  <2> DEFINE e == Head(queue)
  <2> DEFINE j == KeepJob(e)
  <2>1. /\ e.id \in Ids /\ j \in Jobs /\ batch' = batch /\ disk' = disk /\ kept' = kept \cup Collected(e.id)
        /\ settled' = settled /\ Retries' = Retries /\ KeepNeed(e) \in OwedNeeds
        /\ \/ Park(e.id, Reason, KeepNeed(e), KeepDeadline(e)) /\ UNCHANGED jobs
           \/ Collected(e.id) = {} /\ UNCHANGED <<jobs, pend, pendq>>
           \/ SendJob(j)
    BY <1>0, <1>8, KeepIs
  <2>2. j.id = e.id /\ j.frags = Collected(e.id) /\ j.need = KeepNeed(e)
    BY DEF KeepJob
  <2> HIDE DEF e, j
  <2>3. f \in Elements(disk) /\ (f.n \in kept \/ f.n \in Collected(e.id))
    BY <1>1, <2>1
  <2>4. f.n \in Collected(e.id) => f.id = e.id
    <3>1. SUFFICES ASSUME f.n \in Collected(e.id)
                   PROVE  f.id = e.id
      OBVIOUS
    <3>2. PICK g \in Elements(disk) : g.id = e.id /\ g.n = f.n
      BY <1>0, <2>1, <3>1, CollectedIs
    <3>3. QED
      BY <2>3, <3>2 DEF StoredInv
  <2>5. NeedFlush \in KeepNeed(e)
    BY <2>1 DEF OwedNeeds
  <2>6. CASE Park(e.id, Reason, KeepNeed(e), KeepDeadline(e)) /\ UNCHANGED jobs
    <3>1. NeedFlush \in pend'[e.id].need /\ \A d \in Ids : pend[d].need \subseteq pend'[d].need
      BY <1>0, <2>1, <2>6, ParkOwes
    <3>2. CASE f.n \in kept
      BY <1>4, <2>1, <2>3, <2>6, <3>1, <3>2, FlowUnmoved
    <3>3. CASE f.n \in Collected(e.id)
      BY <2>4, <3>1, <3>3 DEF FlushOwed
    <3>4. QED
      BY <2>3, <3>2, <3>3
  <2>7. CASE Collected(e.id) = {} /\ UNCHANGED <<jobs, pend, pendq>>
    BY <1>4, <2>1, <2>3, <2>7, FlowUnmoved
  <2>8. CASE SendJob(j)
    <3>1. /\ j \in JobsUnderWay' \/ NeedFlush \in pend'[j.id].need
          /\ JobsUnderWay \subseteq JobsUnderWay'
          /\ \A d \in Ids : pend[d].need \subseteq pend'[d].need
      BY <1>0, <2>1, <2>2, <2>8, SendOwes
    <3>2. CASE f.n \in kept
      BY <1>4, <2>1, <2>3, <3>1, <3>2
    <3>3. CASE f.n \in Collected(e.id)
      BY <2>2, <2>4, <2>5, <3>1, <3>3 DEF FlushOwed
    <3>4. QED
      BY <2>3, <3>2, <3>3
  <2>9. QED
    BY <2>1, <2>6, <2>7, <2>8
<1>9. CASE HandleRetry
  <2> DEFINE e == Head(queue)
  <2>1. /\ e.id \in Ids /\ e.need \in OwedNeeds /\ Park(e.id, e.reason, e.need, e.deadline)
        /\ Retries = Retries' \cup {e} /\ JobsUnderWay' = JobsUnderWay /\ UNCHANGED <<disk, kept, settled>>
    BY <1>9, RetryParked
  <2> HIDE DEF e
  <2>2. NeedFlush \in pend'[e.id].need /\ \A d \in Ids : pend[d].need \subseteq pend'[d].need
    BY <1>0, <2>1, ParkOwes
  <2>3. f \in Elements(disk) /\ f.n \in kept
    BY <1>1, <2>1
  <2>4. f.n \in settled \/ FlushOwed(f)
    BY <1>3, <2>3
  <2>5. FlushOwed(f) => FlushOwed(f)'
    BY <1>2, <2>1, <2>2, <2>3 DEF FlushOwed
  <2>6. QED
    BY <2>1, <2>4, <2>5
<1>10. CASE TickBegin
  <2>1. UNCHANGED <<queue, jobs, batch, kept, settled>> /\ Expire /\ pend' = [id \in Ids |-> Swept(pend[id])]
    BY <1>10 DEF TickBegin, flushVars
  <2>2. \A d \in Ids : NeedFlush \in pend[d].need => NeedFlush \in pend'[d].need
    <3>1. SUFFICES ASSUME NEW d \in Ids, NeedFlush \in pend[d].need
                   PROVE  NeedFlush \in Swept(pend[d]).need
      BY <2>1
    <3>2. pend[d] \in Reqs
      BY <1>0 DEF TypeOK
    <3>3. pend[d].need # {NeedPublish} /\ NeedFlush \in pend[d].need \ {NeedPublish}
      BY <3>1 DEF NeedPublish, NeedFlush
    <3>4. [pend[d] EXCEPT !.need = @ \ {NeedPublish}, !.deadline = NoDeadline].need = pend[d].need \ {NeedPublish}
      BY <3>2 DEF Reqs
    <3>5. QED
      BY <3>1, <3>3, <3>4 DEF Swept
  <2>3. f \in Elements(disk) /\ f.n \in kept
    BY <1>0, <1>1, <2>1, ExpireIs
  <2>4. QED
    BY <1>4, <2>1, <2>2, <2>3, FlowUnmoved
<1>11. CASE DrainDone \/ DrainFull
  <2>1. UNCHANGED <<queue, jobs, batch, kept, settled, pend>> /\ Sacrifice
    BY <1>11 DEF DrainDone, DrainFull, flushVars
  <2>2. f \in Elements(disk) /\ f.n \in kept
    BY <1>0, <1>1, <2>1, SacrificeIs
  <2>3. QED
    BY <1>4, <2>1, <2>2, FlowUnmoved
<1>12. CASE DrainDrop
  <2> DEFINE id == Head(pendq)
  <2>1. /\ left > 0 /\ (pend[id].need = {} \/ Collected(id) = {}) /\ pend' = [pend EXCEPT ![id] = NoReq]
        /\ UNCHANGED <<queue, disk, jobs, batch, kept, settled>>
    BY <1>12 DEF DrainDrop, diskVars, flushVars
  <2>2. id \in Ids /\ pend[id].queued
    BY <1>0, <2>1, DrainHead
  <2> HIDE DEF id
  <2>3. Collected(id) = {}
    BY <1>0, <2>1, <2>2 DEF Coherent, OwedNeeds
  <2>4. f \in Elements(disk) /\ f.n \in kept
    BY <1>1, <2>1
  <2>5. f.id # id
    BY <1>0, <1>1, <2>2, <2>3, <2>4, CollectedIs
  <2>6. pend'[f.id] = pend[f.id]
    BY <1>0, <1>2, <2>1, <2>4, <2>5 DEF TypeOK
  <2>7. FlushOwed(f) => FlushOwed(f)'
    BY <2>1, <2>6, OwedStays, FlowUnmoved
  <2>8. QED
    BY <1>3, <2>1, <2>4, <2>7
<1>13. CASE DrainSend
  <2> DEFINE id == Head(pendq)
  <2> DEFINE j == DrainJob(id)
  <2>1. /\ id \in Ids /\ JobsUnderWay' = JobsUnderWay \cup {j} /\ UNCHANGED <<disk, kept, settled>> /\ Retries' = Retries
        /\ pend' = [pend EXCEPT ![id] = NoReq] /\ pend[id].need \in OwedNeeds
    BY <1>13, DrainSendIs
  <2>2. j.id = id /\ j.frags = Collected(id) /\ j.need = pend[id].need
    BY DEF DrainJob
  <2> HIDE DEF id, j
  <2>3. f \in Elements(disk) /\ f.n \in kept
    BY <1>1, <2>1
  <2>4. CASE f.id = id
    <3>1. f.n \in Collected(id)
      BY <1>0, <1>1, <2>1, <2>3, <2>4, CollectedIs
    <3>2. NeedFlush \in j.need
      BY <2>1, <2>2 DEF OwedNeeds
    <3>3. QED
      BY <2>1, <2>2, <3>1, <3>2 DEF FlushOwed
  <2>5. CASE f.id # id
    <3>1. pend'[f.id] = pend[f.id]
      BY <1>0, <1>2, <2>1, <2>3, <2>5 DEF TypeOK
    <3>2. FlushOwed(f) => FlushOwed(f)'
      BY <2>1, <3>1, OwedStays
    <3>3. QED
      BY <1>3, <2>1, <2>3, <3>2
  <2>6. QED
    BY <2>4, <2>5
<1>14. CASE DrainCollectErr
  <2> DEFINE id == Head(pendq)
  <2> DEFINE m == Merge(NoReq, pend[id].reason, pend[id].need, pend[id].deadline)
  <2>1. left > 0 /\ pend' = [pend EXCEPT ![id] = m] /\ UNCHANGED <<queue, disk, jobs, batch, kept, settled>>
    BY <1>14 DEF DrainCollectErr, diskVars, flushVars
  <2>2. id \in Ids
    BY <1>0, <2>1, DrainHead
  <2>3. m.need = pend[id].need
    BY DEF Merge, NoReq
  <2> HIDE DEF id, m
  <2>4. \A d \in Ids : pend'[d].need = pend[d].need
    BY <1>0, <2>1, <2>2, <2>3 DEF TypeOK
  <2>5. f \in Elements(disk) /\ f.n \in kept
    BY <1>1, <2>1
  <2>6. QED
    BY <1>4, <2>1, <2>4, <2>5, FlowUnmoved
<1>15. CASE Gather
  <2>1. UNCHANGED <<disk, kept, settled, pend, queue>>
    BY <1>15 DEF Gather, workVars, diskVars
  <2>2. f \in Elements(disk) /\ f.n \in kept
    BY <1>1, <2>1
  <2>3. QED
    BY <1>0, <1>4, <1>15, <2>1, <2>2, GatherIs, FlowUnmoved
<1>16. CASE Publish
  <2>1. UNCHANGED <<disk, kept, settled, pend, queue, jobs, batch>>
    BY <1>16 DEF Publish, workVars, diskVars
  <2>2. f \in Elements(disk) /\ f.n \in kept
    BY <1>1, <2>1
  <2>3. QED
    BY <1>4, <2>1, <2>2, FlowUnmoved
<1>17. CASE Consume
  <2> DEFINE j == Head(batch)
  <2>1. /\ UNCHANGED <<disk, kept, jobs, pend, queue>> /\ fpc = "process" /\ NextJob
        /\ settled' = IF NeedFlush \in j.need THEN settled \cup j.frags ELSE settled
    BY <1>17 DEF Consume, workVars, diskVars
  <2>2. JobsUnderWay = JobsUnderWay' \cup {j}
    BY <1>0, <2>1, BatchShrinks
  <2> HIDE DEF j
  <2>3. f \in Elements(disk) /\ f.n \in kept
    BY <1>1, <2>1
  <2>4. f.n \in settled \/ FlushOwed(f)
    BY <1>3, <2>3
  <2>5. FlushOwed(f) => FlushOwed(f)' \/ (NeedFlush \in j.need /\ f.n \in j.frags)
    BY <2>1, <2>2, FlowUnmoved DEF FlushOwed
  <2>6. QED
    BY <2>1, <2>4, <2>5
<1>18. CASE RetryPublish \/ ConsumeRefused
  <2> DEFINE j == Head(batch)
  <2> DEFINE need == IF RetryPublish THEN j.need ELSE {NeedFlush}
  <2>1. /\ JobsUnderWay = JobsUnderWay' \cup {j} /\ Retries' = Retries \cup {RetryOf(j, need)}
        /\ need \in OwedNeeds /\ UNCHANGED <<disk, kept, settled, pend>>
    BY <1>18, SentBack
  <2> HIDE DEF j, need
  <2>2. RetryOf(j, need).id = j.id /\ RetryOf(j, need).need = need /\ NeedFlush \in need
    BY <2>1 DEF RetryOf, OwedNeeds
  <2>3. f \in Elements(disk) /\ f.n \in kept
    BY <1>1, <2>1
  <2>4. f.n \in settled \/ FlushOwed(f)
    BY <1>3, <2>3
  <2>5. f.n \in j.frags => f.id = j.id
    BY <2>1, <2>3 DEF StoredInv
  <2>6. FlushOwed(f) => FlushOwed(f)'
    BY <2>1, <2>2, <2>5 DEF FlushOwed
  <2>7. QED
    BY <2>1, <2>4, <2>6
<1>19. QED
  BY <1>5, <1>6, <1>7, <1>8, <1>9, <1>10, <1>11, <1>12, <1>13, <1>14, <1>15, <1>16, <1>17, <1>18
     DEF Next, Handle, Drain, Flush

(* No fragment that was on disk while its trace was decided is lost: it is *)
(* delivered, refused for good, expired, or still owed.                    *)
THEOREM NothingKeptIsLost == Spec => []KeptNeverLost
<1>1. Init => Base /\ StoredInv /\ KeptNeverLost
  <2>1. Elements(<< >>) = {} /\ Len(<< >>) = 0
    BY DEF Elements
  <2>2. Init => StoredInv /\ KeptNeverLost
    BY <2>1 DEF Init, StoredInv, KeptNeverLost, Waiting, JobsUnderWay
  <2>3. QED
    BY <2>2, BaseInit
<1>2. Base /\ StoredInv /\ KeptNeverLost /\ [Next]_vars => Base' /\ StoredInv' /\ KeptNeverLost'
  BY BaseNext, StoredNext, KeptNext
<1>3. QED
  BY <1>1, <1>2, PTL DEF Spec

-----------------------------------------------------------------------------
(***************************************************************************)
(* What is promised of verdicts: each is broadcast, no trace is decided    *)
(* twice in a window, and the decided set forgets in time.                 *)
(***************************************************************************)

(***************************************************************************)
(* BroadcastExact, first half: OutstandingInv.                             *)
(***************************************************************************)
Carriers == Elements(jobs) \cup Unacked \cup Retries

OwedTo(id) ==
    \/ NeedPublish \in pend[id].need
    \/ \E j \in Carriers : j.id = id /\ NeedPublish \in j.need

(* The invariant by this name, now and next. *)
LEMMA OutstandingIs ==
    /\ OutstandingInv <=> \A id \in Ids : outstanding[id] => OwedTo(id)
    /\ OutstandingInv' <=> \A id \in Ids : outstanding'[id] => OwedTo(id)'
  BY DEF OutstandingInv, OwedTo, Carriers

(* A broadcast owed stays owed while its carriers stay. *)
LEMMA OwedToStays ==
    ASSUME NEW id, OwedTo(id), NeedPublish \in pend[id].need => NeedPublish \in pend'[id].need, Carriers \subseteq Carriers'
    PROVE  OwedTo(id)'
  BY DEF OwedTo

(* Carriers that do not move. *)
LEMMA CarriersUnmoved ==
    ASSUME UNCHANGED <<batch, fpc, failed>>, Elements(jobs) \subseteq Elements(jobs'), Retries \subseteq Retries'
    PROVE  Carriers \subseteq Carriers'
  BY DEF Carriers, Unacked

(* The flusher's job leaves; the others it has not had acked stay. *)
LEMMA UnackedShrinks ==
    ASSUME Base, fpc = "process", NextJob, UNCHANGED jobs
    PROVE  \A j \in Unacked : j \in Unacked' \/ (j = Head(batch) /\ j.id \in failed)
<1>0. TypeOK /\ BatchInv
  BY DEF Base, PendqCoherent
<1>1. /\ batch' = Tail(batch) /\ fpc' \in {"idle", "process"} /\ (fpc' = "process" => failed' = failed)
      /\ BatchInv'
  BY <1>0, NextJobIs
<1>2. Elements(batch) = {Head(batch)} \cup Elements(batch')
  BY <1>0, <1>1, BatchHead
<1>3. fpc' = "idle" => Elements(batch') = {}
  BY <1>1 DEF BatchInv, Elements
<1>4. QED
  BY <1>1, <1>2, <1>3 DEF Unacked

(* What park leaves owed to the bus. *)
LEMMA ParkOwesBus ==
    ASSUME TypeOK, NEW id \in Ids, NEW reason, NEW need, NEW deadline, Park(id, reason, need, deadline)
    PROVE  /\ NeedPublish \in pend'[id].need <=> NeedPublish \in pend[id].need \/ NeedPublish \in need
           /\ \A d \in Ids : d # id => pend'[d] = pend[d]
<1> DEFINE m == Merge(pend[id], reason, need, deadline)
<1>1. pend' = [pend EXCEPT ![id] = m] /\ pend \in [Ids -> Reqs]
  BY DEF Park, TypeOK
<1>2. m.need = pend[id].need \cup need
  BY DEF Merge
<1> HIDE DEF m
<1>3. pend'[id] = m /\ \A d \in Ids : d # id => pend'[d] = pend[d]
  BY <1>1
<1>4. QED
  BY <1>2, <1>3

(* sendJob: the job is on the channel, or its trace is parked. *)
LEMMA SendOwesBus ==
    ASSUME TypeOK, NEW j \in Jobs, SendJob(j), batch' = batch
    PROVE  /\ Elements(jobs) \subseteq Elements(jobs')
           /\ j \in Elements(jobs') \/ (NeedPublish \in j.need => NeedPublish \in pend'[j.id].need)
           /\ \A d \in Ids : NeedPublish \in pend[d].need => NeedPublish \in pend'[d].need
<1>1. j.id \in Ids
  BY DEF Jobs
<1>2. CASE jobs' = Append(jobs, j) /\ UNCHANGED <<pend, pendq>>
  BY <1>2, JobsGrow
<1>3. CASE UNCHANGED jobs /\ Park(j.id, j.reason, j.need, j.deadline)
  BY <1>1, <1>3, ParkOwesBus
<1>4. QED
  BY <1>2, <1>3, SendIs

(* Every step leaves an outstanding verdict with a carrier. *)
LEMMA OutstandingNext ==
    ASSUME Base, OutstandingInv, [Next]_vars
    PROVE  OutstandingInv'
<1>0. TypeOK /\ BatchInv /\ Coherent /\ PendqCoherent
  BY BaseIs DEF BaseParts, Base
<1>1. SUFFICES ASSUME NEW id \in Ids, outstanding'[id]
               PROVE  OwedTo(id)'
  BY OutstandingIs
<1>2. outstanding[id] => OwedTo(id)
  BY OutstandingIs
<1>3. ASSUME outstanding[id], NeedPublish \in pend[id].need => NeedPublish \in pend'[id].need, Carriers \subseteq Carriers'
      PROVE  OwedTo(id)'
  BY <1>2, <1>3, OwedToStays
<1>4. CASE UNCHANGED vars
  <2>1. UNCHANGED <<pend, queue, jobs, batch, fpc, failed, outstanding>>
    BY <1>4 DEF vars
  <2>2. QED
    BY <1>1, <1>3, <2>1, FlowUnmoved, CarriersUnmoved
<1>5. CASE \/ Advance
           \/ \E d \in Ids, at \in Stamps : ArriveFragment(d, at)
           \/ \E d \in Ids, at \in Stamps, o \in Origins : ArriveKeep(d, o, at)
           \/ HandleDuplicateKeep
  <2>1. UNCHANGED <<pend, jobs, batch, fpc, failed, outstanding>> /\ Retries' = Retries
    BY <1>0, <1>5, ArrivalsIs
  <2>2. QED
    BY <1>1, <1>3, <2>1, CarriersUnmoved
<1>6. CASE HandleFragment
  <2> DEFINE e == Head(queue)
  <2> DEFINE j == FragmentJob(e)
  <2>1. /\ j \in Jobs /\ UNCHANGED <<batch, fpc, failed, outstanding>> /\ Retries' = Retries
        /\ UNCHANGED <<jobs, pend>> \/ SendJob(j)
    BY <1>0, <1>6, FragmentIs
  <2> HIDE DEF e, j
  <2>2. /\ Elements(jobs) \subseteq Elements(jobs')
        /\ \A d \in Ids : NeedPublish \in pend[d].need => NeedPublish \in pend'[d].need
    BY <1>0, <2>1, SendOwesBus
  <2>3. QED
    BY <1>1, <1>3, <2>1, <2>2, CarriersUnmoved
<1>7. CASE HandleKeep
  <2> DEFINE e == Head(queue)
  <2> DEFINE j == KeepJob(e)
  <2>1. /\ e.id \in Ids /\ j \in Jobs /\ UNCHANGED <<batch, fpc, failed>> /\ Retries' = Retries
        /\ \/ Park(e.id, Reason, KeepNeed(e), KeepDeadline(e)) /\ UNCHANGED jobs
           \/ NeedPublish \notin KeepNeed(e) /\ UNCHANGED <<jobs, pend, pendq>>
           \/ SendJob(j)
    BY <1>0, <1>7, KeepIs
  <2>2. j.id = e.id /\ j.need = KeepNeed(e)
    BY DEF KeepJob
  <2>3. \/ NeedPublish \in KeepNeed(e) /\ outstanding' = [outstanding EXCEPT ![e.id] = TRUE]
        \/ UNCHANGED outstanding
    BY <1>7 DEF HandleKeep, KeepNeed
  <2> HIDE DEF e, j
  <2>4. /\ Elements(jobs) \subseteq Elements(jobs')
        /\ \A d \in Ids : NeedPublish \in pend[d].need => NeedPublish \in pend'[d].need
        /\ NeedPublish \in KeepNeed(e) => j \in Elements(jobs') \/ NeedPublish \in pend'[e.id].need
    <3>1. CASE Park(e.id, Reason, KeepNeed(e), KeepDeadline(e)) /\ UNCHANGED jobs
      BY <1>0, <2>1, <3>1, ParkOwesBus
    <3>2. CASE NeedPublish \notin KeepNeed(e) /\ UNCHANGED <<jobs, pend, pendq>>
      BY <3>2
    <3>3. CASE SendJob(j)
      BY <1>0, <2>1, <2>2, <3>3, SendOwesBus
    <3>4. QED
      BY <2>1, <3>1, <3>2, <3>3
  <2>5. CASE outstanding[id]
    BY <1>3, <2>1, <2>4, <2>5, CarriersUnmoved
  <2>6. CASE ~outstanding[id]
    <3>1. id = e.id /\ NeedPublish \in KeepNeed(e)
      BY <1>0, <1>1, <2>1, <2>3, <2>6 DEF TypeOK
    <3>2. j \in Elements(jobs') => j \in Carriers'
      BY DEF Carriers
    <3>3. QED
      BY <2>2, <2>4, <3>1, <3>2 DEF OwedTo
  <2>7. QED
    BY <2>5, <2>6
<1>8. CASE HandleRetry
  <2> DEFINE e == Head(queue)
  <2>1. /\ e.id \in Ids /\ Park(e.id, e.reason, e.need, e.deadline) /\ Retries = Retries' \cup {e}
        /\ UNCHANGED <<jobs, batch, fpc, failed, outstanding>>
    BY <1>8, RetryParked
  <2> HIDE DEF e
  <2>2. /\ NeedPublish \in pend'[e.id].need <=> NeedPublish \in pend[e.id].need \/ NeedPublish \in e.need
        /\ \A d \in Ids : d # e.id => pend'[d] = pend[d]
    BY <1>0, <2>1, ParkOwesBus
  <2>3. Carriers \subseteq Carriers' \cup {e}
    BY <2>1 DEF Carriers, Unacked
  <2>4. OwedTo(id)
    BY <1>1, <1>2, <2>1
  <2>5. QED
    BY <2>2, <2>3, <2>4 DEF OwedTo
<1>9. CASE TickBegin
  <2>1. /\ UNCHANGED <<queue, jobs, batch, fpc, failed>> /\ pend' = [d \in Ids |-> Swept(pend[d])]
        /\ outstanding' = [d \in Ids |-> outstanding[d] /\ ~Abandoned(pend[d])]
    BY <1>9 DEF TickBegin, flushVars
  <2>2. outstanding[id] /\ ~Abandoned(pend[id])
    BY <1>1, <2>1, Zenon
  <2>3. pend'[id] = pend[id]
    BY <2>1, <2>2 DEF Swept
  <2>4. QED
    BY <1>3, <2>1, <2>2, <2>3, FlowUnmoved, CarriersUnmoved
<1>10. CASE DrainDone \/ DrainFull
  <2>1. UNCHANGED <<pend, queue, jobs, batch, fpc, failed, outstanding>>
    BY <1>10 DEF DrainDone, DrainFull, flushVars, pubVars
  <2>2. QED
    BY <1>1, <1>3, <2>1, FlowUnmoved, CarriersUnmoved
<1>11. CASE DrainDrop
  <2> DEFINE d == Head(pendq)
  <2>1. /\ left > 0 /\ pend' = [pend EXCEPT ![d] = NoReq] /\ UNCHANGED <<queue, jobs, batch, fpc, failed, outstanding>>
        /\ NeedPublish \notin pend[d].need
    BY <1>11 DEF DrainDrop, flushVars, pubVars
  <2>2. d \in Ids
    BY <1>0, <2>1, DrainHead
  <2>3. NeedPublish \in pend[id].need => pend'[id] = pend[id]
    BY <1>0, <2>1, <2>2 DEF TypeOK
  <2>4. QED
    BY <1>1, <1>3, <2>1, <2>3, FlowUnmoved, CarriersUnmoved
<1>12. CASE DrainSend
  <2> DEFINE d == Head(pendq)
  <2> DEFINE j == DrainJob(d)
  <2>1. /\ d \in Ids /\ j \in Jobs /\ jobs' = Append(jobs, j) /\ Retries' = Retries /\ pend' = [pend EXCEPT ![d] = NoReq]
        /\ UNCHANGED <<batch, fpc, failed, outstanding>>
    BY <1>12, DrainSendIs
  <2>2. j.id = d /\ j.need = pend[d].need
    BY DEF DrainJob
  <2> HIDE DEF d, j
  <2>3. Elements(jobs') = Elements(jobs) \cup {j}
    BY <1>0, <2>1, JobsGrow
  <2>4. Carriers \cup {j} \subseteq Carriers'
    BY <2>1, <2>3 DEF Carriers, Unacked
  <2>5. \A k \in Ids : k # d => pend'[k] = pend[k]
    BY <1>0, <2>1 DEF TypeOK
  <2>6. OwedTo(id)
    BY <1>1, <1>2, <2>1
  <2>7. QED
    BY <2>2, <2>4, <2>5, <2>6 DEF OwedTo
<1>13. CASE DrainCollectErr
  <2> DEFINE d == Head(pendq)
  <2> DEFINE m == Merge(NoReq, pend[d].reason, pend[d].need, pend[d].deadline)
  <2>1. left > 0 /\ pend' = [pend EXCEPT ![d] = m] /\ UNCHANGED <<queue, jobs, batch, fpc, failed, outstanding>>
    BY <1>13 DEF DrainCollectErr, flushVars, pubVars
  <2>2. d \in Ids /\ m.need = pend[d].need
    BY <1>0, <2>1, DrainHead DEF Merge, NoReq
  <2> HIDE DEF d, m
  <2>3. pend'[id].need = pend[id].need
    BY <1>0, <2>1, <2>2 DEF TypeOK
  <2>4. QED
    BY <1>1, <1>3, <2>1, <2>3, FlowUnmoved, CarriersUnmoved
<1>14. CASE Gather
  <2>1. UNCHANGED <<pend, queue, outstanding>> /\ fpc' = "publish"
    BY <1>14 DEF Gather, workVars, pubVars
  <2>2. Elements(batch) = {} /\ Elements(batch') = Elements(jobs)
    BY <1>0, <1>14, GatherIs
  <2>3. Carriers \subseteq Carriers'
    BY <2>1, <2>2, FlowUnmoved DEF Carriers, Unacked
  <2>4. QED
    BY <1>1, <1>3, <2>1, <2>3
<1>15. CASE Publish
  <2>1. UNCHANGED <<pend, queue, jobs, batch>> /\ fpc = "publish"
    BY <1>15 DEF Publish, workVars
  <2>2. PICK F \in SUBSET Owing :
          /\ failed' = F
          /\ outstanding' = [d \in Ids |-> outstanding[d] /\ d \notin Owing \ F]
    BY <1>0, <1>15, PublishIs
  <2>3. outstanding[id] /\ id \notin Owing \ F
    BY <1>1, <2>2, Zenon
  <2>4. OwedTo(id)
    BY <1>2, <2>3
  <2>5. \A j \in Carriers : j.id = id /\ NeedPublish \in j.need => j \in Carriers'
    <3>1. SUFFICES ASSUME NEW j \in Unacked, j.id = id, NeedPublish \in j.need
                   PROVE  j \in Unacked'
      BY <2>1, FlowUnmoved DEF Carriers
    <3>2. j \in Elements(batch) /\ id \in Owing
      BY <3>1 DEF Unacked, Owing
    <3>3. j.id \in failed'
      BY <2>2, <2>3, <3>1, <3>2
    <3>4. QED
      BY <2>1, <3>2, <3>3 DEF Unacked
  <2>6. QED
    BY <2>1, <2>4, <2>5 DEF OwedTo
<1>16. CASE Consume
  <2>1. /\ UNCHANGED <<pend, queue, jobs, outstanding>> /\ fpc = "process" /\ NextJob
        /\ ~(NeedPublish \in Head(batch).need /\ Head(batch).id \in failed)
    BY <1>16 DEF Consume, PublishFailed, workVars, pubVars
  <2>2. \A j \in Unacked : j \in Unacked' \/ (j = Head(batch) /\ j.id \in failed)
    BY <2>1, UnackedShrinks
  <2>3. OwedTo(id)
    BY <1>1, <1>2, <2>1
  <2>4. \A j \in Carriers : NeedPublish \in j.need => j \in Carriers'
    BY <2>1, <2>2, FlowUnmoved DEF Carriers
  <2>5. QED
    BY <2>1, <2>3, <2>4 DEF OwedTo
<1>17. CASE RetryPublish \/ ConsumeRefused
  <2> DEFINE j == Head(batch)
  <2> DEFINE need == IF RetryPublish THEN j.need ELSE {NeedFlush}
  <2>1. /\ fpc = "process" /\ NextJob /\ Retries' = Retries \cup {RetryOf(j, need)}
        /\ UNCHANGED <<pend, jobs, outstanding>> /\ (PublishFailed(j) <=> RetryPublish)
    BY <1>17, SentBack
  <2>2. \A k \in Unacked : k \in Unacked' \/ (k = j /\ k.id \in failed)
    BY <2>1, UnackedShrinks
  <2>3. NeedPublish \in j.need /\ j.id \in failed => NeedPublish \in need
    BY <2>1 DEF PublishFailed
  <2>4. OwedTo(id)
    BY <1>1, <1>2, <2>1
  <2> HIDE DEF j, need
  <2>5. RetryOf(j, need).id = j.id /\ RetryOf(j, need).need = need
    BY DEF RetryOf
  <2>6. \A k \in Carriers : NeedPublish \in k.need => k \in Carriers' \/ (k.id = j.id /\ NeedPublish \in need)
    BY <2>1, <2>2, <2>3 DEF Carriers
  <2>7. RetryOf(j, need) \in Carriers'
    BY <2>1 DEF Carriers
  <2>8. QED
    BY <2>1, <2>4, <2>5, <2>6, <2>7 DEF OwedTo
<1>18. QED
  BY <1>4, <1>5, <1>6, <1>7, <1>8, <1>9, <1>10, <1>11, <1>12, <1>13, <1>14, <1>15, <1>16, <1>17
     DEF Next, Handle, Drain, Flush

-----------------------------------------------------------------------------
(***************************************************************************)
(* Counting places in a sequence.                                          *)
(***************************************************************************)
Places(s, T) == {i \in 1 .. Len(s) : s[i] \in T}

(* There are finitely many. *)
LEMMA PlacesFinite ==
    ASSUME NEW S, NEW s \in Seq(S), NEW T
    PROVE  IsFiniteSet(Places(s, T)) /\ Cardinality(Places(s, T)) \in Nat
<1>1. Len(s) \in Nat
  OBVIOUS
<1>2. IsFiniteSet(1 .. Len(s))
  BY <1>1, FS_Interval
<1>3. Places(s, T) \in SUBSET (1 .. Len(s))
  BY DEF Places
<1>4. IsFiniteSet(Places(s, T))
  BY <1>2, <1>3, FS_Subset
<1>5. QED
  BY <1>4, FS_CardinalityType

(* None in the empty sequence. *)
LEMMA PlacesEmpty ==
    ASSUME NEW T
    PROVE  Cardinality(Places(<< >>, T)) = 0
<1>1. Places(<< >>, T) = {}
  BY DEF Places
<1>2. QED
  BY <1>1, FS_EmptySet

(* An element that is there has a place. *)
LEMMA PlacesNonempty ==
    ASSUME NEW S, NEW s \in Seq(S), NEW T, NEW e \in Elements(s), e \in T
    PROVE  Cardinality(Places(s, T)) >= 1
<1>1. IsFiniteSet(Places(s, T)) /\ Cardinality(Places(s, T)) \in Nat
  BY PlacesFinite
<1>2. Places(s, T) # {}
  BY DEF Places, Elements
<1>3. Cardinality(Places(s, T)) # 0
  BY <1>1, <1>2, FS_EmptySet
<1>4. QED
  BY <1>1, <1>3

(* One more element, one more place at most. *)
LEMMA PlacesAppend ==
    ASSUME NEW S, NEW s \in Seq(S), NEW e \in S, NEW T
    PROVE  Cardinality(Places(Append(s, e), T)) = Cardinality(Places(s, T)) + (IF e \in T THEN 1 ELSE 0)
<1> DEFINE n == Len(s) + 1
<1>1. /\ Len(Append(s, e)) = n /\ Len(s) \in Nat
      /\ \A i \in 1 .. Len(s) : Append(s, e)[i] = s[i]
      /\ Append(s, e)[n] = e
  BY Appended
<1> DEFINE r == Append(s, e)
<1>2. \A i \in 1 .. n : i \in 1 .. Len(s) \/ i = n
  BY <1>1
<1>3. \A i \in 1 .. Len(s) : i \in 1 .. n /\ i # n
  BY <1>1
<1>4. n \in 1 .. n
  BY <1>1
<1>5. IsFiniteSet(Places(s, T)) /\ Cardinality(Places(s, T)) \in Nat
  BY PlacesFinite
<1> HIDE DEF r, n
<1>6. n \notin Places(s, T)
  BY <1>3 DEF Places
<1>7. CASE e \in T
  <2>1. Places(r, T) = Places(s, T) \cup {n}
    BY <1>1, <1>2, <1>3, <1>4, <1>7 DEF Places, r
  <2>2. Cardinality(Places(s, T) \cup {n}) = Cardinality(Places(s, T)) + 1
    BY <1>5, <1>6, FS_AddElement
  <2>3. QED
    BY <1>7, <2>1, <2>2 DEF r
<1>8. CASE e \notin T
  <2>1. Places(r, T) = Places(s, T)
    BY <1>1, <1>2, <1>3, <1>4, <1>8 DEF Places, r
  <2>2. QED
    BY <1>5, <1>8, <2>1 DEF r
<1>9. QED
  BY <1>7, <1>8

(* One element fewer, one place fewer at most. *)
LEMMA PlacesTail ==
    ASSUME NEW S, NEW s \in Seq(S), s # << >>, NEW T
    PROVE  Cardinality(Places(s, T)) = Cardinality(Places(Tail(s), T)) + (IF Head(s) \in T THEN 1 ELSE 0)
<1> DEFINE t == Tail(s)
<1>1. /\ Head(s) = s[1] /\ Len(s) \in Nat \ {0} /\ t \in Seq(S) /\ Len(t) = Len(s) - 1
      /\ \A i \in 1 .. Len(t) : t[i] = s[i + 1] /\ i + 1 \in 1 .. Len(s)
  BY Tailed
<1> HIDE DEF t
<1> DEFINE Q == Places(t, T)
<1> DEFINE R == {i \in Places(s, T) : i # 1}
<1>2. IsFiniteSet(Q) /\ Cardinality(Q) \in Nat
  BY <1>1, PlacesFinite
<1>3. \A i \in Q : i \in Nat /\ i + 1 \in R
  BY <1>1 DEF Places
<1>4. \A i \in R : i - 1 \in Q /\ (i - 1) + 1 = i
  BY <1>1 DEF Places
<1> DEFINE f == [i \in Q |-> i + 1]
<1>5. f \in Bijection(Q, R)
  <2> HIDE DEF Q, R
  <2>1. f \in [Q -> R]
    BY <1>3
  <2>2. \A a, b \in Q : f[a] = f[b] => a = b
    BY <1>3
  <2>3. \A i \in R : \E a \in Q : f[a] = i
    BY <1>4
  <2>4. QED
    BY <2>1, <2>2, <2>3, Fun_IsBij
<1>6. IsFiniteSet(R) /\ Cardinality(R) = Cardinality(Q)
  <2> HIDE DEF Q, R, f
  <2>1. ExistsBijection(Q, R)
    BY <1>5, Fun_ExistsBij
  <2>2. QED
    BY <1>2, <2>1, FS_Bijection
<1>7. 1 \in 1 .. Len(s)
  BY <1>1
<1>8. CASE Head(s) \in T
  <2>1. Places(s, T) = R \cup {1} /\ 1 \notin R
    BY <1>1, <1>7, <1>8 DEF Places
  <2> HIDE DEF R, Q
  <2>2. Cardinality(R \cup {1}) = Cardinality(R) + 1
    BY <1>6, <2>1, FS_AddElement
  <2>3. QED
    BY <1>6, <1>8, <2>1, <2>2 DEF t, Q
<1>9. CASE Head(s) \notin T
  <2>1. Places(s, T) = R
    BY <1>1, <1>9 DEF Places
  <2> HIDE DEF R
  <2>2. QED
    BY <1>2, <1>6, <1>9, <2>1 DEF t
<1>10. QED
  BY <1>8, <1>9

-----------------------------------------------------------------------------
(***************************************************************************)
(* BroadcastExact, second half: CreditInv.                                 *)
(***************************************************************************)
PublishJobs(id)    == {j \in Jobs : j.id = id /\ NeedPublish \in j.need}
PublishRetries(id) == {e \in Events : e.kind = "evRetry" /\ e.id = id /\ NeedPublish \in e.need}

ParkedOne(id)  == IF NeedPublish \in pend[id].need THEN 1 ELSE 0
OnChannel(id)  == Cardinality(Places(jobs, PublishJobs(id)))
InBatch(id)    == Cardinality(Places(batch, PublishJobs(id)))
ToAck(id)      == IF fpc = "publish" \/ id \in failed THEN InBatch(id) ELSE 0
OnQueue(id)    == Cardinality(Places(queue, PublishRetries(id)))

(* The counts of the invariant are these, and natural numbers. *)
LEMMA TallyIs ==
    ASSUME TypeOK, NEW id
    PROVE  /\ Broadcasts(id) = ParkedOne(id) + OnChannel(id) + ToAck(id) + OnQueue(id)
           /\ ParkedOne(id) \in Nat /\ OnChannel(id) \in Nat /\ ToAck(id) \in Nat /\ OnQueue(id) \in Nat /\ InBatch(id) \in Nat
<1>1. jobs \in Seq(Jobs) /\ batch \in Seq(Jobs) /\ queue \in Seq(Events)
  BY DEF TypeOK
<1>2. ASSUME NEW s \in Seq(Jobs)
      PROVE  JobPlaces(s, id) = Places(s, PublishJobs(id))
  <2>1. \A i \in 1 .. Len(s) : s[i] \in Jobs
    BY <1>2, ElementOfSeq
  <2>2. QED
    BY <2>1 DEF JobPlaces, Places, PublishJobs
<1>3. RetryPlaces(id) = Places(queue, PublishRetries(id))
  <2>1. \A i \in 1 .. Len(queue) : queue[i] \in Events
    BY <1>1, ElementOfSeq
  <2>2. QED
    BY <2>1 DEF RetryPlaces, Places, PublishRetries
<1>4. JobPlaces(jobs, id) = Places(jobs, PublishJobs(id)) /\ JobPlaces(batch, id) = Places(batch, PublishJobs(id))
  BY <1>1, <1>2
<1>5. OnChannel(id) \in Nat /\ InBatch(id) \in Nat /\ OnQueue(id) \in Nat
  BY <1>1, PlacesFinite DEF OnChannel, InBatch, OnQueue
<1>6. ParkedOne(id) \in Nat /\ ToAck(id) \in Nat
  BY <1>5 DEF ParkedOne, ToAck
<1>7. Broadcasts(id) = ParkedOne(id) + OnChannel(id) + ToAck(id) + OnQueue(id)
  BY <1>3, <1>4 DEF Broadcasts, BatchOwes, ParkedOne, OnChannel, ToAck, InBatch, OnQueue
<1>8. QED
  BY <1>5, <1>6, <1>7

(* The same of the next state. *)
LEMMA TallyIsNext ==
    ASSUME TypeOK', NEW id
    PROVE  /\ Broadcasts(id)' = ParkedOne(id)' + OnChannel(id)' + ToAck(id)' + OnQueue(id)'
           /\ ParkedOne(id)' \in Nat /\ OnChannel(id)' \in Nat /\ ToAck(id)' \in Nat /\ OnQueue(id)' \in Nat
           /\ InBatch(id)' \in Nat
<1>1. jobs' \in Seq(Jobs) /\ batch' \in Seq(Jobs) /\ queue' \in Seq(Events)
  BY DEF TypeOK
<1>2. ASSUME NEW s \in Seq(Jobs)
      PROVE  JobPlaces(s, id) = Places(s, PublishJobs(id))
  <2>1. \A i \in 1 .. Len(s) : s[i] \in Jobs
    BY <1>2, ElementOfSeq
  <2>2. QED
    BY <2>1 DEF JobPlaces, Places, PublishJobs
<1>3. RetryPlaces(id)' = Places(queue', PublishRetries(id))
  <2>1. \A i \in 1 .. Len(queue') : queue'[i] \in Events
    BY <1>1, ElementOfSeq
  <2>2. QED
    BY <2>1 DEF RetryPlaces, Places, PublishRetries
<1>4. JobPlaces(jobs', id) = Places(jobs', PublishJobs(id)) /\ JobPlaces(batch', id) = Places(batch', PublishJobs(id))
  BY <1>1, <1>2
<1>5. OnChannel(id)' \in Nat /\ InBatch(id)' \in Nat /\ OnQueue(id)' \in Nat
  BY <1>1, PlacesFinite DEF OnChannel, InBatch, OnQueue
<1>6. ParkedOne(id)' \in Nat /\ ToAck(id)' \in Nat
  BY <1>5 DEF ParkedOne, ToAck
<1>7. Broadcasts(id)' = ParkedOne(id)' + OnChannel(id)' + ToAck(id)' + OnQueue(id)'
  BY <1>3, <1>4 DEF Broadcasts, BatchOwes, ParkedOne, OnChannel, ToAck, InBatch, OnQueue, JobPlaces
<1>8. QED
  BY <1>5, <1>6, <1>7

(* A step that creates no more broadcasts of a trace than it gives credit. *)
LEMMA CreditMoves ==
    ASSUME TypeOK, TypeOK', CreditInv, NEW id \in Ids, NEW a \in Int, NEW b \in Int, NEW c \in Int, NEW d \in Int,
           ParkedOne(id)' <= ParkedOne(id) + a, OnChannel(id)' <= OnChannel(id) + b,
           ToAck(id)' <= ToAck(id) + c, OnQueue(id)' <= OnQueue(id) + d,
           credit'[id] >= credit[id] + a + b + c + d
    PROVE  credit'[id] >= Broadcasts(id)'
<1>1. /\ Broadcasts(id) = ParkedOne(id) + OnChannel(id) + ToAck(id) + OnQueue(id)
      /\ ParkedOne(id) \in Nat /\ OnChannel(id) \in Nat /\ ToAck(id) \in Nat /\ OnQueue(id) \in Nat
  BY TallyIs
<1>2. /\ Broadcasts(id)' = ParkedOne(id)' + OnChannel(id)' + ToAck(id)' + OnQueue(id)'
      /\ ParkedOne(id)' \in Nat /\ OnChannel(id)' \in Nat /\ ToAck(id)' \in Nat /\ OnQueue(id)' \in Nat
  BY TallyIsNext
<1>3. credit[id] \in Int /\ credit'[id] \in Int /\ credit[id] >= Broadcasts(id)
  BY DEF TypeOK, CreditInv
<1> DEFINE p == ParkedOne(id)
<1> DEFINE q == OnChannel(id)
<1> DEFINE r == ToAck(id)
<1> DEFINE s == OnQueue(id)
<1> DEFINE pp == ParkedOne(id)'
<1> DEFINE qq == OnChannel(id)'
<1> DEFINE rr == ToAck(id)'
<1> DEFINE ss == OnQueue(id)'
<1> HIDE DEF p, q, r, s, pp, qq, rr, ss
<1>4. /\ p \in Nat /\ q \in Nat /\ r \in Nat /\ s \in Nat /\ pp \in Nat /\ qq \in Nat /\ rr \in Nat /\ ss \in Nat
      /\ pp <= p + a /\ qq <= q + b /\ rr <= r + c /\ ss <= s + d /\ credit[id] >= p + q + r + s
      /\ Broadcasts(id)' = pp + qq + rr + ss
  BY <1>1, <1>2, <1>3 DEF p, q, r, s, pp, qq, rr, ss
<1>5. QED
  BY <1>3, <1>4

One(b) == IF b THEN 1 ELSE 0

(* Broadcasts that stay where they are. *)
LEMMA TokensStay ==
    ASSUME NEW id
    PROVE  /\ UNCHANGED pend => ParkedOne(id)' = ParkedOne(id)
           /\ UNCHANGED jobs => OnChannel(id)' = OnChannel(id)
           /\ UNCHANGED <<batch, fpc, failed>> => ToAck(id)' = ToAck(id)
           /\ UNCHANGED queue => OnQueue(id)' = OnQueue(id)
  BY DEF ParkedOne, OnChannel, ToAck, InBatch, OnQueue

(* An event joins the queue, or leaves it. *)
LEMMA QueueTokens ==
    ASSUME TypeOK, NEW id
    PROVE  /\ \A e \in Events : queue' = Append(queue, e) =>
                OnQueue(id)' = OnQueue(id) + One(e \in PublishRetries(id))
           /\ queue # << >> /\ queue' = Tail(queue) =>
                OnQueue(id) = OnQueue(id)' + One(Head(queue) \in PublishRetries(id))
<1>1. queue \in Seq(Events)
  BY DEF TypeOK
<1>2. ASSUME NEW e \in Events, queue' = Append(queue, e)
      PROVE  OnQueue(id)' = OnQueue(id) + One(e \in PublishRetries(id))
  BY <1>1, <1>2, PlacesAppend DEF OnQueue, One, PublishRetries
<1>3. ASSUME queue # << >>, queue' = Tail(queue)
      PROVE  OnQueue(id) = OnQueue(id)' + One(Head(queue) \in PublishRetries(id))
  BY <1>1, <1>3, PlacesTail DEF OnQueue, One, PublishRetries
<1>4. QED
  BY <1>2, <1>3

(* A job joins the channel. *)
LEMMA JobTokens ==
    ASSUME TypeOK, NEW id, NEW j \in Jobs, jobs' = Append(jobs, j)
    PROVE  OnChannel(id)' = OnChannel(id) + One(j.id = id /\ NeedPublish \in j.need)
<1>1. jobs \in Seq(Jobs)
  BY DEF TypeOK
<1>2. Cardinality(Places(Append(jobs, j), PublishJobs(id))) = Cardinality(Places(jobs, PublishJobs(id)))
        + (IF j \in PublishJobs(id) THEN 1 ELSE 0)
  BY <1>1, PlacesAppend
<1>3. j \in PublishJobs(id) <=> j.id = id /\ NeedPublish \in j.need
  BY DEF PublishJobs
<1>4. OnChannel(id)' = Cardinality(Places(Append(jobs, j), PublishJobs(id)))
  BY DEF OnChannel, PublishJobs
<1>5. QED
  BY <1>2, <1>3, <1>4 DEF OnChannel, One

(* park. *)
LEMMA ParkTokens ==
    ASSUME TypeOK, NEW id \in Ids, NEW d \in Ids, NEW reason, NEW need, NEW deadline, Park(d, reason, need, deadline)
    PROVE  ParkedOne(id)' <= ParkedOne(id) + One(d = id /\ NeedPublish \in need)
<1>1. /\ NeedPublish \in pend'[d].need <=> NeedPublish \in pend[d].need \/ NeedPublish \in need
      /\ \A k \in Ids : k # d => pend'[k] = pend[k]
  BY ParkOwesBus
<1>2. CASE id = d
  BY <1>1, <1>2 DEF ParkedOne, One
<1>3. CASE id # d
  BY <1>1, <1>3 DEF ParkedOne, One
<1>4. QED
  BY <1>2, <1>3

(* sendJob: the job is counted once, on the channel or parked. *)
LEMMA SendTokens ==
    ASSUME TypeOK, NEW id \in Ids, NEW j \in Jobs, SendJob(j), batch' = batch
    PROVE  \E a, b \in 0 .. 1 : /\ ParkedOne(id)' <= ParkedOne(id) + a
                                /\ OnChannel(id)' <= OnChannel(id) + b
                                /\ a + b = One(j.id = id /\ NeedPublish \in j.need)
<1> DEFINE c == One(j.id = id /\ NeedPublish \in j.need)
<1>1. c \in 0 .. 1 /\ 0 \in 0 .. 1 /\ c + 0 = c /\ 0 + c = c
  BY DEF One
<1>2. ParkedOne(id) \in Nat /\ OnChannel(id) \in Nat /\ j.id \in Ids
  BY TallyIs DEF Jobs
<1> HIDE DEF c
<1>3. CASE jobs' = Append(jobs, j) /\ UNCHANGED <<pend, pendq>>
  <2>1. OnChannel(id)' = OnChannel(id) + c /\ ParkedOne(id)' = ParkedOne(id)
    BY <1>3, JobTokens, TokensStay DEF c
  <2>2. OnChannel(id)' <= OnChannel(id) + c /\ ParkedOne(id)' <= ParkedOne(id) + 0
    BY <1>1, <1>2, <2>1
  <2>3. QED
    BY <1>1, <2>2 DEF c
<1>4. CASE UNCHANGED jobs /\ Park(j.id, j.reason, j.need, j.deadline)
  <2>1. OnChannel(id)' = OnChannel(id) /\ ParkedOne(id)' <= ParkedOne(id) + c
    BY <1>2, <1>4, ParkTokens, TokensStay DEF c
  <2>2. OnChannel(id)' <= OnChannel(id) + 0
    BY <1>2, <2>1
  <2>3. QED
    BY <1>1, <2>1, <2>2 DEF c
<1>5. QED
  BY <1>3, <1>4, SendIs

(* The flusher moves to its next job. *)
LEMMA BatchTokens ==
    ASSUME Base, TypeOK', NEW id, fpc = "process", NextJob, UNCHANGED jobs
    PROVE  ToAck(id)' <= ToAck(id) - One(Head(batch).id = id /\ PublishFailed(Head(batch)))
<1> DEFINE j == Head(batch)
<1>0. TypeOK /\ BatchInv
  BY DEF Base, PendqCoherent
<1>1. /\ batch' = Tail(batch) /\ fpc' \in {"idle", "process"} /\ failed' \subseteq failed
      /\ (fpc' = "process" => failed' = failed)
  BY <1>0, NextJobIs
<1>2. batch # << >> /\ batch \in Seq(Jobs) /\ j \in Jobs
  BY <1>0, BatchHead DEF TypeOK
<1>3. Cardinality(Places(batch, PublishJobs(id))) = Cardinality(Places(Tail(batch), PublishJobs(id)))
        + (IF j \in PublishJobs(id) THEN 1 ELSE 0)
  BY <1>2, PlacesTail
<1>4. j \in PublishJobs(id) <=> j.id = id /\ NeedPublish \in j.need
  BY <1>2 DEF PublishJobs
<1> HIDE DEF j
<1>5. InBatch(id) = InBatch(id)' + One(j.id = id /\ NeedPublish \in j.need)
  BY <1>1, <1>3, <1>4 DEF InBatch, One, PublishJobs
<1>6. InBatch(id) \in Nat /\ InBatch(id)' \in Nat
  BY <1>0, TallyIs, TallyIsNext
<1>7. CASE id \in failed
  <2>1. ToAck(id) = InBatch(id) /\ (ToAck(id)' = InBatch(id)' \/ ToAck(id)' = 0)
    BY <1>7 DEF ToAck
  <2>2. One(j.id = id /\ PublishFailed(j)) = One(j.id = id /\ NeedPublish \in j.need)
    BY <1>7 DEF PublishFailed, One
  <2>3. One(j.id = id /\ NeedPublish \in j.need) \in Nat
    BY DEF One
  <2>4. QED
    BY <1>5, <1>6, <2>1, <2>2, <2>3 DEF j
<1>8. CASE id \notin failed
  <2>1. ToAck(id) = 0 /\ ToAck(id)' = 0
    BY <1>1, <1>8 DEF ToAck
  <2>2. One(j.id = id /\ PublishFailed(j)) = 0
    BY <1>8 DEF PublishFailed, One
  <2>3. QED
    BY <2>1, <2>2 DEF j
<1>9. QED
  BY <1>7, <1>8

(* No arrival is a retry. *)
LEMMA ArrivalTokens ==
    ASSUME TypeOK, NEW id,
           \/ Advance
           \/ \E d \in Ids, at \in Stamps : ArriveFragment(d, at)
           \/ \E d \in Ids, at \in Stamps, o \in Origins : ArriveKeep(d, o, at)
           \/ HandleDuplicateKeep
    PROVE  OnQueue(id)' = OnQueue(id)
<1>1. OnQueue(id) \in Nat
  BY TallyIs
<1>2. \A at \in Stamps : at \in Nat
  BY WorkerBounds, StampBounds DEF TypeOK, Stamps
<1>3. CASE Advance
  BY <1>3, TokensStay DEF Advance
<1>4. ASSUME NEW e \in Events, queue' = Append(queue, e), e.kind # "evRetry"
      PROVE  OnQueue(id)' = OnQueue(id)
  <2>1. One(e \in PublishRetries(id)) = 0
    BY <1>4 DEF One, PublishRetries
  <2>2. QED
    BY <1>1, <1>4, <2>1, QueueTokens
<1>5. ASSUME NEW d \in Ids, NEW at \in Stamps, ArriveFragment(d, at)
      PROVE  OnQueue(id)' = OnQueue(id)
  <2> DEFINE e == [kind |-> "evFrag", id |-> d, at |-> at, n |-> inputs + 1]
  <2>1. inputs + 1 \in 1 .. MaxInputs /\ queue' = Append(queue, e)
    BY <1>5, WorkerBounds DEF ArriveFragment, TypeOK
  <2>2. e \in Events /\ e.kind # "evRetry"
    BY <1>2, <2>1 DEF Events
  <2> HIDE DEF e
  <2>3. QED
    BY <1>4, <2>1, <2>2
<1>6. ASSUME NEW d \in Ids, NEW at \in Stamps, NEW o \in Origins, ArriveKeep(d, o, at)
      PROVE  OnQueue(id)' = OnQueue(id)
  <2> DEFINE e == [kind |-> "evKeep", id |-> d, at |-> at, origin |-> o]
  <2>1. queue' = Append(queue, e)
    BY <1>6 DEF ArriveKeep
  <2>2. e \in Events /\ e.kind # "evRetry"
    BY <1>2 DEF Events
  <2> HIDE DEF e
  <2>3. QED
    BY <1>4, <2>1, <2>2
<1>7. CASE HandleDuplicateKeep
  <2>1. queue # << >> /\ queue' = Tail(queue) /\ Head(queue).kind = "evKeep"
    BY <1>7 DEF HandleDuplicateKeep
  <2>2. One(Head(queue) \in PublishRetries(id)) = 0
    BY <2>1 DEF One, PublishRetries
  <2>3. OnQueue(id) = OnQueue(id)' + 0
    BY <2>1, <2>2, QueueTokens
  <2>4. TypeOK'
    BY <1>7, TypeArrivals
  <2>5. OnQueue(id)' \in Nat
    BY <2>4, TallyIsNext
  <2>6. QED
    BY <1>1, <2>3, <2>5
<1>8. QED
  BY <1>3, <1>5, <1>6, <1>7

(* No step makes a broadcast to be made out of nothing. *)
LEMMA CreditNext ==
    ASSUME Base, CreditInv, [Next]_vars
    PROVE  CreditInv'
<1>0. TypeOK /\ TypeOK' /\ BatchInv /\ Coherent /\ PendqCoherent
  BY BaseIs, BaseNext DEF BaseParts, Base, PendqCoherent
<1>1. SUFFICES ASSUME NEW id \in Ids
               PROVE  credit'[id] >= Broadcasts(id)'
  BY DEF CreditInv
<1> DEFINE p == ParkedOne(id)
<1> DEFINE q == OnChannel(id)
<1> DEFINE r == ToAck(id)
<1> DEFINE s == OnQueue(id)
<1> DEFINE pp == ParkedOne(id)'
<1> DEFINE qq == OnChannel(id)'
<1> DEFINE rr == ToAck(id)'
<1> DEFINE ss == OnQueue(id)'
<1>2. /\ p \in Nat /\ q \in Nat /\ r \in Nat /\ s \in Nat
      /\ pp \in Nat /\ qq \in Nat /\ rr \in Nat /\ ss \in Nat
      /\ credit[id] \in Int /\ credit'[id] \in Int
  BY <1>0, TallyIs, TallyIsNext DEF TypeOK
<1>3. ASSUME NEW a \in Int, NEW b \in Int, NEW c \in Int, NEW d \in Int,
             pp <= p + a, qq <= q + b, rr <= r + c, ss <= s + d, credit'[id] >= credit[id] + a + b + c + d
      PROVE  credit'[id] >= Broadcasts(id)'
  BY <1>0, <1>3, CreditMoves
<1>4. /\ UNCHANGED pend => pp = p
      /\ UNCHANGED jobs => qq = q
      /\ UNCHANGED <<batch, fpc, failed>> => rr = r
      /\ UNCHANGED queue => ss = s
  BY TokensStay
<1> HIDE DEF p, q, r, s, pp, qq, rr, ss
<1>5. ASSUME pp <= p, qq <= q, rr <= r, ss <= s, credit' = credit
      PROVE  credit'[id] >= Broadcasts(id)'
  <2>1. pp <= p + 0 /\ qq <= q + 0 /\ rr <= r + 0 /\ ss <= s + 0 /\ credit'[id] >= credit[id] + 0 + 0 + 0 + 0
    BY <1>2, <1>5
  <2>2. QED
    BY <1>3, <2>1
<1>6. CASE UNCHANGED vars
  BY <1>2, <1>4, <1>5, <1>6 DEF vars
<1>7. CASE \/ Advance
           \/ \E d \in Ids, at \in Stamps : ArriveFragment(d, at)
           \/ \E d \in Ids, at \in Stamps, o \in Origins : ArriveKeep(d, o, at)
           \/ HandleDuplicateKeep
  <2>1. UNCHANGED <<pend, jobs, batch, fpc, failed, credit>>
    BY <1>0, <1>7, ArrivalsIs
  <2>2. ss = s
    BY <1>0, <1>7, ArrivalTokens DEF s, ss
  <2>3. QED
    BY <1>2, <1>4, <1>5, <2>1, <2>2
<1>8. ASSUME queue # << >>, queue' = Tail(queue), Head(queue).kind # "evRetry"
      PROVE  ss = s
  <2>1. One(Head(queue) \in PublishRetries(id)) = 0
    BY <1>8 DEF One, PublishRetries
  <2>2. s = ss + 0
    BY <1>0, <1>8, <2>1, QueueTokens DEF s, ss
  <2>3. QED
    BY <1>2, <2>2
<1>9. CASE HandleFragment
  <2> DEFINE j == FragmentJob(Head(queue))
  <2>1. /\ j \in Jobs /\ UNCHANGED <<batch, fpc, failed, credit>> /\ queue # << >> /\ queue' = Tail(queue)
        /\ Head(queue).kind = "evFrag" /\ (UNCHANGED <<jobs, pend>> \/ SendJob(j))
    BY <1>0, <1>9, FragmentIs
  <2>2. One(j.id = id /\ NeedPublish \in j.need) = 0
    BY DEF FragmentJob, One, NeedPublish, NeedFlush
  <2> HIDE DEF j
  <2>3. pp <= p /\ qq <= q
    <3>1. CASE UNCHANGED <<jobs, pend>>
      BY <1>2, <1>4, <3>1
    <3>2. CASE SendJob(j)
      <4>1. PICK a, b \in 0 .. 1 : pp <= p + a /\ qq <= q + b /\ a + b = 0
        BY <1>0, <2>1, <2>2, <3>2, SendTokens DEF p, q, pp, qq
      <4>2. a = 0 /\ b = 0
        BY <4>1
      <4>3. QED
        BY <1>2, <4>1, <4>2
    <3>3. QED
      BY <2>1, <3>1, <3>2
  <2>4. QED
    BY <1>2, <1>4, <1>5, <1>8, <2>1, <2>3
<1>10. CASE HandleKeep
  <2> DEFINE e == Head(queue)
  <2> DEFINE j == KeepJob(e)
  <2> DEFINE one == One(e.id = id /\ NeedPublish \in KeepNeed(e))
  <2>1. /\ e.id \in Ids /\ j \in Jobs /\ UNCHANGED <<batch, fpc, failed>> /\ queue # << >> /\ queue' = Tail(queue)
        /\ e.kind = "evKeep"
        /\ \/ Park(e.id, Reason, KeepNeed(e), KeepDeadline(e)) /\ UNCHANGED jobs
           \/ UNCHANGED <<jobs, pend, pendq>>
           \/ SendJob(j)
    BY <1>0, <1>10, KeepIs
  <2>2. j.id = e.id /\ j.need = KeepNeed(e)
    BY DEF KeepJob
  <2>3. IF NeedPublish \in KeepNeed(e) THEN credit' = [credit EXCEPT ![e.id] = @ + 1] ELSE credit' = credit
    BY <1>10 DEF HandleKeep, KeepNeed
  <2>4. ss = s
    BY <1>8, <2>1
  <2> HIDE DEF e, j
  <2>5. credit'[id] = credit[id] + one /\ one \in 0 .. 1
    <3>1. credit \in [Ids -> Int]
      BY <1>0 DEF TypeOK
    <3>2. CASE NeedPublish \in KeepNeed(e)
      BY <1>2, <2>1, <2>3, <3>1, <3>2 DEF One
    <3>3. CASE NeedPublish \notin KeepNeed(e)
      BY <1>2, <2>3, <3>3 DEF One
    <3>4. QED
      BY <3>2, <3>3
  <2> HIDE DEF one
  <2>6. \E a, b \in 0 .. 1 : pp <= p + a /\ qq <= q + b /\ a + b <= one
    <3>1. CASE Park(e.id, Reason, KeepNeed(e), KeepDeadline(e)) /\ UNCHANGED jobs
      <4>1. pp <= p + one
        BY <1>0, <2>1, <3>1, ParkTokens DEF p, pp, one
      <4>2. qq <= q + 0 /\ one + 0 <= one /\ 0 \in 0 .. 1
        BY <1>2, <1>4, <2>5, <3>1
      <4>3. QED
        BY <2>5, <4>1, <4>2
    <3>2. CASE UNCHANGED <<jobs, pend, pendq>>
      <4>1. pp <= p + 0 /\ qq <= q + 0 /\ 0 + 0 <= one /\ 0 \in 0 .. 1
        BY <1>2, <1>4, <2>5, <3>2
      <4>2. QED
        BY <4>1
    <3>3. CASE SendJob(j)
      <4>1. PICK a, b \in 0 .. 1 : pp <= p + a /\ qq <= q + b /\ a + b = one
        BY <1>0, <2>1, <2>2, <3>3, SendTokens DEF p, q, pp, qq, one
      <4>2. a + b <= one
        BY <2>5, <4>1
      <4>3. QED
        BY <4>1, <4>2
    <3>4. QED
      BY <2>1, <3>1, <3>2, <3>3
  <2>7. PICK a, b \in 0 .. 1 : pp <= p + a /\ qq <= q + b /\ a + b <= one
    BY <2>6
  <2>8. rr <= r + 0 /\ ss <= s + 0 /\ credit'[id] >= credit[id] + a + b + 0 + 0 /\ a \in Int /\ b \in Int
    BY <1>2, <1>4, <2>1, <2>4, <2>5, <2>7
  <2>9. QED
    BY <1>3, <2>7, <2>8
<1>11. CASE HandleRetry
  <2> DEFINE e == Head(queue)
  <2> DEFINE one == One(e.id = id /\ NeedPublish \in e.need)
  <2>1. /\ e \in Events /\ e.kind = "evRetry" /\ e.id \in Ids /\ Park(e.id, e.reason, e.need, e.deadline)
        /\ queue # << >> /\ queue' = Tail(queue) /\ UNCHANGED <<jobs, batch, fpc, failed, credit>>
    BY <1>11, RetryParked
  <2>2. One(e \in PublishRetries(id)) = one
    BY <2>1 DEF One, PublishRetries
  <2>3. s = ss + one
    BY <1>0, <2>1, <2>2, QueueTokens DEF s, ss
  <2> HIDE DEF e
  <2>4. pp <= p + one
    BY <1>0, <2>1, ParkTokens DEF p, pp
  <2>5. one \in 0 .. 1
    BY DEF One
  <2> HIDE DEF one
  <2>6. qq <= q + 0 /\ rr <= r + 0 /\ ss <= s + (0 - one) /\ credit'[id] >= credit[id] + one + 0 + 0 + (0 - one)
    BY <1>2, <1>4, <2>1, <2>3, <2>5
  <2>7. one \in Int /\ 0 - one \in Int /\ 0 \in Int
    BY <2>5
  <2>8. QED
    BY <1>3, <2>4, <2>6, <2>7
<1>12. CASE TickBegin
  <2>1. UNCHANGED <<queue, jobs, batch, fpc, failed, credit>> /\ pend' = [d \in Ids |-> Swept(pend[d])]
    BY <1>12 DEF TickBegin, flushVars
  <2>2. pend'[id] = Swept(pend[id]) /\ pend[id] \in Reqs
    BY <1>0, <2>1 DEF TypeOK
  <2>3. pp <= p
    <3>1. CASE ~Abandoned(pend[id])
      BY <2>2, <3>1 DEF Swept, ParkedOne, p, pp
    <3>2. CASE Abandoned(pend[id])
      <4>1. NeedPublish \in pend[id].need
        BY <3>2 DEF Abandoned
      <4>2. QED
        BY <4>1 DEF ParkedOne, p, pp
    <3>3. QED
      BY <3>1, <3>2
  <2>4. QED
    BY <1>2, <1>4, <1>5, <2>1, <2>3
<1>13. CASE DrainDone \/ DrainFull
  <2>1. UNCHANGED <<pend, queue, jobs, batch, fpc, failed, credit>>
    BY <1>13 DEF DrainDone, DrainFull, flushVars, pubVars
  <2>2. QED
    BY <1>2, <1>4, <1>5, <2>1
<1>14. ASSUME NEW d \in Ids, NEW m, pend' = [pend EXCEPT ![d] = m], m.need \in {{}, pend[d].need}
       PROVE  pp <= p
  <2>1. pend'[id] = pend[id] \/ (id = d /\ pend'[id] = m)
    BY <1>0, <1>14 DEF TypeOK
  <2>2. NeedPublish \in pend'[id].need => NeedPublish \in pend[id].need
    BY <1>14, <2>1
  <2>3. QED
    BY <2>2 DEF ParkedOne, p, pp
<1>15. CASE DrainDrop
  <2>1. left > 0 /\ pend' = [pend EXCEPT ![Head(pendq)] = NoReq] /\ UNCHANGED <<queue, jobs, batch, fpc, failed, credit>>
    BY <1>15 DEF DrainDrop, flushVars, pubVars
  <2>2. Head(pendq) \in Ids /\ NoReq.need = {}
    BY <1>0, <2>1, DrainHead DEF NoReq
  <2>3. pp <= p
    BY <1>14, <2>1, <2>2
  <2>4. QED
    BY <1>2, <1>4, <1>5, <2>1, <2>3
<1>16. CASE DrainCollectErr
  <2> DEFINE d == Head(pendq)
  <2> DEFINE m == Merge(NoReq, pend[d].reason, pend[d].need, pend[d].deadline)
  <2>1. left > 0 /\ pend' = [pend EXCEPT ![d] = m] /\ UNCHANGED <<queue, jobs, batch, fpc, failed, credit>>
    BY <1>16 DEF DrainCollectErr, flushVars, pubVars
  <2>2. d \in Ids /\ m.need = pend[d].need
    BY <1>0, <2>1, DrainHead DEF Merge, NoReq
  <2> HIDE DEF d, m
  <2>3. pp <= p
    BY <1>14, <2>1, <2>2
  <2>4. QED
    BY <1>2, <1>4, <1>5, <2>1, <2>3
<1>17. CASE DrainSend
  <2> DEFINE d == Head(pendq)
  <2> DEFINE j == DrainJob(d)
  <2> DEFINE one == One(d = id /\ NeedPublish \in pend[d].need)
  <2>1. /\ d \in Ids /\ j \in Jobs /\ jobs' = Append(jobs, j) /\ pend' = [pend EXCEPT ![d] = NoReq]
        /\ UNCHANGED <<queue, batch, fpc, failed, credit>>
    BY <1>17, DrainSendIs
  <2>2. j.id = d /\ j.need = pend[d].need
    BY DEF DrainJob
  <2> HIDE DEF d, j
  <2>3. qq = q + one
    BY <1>0, <2>1, <2>2, JobTokens DEF q, qq
  <2>4. pp = p - one
    <3>1. CASE d = id
      <4>1. pend'[id] = NoReq /\ NeedPublish \notin NoReq.need
        BY <1>0, <2>1, <3>1 DEF TypeOK, NoReq
      <4>2. pp = 0
        BY <4>1 DEF ParkedOne, pp
      <4>3. p = one
        BY <3>1 DEF ParkedOne, p, One
      <4>4. QED
        BY <1>2, <4>2, <4>3
    <3>2. CASE d # id
      <4>1. pend'[id] = pend[id]
        BY <1>0, <2>1, <3>2 DEF TypeOK
      <4>2. pp = p
        BY <4>1 DEF ParkedOne, p, pp
      <4>3. one = 0
        BY <3>2 DEF One
      <4>4. QED
        BY <1>2, <4>2, <4>3
    <3>3. QED
      BY <3>1, <3>2
  <2>5. one \in 0 .. 1
    BY DEF One
  <2> HIDE DEF one
  <2>6. /\ pp <= p + (0 - one) /\ qq <= q + one /\ rr <= r + 0 /\ ss <= s + 0
        /\ credit'[id] >= credit[id] + (0 - one) + one + 0 + 0
    BY <1>2, <1>4, <2>1, <2>3, <2>4, <2>5
  <2>7. one \in Int /\ 0 - one \in Int /\ 0 \in Int
    BY <2>5
  <2>8. QED
    BY <1>3, <2>6, <2>7
<1>18. CASE Gather
  <2>1. UNCHANGED <<pend, queue, credit, failed>> /\ batch = << >> /\ batch' = jobs /\ jobs' = << >> /\ fpc' = "publish"
    BY <1>0, <1>18 DEF Gather, BatchInv, workVars, pubVars
  <2>2. rr = q
    BY <2>1 DEF ToAck, InBatch, OnChannel, rr, q, PublishJobs
  <2>3. qq = 0
    BY <2>1, PlacesEmpty DEF OnChannel, qq
  <2>4. r = 0
    BY <2>1, PlacesEmpty DEF ToAck, InBatch, r
  <2>5. /\ pp <= p + 0 /\ qq <= q + (0 - q) /\ rr <= r + q /\ ss <= s + 0
        /\ credit'[id] >= credit[id] + 0 + (0 - q) + q + 0
    BY <1>2, <1>4, <2>1, <2>2, <2>3, <2>4
  <2>6. q \in Int /\ 0 - q \in Int /\ 0 \in Int
    BY <1>2
  <2>7. QED
    BY <1>3, <2>5, <2>6
<1>19. CASE Publish
  <2>1. UNCHANGED <<pend, queue, jobs, batch>> /\ fpc = "publish" /\ fpc' = "process"
    BY <1>19 DEF Publish, workVars
  <2>2. PICK F \in SUBSET Owing :
          /\ failed' = F
          /\ credit' = [d \in Ids |-> IF d \in Owing \ F THEN credit[d] - 1 ELSE credit[d]]
    BY <1>0, <1>19, PublishIs
  <2>3. r = InBatch(id) /\ InBatch(id)' = InBatch(id)
    BY <2>1 DEF ToAck, InBatch, r, PublishJobs
  <2>4. CASE id \in Owing \ F
    <3>1. r >= 1
      <4>1. PICK k \in Elements(batch) : NeedPublish \in k.need /\ k.id = id
        BY <2>4 DEF Owing
      <4>2. batch \in Seq(Jobs) /\ k \in Jobs
        BY <1>0, ElementsIn DEF TypeOK
      <4>3. k \in PublishJobs(id)
        BY <4>1, <4>2 DEF PublishJobs
      <4>4. QED
        BY <2>3, <4>2, <4>3, PlacesNonempty DEF InBatch
    <3>2. rr = 0
      BY <2>1, <2>2, <2>4 DEF ToAck, rr
    <3>3. credit'[id] = credit[id] - 1
      BY <2>2, <2>4
    <3>4. /\ pp <= p + 0 /\ qq <= q + 0 /\ rr <= r + (0 - 1) /\ ss <= s + 0
          /\ credit'[id] >= credit[id] + 0 + 0 + (0 - 1) + 0
      BY <1>2, <1>4, <2>1, <3>1, <3>2, <3>3
    <3>5. QED
      BY <1>3, <3>4
  <2>5. CASE id \notin Owing \ F
    <3>1. credit'[id] = credit[id]
      BY <2>2, <2>5
    <3>2. rr = InBatch(id)' \/ rr = 0
      BY DEF ToAck, rr
    <3>3. /\ pp <= p + 0 /\ qq <= q + 0 /\ rr <= r + 0 /\ ss <= s + 0
          /\ credit'[id] >= credit[id] + 0 + 0 + 0 + 0
      BY <1>2, <1>4, <2>1, <2>3, <3>1, <3>2
    <3>4. QED
      BY <1>3, <3>3
  <2>6. QED
    BY <2>4, <2>5
<1>20. CASE Consume
  <2>1. UNCHANGED <<pend, queue, jobs, credit>> /\ fpc = "process" /\ NextJob
    BY <1>20 DEF Consume, workVars, pubVars
  <2> DEFINE one == One(Head(batch).id = id /\ PublishFailed(Head(batch)))
  <2>2. rr <= r - one
    BY <1>0, <2>1, BatchTokens DEF r, rr
  <2>3. one \in 0 .. 1
    BY DEF One
  <2> HIDE DEF one
  <2>4. rr <= r
    BY <1>2, <2>2, <2>3
  <2>5. QED
    BY <1>2, <1>4, <1>5, <2>1, <2>4
<1>21. CASE RetryPublish \/ ConsumeRefused
  <2> DEFINE j == Head(batch)
  <2> DEFINE need == IF RetryPublish THEN j.need ELSE {NeedFlush}
  <2> DEFINE e == RetryOf(j, need)
  <2> DEFINE one == One(j.id = id /\ PublishFailed(j))
  <2>1. /\ fpc = "process" /\ NextJob /\ e \in Events /\ queue' = Append(queue, e)
        /\ UNCHANGED <<pend, jobs, credit>> /\ (PublishFailed(j) <=> RetryPublish)
    BY <1>21, SentBack
  <2>2. rr <= r - one
    BY <1>0, <2>1, BatchTokens DEF r, rr
  <2>3. NeedPublish \in need <=> PublishFailed(j)
    BY <2>1 DEF PublishFailed, NeedPublish, NeedFlush
  <2> HIDE DEF need, j
  <2>4. One(e \in PublishRetries(id)) = one
    <3>1. e.id = j.id /\ e.need = need /\ e.kind = "evRetry"
      BY DEF RetryOf
    <3>2. QED
      BY <2>1, <2>3, <3>1 DEF One, PublishRetries
  <2> HIDE DEF e
  <2>5. ss = s + one
    BY <1>0, <2>1, <2>4, QueueTokens DEF s, ss
  <2>6. one \in 0 .. 1
    BY DEF One
  <2> HIDE DEF one
  <2>7. /\ pp <= p + 0 /\ qq <= q + 0 /\ rr <= r + (0 - one) /\ ss <= s + one
        /\ credit'[id] >= credit[id] + 0 + 0 + (0 - one) + one
    BY <1>2, <1>4, <2>1, <2>2, <2>5, <2>6
  <2>8. one \in Int /\ 0 - one \in Int /\ 0 \in Int
    BY <2>6
  <2>9. QED
    BY <1>3, <2>7, <2>8
<1>22. QED
  BY <1>6, <1>7, <1>9, <1>10, <1>11, <1>12, <1>13, <1>15, <1>16, <1>17, <1>18, <1>19, <1>20, <1>21
     DEF Next, Handle, Drain, Flush

(* At the start nothing is decided, owed or credited. *)
LEMMA VerdictInit ==
    ASSUME Init
    PROVE  Base /\ OutstandingInv /\ CreditInv
<1>1. Base /\ TypeOK
  BY BaseInit DEF Base, PendqCoherent
<1>2. OutstandingInv
  BY DEF Init, OutstandingInv
<1>3. ASSUME NEW id \in Ids
      PROVE  credit[id] >= Broadcasts(id)
  <2>1. OnChannel(id) = 0 /\ ToAck(id) = 0 /\ OnQueue(id) = 0
    BY PlacesEmpty DEF Init, OnChannel, ToAck, InBatch, OnQueue
  <2>2. ParkedOne(id) = 0 /\ credit[id] = 0
    BY DEF Init, ParkedOne, NoReq
  <2>3. Broadcasts(id) = 0 + 0 + 0 + 0
    BY <1>1, <2>1, <2>2, TallyIs
  <2>4. QED
    BY <2>2, <2>3
<1>4. QED
  BY <1>1, <1>2, <1>3 DEF CreditInv

(* Every local verdict is acked, abandoned or still owed to the bus, and   *)
(* no trace has more acked publishes than it had local decisions.          *)
THEOREM EachVerdictBroadcast == Spec => []BroadcastExact
<1>1. Init => Base /\ OutstandingInv /\ CreditInv
  BY VerdictInit
<1>2. Base /\ OutstandingInv /\ CreditInv /\ [Next]_vars => Base' /\ OutstandingInv' /\ CreditInv'
  BY BaseNext, OutstandingNext, CreditNext
<1>3. Base /\ OutstandingInv /\ CreditInv => BroadcastExact
  <2>1. SUFFICES ASSUME Base, OutstandingInv, CreditInv, NEW id \in Ids
                 PROVE  /\ credit[id] >= 0
                        /\ outstanding[id] =>
                              \/ NeedPublish \in pend[id].need
                              \/ \E j \in JobsUnderWay \cup Retries : j.id = id /\ NeedPublish \in j.need
    BY DEF BroadcastExact
  <2>2. TypeOK
    BY <2>1 DEF Base, PendqCoherent
  <2>3. credit[id] >= 0
    <3>1. /\ Broadcasts(id) = ParkedOne(id) + OnChannel(id) + ToAck(id) + OnQueue(id)
          /\ ParkedOne(id) \in Nat /\ OnChannel(id) \in Nat /\ ToAck(id) \in Nat /\ OnQueue(id) \in Nat
      BY <2>2, TallyIs
    <3>2. credit[id] \in Int /\ credit[id] >= Broadcasts(id)
      BY <2>1, <2>2 DEF TypeOK, CreditInv
    <3>3. Broadcasts(id) \in Nat
      BY <3>1
    <3>4. QED
      BY <3>2, <3>3
  <2>4. Elements(jobs) \cup Unacked \cup Retries \subseteq JobsUnderWay \cup Retries
    BY DEF Unacked, JobsUnderWay
  <2>5. QED
    BY <2>1, <2>3, <2>4 DEF OutstandingInv
<1>4. QED
  BY <1>1, <1>2, <1>3, PTL DEF Spec

-----------------------------------------------------------------------------
(***************************************************************************)
(* DecideOncePerWindow.                                                    *)
(***************************************************************************)
Entries == [id : Ids, deadline : Nat]

(* A tick forgets only what has expired. *)
LEMMA TickRing ==
    ASSUME TypeOK, TickBegin
    PROVE  /\ EvictCount \in Nat /\ Len(ring) \in Nat /\ EvictCount <= Len(ring) /\ Len(ring') = Len(ring) - EvictCount
           /\ \A i \in 1 .. Len(ring') : ring'[i] = ring[EvictCount + i] /\ EvictCount + i \in 1 .. Len(ring)
           /\ \A i \in 1 .. Len(ring) : ring[i].deadline > now => i - EvictCount \in 1 .. Len(ring')
           /\ EvictCount < Len(ring) => ring[EvictCount + 1].deadline > now
<1> DEFINE k == EvictCount
<1>1. /\ k \in 0 .. Len(ring)
      /\ \A i \in 1 .. k : ring[i].deadline <= now
      /\ k < Len(ring) => ring[k + 1].deadline > now
  BY EvictCountIs
<1>2. ring \in Seq(Entries) /\ ring' = SubSeq(ring, k + 1, Len(ring)) /\ now \in Nat
  BY WorkerBounds DEF TickBegin, TypeOK, Entries
<1> HIDE DEF k
<1>3. /\ Len(ring') = Len(ring) - k
      /\ \A i \in 1 .. Len(ring') : ring'[i] = ring[k + i] /\ k + i \in 1 .. Len(ring)
  BY <1>1, <1>2, Cut
<1>4. Len(ring) \in Nat /\ k \in Nat /\ k <= Len(ring)
  BY <1>1, <1>2
<1>5. \A i \in 1 .. Len(ring) : ring[i] \in Entries
  BY <1>2, ElementOfSeq
<1>6. ASSUME NEW i \in 1 .. Len(ring), ring[i].deadline > now
      PROVE  i - k \in 1 .. Len(ring')
  <2>1. ring[i].deadline \in Nat
    BY <1>5 DEF Entries
  <2>2. ~(i <= k)
    BY <1>1, <1>2, <1>6, <2>1
  <2>3. QED
    BY <1>3, <1>4, <2>2
<1>7. QED
  BY <1>1, <1>3, <1>4, <1>6 DEF k

(* A keep joins the ring. *)
LEMMA KeepRing ==
    ASSUME TypeOK, HandleKeep
    PROVE  LET r == [id |-> Head(queue).id, deadline |-> KeepDeadline(Head(queue))]
           IN /\ r \in Entries /\ ring \in Seq(Entries) /\ ring' = Append(ring, r) /\ Len(ring') = Len(ring) + 1
              /\ Len(ring) \in Nat
              /\ \A i \in 1 .. Len(ring) : ring'[i] = ring[i] /\ ring[i] \in Entries
              /\ ring'[Len(ring) + 1] = r
<1> DEFINE r == [id |-> Head(queue).id, deadline |-> KeepDeadline(Head(queue))]
<1>1. Head(queue).id \in Ids /\ KeepDeadline(Head(queue)) \in Nat /\ ring' = Append(ring, r)
  BY KeepIs
<1>2. r \in Entries /\ ring \in Seq(Entries)
  BY <1>1 DEF Entries, TypeOK
<1> HIDE DEF r
<1>3. /\ Len(ring') = Len(ring) + 1 /\ Len(ring) \in Nat
      /\ \A i \in 1 .. Len(ring) : ring'[i] = ring[i]
      /\ ring'[Len(ring) + 1] = r
  BY <1>1, <1>2, Appended
<1>4. \A i \in 1 .. Len(ring) : ring[i] \in Entries
  BY <1>2, ElementOfSeq
<1>5. QED
  BY <1>1, <1>2, <1>3, <1>4 DEF r

(* Only a keep and a tick touch the ring; only a keep decides. *)
LEMMA RingStays ==
    ASSUME [Next]_vars, ~HandleKeep
    PROVE  UNCHANGED lastDeadline /\ (TickBegin \/ UNCHANGED ring)
  BY DEF Next, vars, Advance, ArriveFragment, ArriveKeep, Handle, HandleFragment, HandleDuplicateKeep, HandleRetry,
         TickBegin, Drain, DrainDone, DrainDrop, DrainSend, DrainFull, DrainCollectErr,
         Flush, Gather, Publish, RetryPublish, Consume, ConsumeRefused, keepVars, workVars

(* The ring holds the latest decision of a trace until its deadline. *)
LEMMA DecidedNext ==
    ASSUME Base, DecidedInv, [Next]_vars
    PROVE  DecidedInv'
<1>0. TypeOK /\ TypeOK'
  BY BaseNext DEF Base, PendqCoherent
<1>1. now \in Nat /\ now' \in Nat /\ now <= now'
  BY DiskAndRing
<1>2. SUFFICES ASSUME NEW id \in Ids, lastDeadline'[id] > now'
               PROVE  \E i \in 1 .. Len(ring') : ring'[i] = [id |-> id, deadline |-> lastDeadline'[id]]
  BY DEF DecidedInv
<1>3. lastDeadline'[id] \in Nat /\ lastDeadline'[id] > now
  <2>1. lastDeadline' \in [Ids -> Nat]
    BY <1>0 DEF TypeOK
  <2>2. lastDeadline'[id] \in Nat
    BY <2>1
  <2>3. QED
    BY <1>1, <1>2, <2>2
<1>4. lastDeadline'[id] = lastDeadline[id] =>
        \E i \in 1 .. Len(ring) : ring[i] = [id |-> id, deadline |-> lastDeadline'[id]]
  BY <1>3 DEF DecidedInv
<1>5. CASE HandleKeep
  <2> DEFINE e == Head(queue)
  <2> DEFINE r == [id |-> e.id, deadline |-> KeepDeadline(e)]
  <2>1. /\ Len(ring') = Len(ring) + 1 /\ Len(ring) \in Nat
        /\ \A i \in 1 .. Len(ring) : ring'[i] = ring[i]
        /\ ring'[Len(ring) + 1] = r
    BY <1>0, <1>5, KeepRing
  <2>2. e.id \in Ids /\ lastDeadline' = [lastDeadline EXCEPT ![e.id] = KeepDeadline(e)]
    BY <1>0, <1>5, KeepIs
  <2>3. Len(ring) + 1 \in 1 .. Len(ring') /\ \A i \in 1 .. Len(ring) : i \in 1 .. Len(ring')
    BY <2>1
  <2>4. lastDeadline \in [Ids -> Nat]
    BY <1>0 DEF TypeOK
  <2> HIDE DEF e
  <2>5. CASE id = e.id
    <3>1. lastDeadline'[id] = KeepDeadline(e)
      BY <2>2, <2>4, <2>5
    <3>2. QED
      BY <2>1, <2>3, <2>5, <3>1
  <2>6. CASE id # e.id
    <3>1. lastDeadline'[id] = lastDeadline[id]
      BY <2>2, <2>4, <2>6
    <3>2. PICK i \in 1 .. Len(ring) : ring[i] = [id |-> id, deadline |-> lastDeadline'[id]]
      BY <1>4, <3>1
    <3>3. QED
      BY <2>1, <2>3, <3>2
  <2>7. QED
    BY <2>5, <2>6
<1>6. CASE ~HandleKeep
  <2>1. UNCHANGED lastDeadline /\ (TickBegin \/ UNCHANGED ring)
    BY <1>6, RingStays
  <2>2. PICK i \in 1 .. Len(ring) : ring[i] = [id |-> id, deadline |-> lastDeadline'[id]]
    BY <1>4, <2>1
  <2>3. CASE UNCHANGED ring
    BY <2>2, <2>3
  <2>4. CASE TickBegin
    <3> DEFINE k == EvictCount
    <3>1. ring[i].deadline > now
      BY <1>3, <2>2
    <3>2. /\ k \in Nat /\ i - k \in 1 .. Len(ring')
          /\ \A l \in 1 .. Len(ring') : ring'[l] = ring[k + l]
      BY <1>0, <2>4, <3>1, TickRing
    <3> HIDE DEF k
    <3>3. k + (i - k) = i
      BY <3>2
    <3>4. ring'[i - k] = ring[i]
      BY <3>2, <3>3
    <3>5. QED
      BY <2>2, <3>2, <3>4
  <2>5. QED
    BY <2>1, <2>3, <2>4
<1>7. QED
  BY <1>5, <1>6

(* No trace is decided again before the deadline of its last decision:     *)
(* the decided set holds a trace until then, whatever else it evicts.      *)
THEOREM DecidedOnce == Spec => DecideOncePerWindow
<1>1. Init => Base /\ DecidedInv
  <2>1. Init => DecidedInv
    BY DEF Init, DecidedInv, NoDeadline
  <2>2. QED
    BY <2>1, BaseInit
<1>2. Base /\ DecidedInv /\ [Next]_vars => Base' /\ DecidedInv'
  BY BaseNext, DecidedNext
<1>3. Base /\ DecidedInv /\ [Next]_vars =>
        [\A id \in Ids : lastDeadline'[id] # lastDeadline[id] => lastDeadline[id] <= now]_vars
  <2>1. SUFFICES ASSUME Base, DecidedInv, [Next]_vars, NEW id \in Ids, lastDeadline'[id] # lastDeadline[id]
                 PROVE  lastDeadline[id] <= now
    OBVIOUS
  <2>2. HandleKeep
    BY <2>1, RingStays
  <2>3. TypeOK
    BY <2>1 DEF Base, PendqCoherent
  <2>4. now \in Nat /\ lastDeadline \in [Ids -> Nat] /\ lastDeadline[id] \in Nat
    BY <2>3, WorkerBounds DEF TypeOK
  <2> DEFINE e == Head(queue)
  <2>5. e.id \in Ids /\ ~Has(e.id) /\ lastDeadline' = [lastDeadline EXCEPT ![e.id] = KeepDeadline(e)]
    BY <2>2, <2>3, KeepIs
  <2> HIDE DEF e
  <2>6. id = e.id
    BY <2>1, <2>4, <2>5
  <2>7. ~(lastDeadline[id] > now)
    <3>1. SUFFICES ASSUME lastDeadline[id] > now
                   PROVE  FALSE
      OBVIOUS
    <3>2. PICK i \in 1 .. Len(ring) : ring[i] = [id |-> id, deadline |-> lastDeadline[id]]
      BY <2>1, <3>1 DEF DecidedInv
    <3>3. ring[i].id = id
      BY <3>2
    <3>4. QED
      BY <2>5, <2>6, <3>3 DEF Has
  <2>8. QED
    BY <2>4, <2>7
<1>4. QED
  BY <1>1, <1>2, <1>3, PTL DEF Spec, DecideOncePerWindow

-----------------------------------------------------------------------------
(***************************************************************************)
(* EvictionWithinLag.                                                      *)
(***************************************************************************)

(* LagInv of a queue q, a ring r and a clock t. *)
KeepsOf(q) == {i \in 1 .. Len(q) : q[i].kind = "evKeep"}

Lagged(q, r, t) ==
    /\ \A i \in KeepsOf(q) : q[i].at <= t
    /\ \A i, k \in KeepsOf(q) : i < k => q[i].at <= q[k].at + StampLag
    /\ \A i \in 1 .. Len(r) : r[i].deadline <= t + Window
    /\ \A i \in 1 .. Len(r), k \in KeepsOf(q) : r[i].deadline <= q[k].at + StampLag + Window
    /\ \A i, k \in 1 .. Len(r) : i < k => r[i].deadline <= r[k].deadline + StampLag

(* LagInv, of this step and the next. *)
LEMMA LagIs ==
    /\ LagInv <=> (StampSkew = 0 => Lagged(queue, ring, now))
    /\ LagInv' <=> (StampSkew = 0 => Lagged(queue', ring', now'))
  BY Zenon DEF LagInv, Lagged, Keeps, KeepsOf

(* The keeps on a queue have stamps; the entries of a ring deadlines. *)
LEMMA KeepsAreStamped ==
    ASSUME NEW q \in Seq(Events), NEW i \in KeepsOf(q)
    PROVE  i \in 1 .. Len(q) /\ q[i].at \in Nat
<1>1. i \in 1 .. Len(q) /\ q[i].kind = "evKeep"
  BY DEF KeepsOf
<1>2. q[i] \in Events
  BY <1>1, ElementOfSeq
<1>3. QED
  BY <1>1, <1>2, EventFields

(* A deadline is a number. *)
LEMMA EntriesHaveDeadlines ==
    ASSUME NEW r \in Seq(Entries), NEW i \in 1 .. Len(r)
    PROVE  r[i].deadline \in Nat
<1>1. r[i] \in Entries
  BY ElementOfSeq
<1>2. QED
  BY <1>1 DEF Entries

(* Time passes. *)
LEMMA LagLater ==
    ASSUME NEW q \in Seq(Events), NEW r \in Seq(Entries), NEW t \in Nat, NEW u \in Nat, t <= u, Lagged(q, r, t)
    PROVE  Lagged(q, r, u)
<1>1. \A i \in KeepsOf(q) : q[i].at <= u
  BY KeepsAreStamped DEF Lagged
<1>2. \A i \in 1 .. Len(r) : r[i].deadline <= u + Window
  BY EntriesHaveDeadlines, WindowPositive DEF Lagged
<1>3. QED
  BY <1>1, <1>2, Zenon DEF Lagged

(* An event arrives, a keep among them no more than StampLag old. *)
LEMMA LagArrives ==
    ASSUME NEW q \in Seq(Events), NEW r \in Seq(Entries), NEW t \in Nat, NEW e \in Events,
           e.kind = "evKeep" => e.at <= t /\ t <= e.at + StampLag,
           Lagged(q, r, t)
    PROVE  Lagged(Append(q, e), r, t)
<1> DEFINE a == Append(q, e)
<1> DEFINE n == Len(q) + 1
<1>1. a \in Seq(Events) /\ Len(a) = n /\ Len(q) \in Nat /\ (\A i \in 1 .. Len(q) : a[i] = q[i]) /\ a[n] = e
  BY Appended
<1>2. e.kind = "evKeep" => e.at \in Nat
  BY EventFields
<1> HIDE DEF a
<1>3. \A i \in KeepsOf(a) : \/ i \in KeepsOf(q) /\ a[i] = q[i] /\ i < n
                            \/ i = n /\ a[i] = e /\ e.kind = "evKeep"
  BY <1>1 DEF KeepsOf
<1>4. \A i \in KeepsOf(a) : a[i].at <= t
  BY <1>3, Zenon DEF Lagged
<1>5. ASSUME NEW i \in KeepsOf(a), NEW k \in KeepsOf(a), i < k
      PROVE  a[i].at <= a[k].at + StampLag
  <2>1. CASE k = n /\ a[k] = e /\ e.kind = "evKeep"
    <3>1. a[i].at <= t /\ a[i].at \in Nat
      BY <1>1, <1>4, KeepsAreStamped
    <3>2. t <= e.at + StampLag /\ e.at \in Nat
      BY <1>2, <2>1
    <3>3. QED
      BY <2>1, <3>1, <3>2, StampBounds
  <2>2. CASE k \in KeepsOf(q) /\ a[k] = q[k] /\ k < n
    <3>1. i \in KeepsOf(q) /\ a[i] = q[i]
      <4>1. i \in Int /\ k \in Int
        BY <1>1, KeepsAreStamped
      <4>2. i # n
        BY <1>1, <1>5, <2>2, <4>1
      <4>3. QED
        BY <1>3, <4>2
    <3>2. QED
      BY <1>5, <2>2, <3>1, Zenon DEF Lagged
  <2>3. QED
    BY <1>3, <2>1, <2>2
<1>6. ASSUME NEW i \in 1 .. Len(r), NEW k \in KeepsOf(a)
      PROVE  r[i].deadline <= a[k].at + StampLag + Window
  <2>1. CASE k = n /\ a[k] = e /\ e.kind = "evKeep"
    <3>1. r[i].deadline <= t + Window /\ r[i].deadline \in Nat
      BY EntriesHaveDeadlines DEF Lagged
    <3>2. t <= e.at + StampLag /\ e.at \in Nat
      BY <1>2, <2>1
    <3>3. QED
      BY <2>1, <3>1, <3>2, StampBounds, WindowPositive
  <2>2. CASE k \in KeepsOf(q) /\ a[k] = q[k] /\ k < n
    BY <2>2, Zenon DEF Lagged
  <2>3. QED
    BY <1>3, <2>1, <2>2
<1>7. Lagged(a, r, t)
  BY <1>4, <1>5, <1>6, Zenon DEF Lagged
<1>8. QED
  BY <1>7 DEF a

(* The head of the queue is taken. *)
LEMMA LagTaken ==
    ASSUME NEW q \in Seq(Events), NEW r \in Seq(Entries), NEW t \in Nat, q # << >>, Lagged(q, r, t)
    PROVE  /\ Lagged(Tail(q), r, t)
           /\ \A i \in KeepsOf(Tail(q)) : i + 1 \in KeepsOf(q) /\ Tail(q)[i] = q[i + 1] /\ i \in Nat \ {0}
<1> DEFINE a == Tail(q)
<1>1. a \in Seq(Events) /\ Len(a) \in Nat /\ \A i \in 1 .. Len(a) : a[i] = q[i + 1] /\ i + 1 \in 1 .. Len(q)
  BY Tailed
<1> HIDE DEF a
<1>2. \A i \in KeepsOf(a) : i + 1 \in KeepsOf(q) /\ a[i] = q[i + 1] /\ i \in Nat \ {0}
  BY <1>1 DEF KeepsOf
<1>3. \A i \in KeepsOf(a) : a[i].at <= t
  BY <1>2, Zenon DEF Lagged
<1>4. ASSUME NEW i \in KeepsOf(a), NEW k \in KeepsOf(a), i < k
      PROVE  a[i].at <= a[k].at + StampLag
  <2>1. i + 1 < k + 1
    BY <1>2, <1>4
  <2>2. QED
    BY <1>2, <2>1, Zenon DEF Lagged
<1>5. \A i \in 1 .. Len(r), k \in KeepsOf(a) : r[i].deadline <= a[k].at + StampLag + Window
  BY <1>2, Zenon DEF Lagged
<1>6. Lagged(a, r, t)
  BY <1>3, <1>4, <1>5, Zenon DEF Lagged
<1>7. QED
  BY <1>2, <1>6 DEF a

(* The tick drops a prefix of the ring. *)
LEMMA LagEvicts ==
    ASSUME NEW q \in Seq(Events), NEW r \in Seq(Entries), NEW t \in Nat, NEW s, NEW c \in Nat, Len(s) \in Nat,
           \A i \in 1 .. Len(s) : s[i] = r[c + i] /\ c + i \in 1 .. Len(r),
           Lagged(q, r, t)
    PROVE  Lagged(q, s, t)
<1>1. \A i \in 1 .. Len(s) : s[i].deadline <= t + Window
  BY Zenon DEF Lagged
<1>2. \A i \in 1 .. Len(s), k \in KeepsOf(q) : s[i].deadline <= q[k].at + StampLag + Window
  BY Zenon DEF Lagged
<1>3. ASSUME NEW i \in 1 .. Len(s), NEW k \in 1 .. Len(s), i < k
      PROVE  s[i].deadline <= s[k].deadline + StampLag
  <2>1. c + i < c + k
    BY <1>3
  <2>2. QED
    BY <2>1, Zenon DEF Lagged
<1>4. QED
  BY <1>1, <1>2, <1>3, Zenon DEF Lagged

(* A keep at the head of the queue is decided. *)
LEMMA LagDecides ==
    ASSUME NEW q \in Seq(Events), NEW r \in Seq(Entries), NEW t \in Nat, q # << >>, Lagged(q, r, t),
           q[1].kind = "evKeep", NEW d \in Entries, d.deadline = q[1].at + Window
    PROVE  Lagged(Tail(q), Append(r, d), t)
<1> DEFINE a == Tail(q)
<1> DEFINE b == Append(r, d)
<1> DEFINE n == Len(r) + 1
<1>1. /\ Lagged(a, r, t)
      /\ \A i \in KeepsOf(a) : i + 1 \in KeepsOf(q) /\ a[i] = q[i + 1] /\ i \in Nat \ {0}
  BY LagTaken
<1>2. b \in Seq(Entries) /\ Len(b) = n /\ Len(r) \in Nat /\ (\A i \in 1 .. Len(r) : b[i] = r[i]) /\ b[n] = d
  BY Appended
<1>3. 1 \in KeepsOf(q)
  <2>1. Len(q) \in Nat \ {0}
    BY Tailed
  <2>2. QED
    BY <2>1 DEF KeepsOf
<1>4. q[1].at \in Nat
  BY <1>3, KeepsAreStamped
<1>5. \A i \in 1 .. Len(b) : \/ i \in 1 .. Len(r) /\ b[i] = r[i]
                             \/ i = n /\ b[i] = d
  BY <1>2
<1>6. a \in Seq(Events)
  BY Tailed
<1> HIDE DEF a, b
<1>7. ASSUME NEW i \in 1 .. Len(b)
      PROVE  b[i].deadline <= t + Window
  <2>1. d.deadline <= t + Window
    <3>1. q[1].at <= t
      BY <1>3 DEF Lagged
    <3>2. QED
      BY <1>4, <3>1, WindowPositive
  <2>2. QED
    BY <1>5, <2>1, Zenon DEF Lagged
<1>8. ASSUME NEW i \in 1 .. Len(b), NEW k \in KeepsOf(a)
      PROVE  b[i].deadline <= a[k].at + StampLag + Window
  <2>1. d.deadline <= a[k].at + StampLag + Window
    <3>1. k + 1 \in KeepsOf(q) /\ a[k] = q[k + 1] /\ 1 < k + 1
      BY <1>1
    <3>2. q[1].at <= a[k].at + StampLag
      BY <1>3, <3>1, Zenon DEF Lagged
    <3>3. a[k].at \in Nat
      BY <1>6, KeepsAreStamped
    <3>4. QED
      BY SMTT(40), <1>4, <3>2, <3>3, StampBounds, WindowPositive
  <2>2. QED
    BY <1>1, <1>5, <2>1, Zenon DEF Lagged
<1>9. ASSUME NEW i \in 1 .. Len(b), NEW k \in 1 .. Len(b), i < k
      PROVE  b[i].deadline <= b[k].deadline + StampLag
  <2>1. i \in 1 .. Len(r) /\ b[i] = r[i]
    BY <1>2, <1>9
  <2>2. CASE k = n /\ b[k] = d
    <3>1. r[i].deadline <= q[1].at + StampLag + Window /\ r[i].deadline \in Nat
      BY <1>3, <2>1, EntriesHaveDeadlines DEF Lagged
    <3>2. QED
      BY <1>4, <2>1, <2>2, <3>1, StampBounds, WindowPositive
  <2>3. CASE k \in 1 .. Len(r) /\ b[k] = r[k]
    BY <1>9, <2>1, <2>3, Zenon DEF Lagged
  <2>4. QED
    BY <1>5, <2>2, <2>3
<1>10. Lagged(a, b, t)
  BY <1>1, <1>7, <1>8, <1>9, Zenon DEF Lagged
<1>11. QED
  BY <1>10 DEF a, b

(* What becomes of the queue and the ring, step by step. *)
LEMMA LagNext ==
    ASSUME Base, LagInv, [Next]_vars
    PROVE  LagInv'
<1>0. TypeOK /\ TypeOK' /\ BatchInv
  BY BaseNext DEF Base, PendqCoherent
<1>1. now \in Nat /\ now' \in Nat /\ now <= now'
  BY DiskAndRing
<1>2. queue \in Seq(Events) /\ ring \in Seq(Entries)
  BY <1>0 DEF TypeOK, Entries
<1>3. SUFFICES ASSUME StampSkew = 0
               PROVE  Lagged(queue', ring', now')
  BY LagIs
<1>4. Lagged(queue, ring, now)
  BY <1>3, LagIs
<1>5. ASSUME UNCHANGED <<queue, ring>>
      PROVE  Lagged(queue', ring', now')
  BY <1>1, <1>2, <1>4, <1>5, LagLater
<1>6. ASSUME NEW e \in Events, e.kind = "evKeep" => e.at <= now /\ now <= e.at + StampLag,
             queue' = Append(queue, e), UNCHANGED <<ring, now>>
      PROVE  Lagged(queue', ring', now')
  BY <1>1, <1>2, <1>4, <1>6, LagArrives
<1>7. ASSUME queue # << >>, queue' = Tail(queue), UNCHANGED <<ring, now>>
      PROVE  Lagged(queue', ring', now')
  BY <1>1, <1>2, <1>4, <1>7, LagTaken
<1>8. CASE Advance \/ Drain \/ Gather \/ Publish \/ Consume \/ UNCHANGED vars
  <2>1. UNCHANGED <<queue, ring>>
    BY <1>8 DEF vars, Advance, Drain, DrainDone, DrainDrop, DrainSend, DrainFull, DrainCollectErr,
                Gather, Publish, Consume, workVars
  <2>2. QED
    BY <1>5, <2>1
<1>9. ASSUME NEW id \in Ids, NEW at \in Stamps, ArriveFragment(id, at)
      PROVE  Lagged(queue', ring', now')
  <2> DEFINE e == [kind |-> "evFrag", id |-> id, at |-> at, n |-> inputs + 1]
  <2>1. queue' = Append(queue, e) /\ UNCHANGED <<ring, now>> /\ inputs < MaxInputs
    BY <1>9 DEF ArriveFragment, workVars
  <2>2. e \in Events /\ e.kind # "evKeep"
    <3>1. at \in Nat
      BY <1>1, StampBounds DEF Stamps
    <3>2. inputs + 1 \in 1 .. MaxInputs
      BY <1>0, <2>1, WorkerBounds DEF TypeOK
    <3>3. QED
      BY <3>1, <3>2 DEF Events
  <2> HIDE DEF e
  <2>3. QED
    BY <1>6, <2>1, <2>2
<1>10. ASSUME NEW id \in Ids, NEW at \in Stamps, NEW o \in Origins, ArriveKeep(id, o, at)
       PROVE  Lagged(queue', ring', now')
  <2> DEFINE e == [kind |-> "evKeep", id |-> id, at |-> at, origin |-> o]
  <2>1. queue' = Append(queue, e) /\ UNCHANGED <<ring, now>>
    BY <1>10 DEF ArriveKeep, workVars
  <2>2. at \in Nat /\ at <= now /\ now <= at + StampLag
    BY <1>1, <1>3, StampBounds DEF Stamps
  <2>3. e \in Events /\ e.at <= now /\ now <= e.at + StampLag
    BY <2>2 DEF Events
  <2> HIDE DEF e
  <2>4. QED
    BY <1>6, <2>1, <2>3
<1>11. CASE RetryPublish \/ ConsumeRefused
  <2> DEFINE j == Head(batch)
  <2>1. fpc = "process" /\ UNCHANGED <<ring, now>>
    BY <1>11 DEF RetryPublish, ConsumeRefused, workVars
  <2>2. PICK need \in Needs : Retry(j, need)
    <3>1. j.need \in Needs
      BY <1>0, <2>1, BatchHead
    <3>2. {NeedFlush} \in Needs
      BY DEF Needs
    <3>3. QED
      BY <1>11, <3>1, <3>2 DEF RetryPublish, ConsumeRefused
  <2>3. j \in Jobs
    BY <1>0, <2>1, BatchHead
  <2> HIDE DEF j
  <2> DEFINE e == [kind |-> "evRetry", id |-> j.id, reason |-> j.reason, need |-> need, deadline |-> j.deadline]
  <2>4. e \in Events /\ queue' = Append(queue, e)
    BY <1>0, <2>2, <2>3, RetryIs
  <2>5. e.kind # "evKeep"
    OBVIOUS
  <2> HIDE DEF e
  <2>6. QED
    BY <1>6, <2>1, <2>4, <2>5
<1>12. CASE HandleFragment \/ HandleDuplicateKeep \/ HandleRetry
  <2>1. queue # << >> /\ queue' = Tail(queue) /\ UNCHANGED <<ring, now>>
    BY <1>12 DEF HandleFragment, HandleDuplicateKeep, HandleRetry, workVars
  <2>2. QED
    BY <1>7, <2>1
<1>13. CASE HandleKeep
  <2> DEFINE h == Head(queue)
  <2> DEFINE d == [id |-> h.id, deadline |-> KeepDeadline(h)]
  <2>1. queue # << >> /\ queue' = Tail(queue) /\ h \in Events /\ h.kind = "evKeep" /\ UNCHANGED now
    BY <1>0, <1>13, KeepIs
  <2>2. d \in Entries /\ ring' = Append(ring, d)
    BY <1>0, <1>13, KeepRing
  <2>3. h = queue[1] /\ 1 \in KeepsOf(queue)
    <3>1. h = queue[1] /\ Len(queue) \in Nat \ {0}
      BY <1>2, <2>1, Tailed
    <3>2. 1 \in 1 .. Len(queue)
      BY <3>1
    <3>3. QED
      BY <2>1, <3>1, <3>2 DEF KeepsOf
  <2>4. queue[1].at <= now
    BY <1>4, <2>3 DEF Lagged
  <2> HIDE DEF h
  <2>5. h.at \in Nat
    BY <2>1, EventFields
  <2>6. KeepDeadline(h) = h.at + Window
    <3>1. Clamped(h.at) = h.at
      BY <1>0, <2>3, <2>4, <2>5, ClampedIs
    <3>2. QED
      BY <3>1 DEF KeepDeadline
  <2>7. d.deadline = queue[1].at + Window
    BY <2>3, <2>6
  <2> HIDE DEF d
  <2>8. QED
    BY <1>1, <1>2, <1>4, <2>1, <2>2, <2>3, <2>7, LagDecides
<1>14. CASE TickBegin
  <2>1. UNCHANGED <<queue, now>>
    BY <1>14 DEF TickBegin
  <2> DEFINE c == EvictCount
  <2>2. /\ c \in Nat /\ Len(ring) \in Nat /\ c <= Len(ring) /\ Len(ring') = Len(ring) - c
        /\ \A i \in 1 .. Len(ring') : ring'[i] = ring[c + i] /\ c + i \in 1 .. Len(ring)
    BY <1>0, <1>14, TickRing
  <2> HIDE DEF c
  <2>3. Len(ring') \in Nat
    BY <2>2
  <2>4. Lagged(queue, ring', now)
    BY <1>1, <1>2, <1>4, <2>2, <2>3, LagEvicts
  <2>5. QED
    BY <2>1, <2>4
<1>15. QED
  BY <1>8, <1>9, <1>10, <1>11, <1>12, <1>13, <1>14 DEF Next, Handle, Flush

(* At the start the queue and the ring are empty. *)
LEMMA LagInit ==
    ASSUME Init
    PROVE  LagInv
<1>1. Len(queue) = 0 /\ Len(ring) = 0
  BY DEF Init
<1>2. QED
  BY <1>1 DEF LagInv, Keeps

(* With honest clocks a tick leaves no decided entry in the ring more than *)
(* StampLag past its deadline: the head blocks the eviction of what was    *)
(* stamped before it, but never for longer than stamps can be out of       *)
(* order.                                                                  *)
THEOREM EvictsInTime == Spec => EvictionWithinLag
<1>1. Init => Base /\ LagInv
  BY BaseInit, LagInit
<1>2. Base /\ LagInv /\ [Next]_vars => Base' /\ LagInv'
  BY BaseNext, LagNext
<1>3. Base /\ LagInv /\ [Next]_vars =>
        [(wpc = "select" /\ wpc' = "drain" /\ StampSkew = 0) =>
            \A e \in Elements(ring') : e.deadline + StampLag > now]_vars
  <2>1. SUFFICES ASSUME Base, LagInv, [Next]_vars, wpc = "select", wpc' = "drain", StampSkew = 0,
                        NEW e \in Elements(ring')
                 PROVE  e.deadline + StampLag > now
    OBVIOUS
  <2>2. TypeOK /\ TypeOK'
    BY <2>1, BaseNext DEF Base, PendqCoherent
  <2>3. TickBegin
    BY <2>1 DEF Next, vars, Advance, ArriveFragment, ArriveKeep, Handle, HandleFragment, HandleDuplicateKeep,
                HandleKeep, HandleRetry, Drain, DrainDone, DrainDrop, DrainSend, DrainFull, DrainCollectErr,
                Flush, Gather, Publish, RetryPublish, Consume, ConsumeRefused, workVars
  <2>4. now \in Nat /\ ring \in Seq(Entries)
    BY <2>2, WorkerBounds DEF TypeOK, Entries
  <2> DEFINE c == EvictCount
  <2>5. /\ c \in Nat /\ Len(ring) \in Nat /\ c <= Len(ring) /\ Len(ring') = Len(ring) - c
        /\ \A i \in 1 .. Len(ring') : ring'[i] = ring[c + i] /\ c + i \in 1 .. Len(ring)
        /\ c < Len(ring) => ring[c + 1].deadline > now
    BY <2>2, <2>3, TickRing
  <2> HIDE DEF c
  <2>6. PICK i \in 1 .. Len(ring') : e = ring'[i]
    BY DEF Elements
  <2>7. /\ e = ring[c + i] /\ c + i \in 1 .. Len(ring) /\ c + 1 \in 1 .. Len(ring) /\ ring[c + 1].deadline > now
        /\ i \in Nat \ {0} /\ (i = 1 \/ c + 1 < c + i)
    BY <2>5, <2>6
  <2>8. ring[c + 1].deadline \in Nat /\ ring[c + i].deadline \in Nat
    BY <2>4, <2>7, EntriesHaveDeadlines
  <2>9. CASE i = 1
    BY <2>4, <2>7, <2>8, <2>9, StampBounds
  <2>10. CASE c + 1 < c + i
    <3>1. Lagged(queue, ring, now)
      BY <2>1, LagIs
    <3>2. ring[c + 1].deadline <= ring[c + i].deadline + StampLag
      BY <2>7, <2>10, <3>1 DEF Lagged
    <3>3. QED
      BY <2>4, <2>7, <2>8, <3>2, StampBounds
  <2>11. QED
    BY <2>7, <2>9, <2>10
<1>4. QED
  BY <1>1, <1>2, <1>3, PTL DEF Spec, EvictionWithinLag

-----------------------------------------------------------------------------
(* All of it together: what the worker, its parking and the flusher keep   *)
(* true of each other at every step.                                       *)
THEOREM WorkerInvariant == Spec => []WorkerInv
<1>1. ASSUME Init
      PROVE  WorkerInv
  <2>1. Base /\ OutstandingInv /\ CreditInv /\ LagInv
    BY <1>1, VerdictInit, LagInit
  <2>2. DecidedInv
    BY <1>1 DEF Init, DecidedInv, NoDeadline
  <2>3. NothingFromTheFuture
    BY <1>1 DEF Init, NothingFromTheFuture, Elements
  <2>4. PublishAgesFromDecision
    BY <1>1 DEF Init, PublishAgesFromDecision, NoReq, JobsUnderWay, Retries, Elements
  <2>5. StoredInv /\ KeptNeverLost
    <3>1. Elements(<< >>) = {} /\ Len(<< >>) = 0
      BY DEF Elements
    <3>2. QED
      BY <1>1, <3>1 DEF Init, StoredInv, KeptNeverLost, Waiting, JobsUnderWay
  <2>6. QED
    BY <2>1, <2>2, <2>3, <2>4, <2>5 DEF WorkerInv, Base
<1>2. ASSUME WorkerInv, [Next]_vars
      PROVE  WorkerInv'
  <2>1. Base
    BY <1>2 DEF WorkerInv, Base
  <2>2. Base' /\ NothingFromTheFuture' /\ PublishAgesFromDecision' /\ StoredInv' /\ KeptNeverLost'
    BY <1>2, <2>1, BaseNext, FutureNext, AgesNext, StoredNext, KeptNext DEF WorkerInv
  <2>3. OutstandingInv' /\ CreditInv' /\ DecidedInv' /\ LagInv'
    BY <1>2, <2>1, OutstandingNext, CreditNext, DecidedNext, LagNext DEF WorkerInv
  <2>4. QED
    BY <2>2, <2>3 DEF WorkerInv, Base
<1>3. QED
  BY <1>1, <1>2, PTL DEF Spec
=============================================================================
