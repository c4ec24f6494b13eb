--------------------------- MODULE OverloadProofs ---------------------------
(***************************************************************************)
(* Proofs, for any number of shards, segment, record and file sizes,       *)
(* watermark and bounds, that the overload ladder sacrifices no more than  *)
(* it says and when the shards can all be shedding with nothing to reclaim.*)
(***************************************************************************)
EXTENDS Overload, SumTheorems

LEMMA Sizes ==
    ASSUME LadderConstants
    PROVE  /\ LargestFile \in Nat /\ LargestActive \in Nat
           /\ SegmentSize <= LargestActive /\ MaxRecord <= LargestActive
           /\ 2 * SegmentSize + TrailerLen <= LargestFile
           /\ MaxRecord + HeaderLen + TrailerLen <= LargestFile
  BY DEF LadderConstants, LargestFile, LargestActive

(* A roll's file is a segment, and an append's segment an active one. *)
LEMMA RolledIs ==
    ASSUME LadderConstants, NEW a \in Actives
    PROVE  Finalized(a) \in Segments
<1>1. /\ a.n \in 0 .. LargestActive /\ a.dir \in Nat /\ a.tMax \in Nat /\ a.dir <= a.n
      /\ a.n > SegmentSize => a.dir <= HeaderLen
  BY DEF Actives
<1>2. SegmentSize \in Nat /\ HeaderLen \in Nat /\ TrailerLen \in Nat \ {0} /\ MaxRecord \in Nat
  BY DEF LadderConstants
<1>3. a.n > SegmentSize => a.n <= MaxRecord
  BY <1>1, <1>2 DEF LargestActive
<1>4. a.n + a.dir + TrailerLen \in 1 .. LargestFile
  BY <1>1, <1>2, <1>3, Sizes
<1>5. QED
  BY <1>1, <1>4 DEF Finalized, Segment, Segments

LEMMA FreshIs ==
    ASSUME LadderConstants
    PROVE  Fresh \in Actives
  BY Sizes DEF Fresh, Active, Actives, LadderConstants

LEMMA AppendedIs ==
    ASSUME LadderConstants, NEW a \in Actives, NEW r \in RecordSizes, NEW t \in Nat,
           a.n > 0 => a.n + r <= SegmentSize
    PROVE  Active(a.n + r, a.dir + HeaderLen, t) \in Actives
<1>1. a.n \in Nat /\ a.dir \in Nat /\ a.dir <= a.n
  BY Sizes DEF Actives
<1>2. /\ SegmentSize \in Nat /\ HeaderLen \in Nat /\ MaxRecord \in Nat
      /\ r \in Nat /\ HeaderLen <= r /\ r <= MaxRecord
  BY DEF LadderConstants
<1>3. /\ a.n + r \in 0 .. LargestActive /\ a.dir + HeaderLen \in Nat
      /\ a.dir + HeaderLen <= a.n + r
      /\ a.n + r > SegmentSize => a.dir + HeaderLen <= HeaderLen
  BY <1>1, <1>2, Sizes
<1>4. QED
  BY <1>3 DEF Active, Actives

(* The usage a shard reports, of its files and its active segment. *)
LEMMA Bytes ==
    ASSUME LadderConstants, NEW q \in Seq(Segments), NEW a \in Actives
    PROVE  /\ DiskBytes(q, a) \in Nat /\ a.n \in 0 .. LargestActive
           /\ q = << >> => DiskBytes(q, a) = a.n
           /\ q # << >> => /\ Tail(q) \in Seq(Segments) /\ Head(q).n \in 0 .. LargestFile
                           /\ DiskBytes(Tail(q), a) = DiskBytes(q, a) - Head(q).n
<1> DEFINE f == [i \in DOMAIN q |-> q[i].n]
<1>1. DOMAIN q = 1 .. Len(q) /\ Len(q) \in Nat /\ IsFiniteSet(1 .. Len(q))
  BY FS_Interval
<1>2. \A i \in 1 .. Len(q) : q[i] \in Segments
  BY ElementOfSeq
<1>3. a.n \in 0 .. LargestActive /\ a.n \in Nat /\ LargestFile \in Nat
  BY Sizes DEF Actives
<1>4. \A i \in 1 .. Len(q) : f[i] \in Nat /\ f[i] = q[i].n /\ f[i] \in 0 .. LargestFile
  BY <1>1, <1>2, <1>3 DEF Segments
<1>5. DiskBytes(q, a) = SumFunctionOnSet(f, 1 .. Len(q)) + a.n
  BY <1>1 DEF DiskBytes, SumFunction
<1> HIDE DEF f
<1>6. SumFunctionOnSet(f, 1 .. Len(q)) \in Nat /\ (1 .. Len(q) = {} => SumFunctionOnSet(f, 1 .. Len(q)) = 0)
  BY <1>1, <1>4, SumIsNat
<1>7. DiskBytes(q, a) \in Nat
  BY <1>3, <1>5, <1>6
<1>8. ASSUME q = << >>
      PROVE  DiskBytes(q, a) = a.n
  <2>1. 1 .. Len(q) = {}
    BY <1>8
  <2>2. QED
    BY <1>3, <1>5, <1>6, <2>1
<1>9. ASSUME q # << >>
      PROVE  /\ Tail(q) \in Seq(Segments) /\ Head(q).n \in 0 .. LargestFile
             /\ DiskBytes(Tail(q), a) = DiskBytes(q, a) - Head(q).n
  <2> DEFINE t == Tail(q)
  <2> DEFINE g == [i \in DOMAIN t |-> t[i].n]
  <2>1. Len(q) # 0
    BY <1>1, <1>9, EmptySeq
  <2>2. /\ Head(q) = q[1] /\ t \in Seq(Segments) /\ Len(t) = Len(q) - 1
        /\ \A i \in 1 .. Len(q) - 1 : t[i] = q[i + 1]
    BY <1>1, <1>9, <2>1, HeadTailProperties
  <2> HIDE DEF t
  <2>3. DOMAIN t = 1 .. Len(q) - 1
    BY <2>2
  <2>4. \A i \in 1 .. Len(q) - 1 : g[i] = f[i + 1]
    <3>1. \A i \in 1 .. Len(q) - 1 : i + 1 \in 1 .. Len(q) /\ g[i] = t[i].n
      BY <1>1, <2>3
    <3>2. QED
      BY <1>4, <2>2, <3>1
  <2>5. DiskBytes(t, a) = SumFunctionOnSet(g, 1 .. Len(q) - 1) + a.n
    BY <2>3 DEF DiskBytes, SumFunction
  <2> HIDE DEF g
  <2>6. SumFunctionOnSet(g, 1 .. Len(q) - 1) = SumFunctionOnSet(f, 1 .. Len(q)) - f[1]
    BY <1>1, <1>4, <2>1, <2>4, SumTail
  <2>7. f[1] = Head(q).n /\ f[1] \in 0 .. LargestFile
    BY <1>1, <1>4, <2>1, <2>2
  <2>8. DiskBytes(t, a) = DiskBytes(q, a) - Head(q).n
    BY <1>3, <1>5, <1>6, <2>5, <2>6, <2>7
  <2>9. QED
    BY <2>2, <2>7, <2>8 DEF t
<1>10. QED
  BY <1>3, <1>7, <1>8, <1>9

(* What a report leaves of the shard's files. *)
LEMMA ReportIs ==
    ASSUME LadderConstants, TypeOK, NEW s \in Shards, TickReport(s)
    PROVE  \E files \in Seq(Segments), act \in Actives :
             LET delta == DiskBytes(files, act) - last[s]
             IN /\ segs' = [segs EXCEPT ![s] = files]
                /\ active' = [active EXCEPT ![s] = act]
                /\ diskBytes' = diskBytes + delta
                /\ last' = [last EXCEPT ![s] = @ + delta]
                /\ lapsed' = [o \in Shards |-> IF pc[o] = "drop" /\ delta < 0 THEN lapsed[o] - delta ELSE lapsed[o]]
<1> DEFINE cutoff == clock - Window
<1> DEFINE due == {k \in 0 .. Len(segs[s]) : \A i \in 1 .. k : segs[s][i].tMax < cutoff}
<1> DEFINE stale == active[s].n > 0 /\ active[s].tMax < cutoff
<1> DEFINE kept(k) == SubSeq(segs[s], k + 1, Len(segs[s]))
<1> DEFINE files(k) == IF stale THEN Append(kept(k), Finalized(active[s])) ELSE kept(k)
<1> DEFINE act == IF stale THEN Fresh ELSE active[s]
<1> DEFINE delta(k) == DiskBytes(files(k), act) - last[s]
<1>1. PICK k \in due : /\ segs' = [segs EXCEPT ![s] = files(k)]
                       /\ active' = [active EXCEPT ![s] = act]
                       /\ diskBytes' = diskBytes + delta(k)
                       /\ last' = [last EXCEPT ![s] = @ + delta(k)]
                       /\ lapsed' = [o \in Shards |-> IF pc[o] = "drop" /\ delta(k) < 0 THEN lapsed[o] - delta(k)
                                                      ELSE lapsed[o]]
  BY Zenon DEF TickReport
<1>2. segs[s] \in Seq(Segments) /\ active[s] \in Actives
  BY DEF TypeOK
<1>3. Fresh \in Actives /\ Finalized(active[s]) \in Segments
  BY <1>2, FreshIs, RolledIs
<1>4. k \in 0 .. Len(segs[s]) /\ Len(segs[s]) \in Nat
  BY <1>1, <1>2
<1>5. kept(k) \in Seq(Segments)
  <2>1. k + 1 \in Int /\ Len(segs[s]) \in Int
    BY <1>4
  <2>2. \A i \in k + 1 .. Len(segs[s]) : segs[s][i] \in Segments
    BY <1>2, <1>4, ElementOfSeq
  <2>3. QED
    BY <2>1, <2>2, SubSeqProperties
<1> HIDE DEF kept, stale
<1>6. files(k) \in Seq(Segments) /\ act \in Actives
  BY <1>2, <1>3, <1>5
<1> HIDE DEF files, act
<1>7. QED
  BY <1>1, <1>6

(* Every variable keeps its type. *)
LEMMA TypeStays ==
    ASSUME LadderConstants, TypeOK, TotalInv, DropInv, [Next]_vars
    PROVE  TypeOK'
<1>0. LargestFile \in Nat /\ SegmentSize \in Nat
  BY Sizes DEF LadderConstants
<1>1. CASE UNCHANGED vars
  BY <1>1 DEF vars, TypeOK, Accepted
<1>2. CASE ClockTick
  BY <1>2 DEF ClockTick, TypeOK, Accepted
<1>3. ASSUME NEW s \in Shards, Append1(s)
      PROVE  TypeOK'
  <2>0. PICK r \in RecordSizes :
          LET full == active[s].n > 0 /\ active[s].n + r > SegmentSize
              onto == IF full THEN Fresh ELSE active[s]
          IN /\ segs' = IF full THEN [segs EXCEPT ![s] = Append(@, Finalized(active[s]))] ELSE segs
             /\ active' = [active EXCEPT ![s] = Active(onto.n + r, onto.dir + HeaderLen, clock)]
             /\ appends' = appends + 1
             /\ UNCHANGED <<limit, clock, diskBytes, last, pc, tickNow, cause, jammed, lapsed>>
    BY <1>3, Zenon DEF Append1
  <2> DEFINE full == active[s].n > 0 /\ active[s].n + r > SegmentSize
  <2> DEFINE onto == IF full THEN Fresh ELSE active[s]
  <2> DEFINE a == Active(onto.n + r, onto.dir + HeaderLen, clock)
  <2>1. /\ segs' = IF full THEN [segs EXCEPT ![s] = Append(@, Finalized(active[s]))] ELSE segs
        /\ active' = [active EXCEPT ![s] = a] /\ appends' = appends + 1
        /\ UNCHANGED <<limit, clock, diskBytes, last, pc, tickNow, cause, jammed, lapsed>>
    BY <2>0
  <2>2. active[s] \in Actives /\ segs[s] \in Seq(Segments) /\ clock \in Nat
    BY DEF TypeOK
  <2>3. a \in Actives
    <3>1. active[s].n \in Nat /\ r \in Nat
      BY <2>2, Sizes DEF Actives, LadderConstants
    <3>2. onto \in Actives /\ (onto.n > 0 => onto.n + r <= SegmentSize)
      BY <1>0, <2>2, <3>1, FreshIs DEF Fresh, Active
    <3> HIDE DEF onto
    <3>3. QED
      BY <2>2, <3>2, AppendedIs
  <2>4. Append(segs[s], Finalized(active[s])) \in Seq(Segments)
    BY <2>2, RolledIs
  <2> HIDE DEF a, full, onto
  <2>5. segs' \in [Shards -> Seq(Segments)] /\ active' \in [Shards -> Actives]
    BY <2>1, <2>3, <2>4 DEF TypeOK
  <2>6. QED
    BY <2>1, <2>5 DEF TypeOK, Accepted
<1>4. ASSUME NEW s \in Shards, TickReport(s)
      PROVE  TypeOK'
  <2>1. PICK files \in Seq(Segments), act \in Actives :
             LET delta == DiskBytes(files, act) - last[s]
             IN /\ segs' = [segs EXCEPT ![s] = files]
                /\ active' = [active EXCEPT ![s] = act]
                /\ diskBytes' = diskBytes + delta
                /\ last' = [last EXCEPT ![s] = @ + delta]
                /\ lapsed' = [o \in Shards |-> IF pc[o] = "drop" /\ delta < 0 THEN lapsed[o] - delta ELSE lapsed[o]]
    BY <1>4, ReportIs
  <2> DEFINE delta == DiskBytes(files, act) - last[s]
  <2>2. DiskBytes(files, act) \in Nat /\ last[s] \in Nat
    BY Bytes DEF TypeOK
  <2>3. delta \in Int /\ last[s] + delta \in Nat
    BY <2>2
  <2>4. /\ lapsed' = [o \in Shards |-> IF pc[o] = "drop" /\ delta < 0 THEN lapsed[o] - delta ELSE lapsed[o]]
        /\ last' = [last EXCEPT ![s] = @ + delta] /\ diskBytes' = diskBytes + delta
    BY <2>1
  <2> HIDE DEF delta
  <2>5. lapsed' \in [Shards -> Nat] /\ last' \in [Shards -> Nat] /\ diskBytes' \in Int
    BY <2>3, <2>4 DEF TypeOK
  <2>6. /\ tickNow' = [tickNow EXCEPT ![s] = clock] /\ pc' = [pc EXCEPT ![s] = "look"]
        /\ UNCHANGED <<limit, clock, cause, appends, jammed>>
    BY <1>4 DEF TickReport
  <2>7. segs' \in [Shards -> Seq(Segments)] /\ active' \in [Shards -> Actives]
    BY <2>1 DEF TypeOK
  <2>8. QED
    BY <2>5, <2>6, <2>7 DEF TypeOK, Accepted
<1>5. ASSUME NEW s \in Shards, Look(s)
      PROVE  TypeOK'
  <2>1. UNCHANGED <<limit, clock, segs, active, diskBytes, last, appends, lapsed>>
    BY <1>5 DEF Look
  <2>2. pc' \in [Shards -> {"run", "look", "drop"}]
    BY <1>5 DEF Look, TypeOK
  <2>3. tickNow' \in [Shards -> Nat]
    <3>1. tickNow' \in {tickNow, [tickNow EXCEPT ![s] = 0]}
      BY <1>5, Zenon DEF Look
    <3>2. QED
      BY <3>1 DEF TypeOK
  <2>4. jammed' \subseteq Shards
    <3>1. jammed' \in {jammed, jammed \ {s}}
      BY <1>5, Zenon DEF Look
    <3>2. QED
      BY <3>1 DEF TypeOK
  <2>5. cause' \in [Shards -> Causes]
    <3>1. Verdict(s) = "drop" \/ Verdict(s) \in Causes
      <4>1. diskBytes \in Int /\ limit \in Int
        BY DEF TypeOK
      <4>2. QED
        BY <4>1 DEF Verdict, Causes
    <3>2. QED
      BY <1>5, <3>1 DEF Look, TypeOK
  <2>6. QED
    BY <2>1, <2>2, <2>3, <2>4, <2>5 DEF TypeOK, Accepted
<1>6. ASSUME NEW s \in Shards, Drop(s)
      PROVE  TypeOK'
  <2>1. /\ segs' = [segs EXCEPT ![s] = Tail(@)] /\ diskBytes' = diskBytes - Head(segs[s]).n
        /\ last' = [last EXCEPT ![s] = @ - Head(segs[s]).n] /\ pc' = [pc EXCEPT ![s] = "look"]
        /\ lapsed' = [lapsed EXCEPT ![s] = 0] /\ pc[s] = "drop"
        /\ UNCHANGED <<limit, clock, active, tickNow, cause, appends, jammed>>
    BY <1>6 DEF Drop
  <2>2. segs[s] \in Seq(Segments) /\ active[s] \in Actives /\ segs[s] # << >> /\ last[s] = DiskBytes(segs[s], active[s])
    BY <2>1 DEF TypeOK, TotalInv, DropInv
  <2>3. /\ Tail(segs[s]) \in Seq(Segments) /\ Head(segs[s]).n \in 0 .. LargestFile
        /\ DiskBytes(Tail(segs[s]), active[s]) = last[s] - Head(segs[s]).n
    BY <2>2, Bytes
  <2>4. last[s] - Head(segs[s]).n \in Nat
    BY <2>2, <2>3, Bytes
  <2> DEFINE t == Tail(segs[s])
  <2> DEFINE h == Head(segs[s]).n
  <2>5. /\ segs' = [segs EXCEPT ![s] = t] /\ last' = [last EXCEPT ![s] = last[s] - h] /\ diskBytes' = diskBytes - h
        /\ t \in Seq(Segments) /\ h \in Int /\ last[s] - h \in Nat
    BY <1>0, <2>1, <2>3, <2>4
  <2> HIDE DEF t, h
  <2>6. segs' \in [Shards -> Seq(Segments)] /\ last' \in [Shards -> Nat] /\ diskBytes' \in Int
    BY <2>5 DEF TypeOK
  <2>7. QED
    BY <2>1, <2>6 DEF TypeOK, Accepted
<1>7. ASSUME NEW s \in Shards, DropFails(s)
      PROVE  TypeOK'
  BY <1>7 DEF DropFails, TypeOK, Accepted, Causes
<1>8. QED
  BY <1>1, <1>2, <1>3, <1>4, <1>5, <1>6, <1>7 DEF Next

(* What a look finds and does: it goes on to a drop, of a segment it has   *)
(* and over the watermark, or ends the tick with its verdict.              *)
LEMMA LookIs ==
    ASSUME TypeOK, NEW s \in Shards, Look(s)
    PROVE  /\ UNCHANGED <<limit, segs, active, diskBytes, last, lapsed>>
           /\ pc[s] = "look"
           /\ \/ /\ pc' = [pc EXCEPT ![s] = "drop"] /\ UNCHANGED <<cause, jammed>>
                 /\ diskBytes > limit /\ segs[s] # << >>
              \/ /\ pc' = [pc EXCEPT ![s] = "run"] /\ jammed' = jammed \ {s}
                 /\ cause' = [cause EXCEPT ![s] = Verdict(s)]
                 /\ Verdict(s) = "nothingReclaimable" => diskBytes > limit /\ segs[s] = << >>
<1>1. UNCHANGED <<limit, segs, active, diskBytes, last, lapsed>> /\ pc[s] = "look"
  BY DEF Look
<1>2. diskBytes \in Int /\ limit \in Int
  BY DEF TypeOK
<1>3. CASE Verdict(s) = "drop"
  <2>1. pc' = [pc EXCEPT ![s] = "drop"] /\ UNCHANGED <<cause, jammed>>
    BY <1>3 DEF Look
  <2>2. diskBytes > limit /\ segs[s] # << >>
    BY <1>2, <1>3 DEF Verdict
  <2>3. QED
    BY <1>1, <2>1, <2>2
<1>4. CASE Verdict(s) # "drop"
  <2>1. /\ pc' = [pc EXCEPT ![s] = "run"] /\ jammed' = jammed \ {s}
        /\ cause' = [cause EXCEPT ![s] = Verdict(s)]
    BY <1>4 DEF Look
  <2>2. Verdict(s) = "nothingReclaimable" => diskBytes > limit /\ segs[s] = << >>
    BY <1>2 DEF Verdict
  <2>3. QED
    BY <1>1, <2>1, <2>2
<1>5. QED
  BY <1>3, <1>4

(* What a drop takes: a segment, off the files, the total and the report. *)
LEMMA DropIs ==
    ASSUME LadderConstants, TypeOK, TotalInv, DropInv, NEW s \in Shards, Drop(s)
    PROVE  \E h \in 0 .. LargestFile, t \in Seq(Segments) :
             /\ segs' = [segs EXCEPT ![s] = t]
             /\ diskBytes' = diskBytes - h
             /\ last[s] - h \in Nat /\ last' = [last EXCEPT ![s] = last[s] - h]
             /\ last[s] - h = DiskBytes(t, active[s])
<1>1. /\ segs' = [segs EXCEPT ![s] = Tail(@)] /\ diskBytes' = diskBytes - Head(segs[s]).n
      /\ last' = [last EXCEPT ![s] = @ - Head(segs[s]).n] /\ pc[s] = "drop"
  BY DEF Drop
<1>2. segs[s] \in Seq(Segments) /\ active[s] \in Actives /\ segs[s] # << >> /\ last[s] = DiskBytes(segs[s], active[s])
  BY <1>1 DEF TypeOK, TotalInv, DropInv
<1> DEFINE t == Tail(segs[s])
<1> DEFINE h == Head(segs[s]).n
<1>3. t \in Seq(Segments) /\ h \in 0 .. LargestFile /\ DiskBytes(t, active[s]) = last[s] - h
  BY <1>2, Bytes
<1>4. DiskBytes(t, active[s]) \in Nat
  BY <1>2, <1>3, Bytes
<1>5. /\ segs' = [segs EXCEPT ![s] = t] /\ last' = [last EXCEPT ![s] = last[s] - h]
      /\ diskBytes' = diskBytes - h
  BY <1>1
<1> HIDE DEF t, h
<1>6. QED
  BY <1>3, <1>4, <1>5

(* The deltas go on adding up. *)
LEMMA TotalStays ==
    ASSUME LadderConstants, TypeOK, TotalInv, DropInv, [Next]_vars
    PROVE  TotalInv'
<1>0. IsFiniteSet(Shards) /\ last \in [Shards -> Nat] /\ pc \in [Shards -> {"run", "look", "drop"}]
      /\ segs \in [Shards -> Seq(Segments)] /\ active \in [Shards -> Actives] /\ diskBytes \in Int
  BY DEF LadderConstants, TypeOK
<1>1. CASE UNCHANGED vars
  BY <1>1 DEF vars, TotalInv, DiskBytes
<1>2. CASE ClockTick
  BY <1>2 DEF ClockTick, TotalInv, DiskBytes
<1>3. ASSUME NEW s \in Shards, Append1(s)
      PROVE  TotalInv'
  <2>1. /\ pc[s] = "run" /\ UNCHANGED <<diskBytes, last, pc>>
        /\ \A o \in Shards : o # s => segs'[o] = segs[o] /\ active'[o] = active[o]
    BY <1>0, <1>3 DEF Append1
  <2>2. QED
    BY <2>1 DEF TotalInv
<1>4. ASSUME NEW s \in Shards, TickReport(s)
      PROVE  TotalInv'
  <2>1. PICK files \in Seq(Segments), act \in Actives :
             LET delta == DiskBytes(files, act) - last[s]
             IN /\ segs' = [segs EXCEPT ![s] = files]
                /\ active' = [active EXCEPT ![s] = act]
                /\ diskBytes' = diskBytes + delta
                /\ last' = [last EXCEPT ![s] = @ + delta]
                /\ lapsed' = [o \in Shards |-> IF pc[o] = "drop" /\ delta < 0 THEN lapsed[o] - delta ELSE lapsed[o]]
    BY <1>4, ReportIs
  <2> DEFINE v == DiskBytes(files, act)
  <2>2. v \in Nat /\ last[s] \in Nat
    BY <1>0, Bytes
  <2>3. last' = [last EXCEPT ![s] = v] /\ diskBytes' = diskBytes + (v - last[s])
    <3>1. last' = [last EXCEPT ![s] = last[s] + (v - last[s])] /\ diskBytes' = diskBytes + (v - last[s])
      BY <2>1, Zenon
    <3>2. QED
      <4> HIDE DEF v
      <4>1. last[s] + (v - last[s]) = v
        BY <2>2
      <4>2. QED
        BY <3>1, <4>1
  <2>4. \A o \in Shards : pc'[o] # "run" => last'[o] = DiskBytes(segs'[o], active'[o])
    <3>1. pc' = [pc EXCEPT ![s] = "look"]
      BY <1>4 DEF TickReport
    <3>2. segs'[s] = files /\ active'[s] = act /\ last'[s] = DiskBytes(files, act)
      BY <1>0, <2>1, <2>3
    <3>3. ASSUME NEW o \in Shards, o # s
          PROVE  segs'[o] = segs[o] /\ active'[o] = active[o] /\ last'[o] = last[o] /\ pc'[o] = pc[o]
      BY <1>0, <2>1, <2>3, <3>1, <3>3
    <3>4. QED
      BY <3>2, <3>3 DEF TotalInv
  <2> HIDE DEF v
  <2>5. diskBytes' = SumFunction(last')
    BY <1>0, <2>2, <2>3, SumUpdate DEF TotalInv
  <2>6. QED
    BY <2>4, <2>5 DEF TotalInv
<1>5. ASSUME NEW s \in Shards, Look(s)
      PROVE  TotalInv'
  <2>1. UNCHANGED <<segs, active, diskBytes, last>> /\ pc[s] = "look"
        /\ \A o \in Shards : o # s => pc'[o] = pc[o]
    BY <1>0, <1>5, LookIs
  <2>2. QED
    BY <2>1 DEF TotalInv
<1>6. ASSUME NEW s \in Shards, Drop(s)
      PROVE  TotalInv'
  <2>1. PICK h \in 0 .. LargestFile, t \in Seq(Segments) :
             /\ segs' = [segs EXCEPT ![s] = t]
             /\ diskBytes' = diskBytes - h
             /\ last[s] - h \in Nat /\ last' = [last EXCEPT ![s] = last[s] - h]
             /\ last[s] - h = DiskBytes(t, active[s])
    BY <1>6, DropIs
  <2>2. pc' = [pc EXCEPT ![s] = "look"] /\ UNCHANGED active
    BY <1>6 DEF Drop
  <2>3. h \in Int /\ last[s] \in Nat /\ diskBytes \in Int
    BY <1>0, Sizes
  <2>4. diskBytes' = SumFunction(last')
    <3>1. SumFunction(last') = SumFunction(last) + ((last[s] - h) - last[s])
      BY <1>0, <2>1, SumUpdate
    <3>2. QED
      BY <2>1, <2>3, <3>1 DEF TotalInv
  <2>5. segs'[s] = t /\ active'[s] = active[s] /\ last'[s] = DiskBytes(t, active[s])
    BY <1>0, <2>1, <2>2
  <2>6. ASSUME NEW o \in Shards, o # s
        PROVE  segs'[o] = segs[o] /\ active'[o] = active[o] /\ last'[o] = last[o] /\ pc'[o] = pc[o]
    BY <1>0, <2>1, <2>2, <2>6
  <2>7. QED
    BY <2>4, <2>5, <2>6 DEF TotalInv
<1>7. ASSUME NEW s \in Shards, DropFails(s)
      PROVE  TotalInv'
  <2>1. UNCHANGED <<segs, active, diskBytes, last>> /\ pc' = [pc EXCEPT ![s] = "run"]
    BY <1>7 DEF DropFails
  <2>2. QED
    BY <1>0, <2>1 DEF TotalInv
<1>8. QED
  BY <1>1, <1>2, <1>3, <1>4, <1>5, <1>6, <1>7 DEF Next

(* Multiples of a size. *)
LEMMA Multiples ==
    ASSUME NEW m \in Nat, NEW k \in Nat
    PROVE  k * m \in Nat /\ (k + 1) * m = k * m + m
  OBVIOUS

(* The shards about to drop are finitely many. *)
LEMMA DroppingFinite ==
    ASSUME LadderConstants
    PROVE  /\ IsFiniteSet(Dropping) /\ Cardinality(Dropping) \in Nat /\ Cardinality(Shards) \in Nat
           /\ Cardinality(Dropping) <= Cardinality(Shards)
<1>1. IsFiniteSet(Shards) /\ Dropping \subseteq Shards
  BY DEF LadderConstants, Dropping
<1>2. QED
  BY <1>1, FS_Subset, FS_CardinalityType

(* A shard that joins the ones about to drop, or leaves them, changes      *)
(* their number by one, and what is allowed for the others by a segment.   *)
LEMMA DroppingChanges ==
    ASSUME LadderConstants, TypeOK, NEW s \in Shards, NEW p \in {"run", "look", "drop"},
           pc' = [pc EXCEPT ![s] = p]
    PROVE  LET room  == (Cardinality(Shards) - Cardinality(Dropping)) * LargestFile
               roomP == (Cardinality(Shards) - Cardinality(Dropping')) * LargestFile
           IN /\ room \in Nat /\ roomP \in Nat
              /\ (pc[s] = "drop") = (p = "drop") => roomP = room
              /\ pc[s] = "drop" /\ p # "drop" => roomP = room + LargestFile
<1> DEFINE N == Cardinality(Shards)
<1> DEFINE D == Cardinality(Dropping)
<1> DEFINE E == Cardinality(Dropping')
<1>1. IsFiniteSet(Dropping) /\ D \in Nat /\ N \in Nat /\ D <= N
  BY DroppingFinite
<1>2. IsFiniteSet(Shards) /\ LargestFile \in Nat /\ pc \in [Shards -> {"run", "look", "drop"}]
  BY Sizes DEF LadderConstants, TypeOK
<1>3. Dropping' = {o \in Shards : pc'[o] = "drop"}
  BY DEF Dropping
<1>4. /\ (pc[s] = "drop") = (p = "drop") => Dropping' = Dropping
      /\ pc[s] = "drop" /\ p # "drop" => Dropping' = Dropping \ {s} /\ s \in Dropping
      /\ Dropping' \subseteq Shards
  <2>1. \A o \in Shards : pc'[o] = IF o = s THEN p ELSE pc[o]
    BY <1>2
  <2>2. QED
    BY <1>3, <2>1 DEF Dropping
<1>5. E \in Nat /\ E <= N
  BY <1>2, <1>4, FS_Subset, FS_CardinalityType
<1>6. (pc[s] = "drop") = (p = "drop") => E = D
  BY <1>4
<1>7. ASSUME pc[s] = "drop", p # "drop"
      PROVE  E = D - 1
  BY <1>1, <1>4, <1>7, FS_RemoveElement
<1> HIDE DEF N, D, E
<1>8. (N - D) * LargestFile \in Nat /\ (N - E) * LargestFile \in Nat
  <2>1. N - D \in Nat /\ N - E \in Nat
    BY <1>1, <1>5
  <2>2. QED
    BY <1>2, <2>1, Multiples
<1>9. ASSUME pc[s] = "drop", p # "drop"
      PROVE  (N - E) * LargestFile = (N - D) * LargestFile + LargestFile
  <2>1. N - D \in Nat /\ N - E = (N - D) + 1
    BY <1>1, <1>5, <1>7, <1>9
  <2>2. QED
    BY <1>2, <2>1, Multiples
<1>10. QED
  BY <1>6, <1>8, <1>9 DEF N, D, E

(* A drop goes on being bounded: by what the total was at the look, less a *)
(* file for every other shard that has dropped since.                      *)
LEMMA DropStays ==
    ASSUME LadderConstants, TypeOK, TotalInv, DropInv, [Next]_vars
    PROVE  DropInv'
<1> DEFINE room == (Cardinality(Shards) - Cardinality(Dropping)) * LargestFile
<1>0. /\ pc \in [Shards -> {"run", "look", "drop"}] /\ segs \in [Shards -> Seq(Segments)]
      /\ lapsed \in [Shards -> Nat] /\ limit \in Nat /\ diskBytes \in Int
      /\ IsFiniteSet(Shards) /\ LargestFile \in Nat
  BY Sizes DEF LadderConstants, TypeOK
<1>1. /\ \A o \in Shards : pc[o] = "drop" => segs[o] # << >> /\ diskBytes + lapsed[o] > limit - room
      /\ \A o \in Shards : pc[o] # "drop" => lapsed[o] = 0
  BY DEF DropInv
<1>2. ASSUME \A o \in Shards : pc'[o] = "drop" => segs'[o] # << >> /\ diskBytes' + lapsed'[o] > limit' - room',
             \A o \in Shards : pc'[o] # "drop" => lapsed'[o] = 0
      PROVE  DropInv'
  BY <1>2 DEF DropInv
<1>3. ASSUME pc' = pc, UNCHANGED <<limit, diskBytes, lapsed>>,
             \A o \in Shards : pc[o] = "drop" => segs'[o] = segs[o]
      PROVE  DropInv'
  <2>1. room' = room
    BY <1>3 DEF Dropping
  <2> HIDE DEF room
  <2>2. QED
    BY <1>1, <1>2, <1>3, <2>1
<1>4. CASE UNCHANGED vars
  BY <1>3, <1>4 DEF vars
<1>5. CASE ClockTick
  BY <1>3, <1>5 DEF ClockTick
<1>6. ASSUME NEW s \in Shards, Append1(s)
      PROVE  DropInv'
  <2>1. /\ pc[s] = "run" /\ UNCHANGED <<limit, diskBytes, pc, lapsed>>
        /\ \A o \in Shards : o # s => segs'[o] = segs[o]
    BY <1>0, <1>6 DEF Append1
  <2>2. \A o \in Shards : pc[o] = "drop" => segs'[o] = segs[o]
    BY <2>1
  <2>3. QED
    BY <1>3, <2>1, <2>2
<1>7. ASSUME NEW s \in Shards, NEW p \in {"run", "look", "drop"}, pc' = [pc EXCEPT ![s] = p]
      PROVE  /\ room \in Nat /\ room' \in Nat
             /\ (pc[s] = "drop") = (p = "drop") => room' = room
             /\ pc[s] = "drop" /\ p # "drop" => room' = room + LargestFile
             /\ \A o \in Shards : pc'[o] = IF o = s THEN p ELSE pc[o]
  <2>1. room' = (Cardinality(Shards) - Cardinality(Dropping')) * LargestFile
    OBVIOUS
  <2>2. \A o \in Shards : pc'[o] = IF o = s THEN p ELSE pc[o]
    BY <1>0, <1>7
  <2>3. QED
    BY <1>7, <2>1, <2>2, DroppingChanges
<1> HIDE DEF room
<1>8. ASSUME NEW s \in Shards, TickReport(s)
      PROVE  DropInv'
  <2>1. PICK files \in Seq(Segments), act \in Actives :
             LET delta == DiskBytes(files, act) - last[s]
             IN /\ segs' = [segs EXCEPT ![s] = files]
                /\ active' = [active EXCEPT ![s] = act]
                /\ diskBytes' = diskBytes + delta
                /\ last' = [last EXCEPT ![s] = @ + delta]
                /\ lapsed' = [o \in Shards |-> IF pc[o] = "drop" /\ delta < 0 THEN lapsed[o] - delta ELSE lapsed[o]]
    BY <1>8, ReportIs
  <2> DEFINE delta == DiskBytes(files, act) - last[s]
  <2>2. delta \in Int
    BY Bytes DEF TypeOK
  <2>3. /\ segs' = [segs EXCEPT ![s] = files] /\ diskBytes' = diskBytes + delta
        /\ lapsed' = [o \in Shards |-> IF pc[o] = "drop" /\ delta < 0 THEN lapsed[o] - delta ELSE lapsed[o]]
    BY <2>1
  <2> HIDE DEF delta
  <2>4. pc[s] = "run" /\ pc' = [pc EXCEPT ![s] = "look"] /\ limit' = limit
    BY <1>8 DEF TickReport
  <2>5. room \in Nat /\ room' = room /\ \A o \in Shards : pc'[o] = IF o = s THEN "look" ELSE pc[o]
    BY <1>7, <2>4
  <2>6. ASSUME NEW o \in Shards, pc'[o] = "drop"
        PROVE  segs'[o] # << >> /\ diskBytes' + lapsed'[o] > limit' - room'
    <3>1. o # s /\ pc[o] = "drop"
      BY <2>4, <2>5, <2>6
    <3>2. segs[o] # << >> /\ diskBytes + lapsed[o] > limit - room /\ lapsed[o] \in Nat
      BY <1>0, <1>1, <3>1
    <3>3. segs'[o] = segs[o] /\ lapsed'[o] = IF delta < 0 THEN lapsed[o] - delta ELSE lapsed[o]
      BY <1>0, <2>3, <3>1
    <3>4. QED
      BY <1>0, <2>2, <2>3, <2>4, <2>5, <3>2, <3>3
  <2>7. ASSUME NEW o \in Shards, pc'[o] # "drop"
        PROVE  lapsed'[o] = 0
    <3>1. pc[o] # "drop"
      BY <2>4, <2>5, <2>7
    <3>2. QED
      BY <1>1, <2>3, <3>1
  <2>8. QED
    BY <1>2, <2>6, <2>7
<1>9. ASSUME NEW s \in Shards, Look(s)
      PROVE  DropInv'
  <2>1. UNCHANGED <<limit, segs, diskBytes, lapsed>> /\ pc[s] = "look"
    BY <1>9, LookIs
  <2>2. CASE pc' = [pc EXCEPT ![s] = "drop"] /\ diskBytes > limit /\ segs[s] # << >>
    <3>1. room' \in Nat /\ \A o \in Shards : pc'[o] = IF o = s THEN "drop" ELSE pc[o]
      BY <1>7, <2>2
    <3>2. ASSUME NEW o \in Shards, pc'[o] = "drop"
          PROVE  segs'[o] # << >> /\ diskBytes' + lapsed'[o] > limit' - room'
      <4>1. segs[o] # << >> /\ lapsed[o] \in Nat
        BY <1>0, <1>1, <2>2, <3>1, <3>2
      <4>2. QED
        BY <1>0, <2>1, <2>2, <3>1, <4>1
    <3>3. \A o \in Shards : pc'[o] # "drop" => lapsed'[o] = 0
      BY <1>1, <2>1, <3>1
    <3>4. QED
      BY <1>2, <3>2, <3>3
  <2>3. CASE pc' = [pc EXCEPT ![s] = "run"]
    <3>1. room' = room /\ \A o \in Shards : pc'[o] = IF o = s THEN "run" ELSE pc[o]
      BY <1>7, <2>1, <2>3
    <3>2. \A o \in Shards : pc'[o] = "drop" => segs'[o] # << >> /\ diskBytes' + lapsed'[o] > limit' - room'
      BY <1>1, <2>1, <3>1
    <3>3. \A o \in Shards : pc'[o] # "drop" => lapsed'[o] = 0
      BY <1>1, <2>1, <3>1
    <3>4. QED
      BY <1>2, <3>2, <3>3
  <2>4. QED
    BY <1>9, <2>2, <2>3, LookIs
<1>10. ASSUME NEW s \in Shards, NEW h \in 0 .. LargestFile, NEW p \in {"run", "look"},
              pc[s] = "drop", pc' = [pc EXCEPT ![s] = p], lapsed' = [lapsed EXCEPT ![s] = 0],
              diskBytes' = diskBytes - h, limit' = limit, \A o \in Shards : o # s => segs'[o] = segs[o]
       PROVE  DropInv'
  <2>1. room \in Nat /\ room' = room + LargestFile /\ \A o \in Shards : pc'[o] = IF o = s THEN p ELSE pc[o]
    <3>1. p \in {"run", "look", "drop"} /\ p # "drop"
      OBVIOUS
    <3>2. QED
      BY <1>7, <1>10, <3>1
  <2>2. ASSUME NEW o \in Shards, pc'[o] = "drop"
        PROVE  segs'[o] # << >> /\ diskBytes' + lapsed'[o] > limit' - room'
    <3>1. o # s /\ pc[o] = "drop"
      BY <2>1, <2>2
    <3>2. segs[o] # << >> /\ diskBytes + lapsed[o] > limit - room /\ lapsed[o] \in Nat
      BY <1>0, <1>1, <3>1
    <3>3. segs'[o] = segs[o] /\ lapsed'[o] = lapsed[o]
      BY <1>0, <1>10, <3>1
    <3>4. h \in Int /\ h <= LargestFile
      BY <1>0
    <3>5. QED
      BY <1>0, <1>10, <2>1, <3>2, <3>3, <3>4
  <2>3. ASSUME NEW o \in Shards, pc'[o] # "drop"
        PROVE  lapsed'[o] = 0
    <3>1. o = s \/ pc[o] # "drop"
      BY <2>1, <2>3
    <3>2. QED
      BY <1>0, <1>1, <1>10, <3>1
  <2>4. QED
    BY <1>2, <2>2, <2>3
<1>11. ASSUME NEW s \in Shards, Drop(s)
       PROVE  DropInv'
  <2>1. PICK h \in 0 .. LargestFile, t \in Seq(Segments) :
             /\ segs' = [segs EXCEPT ![s] = t]
             /\ diskBytes' = diskBytes - h
    BY <1>11, DropIs
  <2>2. /\ pc[s] = "drop" /\ pc' = [pc EXCEPT ![s] = "look"] /\ lapsed' = [lapsed EXCEPT ![s] = 0]
        /\ limit' = limit
    BY <1>11 DEF Drop
  <2>3. \A o \in Shards : o # s => segs'[o] = segs[o]
    BY <1>0, <2>1
  <2>4. QED
    BY <1>10, <2>1, <2>2, <2>3
<1>12. ASSUME NEW s \in Shards, DropFails(s)
       PROVE  DropInv'
  <2>1. /\ pc[s] = "drop" /\ pc' = [pc EXCEPT ![s] = "run"] /\ lapsed' = [lapsed EXCEPT ![s] = 0]
        /\ UNCHANGED <<limit, segs, diskBytes>>
    BY <1>12 DEF DropFails
  <2>2. 0 \in 0 .. LargestFile /\ diskBytes' = diskBytes - 0
    BY <1>0, <2>1
  <2>3. QED
    BY <1>10, <2>1, <2>2
<1>13. QED
  BY <1>4, <1>5, <1>6, <1>8, <1>9, <1>11, <1>12 DEF Next

(* The two parts of NeverAllPinned. *)
PinnedInv == \A s \in Shards : Pinned(s) => last[s] <= LargestActive

NotAllLow == ~ \A s \in Shards : Pinned(s) /\ last[s] <= SegmentSize

(* A shard with nothing to reclaim goes on reporting an active segment.    *)
LEMMA PinnedStays ==
    ASSUME LadderConstants, TypeOK, TotalInv, PinnedInv, [Next]_vars
    PROVE  PinnedInv'
<1>0. /\ pc \in [Shards -> {"run", "look", "drop"}] /\ last \in [Shards -> Nat] /\ cause \in [Shards -> Causes]
  BY DEF TypeOK
<1>1. ASSUME \A o \in Shards : Pinned(o)' => last'[o] <= LargestActive \/ (Pinned(o) /\ last'[o] = last[o])
      PROVE  PinnedInv'
  BY <1>1 DEF PinnedInv
<1>2. CASE UNCHANGED <<pc, cause, jammed, last>>
  BY <1>1, <1>2 DEF Pinned
<1>3. CASE UNCHANGED vars
  BY <1>2, <1>3 DEF vars
<1>4. CASE ClockTick
  BY <1>2, <1>4 DEF ClockTick
<1>5. ASSUME NEW s \in Shards, Append1(s)
      PROVE  PinnedInv'
  BY <1>2, <1>5 DEF Append1
<1>6. ASSUME NEW s \in Shards, NEW p \in {"look", "drop"}, pc' = [pc EXCEPT ![s] = p],
             UNCHANGED <<cause, jammed>>, \A o \in Shards : o # s => last'[o] = last[o]
      PROVE  PinnedInv'
  <2>1. \A o \in Shards : pc'[o] = IF o = s THEN p ELSE pc[o]
    BY <1>0, <1>6
  <2>2. \A o \in Shards : Pinned(o)' => Pinned(o) /\ o # s
    BY <1>6, <2>1 DEF Pinned
  <2>3. QED
    BY <1>1, <1>6, <2>2
<1>7. ASSUME NEW s \in Shards, TickReport(s)
      PROVE  PinnedInv'
  <2>1. /\ pc' = [pc EXCEPT ![s] = "look"] /\ UNCHANGED <<cause, jammed>>
    BY <1>7 DEF TickReport
  <2>2. \A o \in Shards : o # s => last'[o] = last[o]
    BY <1>0, <1>7, ReportIs
  <2>3. QED
    BY <1>6, <2>1, <2>2
<1>8. ASSUME NEW s \in Shards, Look(s)
      PROVE  PinnedInv'
  <2>1. UNCHANGED <<segs, active, last>> /\ pc[s] = "look"
    BY <1>8, LookIs
  <2>2. CASE pc' = [pc EXCEPT ![s] = "drop"] /\ UNCHANGED <<cause, jammed>>
    BY <1>6, <2>1, <2>2
  <2>3. CASE /\ pc' = [pc EXCEPT ![s] = "run"] /\ jammed' = jammed \ {s}
             /\ cause' = [cause EXCEPT ![s] = Verdict(s)]
             /\ Verdict(s) = "nothingReclaimable" => segs[s] = << >>
    <3>1. ASSUME NEW o \in Shards, Pinned(o)', o # s
          PROVE  Pinned(o)
      BY <1>0, <2>3, <3>1 DEF Pinned
    <3>2. ASSUME Pinned(s)'
          PROVE  last[s] <= LargestActive
      <4>1. segs[s] = << >>
        BY <1>0, <2>3, <3>2 DEF Pinned
      <4>2. last[s] = DiskBytes(segs[s], active[s]) /\ segs[s] \in Seq(Segments) /\ active[s] \in Actives
        BY <2>1 DEF TotalInv, TypeOK
      <4>3. last[s] \in 0 .. LargestActive
        BY <4>1, <4>2, Bytes
      <4>4. QED
        BY <4>3, Sizes
    <3>3. QED
      BY <1>1, <2>1, <3>1, <3>2
  <2>4. QED
    BY <1>8, <2>2, <2>3, LookIs
<1>9. ASSUME NEW s \in Shards, Drop(s)
      PROVE  PinnedInv'
  <2>1. /\ pc' = [pc EXCEPT ![s] = "look"] /\ UNCHANGED <<cause, jammed>>
        /\ last' = [last EXCEPT ![s] = @ - Head(segs[s]).n]
    BY <1>9 DEF Drop
  <2>2. \A o \in Shards : o # s => last'[o] = last[o]
    BY <1>0, <2>1
  <2>3. QED
    BY <1>6, <2>1, <2>2
<1>10. ASSUME NEW s \in Shards, DropFails(s)
       PROVE  PinnedInv'
  <2>1. /\ cause' = [cause EXCEPT ![s] = "nothingReclaimable"] /\ jammed' = jammed \union {s}
        /\ pc' = [pc EXCEPT ![s] = "run"] /\ last' = last
    BY <1>10 DEF DropFails
  <2>2. ASSUME NEW o \in Shards, Pinned(o)'
        PROVE  Pinned(o)
    BY <1>0, <2>1, <2>2 DEF Pinned
  <2>3. QED
    BY <1>1, <2>1, <2>2
<1>11. QED
  BY <1>3, <1>4, <1>5, <1>7, <1>8, <1>9, <1>10 DEF Next

(* Shards that report an active segment each hold their total at or below  *)
(* an accepted watermark.                                                  *)
LEMMA PinnedIsLow ==
    ASSUME LadderConstants, NEW l \in [Shards -> Nat], \A s \in Shards : l[s] <= SegmentSize,
           NEW w \in Nat, Accepted(w)
    PROVE  SumFunction(l) <= w
<1>1. IsFiniteSet(Shards) /\ SegmentSize \in Nat /\ w > Cardinality(Shards) * SegmentSize
  BY DEF LadderConstants, Accepted
<1>2. SumFunction(l) <= Cardinality(Shards) * SegmentSize
  BY <1>1, SumAtMost
<1>3. Cardinality(Shards) * SegmentSize \in Nat
  BY <1>1, FS_CardinalityType, Multiples
<1>4. SumFunction(l) \in Nat
  <2>1. DOMAIN l = Shards /\ \A s \in Shards : l[s] \in Nat
    OBVIOUS
  <2>2. QED
    BY <1>1, <2>1, SumIsNat DEF SumFunction
<1>5. QED
  BY <1>1, <1>2, <1>3, <1>4

(* The last shard to find nothing to reclaim would have found the total    *)
(* at or below the watermark.                                              *)
LEMMA NotPinnedStays ==
    ASSUME LadderConstants, TypeOK, NotAllLow, TypeOK', TotalInv', [Next]_vars
    PROVE  NotAllLow'
<1> SUFFICES ASSUME \A o \in Shards : Pinned(o)' /\ last'[o] <= SegmentSize
             PROVE  FALSE
  BY DEF NotAllLow, Pinned
<1>0. pc \in [Shards -> {"run", "look", "drop"}] /\ cause \in [Shards -> Causes]
  BY DEF TypeOK
<1>1. diskBytes' <= limit' /\ diskBytes' \in Int /\ limit' \in Int
  <2>1. diskBytes' \in Int /\ limit' \in Nat /\ last' \in [Shards -> Nat] /\ Accepted(limit')
    BY DEF TypeOK, Accepted
  <2>2. \A o \in Shards : last'[o] <= SegmentSize
    OBVIOUS
  <2>3. diskBytes' = SumFunction(last')
    BY DEF TotalInv
  <2>4. QED
    BY <2>1, <2>2, <2>3, PinnedIsLow
<1>2. \A o \in Shards : pc'[o] = "run" /\ cause'[o] = "nothingReclaimable" /\ o \notin jammed'
  BY DEF Pinned
<1>3. ASSUME UNCHANGED <<pc, cause, jammed, last>>
      PROVE  FALSE
  BY <1>2, <1>3 DEF NotAllLow, Pinned
<1>4. CASE UNCHANGED vars
  BY <1>3, <1>4 DEF vars
<1>5. CASE ClockTick
  BY <1>3, <1>5 DEF ClockTick
<1>6. ASSUME NEW s \in Shards, Append1(s)
      PROVE  FALSE
  BY <1>3, <1>6 DEF Append1
<1>7. ASSUME NEW s \in Shards, TickReport(s) \/ Drop(s)
      PROVE  FALSE
  <2>1. pc' = [pc EXCEPT ![s] = "look"]
    BY <1>7 DEF TickReport, Drop
  <2>2. QED
    BY <1>0, <1>2, <2>1
<1>8. ASSUME NEW s \in Shards, Look(s)
      PROVE  FALSE
  <2>1. UNCHANGED <<limit, diskBytes>>
    BY <1>8, LookIs
  <2>2. CASE pc' = [pc EXCEPT ![s] = "drop"]
    BY <1>0, <1>2, <2>2
  <2>3. CASE /\ cause' = [cause EXCEPT ![s] = Verdict(s)]
             /\ Verdict(s) = "nothingReclaimable" => diskBytes > limit
    <3>1. Verdict(s) = "nothingReclaimable"
      BY <1>0, <1>2, <2>3
    <3>2. QED
      BY <1>1, <2>1, <2>3, <3>1
  <2>4. QED
    BY <1>8, <2>2, <2>3, LookIs
<1>9. ASSUME NEW s \in Shards, DropFails(s)
      PROVE  FALSE
  BY <1>2, <1>9 DEF DropFails
<1>10. QED
  BY <1>4, <1>5, <1>6, <1>7, <1>8, <1>9 DEF Next

(* Nothing is reported, and nothing is pinned, when the set is built. *)
LEMMA LadderStarts ==
    ASSUME LadderConstants, Init
    PROVE  LadderInv
<1>1. /\ limit \in Limits /\ Accepted(limit) /\ clock = 0 /\ diskBytes = 0 /\ appends = 0 /\ jammed = {}
      /\ active = [s \in Shards |-> Fresh] /\ last = [s \in Shards |-> 0] /\ lapsed = [s \in Shards |-> 0]
      /\ pc = [s \in Shards |-> "run"] /\ tickNow = [s \in Shards |-> 0] /\ cause = [s \in Shards |-> "clear"]
  BY DEF Init
<1>2. IsFiniteSet(Shards) /\ Shards # {} /\ SegmentSize \in Nat /\ Limits \subseteq Nat
  BY DEF LadderConstants
<1>3. Fresh \in Actives /\ \A z \in FileSizes : Segment(z, 0) \in Segments
  BY FreshIs, Sizes DEF Segment, Segments, LadderConstants
<1>4. segs \in [Shards -> Seq(Segments)]
  <2>1. PICK n \in [Shards -> 0 .. MaxRecovered], size \in [Shards -> FileSizes] :
             segs = [s \in Shards |-> [i \in 1 .. n[s] |-> Segment(size[s], 0)]]
    BY DEF Init
  <2>2. ASSUME NEW s \in Shards
        PROVE  [i \in 1 .. n[s] |-> Segment(size[s], 0)] \in Seq(Segments)
    <3>1. n[s] \in Nat
      BY DEF LadderConstants
    <3> DEFINE g == Segment(size[s], 0)
    <3>2. g \in Segments
      BY <1>3
    <3> HIDE DEF g
    <3>3. [i \in 1 .. n[s] |-> g] \in Seq(Segments)
      BY <3>1, <3>2
    <3>4. QED
      BY <3>3 DEF g
  <2>3. QED
    BY <2>1, <2>2, Zenon
<1>5. TypeOK
  BY <1>1, <1>2, <1>3, <1>4 DEF TypeOK, Causes
<1>6. TotalInv
  <2>1. last \in [Shards -> Nat] /\ \A s \in Shards : last[s] <= 0
    BY <1>1
  <2>2. SumFunction(last) <= Cardinality(Shards) * 0
    BY <1>2, <2>1, SumAtMost
  <2>3. SumFunction(last) \in Nat
    <3>1. DOMAIN last = Shards /\ \A s \in Shards : last[s] \in Nat
      BY <2>1
    <3>2. QED
      BY <1>2, <3>1, SumIsNat DEF SumFunction
  <2>4. Cardinality(Shards) \in Nat
    BY <1>2, FS_CardinalityType
  <2>5. SumFunction(last) = 0
    BY <2>2, <2>3, <2>4
  <2>6. QED
    BY <1>1, <2>5 DEF TotalInv
<1>7. DropInv
  BY <1>1 DEF DropInv
<1>8. NeverAllPinned
  BY <1>1, <1>2 DEF NeverAllPinned, Pinned
<1>9. QED
  BY <1>5, <1>6, <1>7, <1>8 DEF LadderInv

-----------------------------------------------------------------------------
(* The ladder's inductive invariant, of any number of shards that tick in  *)
(* any interleaving over the one total (worker.go, tick): usage and deltas *)
(* agree, a pending sacrifice is bounded, and not all shards are pinned.   *)
THEOREM LadderInvariant == Spec => []LadderInv
<1>1. Init => LadderInv
  BY LadderAssumption, LadderStarts
<1>2. LadderInv /\ [Next]_vars => LadderInv'
  <2>1. (NeverAllPinned <=> PinnedInv /\ NotAllLow) /\ (NeverAllPinned' <=> PinnedInv' /\ NotAllLow')
    BY DEF NeverAllPinned, PinnedInv, NotAllLow
  <2>2. QED
    BY <2>1, LadderAssumption, TypeStays, TotalStays, DropStays, PinnedStays, NotPinnedStays DEF LadderInv
<1>3. QED
  BY <1>1, <1>2, PTL DEF Spec

(* Shards that sacrifice at the same time sacrifice for each other's       *)
(* excess at most the largest file, footer and trailer included, per other *)
(* shard, and the total is the sum of what the shards reported (worker.go, *)
(* tick; buffer.go, roll).                                                 *)
THEOREM SacrificeIsBounded == Spec => []SacrificeBounded
<1>1. LadderInv => SacrificeBounded
  <2> SUFFICES ASSUME LadderInv
               PROVE  SacrificeBounded
    OBVIOUS
  <2>1. TypeOK /\ TotalInv /\ DropInv
    BY DEF LadderInv
  <2>2. ASSUME NEW s \in Shards, pc[s] = "drop"
        PROVE  diskBytes + lapsed[s] > limit - (Cardinality(Shards) - 1) * LargestFile
    <3> DEFINE N == Cardinality(Shards)
    <3> DEFINE D == Cardinality(Dropping)
    <3>1. IsFiniteSet(Dropping) /\ D \in Nat /\ N \in Nat /\ D <= N
      BY LadderAssumption, DroppingFinite
    <3>2. D # 0
      BY <2>2, <3>1, FS_EmptySet DEF Dropping
    <3>3. diskBytes + lapsed[s] > limit - (N - D) * LargestFile
      BY <2>1, <2>2 DEF DropInv
    <3>4. diskBytes \in Int /\ lapsed[s] \in Nat /\ limit \in Nat /\ LargestFile \in Nat
      BY <2>1, LadderAssumption, Sizes DEF TypeOK
    <3> HIDE DEF N, D
    <3>5. N - D \in Nat /\ D - 1 \in Nat /\ N - 1 = (N - D) + (D - 1)
      BY <3>1, <3>2
    <3>6. (N - 1) * LargestFile = (N - D) * LargestFile + (D - 1) * LargestFile
      BY <3>4, <3>5
    <3>7. (N - D) * LargestFile \in Nat /\ (D - 1) * LargestFile \in Nat
      BY <3>4, <3>5, Multiples
    <3>8. diskBytes + lapsed[s] > limit - (N - 1) * LargestFile
      BY <3>3, <3>4, <3>6, <3>7
    <3>9. QED
      BY <3>8 DEF N
  <2>3. QED
    BY <2>1, <2>2 DEF TotalInv, SacrificeBounded
<1>2. QED
  BY <1>1, LadderInvariant, PTL

(* Above an accepted watermark, unless a shard holds a record larger than  *)
(* a segment, some shard has a segment to give or says what it protects:   *)
(* they do not all shed for want of anything to reclaim (shards.go, New;   *)
(* worker.go, tick; buffer.go, Append).                                    *)
THEOREM NotAllPinned == Spec => []NeverAllPinned
<1>1. LadderInv => NeverAllPinned
  BY DEF LadderInv
<1>2. QED
  BY <1>1, LadderInvariant, PTL
=============================================================================
