------------------------------ MODULE Overload ------------------------------
(***************************************************************************)
(* The overload ladder across shards (internal/shards/worker.go, tick):    *)
(* every shard reports its disk usage into one total by deltas and, while  *)
(* the total is above the watermark, sacrifices its own oldest segments,   *)
(* down to the window floor; what it ends with decides whether Offer sheds *)
(* its fragments.                                                          *)
(*                                                                         *)
(* The total is all the shards share, so a step is one touch of it with    *)
(* the worker's own work around it.  A fragment accepted before a shed may *)
(* still be appended after it, so an append does not look at the cause.    *)
(* Sizes are in bytes: an active segment counts its records, a finalized   *)
(* one the footer and trailer, too.  Rolls succeed (Buffer has the others).*)
(***************************************************************************)
EXTENDS Integers, Sequences, FiniteSets, Functions

CONSTANTS
    Shards,
    SegmentSize,
    HeaderLen,      \* recHeaderLen and dirEntryLen: a record's header, its footer entry
    TrailerLen,     \* trailerLen
    MaxRecord,      \* recHeaderLen + maxRecordLen
    RecordSizes,    \* the sizes of the records appended
    FileSizes,      \* the sizes of the finalized segments Open finds
    Limits,         \* the watermarks New may be asked for
    Window,
    WindowFloor,
    MaxRecovered,   \* bound: finalized segments Open finds in a shard
    MaxAppends,     \* bound: fragments appended
    MaxTime         \* bound: the clock

(* The active segment is never larger than SegmentSize, but for a record   *)
(* that is so alone and has the segment to itself; and a footer takes no   *)
(* more than the records' headers did.                                     *)
LargestActive == IF MaxRecord > SegmentSize THEN MaxRecord ELSE SegmentSize

LargestFile ==
    (IF MaxRecord + HeaderLen > 2 * SegmentSize THEN MaxRecord + HeaderLen ELSE 2 * SegmentSize) + TrailerLen

(* What New and the configuration make of the constants. *)
LadderConstants ==
    /\ IsFiniteSet(Shards) /\ Shards # {}
    /\ SegmentSize \in Nat \ {0} /\ Limits \subseteq Nat
    /\ HeaderLen \in Nat \ {0} /\ TrailerLen \in Nat \ {0} /\ MaxRecord \in Nat
    /\ RecordSizes \subseteq HeaderLen .. MaxRecord /\ FileSizes \subseteq 1 .. LargestFile
    /\ Window \in Nat /\ WindowFloor \in Nat
    /\ MaxRecovered \in Nat /\ MaxAppends \in Nat /\ MaxTime \in Nat

ASSUME LadderAssumption == LadderConstants

VARIABLES
    limit,      \* the watermark
    clock,
    segs,       \* segs[s]: s's finalized segments, oldest first
    active,     \* active[s]: its active segment
    diskBytes,  \* the total
    last,       \* last[s]: lastDiskBytes
    pc,         \* pc[s]: "run", or in the tick: "look" at the total, "drop" a segment
    tickNow,    \* tickNow[s]: the tick's clock reading, 0 outside it
    cause,      \* cause[s]: atFloorCause
    appends,    \* fragments appended so far
    jammed,     \* the shards whose last tick could not remove a file
    lapsed      \* lapsed[s]: what expiry took off the total since s looked at it

vars == <<limit, clock, segs, active, diskBytes, last, pc, tickNow, cause, appends, jammed, lapsed>>

Segment(n, tMax) == [n |-> n, tMax |-> tMax]

(* An active segment: its records, and the footer directory they make. *)
Active(n, dir, tMax) == [n |-> n, dir |-> dir, tMax |-> tMax]
Fresh == Active(0, 0, 0)

(* The file a roll leaves, with footer and trailer. *)
Finalized(a) == Segment(a.n + a.dir + TrailerLen, a.tMax)

(* Mutant of Accepted: one active segment is allowed for, not one a shard. *)
AcceptedForOne(l) == l > SegmentSize

(* New refuses a watermark that the active segments alone can reach. *)
Accepted(l) == l > Cardinality(Shards) * SegmentSize

Init ==
    /\ limit \in {l \in Limits : Accepted(l)}
    /\ clock = 0
    /\ \E n \in [Shards -> 0 .. MaxRecovered], size \in [Shards -> FileSizes] :
         segs = [s \in Shards |-> [i \in 1 .. n[s] |-> Segment(size[s], 0)]]
    /\ active = [s \in Shards |-> Fresh]
    /\ diskBytes = 0
    /\ last = [s \in Shards |-> 0]
    /\ pc = [s \in Shards |-> "run"]
    /\ tickNow = [s \in Shards |-> 0]
    /\ cause = [s \in Shards |-> "clear"]
    /\ appends = 0
    /\ jammed = {}
    /\ lapsed = [s \in Shards |-> 0]

DiskBytes(files, act) == SumFunction([i \in DOMAIN files |-> files[i].n]) + act.n

-----------------------------------------------------------------------------
(* A fragment is appended, behind a roll when the active segment is not    *)
(* empty and it does not fit: a record larger than a segment enters an     *)
(* empty one.                                                              *)
Append1(s) ==
    \E r \in RecordSizes :
       LET full == active[s].n > 0 /\ active[s].n + r > SegmentSize
           onto == IF full THEN Fresh ELSE active[s]
       IN /\ pc[s] = "run"
          /\ appends < MaxAppends
          /\ appends' = appends + 1
          /\ segs' = IF full THEN [segs EXCEPT ![s] = Append(@, Finalized(active[s]))] ELSE segs
          /\ active' = [active EXCEPT ![s] = Active(onto.n + r, onto.dir + HeaderLen, clock)]
          /\ UNCHANGED <<limit, clock, diskBytes, last, pc, tickNow, cause, jammed, lapsed>>

(* The tick begins: the expired segments go, as far as their files can be  *)
(* removed, a stale active segment is rolled, and the shard's change since *)
(* its last report is added to the total.                                  *)
TickReport(s) ==
    LET cutoff == clock - Window
        due    == {k \in 0 .. Len(segs[s]) : \A i \in 1 .. k : segs[s][i].tMax < cutoff}
        stale  == active[s].n > 0 /\ active[s].tMax < cutoff
    IN /\ pc[s] = "run"
       /\ \E k \in due :
            LET kept  == SubSeq(segs[s], k + 1, Len(segs[s]))
                files == IF stale THEN Append(kept, Finalized(active[s])) ELSE kept
                act   == IF stale THEN Fresh ELSE active[s]
                delta == DiskBytes(files, act) - last[s]
            IN /\ segs' = [segs EXCEPT ![s] = files]
               /\ active' = [active EXCEPT ![s] = act]
               /\ diskBytes' = diskBytes + delta
               /\ last' = [last EXCEPT ![s] = @ + delta]
               /\ lapsed' = [o \in Shards |-> IF pc[o] = "drop" /\ delta < 0 THEN lapsed[o] - delta ELSE lapsed[o]]
       /\ tickNow' = [tickNow EXCEPT ![s] = clock]
       /\ pc' = [pc EXCEPT ![s] = "look"]
       /\ UNCHANGED <<limit, clock, cause, appends, jammed>>

(* What the watermark rung does at its look at the total. *)
Verdict(s) ==
    CASE diskBytes <= limit -> "clear"
      [] diskBytes > limit /\ segs[s] = << >> -> "nothingReclaimable"
      [] diskBytes > limit /\ segs[s] # << >> ->
           IF Head(segs[s]).tMax >= tickNow[s] - WindowFloor THEN "floorProtected" ELSE "drop"

Look(s) ==
    /\ pc[s] = "look"
    /\ IF Verdict(s) = "drop"
       THEN pc' = [pc EXCEPT ![s] = "drop"] /\ UNCHANGED <<cause, jammed, tickNow>>
       ELSE /\ pc' = [pc EXCEPT ![s] = "run"]
            /\ tickNow' = [tickNow EXCEPT ![s] = 0]
            /\ cause' = [cause EXCEPT ![s] = Verdict(s)]
            /\ jammed' = jammed \ {s}
    /\ UNCHANGED <<limit, clock, segs, active, diskBytes, last, appends, lapsed>>

(* Mutant of Drop: the shard's share of the total keeps what it dropped. *)
DropKeepsShare(s) ==
    /\ pc[s] = "drop"
    /\ segs' = [segs EXCEPT ![s] = Tail(@)]
    /\ diskBytes' = diskBytes - Head(segs[s]).n
    /\ pc' = [pc EXCEPT ![s] = "look"]
    /\ lapsed' = [lapsed EXCEPT ![s] = 0]
    /\ UNCHANGED <<limit, clock, active, last, tickNow, cause, appends, jammed>>

(* ExpireOldest, off the total and off the shard's share of it, and on to  *)
(* the next look.                                                          *)
Drop(s) ==
    /\ pc[s] = "drop"
    /\ segs' = [segs EXCEPT ![s] = Tail(@)]
    /\ diskBytes' = diskBytes - Head(segs[s]).n
    /\ last' = [last EXCEPT ![s] = @ - Head(segs[s]).n]
    /\ pc' = [pc EXCEPT ![s] = "look"]
    /\ lapsed' = [lapsed EXCEPT ![s] = 0]
    /\ UNCHANGED <<limit, clock, active, tickNow, cause, appends, jammed>>

(* Its file cannot be removed: the tick ends. *)
DropFails(s) ==
    /\ pc[s] = "drop"
    /\ cause' = [cause EXCEPT ![s] = "nothingReclaimable"]
    /\ jammed' = jammed \union {s}
    /\ pc' = [pc EXCEPT ![s] = "run"]
    /\ tickNow' = [tickNow EXCEPT ![s] = 0]
    /\ lapsed' = [lapsed EXCEPT ![s] = 0]
    /\ UNCHANGED <<limit, clock, segs, active, diskBytes, last, appends>>

ClockTick ==
    /\ clock < MaxTime
    /\ clock' = clock + 1
    /\ UNCHANGED <<limit, segs, active, diskBytes, last, pc, tickNow, cause, appends, jammed, lapsed>>

Next ==
    \/ \E s \in Shards : Append1(s) \/ TickReport(s) \/ Look(s) \/ Drop(s) \/ DropFails(s)
    \/ ClockTick

Spec == Init /\ [][Next]_vars

-----------------------------------------------------------------------------
(* Shards that sacrifice at the same time, each on its own reading of the  *)
(* total, do not sacrifice for each other's excess more than a segment's   *)
(* file per other shard: a sacrifice starts with the total no further      *)
(* below the watermark than that, apart from what expiry freed meanwhile.  *)
(* And the deltas add up: a shard in its tick has its usage in the total   *)
(* exactly.                                                                *)
SacrificeBounded ==
    /\ diskBytes = SumFunction(last)
    /\ \A s \in Shards : pc[s] # "run" => last[s] = DiskBytes(segs[s], active[s])
    /\ \A s \in Shards : pc[s] = "drop" =>
         diskBytes + lapsed[s] > limit - (Cardinality(Shards) - 1) * LargestFile

(* A shard that ended its tick with nothing to reclaim. *)
Pinned(s) == pc[s] = "run" /\ cause[s] = "nothingReclaimable" /\ s \notin jammed

(* The shards are never all shedding for want of anything to reclaim,      *)
(* unless one of them has a record larger than a segment: above an         *)
(* accepted watermark somebody has a segment to give, and on its next tick *)
(* stops the others' shed, or says what it protects (New, tick).  A shard  *)
(* that has nothing to give holds an active segment and no more.           *)
NeverAllPinned ==
    /\ \A s \in Shards : Pinned(s) => last[s] <= LargestActive
    /\ ~ \A s \in Shards : Pinned(s) /\ last[s] <= SegmentSize

-----------------------------------------------------------------------------
(***************************************************************************)
(* The inductive invariant, in parts.                                      *)
(***************************************************************************)
Segments == [n : 1 .. LargestFile, tMax : Nat]

Actives ==
    {a \in [n : 0 .. LargestActive, dir : Nat, tMax : Nat] :
        a.dir <= a.n /\ (a.n > SegmentSize => a.dir <= HeaderLen)}

Causes   == {"clear", "nothingReclaimable", "floorProtected"}

(* Every variable has its type; a segment holds no more than it may. *)
TypeOK ==
    /\ limit \in Nat /\ Accepted(limit)
    /\ clock \in Nat /\ diskBytes \in Int
    /\ segs \in [Shards -> Seq(Segments)]
    /\ active \in [Shards -> Actives]
    /\ last \in [Shards -> Nat] /\ lapsed \in [Shards -> Nat]
    /\ pc \in [Shards -> {"run", "look", "drop"}]
    /\ tickNow \in [Shards -> Nat]
    /\ cause \in [Shards -> Causes]
    /\ appends \in Nat /\ jammed \subseteq Shards

(* The deltas add up. *)
TotalInv ==
    /\ diskBytes = SumFunction(last)
    /\ \A s \in Shards : pc[s] # "run" => last[s] = DiskBytes(segs[s], active[s])

(* Each shard about to drop may take a segment off the total that the      *)
(* others looked at; one that looks sees what the others dropped.          *)
Dropping == {s \in Shards : pc[s] = "drop"}

DropInv ==
    \A s \in Shards :
        IF pc[s] = "drop"
        THEN /\ segs[s] # << >>
             /\ diskBytes + lapsed[s] > limit - (Cardinality(Shards) - Cardinality(Dropping)) * LargestFile
        ELSE lapsed[s] = 0

LadderInv == TypeOK /\ TotalInv /\ DropInv /\ NeverAllPinned
=============================================================================
