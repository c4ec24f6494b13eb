---------------------------- MODULE ShardWorker ----------------------------
(***************************************************************************)
(* One shard worker with the flusher it feeds: what becomes of fragments,  *)
(* keep verdicts and failed flush work (internal/shards/worker.go,         *)
(* internal/shards/flush.go, flusher.go).                                  *)
(*                                                                         *)
(*   producers, bus --> queue --> worker --> jobs --> flusher --> bus,     *)
(*                        ^         |  ^                 |       consumer  *)
(*                        |         v  |                 |                 *)
(*                        |        pend, pendq           |                 *)
(*                        +---------- Retry -------------+                 *)
(*                                                                         *)
(* The worker appends fragments to its buffer, remembers decided traces in *)
(* a ring until their deadline, hands the flusher jobs without blocking    *)
(* and parks the work it cannot hand over.  The hand-off into the queue is *)
(* the subject of ShardSet; here an enqueue is one step that needs a free  *)
(* buffer.  The buffer is abstracted to the sequence of its fragments,     *)
(* which expiry shortens from the front; Buffer models its files.          *)
(***************************************************************************)
EXTENDS Integers, Sequences, FiniteSets

CONSTANTS
    Ids,            \* trace ids routed to this shard
    Window,         \* Options.Window, W
    WindowFloor,    \* Options.WindowFloor
    QueueDepth,     \* queueDepth
    FlushDepth,     \* flushQueueDepth, the capacity of the jobs channel
    StampLag,       \* how long before its enqueue an event may be stamped
    StampSkew,      \* how far ahead of this clock a stamp may be
    Unreadable,     \* the fragments whose record on disk fails its CRC
    MaxTime,        \* bound: the clock
    MaxInputs,      \* bound: fragments and keeps that arrive
    LastStamp       \* bound: the latest stamp an arriving event carries

ASSUME WindowPositive == Window \in Nat \ {0}
ASSUME FloorBelowWindow == WindowFloor \in Nat /\ 0 < WindowFloor /\ WindowFloor < Window
ASSUME DepthsPositive == QueueDepth \in Nat \ {0} /\ FlushDepth \in Nat \ {0}
ASSUME StampBounds == StampLag \in Nat /\ StampSkew \in Nat
ASSUME UnreadableNumbers == Unreadable \subseteq Nat
ASSUME WorkerBounds == MaxTime \in Nat /\ MaxInputs \in Nat /\ LastStamp \in Nat

(* Need is a set of bits. *)
NeedPublish == "NeedPublish"
NeedFlush   == "NeedFlush"
Needs       == SUBSET {NeedPublish, NeedFlush}

Origins == {"OriginLocal", "OriginBus", "OriginBaseline"}

(* A verdict's reason is a nonzero byte; a fragment carries none. *)
NoReason == 0
Reason   == 1

(* Deadlines are instants; zero means none. *)
NoDeadline == 0

VARIABLES
    now,        \* the injected clock
    inputs,     \* fragments and keeps that have arrived
    queue,      \* shard.work
    disk,       \* the buffer: live fragments in append order
    sealed,     \* how many of them are in finalized segments
    ring,       \* decidedSet: live entries in insertion order
    pend,       \* shard.pend; an absent entry is NoReq
    pendq,      \* shard.pendq from pendqHead on
    wpc,        \* the worker: in its select, or in drainPending
    left,       \* intents drainPending may still attempt on this tick
    tickNow,    \* the instant the tick under way was started at
    jobs,       \* the Flush channel
    fpc,        \* where the flusher stands
    batch,      \* the jobs of the flusher's batch still to process
    failed,     \* the ids whose publish the bus reported failed
    kept,       \* history: fragments on disk of a trace while it was decided
    settled,    \* history: fragments consumed, or refused for good and counted
    lastDeadline,   \* history: per id, the deadline of its latest decision
    localDeadline,  \* history: per id, the latest deadline of its local decisions
    outstanding,    \* history: per id, a local decision not yet acked or abandoned
    credit          \* history: per id, local decisions minus acked publishes

arrivalVars == <<inputs>>
diskVars    == <<disk, sealed>>
workVars    == <<diskVars, ring, pend, pendq, wpc, left, tickNow>>
flushVars   == <<fpc, batch, failed>>
keepVars    == <<lastDeadline, localDeadline>>
pubVars     == <<outstanding, credit>>

vars == <<now, inputs, queue, disk, sealed, ring, pend, pendq, wpc, left, tickNow, jobs, fpc, batch,
          failed, kept, settled, lastDeadline, localDeadline, outstanding, credit>>

(* The zero pendReq that a read of an absent map entry yields. *)
NoReq == [reason |-> NoReason, need |-> {}, queued |-> FALSE, deadline |-> NoDeadline]

Init ==
    /\ now = 0
    /\ inputs = 0
    /\ queue = << >>
    /\ disk = << >>
    /\ sealed = 0
    /\ ring = << >>
    /\ pend = [id \in Ids |-> NoReq]
    /\ pendq = << >>
    /\ wpc = "select"
    /\ left = 0
    /\ tickNow = 0
    /\ jobs = << >>
    /\ fpc = "idle"
    /\ batch = << >>
    /\ failed = {}
    /\ kept = {}
    /\ settled = {}
    /\ lastDeadline = [id \in Ids |-> NoDeadline]
    /\ localDeadline = [id \in Ids |-> NoDeadline]
    /\ outstanding = [id \in Ids |-> FALSE]
    /\ credit = [id \in Ids |-> 0]

Elements(s) == {s[i] : i \in 1 .. Len(s)}
Lesser(a, b)  == IF a <= b THEN a ELSE b
Greater(a, b) == IF a >= b THEN a ELSE b

(* decidedSet.has *)
Has(id) == \E i \in 1 .. Len(ring) : ring[i].id = id

(* Collect(id) reads the records of id's chain, if it has any, and yields  *)
(* the fragments that pass their CRC; the others are skipped and counted.  *)
Visits(id) == \E f \in Elements(disk) : f.id = id

Collected(id) == {f.n : f \in {g \in Elements(disk) : g.id = id}} \ Unreadable

-----------------------------------------------------------------------------
(***************************************************************************)
(* The clock, and what arrives.                                            *)
(***************************************************************************)
Advance ==
    /\ now < MaxTime
    /\ now' = now + 1
    /\ UNCHANGED <<inputs, queue, jobs, kept, settled, workVars, flushVars, keepVars, pubVars>>

(* A caller stamps an event some time before it gets a buffer for it, and  *)
(* with a clock that may run ahead.                                        *)
Stamps == {t \in (now - StampLag) .. (now + StampSkew) : 0 <= t /\ t <= LastStamp}

(* Offer, past its floor check and with a buffer. *)
ArriveFragment(id, at) ==
    /\ inputs < MaxInputs
    /\ Len(queue) < QueueDepth
    /\ inputs' = inputs + 1
    /\ queue' = Append(queue, [kind |-> "evFrag", id |-> id, at |-> at, n |-> inputs + 1])
    /\ UNCHANGED <<now, jobs, kept, settled, workVars, flushVars, keepVars, pubVars>>

(* Keep, KeepLocalOnly and KeepFromBus, with a buffer. *)
ArriveKeep(id, origin, at) ==
    /\ inputs < MaxInputs
    /\ Len(queue) < QueueDepth
    /\ inputs' = inputs + 1
    /\ queue' = Append(queue, [kind |-> "evKeep", id |-> id, at |-> at, origin |-> origin])
    /\ UNCHANGED <<now, jobs, kept, settled, workVars, flushVars, keepVars, pubVars>>

-----------------------------------------------------------------------------
(***************************************************************************)
(* The worker.                                                             *)
(***************************************************************************)

(* Mutant of Merge: a re-park renews the deadline. *)
MergeRenewsDeadline(req, reason, need, deadline) ==
    [reason   |-> IF req.reason = NoReason THEN reason ELSE req.reason,
     need     |-> req.need \cup need,
     queued   |-> TRUE,
     deadline |-> IF NeedPublish \in need THEN now + Window ELSE req.deadline]

(* park merges flush work into an entry: the first nonzero reason and,     *)
(* for a publish, the first deadline hold; now+W stands in for a missing   *)
(* deadline.                                                               *)
Merge(req, reason, need, deadline) ==
    [reason   |-> IF req.reason = NoReason THEN reason ELSE req.reason,
     need     |-> req.need \cup need,
     queued   |-> TRUE,
     deadline |-> IF NeedPublish \notin need THEN req.deadline
                  ELSE IF req.deadline # NoDeadline THEN req.deadline
                  ELSE IF deadline # NoDeadline THEN deadline
                  ELSE now + Window]

(* Mutant of Park: the queue-membership bit is not consulted. *)
ParkAlwaysEnqueues(id, reason, need, deadline) ==
    /\ pend' = [pend EXCEPT ![id] = Merge(@, reason, need, deadline)]
    /\ pendq' = Append(pendq, id)

(* park: an id already waiting keeps its place in the queue. *)
Park(id, reason, need, deadline) ==
    /\ pend' = [pend EXCEPT ![id] = Merge(@, reason, need, deadline)]
    /\ pendq' = IF pend[id].queued THEN pendq ELSE Append(pendq, id)

(* Mutant of SendJob: a job the channel has no room for is dropped. *)
SendJobDrops(j) ==
    /\ jobs' = IF Len(jobs) < FlushDepth THEN Append(jobs, j) ELSE jobs
    /\ UNCHANGED <<pend, pendq>>

(* sendJob: hand over without blocking, else park. *)
SendJob(j) ==
    IF Len(jobs) < FlushDepth
    THEN jobs' = Append(jobs, j) /\ UNCHANGED <<pend, pendq>>
    ELSE Park(j.id, j.reason, j.need, j.deadline) /\ UNCHANGED jobs

(* Mutant of Clamped: the producer's stamp is trusted. *)
Unclamped(at) == at

(* clampAt *)
Clamped(at) == Lesser(at, now)

(* handle of evFrag: append, which may roll the active segment first, and, *)
(* for a decided trace, forward.  A failed append is counted and the       *)
(* fragment is gone.                                                       *)
HandleFragment ==
    LET ev == Head(queue) IN
    /\ wpc = "select"
    /\ queue # << >>
    /\ ev.kind = "evFrag"
    /\ sealed' \in {sealed, Len(disk)}
    /\ \/ UNCHANGED <<disk, jobs, pend, pendq, kept>>
       \/ /\ disk' = Append(disk, [id |-> ev.id, n |-> ev.n, at |-> Clamped(ev.at)])
          /\ IF Has(ev.id)
             THEN /\ SendJob([id |-> ev.id, reason |-> NoReason, need |-> {NeedFlush},
                              frags |-> {ev.n}, deadline |-> NoDeadline])
                  /\ kept' = kept \cup {ev.n}
             ELSE UNCHANGED <<jobs, pend, pendq, kept>>
    /\ queue' = Tail(queue)
    /\ UNCHANGED <<now, inputs, ring, wpc, left, tickNow, settled, flushVars, keepVars, pubVars>>

(* A keep of a trace that is already decided is a counted duplicate. *)
HandleDuplicateKeep ==
    LET ev == Head(queue) IN
    /\ wpc = "select"
    /\ queue # << >>
    /\ ev.kind = "evKeep"
    /\ Has(ev.id)
    /\ queue' = Tail(queue)
    /\ UNCHANGED <<now, inputs, jobs, kept, settled, workVars, flushVars, keepVars, pubVars>>

(* keep: mark the trace decided until decide time + W, then collect and    *)
(* send.  Only a local verdict owes a broadcast.  Reading the fragments    *)
(* may fail, which parks the work like a full channel does.                *)
HandleKeep ==
    LET ev       == Head(queue)
        deadline == Clamped(ev.at) + Window
        need     == IF ev.origin = "OriginLocal" THEN {NeedFlush, NeedPublish} ELSE {NeedFlush}
        frags    == Collected(ev.id)
    IN
    /\ wpc = "select"
    /\ queue # << >>
    /\ ev.kind = "evKeep"
    /\ ~Has(ev.id)
    /\ ring' = Append(ring, [id |-> ev.id, deadline |-> deadline])
    /\ \/ /\ Visits(ev.id)
          /\ Park(ev.id, Reason, need, deadline)
          /\ UNCHANGED jobs
       \/ /\ frags = {} /\ NeedPublish \notin need
          /\ UNCHANGED <<jobs, pend, pendq>>
       \/ /\ frags # {} \/ NeedPublish \in need
          /\ SendJob([id |-> ev.id, reason |-> Reason, need |-> need, frags |-> frags,
                      deadline |-> deadline])
    /\ queue' = Tail(queue)
    /\ kept' = kept \cup frags
    /\ lastDeadline' = [lastDeadline EXCEPT ![ev.id] = deadline]
    /\ IF NeedPublish \in need
       THEN /\ localDeadline' = [localDeadline EXCEPT ![ev.id] = Greater(@, deadline)]
            /\ outstanding' = [outstanding EXCEPT ![ev.id] = TRUE]
            /\ credit' = [credit EXCEPT ![ev.id] = @ + 1]
       ELSE UNCHANGED <<localDeadline, outstanding, credit>>
    /\ UNCHANGED <<now, inputs, diskVars, wpc, left, tickNow, settled, flushVars>>

(* handle of evRetry: the need-bits are parked for the tick. *)
HandleRetry ==
    LET ev == Head(queue) IN
    /\ wpc = "select"
    /\ queue # << >>
    /\ ev.kind = "evRetry"
    /\ Park(ev.id, ev.reason, ev.need, ev.deadline)
    /\ queue' = Tail(queue)
    /\ UNCHANGED <<now, inputs, diskVars, ring, wpc, left, tickNow, jobs, kept, settled,
                   flushVars, keepVars, pubVars>>

(* How many fragments leave with the segments whose newest is older than   *)
(* the cutoff: whole finalized segments, oldest first.  Where segments end *)
(* is left open, but the last finalized one ends at `sealed'.              *)
OlderThan(k, cutoff) == \A i \in 1 .. k : disk[i].at < cutoff

Cuts(cutoff) == {k \in 0 .. sealed : OlderThan(k, cutoff)}

(* Expire deletes every finalized segment past the window, then rolls a    *)
(* stale active one, which the next Expire deletes.                        *)
Expire ==
    /\ \E k \in Cuts(now - Window) :
          /\ OlderThan(sealed, now - Window) => k = sealed
          /\ disk' = SubSeq(disk, k + 1, Len(disk))
          /\ sealed' = IF \A i \in sealed + 1 .. Len(disk) : disk[i].at < now - Window
                       THEN Len(disk) - k ELSE sealed - k

(* The watermark rung at the end of a tick: while the disk is over its     *)
(* watermark, which is not modelled, the oldest finalized segment goes,    *)
(* but none that reaches into the window floor.                            *)
Sacrifice ==
    \E k \in Cuts(tickNow - WindowFloor) :
        /\ disk' = SubSeq(disk, k + 1, Len(disk))
        /\ sealed' = sealed - k

(* Mutants of EvictCount: capacity eviction; eviction only of an entry     *)
(* that is a whole window late.                                            *)
EvictToCapacity == Len(ring)

EvictLate ==
    CHOOSE k \in 0 .. Len(ring) :
        /\ \A i \in 1 .. k : ring[i].deadline + Window <= now
        /\ k < Len(ring) => ring[k + 1].deadline + Window > now

(* decidedSet.evict pops expired entries off the ring's head. *)
EvictCount ==
    CHOOSE k \in 0 .. Len(ring) :
        /\ \A i \in 1 .. k : ring[i].deadline <= now
        /\ k < Len(ring) => ring[k + 1].deadline > now

(* Mutant of Abandoned: the sweep lets an expired broadcast be. *)
NeverAbandoned(req) == FALSE

(* A NeedPublish past its deadline, which sweepPending abandons. *)
Abandoned(req) == NeedPublish \in req.need /\ req.deadline <= now

(* What sweepPending leaves of an entry; one that owes nothing is deleted  *)
(* and its id stays in pendq as a tombstone.                               *)
Swept(req) ==
    IF ~Abandoned(req) THEN req
    ELSE IF req.need = {NeedPublish} THEN NoReq
    ELSE [req EXCEPT !.need = @ \ {NeedPublish}, !.deadline = NoDeadline]

(* tick up to drainPending, whose attempts are steps of their own because  *)
(* the flusher may empty the jobs channel between two of them.             *)
TickBegin ==
    /\ wpc = "select"
    /\ tickNow' = now
    /\ Expire
    /\ ring' = SubSeq(ring, EvictCount + 1, Len(ring))
    /\ pend' = [id \in Ids |-> Swept(pend[id])]
    /\ outstanding' = [id \in Ids |-> outstanding[id] /\ ~Abandoned(pend[id])]
    /\ wpc' = "drain"
    /\ left' = Len(pendq)
    /\ UNCHANGED <<now, inputs, queue, pendq, jobs, kept, settled, credit, flushVars, keepVars>>

(* The end of drainPending, its attempts used up, and of the tick. *)
DrainDone ==
    /\ wpc = "drain"
    /\ left = 0
    /\ wpc' = "select"
    /\ tickNow' = 0
    /\ Sacrifice
    /\ UNCHANGED <<now, inputs, queue, ring, pend, pendq, left, jobs, kept, settled,
                   flushVars, keepVars, pubVars>>

(* Mutant of DrainDrop: an intent that finds no fragments is not deleted. *)
DrainDropKeeps ==
    LET id == Head(pendq)
        req == pend[id] IN
    /\ wpc = "drain" /\ left > 0
    /\ req.need = {} \/ (Collected(id) = {} /\ NeedPublish \notin req.need)
    /\ pendq' = Append(Tail(pendq), id)
    /\ left' = left - 1
    /\ UNCHANGED <<now, inputs, queue, diskVars, ring, pend, wpc, tickNow, jobs, kept, settled,
                   flushVars, keepVars, pubVars>>

(* drainPending disposes of the head: a tombstone, or nothing owed. *)
DrainDrop ==
    LET id == Head(pendq)
        req == pend[id] IN
    /\ wpc = "drain" /\ left > 0
    /\ req.need = {} \/ (Collected(id) = {} /\ NeedPublish \notin req.need)
    /\ pend' = [pend EXCEPT ![id] = NoReq]
    /\ pendq' = Tail(pendq)
    /\ left' = left - 1
    /\ UNCHANGED <<now, inputs, queue, diskVars, ring, wpc, tickNow, jobs, kept, settled,
                   flushVars, keepVars, pubVars>>

(* The head's job is handed over. *)
DrainSend ==
    LET id == Head(pendq)
        req == pend[id] IN
    /\ wpc = "drain" /\ left > 0
    /\ req.need # {}
    /\ Collected(id) # {} \/ NeedPublish \in req.need
    /\ Len(jobs) < FlushDepth
    /\ jobs' = Append(jobs, [id |-> id, reason |-> req.reason, need |-> req.need,
                             frags |-> Collected(id), deadline |-> req.deadline])
    /\ pend' = [pend EXCEPT ![id] = NoReq]
    /\ pendq' = Tail(pendq)
    /\ left' = left - 1
    /\ UNCHANGED <<now, inputs, queue, diskVars, ring, wpc, tickNow, kept, settled,
                   flushVars, keepVars, pubVars>>

(* A full channel ends the pass with the head in its place. *)
DrainFull ==
    LET id == Head(pendq)
        req == pend[id] IN
    /\ wpc = "drain" /\ left > 0
    /\ req.need # {}
    /\ Collected(id) # {} \/ NeedPublish \in req.need
    /\ Len(jobs) = FlushDepth
    /\ wpc' = "select"
    /\ left' = 0
    /\ tickNow' = 0
    /\ Sacrifice
    /\ UNCHANGED <<now, inputs, queue, ring, pend, pendq, jobs, kept, settled,
                   flushVars, keepVars, pubVars>>

(* A failed read re-parks the head at the back and the pass goes on. *)
DrainCollectErr ==
    LET id == Head(pendq)
        req == pend[id] IN
    /\ wpc = "drain" /\ left > 0
    /\ req.need # {}
    /\ Visits(id)
    /\ pend' = [pend EXCEPT ![id] = Merge(NoReq, req.reason, req.need, req.deadline)]
    /\ pendq' = Append(Tail(pendq), id)
    /\ left' = left - 1
    /\ UNCHANGED <<now, inputs, queue, diskVars, ring, wpc, tickNow, jobs, kept, settled,
                   flushVars, keepVars, pubVars>>

-----------------------------------------------------------------------------
(***************************************************************************)
(* The flusher, while it is not being stopped.                             *)
(***************************************************************************)

(* run and gather: the batch is whatever is queued. *)
Gather ==
    /\ fpc = "idle"
    /\ jobs # << >>
    /\ batch' = jobs
    /\ jobs' = << >>
    /\ fpc' = "publish"
    /\ UNCHANGED <<now, inputs, queue, failed, kept, settled, workVars, keepVars, pubVars>>

(* processBatch, its one bus call: the ids that owe a broadcast, each once; *)
(* the bus reports which of them failed.                                    *)
Publish ==
    LET owing == {j.id : j \in {k \in Elements(batch) : NeedPublish \in k.need}} IN
    /\ fpc = "publish"
    /\ \E F \in SUBSET owing :
          /\ failed' = F
          /\ outstanding' = [id \in Ids |-> outstanding[id] /\ id \notin owing \ F]
          /\ credit' = [id \in Ids |-> IF id \in owing \ F THEN credit[id] - 1 ELSE credit[id]]
    /\ fpc' = "process"
    /\ UNCHANGED <<now, inputs, queue, jobs, batch, kept, settled, workVars, keepVars>>

(* The rest of processBatch takes the batch's jobs in order. *)
NextJob ==
    /\ batch' = Tail(batch)
    /\ IF Len(batch) = 1 THEN fpc' = "idle" /\ failed' = {} ELSE UNCHANGED <<fpc, failed>>

PublishFailed(j) == NeedPublish \in j.need /\ j.id \in failed

(* retry: Set.Retry blocks until the shard has a buffer. *)
Retry(j, need) ==
    /\ Len(queue) < QueueDepth
    /\ queue' = Append(queue, [kind |-> "evRetry", id |-> j.id, reason |-> j.reason,
                               need |-> need, deadline |-> j.deadline])

(* A job whose broadcast failed goes back whole and is not consumed. *)
RetryPublish ==
    /\ fpc = "process"
    /\ PublishFailed(Head(batch))
    /\ Retry(Head(batch), Head(batch).need)
    /\ NextJob
    /\ UNCHANGED <<now, inputs, jobs, kept, settled, workVars, keepVars, pubVars>>

(* consume: nothing to hand on, accepted downstream, or refused for good. *)
Consume ==
    LET j == Head(batch) IN
    /\ fpc = "process"
    /\ ~PublishFailed(j)
    /\ settled' = IF NeedFlush \in j.need THEN settled \cup j.frags ELSE settled
    /\ NextJob
    /\ UNCHANGED <<now, inputs, queue, jobs, kept, workVars, keepVars, pubVars>>

(* Mutant of ConsumeRefused: the job's own need goes back, publish bit and *)
(* all.                                                                    *)
ConsumeRefusedWhole ==
    LET j == Head(batch) IN
    /\ fpc = "process"
    /\ ~PublishFailed(j)
    /\ NeedFlush \in j.need /\ j.frags # {}
    /\ Retry(j, j.need)
    /\ NextJob
    /\ UNCHANGED <<now, inputs, jobs, kept, settled, workVars, keepVars, pubVars>>

(* consume: a retryable refusal sends back the flush bit alone. *)
ConsumeRefused ==
    LET j == Head(batch) IN
    /\ fpc = "process"
    /\ ~PublishFailed(j)
    /\ NeedFlush \in j.need /\ j.frags # {}
    /\ Retry(j, {NeedFlush})
    /\ NextJob
    /\ UNCHANGED <<now, inputs, jobs, kept, settled, workVars, keepVars, pubVars>>

-----------------------------------------------------------------------------
Handle == HandleFragment \/ HandleDuplicateKeep \/ HandleKeep \/ HandleRetry
Drain  == DrainDone \/ DrainDrop \/ DrainSend \/ DrainFull \/ DrainCollectErr
Flush  == Gather \/ Publish \/ RetryPublish \/ Consume \/ ConsumeRefused

Next ==
    \/ Advance
    \/ \E id \in Ids, at \in Stamps : ArriveFragment(id, at)
    \/ \E id \in Ids, at \in Stamps, o \in Origins : ArriveKeep(id, o, at)
    \/ Handle
    \/ TickBegin
    \/ Drain
    \/ Flush

Spec == Init /\ [][Next]_vars

(***************************************************************************)
(* Fairness: the worker's select chooses uniformly among ready cases, so   *)
(* neither the queue nor the ticker is passed over for ever; a started     *)
(* drain and the flusher's goroutine go on; time passes.  Nothing is       *)
(* assumed of the bus or of the next consumer, which may fail for ever.    *)
(***************************************************************************)
Fairness ==
    /\ WF_vars(Advance)
    /\ SF_vars(Handle)
    /\ SF_vars(TickBegin)
    /\ WF_vars(Drain)
    /\ SF_vars(Flush)

FairSpec == Spec /\ Fairness

-----------------------------------------------------------------------------
(***************************************************************************)
(* Properties.                                                             *)
(***************************************************************************)
Jobs == [id : Ids, reason : {NoReason, Reason}, need : Needs,
         frags : SUBSET (1 .. MaxInputs), deadline : Nat]

Reqs == [reason : {NoReason, Reason}, need : Needs, queued : BOOLEAN, deadline : Nat]

Fragments == [id : Ids, n : 1 .. MaxInputs, at : Nat]

Events ==
    [kind : {"evFrag"}, id : Ids, at : Nat, n : 1 .. MaxInputs]
      \cup [kind : {"evKeep"}, id : Ids, at : Nat, origin : Origins]
      \cup [kind : {"evRetry"}, id : Ids, reason : {NoReason, Reason}, need : Needs,
            deadline : Nat]

(* Every variable has its type. *)
TypeOK ==
    /\ now \in 0 .. MaxTime
    /\ inputs \in 0 .. MaxInputs
    /\ queue \in Seq(Events)
    /\ disk \in Seq(Fragments)
    /\ sealed \in 0 .. Len(disk)
    /\ ring \in Seq([id : Ids, deadline : Nat])
    /\ pend \in [Ids -> Reqs]
    /\ pendq \in Seq(Ids)
    /\ wpc \in {"select", "drain"}
    /\ left \in Nat
    /\ tickNow \in 0 .. now
    /\ jobs \in Seq(Jobs)
    /\ fpc \in {"idle", "publish", "process"}
    /\ batch \in Seq(Jobs)
    /\ failed \subseteq Ids
    /\ kept \subseteq 1 .. MaxInputs
    /\ settled \subseteq 1 .. MaxInputs
    /\ lastDeadline \in [Ids -> Nat]
    /\ localDeadline \in [Ids -> Nat]
    /\ outstanding \in [Ids -> BOOLEAN]
    /\ credit \in [Ids -> Int]

(* Work on its way outside pend: jobs, the flusher's batch, queued retries. *)
JobsUnderWay == Elements(jobs) \cup Elements(batch)
Retries      == {e \in Elements(queue) : e.kind = "evRetry"}

(* Every parked intent is in the drain's queue exactly once, and nothing   *)
(* else is: no intent is out of the drain's reach and the queue does not   *)
(* outgrow the work it indexes, across merges, re-parks and sweeps; the    *)
(* types hold throughout.                                                  *)
PendqCoherent ==
    /\ TypeOK
    /\ \A i, j \in 1 .. Len(pendq) : pendq[i] = pendq[j] => i = j
    /\ Elements(pendq) = {id \in Ids : pend[id].queued}
    /\ left <= Len(pendq)

(* "retries age against the original decision rather than the latest       *)
(* failure": no broadcast still owed has a deadline later than a local     *)
(* decision of its trace gave it, whatever cycle of failures it is in; and *)
(* a parked entry that owes none keeps no deadline for the next to inherit.*)
PublishAgesFromDecision ==
    /\ \A id \in Ids :
          IF NeedPublish \in pend[id].need
          THEN pend[id].deadline # NoDeadline /\ pend[id].deadline <= localDeadline[id]
          ELSE pend[id].deadline = NoDeadline
    /\ \A j \in JobsUnderWay \cup Retries :
          NeedPublish \in j.need => j.deadline # NoDeadline /\ j.deadline <= localDeadline[j.id]

(* A fragment that was on disk while its trace was decided is delivered,   *)
(* or refused for good, or expired, or still owed: in a job, in a retry or *)
(* parked.  Full channels, failed reads, failed broadcasts and refusals    *)
(* downstream lose none, and a corrupt record costs none but itself: the   *)
(* skip neither ends the trace's Collect nor settles what is owed.         *)
OnDisk(n) == \E f \in Elements(disk) : f.n = n

FlushOwed(f) ==
    \/ NeedFlush \in pend[f.id].need
    \/ \E e \in Retries : e.id = f.id /\ NeedFlush \in e.need
    \/ \E j \in JobsUnderWay : NeedFlush \in j.need /\ f.n \in j.frags

KeptNeverLost ==
    \A f \in Elements(disk) :
        f.n \in kept \ Unreadable => f.n \in settled \/ FlushOwed(f)

(* A local verdict is acked by the bus, or abandoned and counted, or its   *)
(* broadcast is still owed somewhere; and only local decisions are         *)
(* broadcast, each once: "a retried consume can never rebroadcast the      *)
(* keep", so a trace has no more acked publishes than local decisions.     *)
BroadcastExact ==
    \A id \in Ids :
        /\ credit[id] >= 0
        /\ outstanding[id] =>
              \/ NeedPublish \in pend[id].need
              \/ \E j \in JobsUnderWay \cup Retries : j.id = id /\ NeedPublish \in j.need

(* "a capacity-evicted entry would re-open a decided trace": no trace is   *)
(* decided again before the deadline of its last decision.                 *)
DecideOncePerWindow ==
    [][\A id \in Ids : lastDeadline'[id] # lastDeadline[id] => lastDeadline[id] <= now]_vars

(* With honest clocks a tick leaves no decided entry more than StampLag    *)
(* past its deadline: one stamped earlier waits behind those before it in  *)
(* the ring for at most the time a caller takes between stamp and enqueue. *)
EvictionWithinLag ==
    [][(wpc = "select" /\ wpc' = "drain" /\ StampSkew = 0) =>
          \A e \in Elements(ring') : e.deadline + StampLag > now]_vars

(* A producer clock running ahead pins nothing: no fragment on disk is     *)
(* stamped in the future, and no decided entry is held longer than W.      *)
NothingFromTheFuture ==
    /\ \A f \in Elements(disk) : f.at <= now
    /\ \A e \in Elements(ring) : e.deadline <= now + Window

(* A deadline must never "abandon a broadcast that never got an attempt":  *)
(* a sweep does not give up the last trace of a local verdict's broadcast  *)
(* before that verdict's own deadline.                                     *)
AbandonsOnlyExpired ==
    [][\A id \in Ids :
          (/\ wpc = "select" /\ wpc' = "drain"
           /\ Abandoned(pend[id]) /\ outstanding[id]
           /\ ~\E j \in JobsUnderWay \cup Retries : j.id = id /\ NeedPublish \in j.need)
             => localDeadline[id] <= now]_vars

(* A local verdict's broadcast does not stay outstanding for ever, even on *)
(* a bus that fails every publish.                                         *)
PublishSettles == \A id \in Ids : outstanding[id] ~> ~outstanding[id]

(* Parked and retried work comes to an end, even when the next consumer    *)
(* refuses every batch: expiry empties its Collect.                        *)
FlushWorkEnds ==
    <>[](Retries = {} /\ JobsUnderWay = {} /\ \A id \in Ids : ~pend[id].queued)
=============================================================================
