----------------------------- MODULE Lifecycle -----------------------------
(***************************************************************************)
(* The processor's start and shutdown around its moving parts              *)
(* (processor.go, flusher.go, internal/bus/loopback.go and the client side *)
(* of internal/bus/natsbus):                                               *)
(*                                                                         *)
(*   processTraces --> queue --> worker --> jobs --> flusher --> consumer  *)
(*                       ^                              |                  *)
(*                       +-- delivery <-- bus <---------+                  *)
(*                       +------------- Retry ----------+                  *)
(*                                                                         *)
(* Every link of the two cycles may be full.  A call of the set is one     *)
(* step here, but for the wait of a blocking one, and there is one shard:  *)
(* the inner steps are the subject of ShardSet.  The worker's verdicts are *)
(* the subject of ShardWorker: here a handled event yields a job or none.  *)
(***************************************************************************)
EXTENDS Integers, Sequences, FiniteSets

CONSTANTS
    Producers,      \* goroutines calling processTraces
    BusKinds,       \* the buses the factory may have configured
    QueueDepth,     \* queueDepth, the shard's buffers
    FlushDepth,     \* flushQueueDepth
    LoopbackDepth,  \* loopbackDepth
    MaxBatches,     \* bound: batches each producer is given
    MaxPeerKeeps,   \* bound: per bus, keeps published by other instances
    MaxTimeouts     \* bound: contexts that expire

ASSUME KnownBuses == BusKinds \subseteq {"loopback", "nats"}
ASSUME LifecycleDepths ==
    QueueDepth \in Nat \ {0} /\ FlushDepth \in Nat \ {0} /\ LoopbackDepth \in Nat \ {0}
ASSUME LifecycleBounds ==
    MaxBatches \in Nat /\ MaxPeerKeeps \in [BusKinds -> Nat] /\ MaxTimeouts \in Nat

VARIABLES
    bus,        \* which bus the processor was built with
    conn,       \* the connection behind it, for the one that has one
    ppc,        \* where the processor's lifecycle stands
    set,        \* p.set is not nil
    started,    \* start has succeeded
    timeouts,   \* contexts that have expired
    bpc,        \* per producer, where its batch stands
    refused,    \* per producer, pooledFrag.refused
    begun,      \* per producer, batches begun
    promised,   \* history: the events of batches reported accepted
    handled,    \* history: the fragments and keeps the worker handled
    queue,      \* the shard's work queue
    intake,     \* Set.intake
    halt,       \* the shard's stop channel is closed
    closed,     \* the worker has drained and closed its buffer
    closeErr,   \* closing the buffer failed
    parked,     \* the kinds of work the shard's pend owes
    jobs,       \* the channel to the flusher
    sub,        \* the subscription
    ch,         \* keeps waiting to be delivered to this instance
    dpc,        \* where the delivery goroutine stands
    peers,      \* keeps other instances have published
    stopc,      \* the flusher's stop channel is closed
    fpc,        \* where the flusher stands
    draining,   \* the flusher is in its last loop
    batch,      \* the jobs of its batch still to process
    toSend      \* keeps a Loopback Publish has still to hand over

procVars  == <<bus, conn, ppc, set, started, timeouts>>
batchVars == <<bpc, refused, begun, promised>>
shardVars == <<handled, intake, halt, closed, closeErr, parked>>
subVars   == <<sub, dpc, peers>>
flVars    == <<stopc, fpc, draining, batch, toSend>>

vars == <<bus, conn, ppc, set, started, timeouts, bpc, refused, begun, promised, handled, queue,
          intake, halt, closed, closeErr, parked, jobs, sub, ch, dpc, peers, stopc, fpc,
          draining, batch, toSend>>

JobKinds == {"publish", "flush"}

Frag(c)    == [kind |-> "frag", from |-> c, k |-> begun[c]]
Verdict(c) == [kind |-> "keep", from |-> c, k |-> begun[c]]
BusKeep    == [kind |-> "busKeep"]
Retried(j) == [kind |-> "retry", job |-> j]

(* newProcessor: nothing runs yet. *)
Init ==
    /\ bus \in BusKinds
    /\ conn = "none" /\ ppc = "new" /\ set = FALSE /\ started = FALSE /\ timeouts = 0
    /\ bpc = [c \in Producers |-> "idle"]
    /\ refused = [c \in Producers |-> FALSE]
    /\ begun = [c \in Producers |-> 0]
    /\ promised = {} /\ handled = {}
    /\ queue = << >> /\ intake = FALSE /\ halt = FALSE /\ closed = FALSE /\ closeErr = FALSE
    /\ parked = {}
    /\ jobs = << >>
    /\ sub = "none" /\ ch = 0 /\ dpc = "none" /\ peers = 0
    /\ stopc = FALSE /\ fpc = "none" /\ draining = FALSE /\ batch = << >> /\ toSend = 0

Created == fpc # "none"
Room    == Len(queue) < QueueDepth

-----------------------------------------------------------------------------
(***************************************************************************)
(* start.                                                                  *)
(***************************************************************************)

(* A bus with a connection dials first; only unusable options fail. *)
StartBus ==
    /\ ppc = "new"
    /\ \/ /\ conn' = IF bus = "nats" THEN "open" ELSE conn
          /\ ppc' = "dialed"
       \/ /\ bus = "nats"
          /\ ppc' = "failed"
          /\ UNCHANGED conn
    /\ UNCHANGED <<bus, set, started, timeouts, batchVars, shardVars, queue, jobs, subVars, ch,
                   flVars>>

(* Mutant of StartSet: a failed New leaves the bus connected. *)
StartSetLeaksBus ==
    /\ ppc = "dialed"
    /\ \/ /\ intake' = TRUE
          /\ fpc' = "select"
          /\ ppc' = "opened"
       \/ /\ ppc' = "failed"
          /\ UNCHANGED <<intake, fpc>>
    /\ UNCHANGED <<bus, conn, set, started, timeouts, batchVars, handled, halt, closed, closeErr,
                   parked, queue, jobs, subVars, ch, stopc, draining, batch, toSend>>

(* shards.New and the flusher's goroutine; a failed New owes the bus its   *)
(* close.                                                                  *)
StartSet ==
    /\ ppc = "dialed"
    /\ \/ /\ intake' = TRUE
          /\ fpc' = "select"
          /\ ppc' = "opened"
       \/ /\ ppc' = "closeBus"
          /\ UNCHANGED <<intake, fpc>>
    /\ UNCHANGED <<bus, conn, set, started, timeouts, batchVars, handled, halt, closed, closeErr,
                   parked, queue, jobs, subVars, ch, stopc, draining, batch, toSend>>

(* Subscribe; when it fails, start unwinds by shutdown's steps. *)
StartSubscribe ==
    /\ ppc = "opened"
    /\ \/ /\ sub' = "live" /\ dpc' = "select"
          /\ ppc' = "subscribed"
       \/ /\ bus = "nats"
          /\ ppc' = "stopFlusher"
          /\ UNCHANGED <<sub, dpc>>
    /\ UNCHANGED <<bus, conn, set, started, timeouts, batchVars, shardVars, queue, jobs, peers, ch,
                   flVars>>

(* The set is handed out last. *)
StartDone ==
    /\ ppc = "subscribed"
    /\ set' = TRUE
    /\ started' = TRUE
    /\ ppc' = "started"
    /\ UNCHANGED <<bus, conn, timeouts, batchVars, shardVars, queue, jobs, subVars, ch, flVars>>

-----------------------------------------------------------------------------
(***************************************************************************)
(* processTraces, for a batch of one trace.                                *)
(***************************************************************************)

(* With no set a batch is refused, which changes nothing. *)
LoadSet(c) ==
    /\ bpc[c] = "idle"
    /\ begun[c] < MaxBatches
    /\ set
    /\ begun' = [begun EXCEPT ![c] = @ + 1]
    /\ refused' = [refused EXCEPT ![c] = FALSE]
    /\ bpc' = [bpc EXCEPT ![c] = "offer"]
    /\ UNCHANGED <<procVars, promised, shardVars, queue, jobs, subVars, ch, flVars>>

(* Offer may also shed at the floor, at any time. *)
OfferFragment(c) ==
    /\ bpc[c] = "offer"
    /\ bpc' = [bpc EXCEPT ![c] = "verdict"]
    /\ \/ /\ intake /\ Room
          /\ queue' = Append(queue, Frag(c))
          /\ UNCHANGED refused
       \/ /\ refused' = [refused EXCEPT ![c] = TRUE]
          /\ UNCHANGED queue
    /\ UNCHANGED <<procVars, begun, promised, shardVars, jobs, subVars, ch, flVars>>

(* The batch is over: a refusal anywhere fails it. *)
Report(c, events, ok) ==
    /\ bpc' = [bpc EXCEPT ![c] = "idle"]
    /\ promised' = IF ok THEN promised \cup events ELSE promised

(* Mutant of KeepVerdict: only the fragment's refusal fails the batch. *)
KeepVerdictUnchecked(c) ==
    /\ bpc[c] = "verdict"
    /\ \/ /\ Report(c, {Frag(c)}, ~refused[c])
          /\ UNCHANGED queue
       \/ /\ intake /\ Room
          /\ queue' = Append(queue, Verdict(c))
          /\ Report(c, {Frag(c), Verdict(c)}, ~refused[c])
       \/ /\ ~intake \/ ~Room
          /\ Report(c, {Frag(c), Verdict(c)}, ~refused[c])
          /\ UNCHANGED queue
    /\ UNCHANGED <<procVars, refused, begun, shardVars, jobs, subVars, ch, flVars>>

(* The verdict, if there is one, is attempted even when the fragment was   *)
(* shed.                                                                   *)
KeepVerdict(c) ==
    /\ bpc[c] = "verdict"
    /\ \/ /\ Report(c, {Frag(c)}, ~refused[c])
          /\ UNCHANGED queue
       \/ /\ intake /\ Room
          /\ queue' = Append(queue, Verdict(c))
          /\ Report(c, {Frag(c), Verdict(c)}, ~refused[c])
       \/ /\ ~intake \/ ~Room
          /\ Report(c, {}, FALSE)
          /\ UNCHANGED queue
    /\ UNCHANGED <<procVars, refused, begun, shardVars, jobs, subVars, ch, flVars>>

-----------------------------------------------------------------------------
(***************************************************************************)
(* The shard worker.                                                       *)
(***************************************************************************)

(* sendJob, or no job at all.  park merges, so pend owes a kind or not. *)
Yield(kinds) ==
    \/ UNCHANGED <<jobs, parked>>
    \/ \E j \in kinds :
          IF Len(jobs) < FlushDepth
          THEN jobs' = Append(jobs, j) /\ UNCHANGED parked
          ELSE parked' = parked \cup {j} /\ UNCHANGED jobs

(* The kinds of job an event may yield. *)
Yields(ev) ==
    CASE ev.kind = "frag"    -> {"flush"}
      [] ev.kind = "keep"    -> {"publish", "flush"}
      [] ev.kind = "busKeep" -> {"flush"}

(* Mutant of Handle: the worker waits for room in the jobs channel. *)
HandleBlocks ==
    LET ev == Head(queue) IN
    /\ Created /\ ~closed
    /\ queue # << >>
    /\ ev.kind # "retry" => Len(jobs) < FlushDepth
    /\ IF ev.kind = "retry"
       THEN parked' = parked \cup {ev.job} /\ UNCHANGED <<jobs, handled>>
       ELSE /\ Yield(Yields(ev))
            /\ handled' = IF ev.kind = "busKeep" THEN handled ELSE handled \cup {ev}
    /\ queue' = Tail(queue)
    /\ UNCHANGED <<procVars, batchVars, intake, halt, closed, closeErr, subVars, ch, flVars>>

(* handle, in the worker's loop and in its last drain. *)
Handle ==
    LET ev == Head(queue) IN
    /\ Created /\ ~closed
    /\ queue # << >>
    /\ IF ev.kind = "retry"
       THEN parked' = parked \cup {ev.job} /\ UNCHANGED <<jobs, handled>>
       ELSE /\ Yield(Yields(ev))
            /\ handled' = IF ev.kind = "busKeep" THEN handled ELSE handled \cup {ev}
    /\ queue' = Tail(queue)
    /\ UNCHANGED <<procVars, batchVars, intake, halt, closed, closeErr, subVars, ch, flVars>>

(* A tick drains a parked intent, or its publish has expired, which leaves *)
(* the flush, or nothing is left of it on disk either.                     *)
Tick(j) ==
    /\ Created /\ ~closed
    /\ j \in parked
    /\ \/ /\ Len(jobs) < FlushDepth
          /\ \E k \in {j, "flush"} : jobs' = Append(jobs, k)
          /\ parked' = parked \ {j}
       \/ /\ parked' \in {parked \ {j}, (parked \ {j}) \cup {"flush"}}
          /\ UNCHANGED jobs
    /\ UNCHANGED <<procVars, batchVars, handled, queue, intake, halt, closed, closeErr, subVars,
                   ch, flVars>>

(* drain is through: the buffer is closed, which may fail. *)
CloseWorker ==
    /\ halt /\ ~closed
    /\ queue = << >>
    /\ closed' = TRUE
    /\ closeErr' \in BOOLEAN
    /\ UNCHANGED <<procVars, batchVars, handled, queue, intake, halt, parked, jobs, subVars, ch,
                   flVars>>

-----------------------------------------------------------------------------
(***************************************************************************)
(* Delivery of broadcast keeps, on a goroutine of the bus.                 *)
(***************************************************************************)

(* Another instance publishes. *)
PeerPublish ==
    /\ peers < MaxPeerKeeps[bus]
    /\ sub = "live"
    /\ ch < LoopbackDepth
    /\ peers' = peers + 1
    /\ ch' = ch + 1
    /\ UNCHANGED <<procVars, batchVars, shardVars, queue, jobs, sub, dpc, flVars>>

(* The callback loads the set; with none the keep is dropped. *)
Callback ==
    /\ dpc = "select"
    /\ ch > 0
    /\ ch' = ch - 1
    /\ dpc' = IF set THEN "loaded" ELSE "select"
    /\ UNCHANGED <<procVars, batchVars, shardVars, queue, jobs, sub, peers, flVars>>

(* Loopback's select may still choose the channel after quit has closed. *)
Deliver == bus = "loopback" /\ Callback

(* The NATS library calls back until the subscription is stopped. *)
DeliverNats == bus = "nats" /\ sub = "live" /\ Callback

(* KeepFromBus takes its token and checks intake. *)
DeliverEnter ==
    /\ dpc = "loaded"
    /\ dpc' = IF intake THEN "call" ELSE "select"
    /\ UNCHANGED <<procVars, batchVars, shardVars, queue, jobs, sub, peers, ch, flVars>>

(* It gets a buffer, or stopc releases it. *)
DeliverLand ==
    /\ dpc = "call"
    /\ Room
    /\ queue' = Append(queue, BusKeep)
    /\ dpc' = "select"
    /\ UNCHANGED <<procVars, batchVars, shardVars, jobs, sub, peers, ch, flVars>>

DeliverAbort ==
    /\ dpc = "call"
    /\ stopc
    /\ dpc' = "select"
    /\ UNCHANGED <<procVars, batchVars, shardVars, queue, jobs, sub, peers, ch, flVars>>

DeliverQuit ==
    /\ dpc = "select"
    /\ sub = "cancelled"
    /\ dpc' = "done"
    /\ UNCHANGED <<procVars, batchVars, shardVars, queue, jobs, sub, peers, ch, flVars>>

-----------------------------------------------------------------------------
(***************************************************************************)
(* The flusher.                                                            *)
(***************************************************************************)

(* The jobs case of run, or a round of the last loop: gather the backlog. *)
Gather ==
    /\ fpc = "select"
    /\ jobs # << >>
    /\ batch' = [i \in 1 .. Len(jobs) |-> [job |-> jobs[i], failed |-> FALSE]]
    /\ jobs' = << >>
    /\ fpc' = "publish"
    /\ UNCHANGED <<procVars, batchVars, shardVars, queue, subVars, ch, stopc, draining, toSend>>

(* The stop case. *)
BeginDrain ==
    /\ fpc = "select"
    /\ stopc /\ ~draining
    /\ draining' = TRUE
    /\ UNCHANGED <<procVars, batchVars, shardVars, queue, jobs, subVars, ch, stopc, fpc, batch,
                   toSend>>

(* The last loop finds nothing queued. *)
FlusherExit ==
    /\ fpc = "select"
    /\ draining
    /\ jobs = << >>
    /\ fpc' = "done"
    /\ UNCHANGED <<procVars, batchVars, shardVars, queue, jobs, subVars, ch, stopc, draining,
                   batch, toSend>>

Owing == {i \in 1 .. Len(batch) : batch[i].job = "publish"}

(* Nothing to publish, or a Loopback Publish that takes its targets. *)
PublishBegin ==
    /\ fpc = "publish"
    /\ Owing = {} \/ bus = "loopback"
    /\ toSend' = IF sub = "live" THEN Cardinality(Owing) ELSE 0
    /\ fpc' = IF toSend' = 0 THEN "process" ELSE "send"
    /\ UNCHANGED <<procVars, batchVars, shardVars, queue, jobs, subVars, ch, stopc, draining,
                   batch>>

(* Mutant of PublishSend: no case for a subscriber that has quit. *)
PublishSendNoQuit ==
    /\ fpc = "send"
    /\ ch < LoopbackDepth /\ ch' = ch + 1
    /\ toSend' = toSend - 1
    /\ fpc' = IF toSend = 1 THEN "process" ELSE "send"
    /\ UNCHANGED <<procVars, batchVars, shardVars, queue, jobs, subVars, stopc, draining, batch>>

(* One keep into the subscriber's channel, or past one that has quit. *)
PublishSend ==
    /\ fpc = "send"
    /\ \/ ch < LoopbackDepth /\ ch' = ch + 1
       \/ sub = "cancelled" /\ UNCHANGED ch
    /\ toSend' = toSend - 1
    /\ fpc' = IF toSend = 1 THEN "process" ELSE "send"
    /\ UNCHANGED <<procVars, batchVars, shardVars, queue, jobs, subVars, stopc, draining, batch>>

(* A NATS Publish returns with any of the keeps failed; what landed comes  *)
(* back to this instance too, as far as its backlog holds it.              *)
PublishJoin ==
    /\ fpc = "publish"
    /\ Owing # {} /\ bus = "nats"
    /\ \E F \in SUBSET Owing :
          batch' = [i \in 1 .. Len(batch) |-> [batch[i] EXCEPT !.failed = i \in F]]
    /\ ch' \in {k \in ch .. ch + Cardinality(Owing) :
                   k > ch => sub = "live" /\ k <= LoopbackDepth}
    /\ fpc' = "process"
    /\ UNCHANGED <<procVars, batchVars, shardVars, queue, jobs, subVars, stopc, draining, toSend>>

NextJob ==
    /\ batch' = Tail(batch)
    /\ fpc' = IF Len(batch) = 1 THEN "select" ELSE "process"

(* Consumed, or refused for good. *)
Consume ==
    /\ fpc = "process"
    /\ ~Head(batch).failed
    /\ NextJob
    /\ UNCHANGED <<procVars, batchVars, shardVars, queue, jobs, subVars, ch, stopc, draining,
                   toSend>>

(* A failed publish, or a refused consume, which owes the flush alone:     *)
(* Set.Retry takes its token and checks intake.                            *)
RetryEnter ==
    /\ fpc = "process"
    /\ IF ~intake THEN NextJob
       ELSE /\ fpc' = "retry"
            /\ batch' = IF Head(batch).failed THEN batch
                        ELSE [batch EXCEPT ![1].job = "flush"]
    /\ UNCHANGED <<procVars, batchVars, shardVars, queue, jobs, subVars, ch, stopc, draining,
                   toSend>>

RetryLand ==
    /\ fpc = "retry"
    /\ Room
    /\ queue' = Append(queue, Retried(Head(batch).job))
    /\ NextJob
    /\ UNCHANGED <<procVars, batchVars, shardVars, jobs, subVars, ch, stopc, draining, toSend>>

RetryAbort ==
    /\ fpc = "retry"
    /\ stopc
    /\ NextJob
    /\ UNCHANGED <<procVars, batchVars, shardVars, queue, jobs, subVars, ch, stopc, draining,
                   toSend>>

-----------------------------------------------------------------------------
(***************************************************************************)
(* shutdown, and the unwinding of a failed start.                          *)
(***************************************************************************)

(* A failed attempt puts the set back; the caller may try again. *)
Restore ==
    /\ set' = TRUE
    /\ ppc' = "retry"

(* The swap; without a set there is nothing to do. *)
Shutdown ==
    /\ ppc \in {"started", "retry"}
    /\ set
    /\ set' = FALSE
    /\ ppc' = IF sub = "live" THEN "cancel" ELSE "stopFlusher"
    /\ UNCHANGED <<bus, conn, started, timeouts, batchVars, shardVars, queue, jobs, subVars, ch,
                   flVars>>

(* subCancel; Loopback's waits for the delivery goroutine. *)
Cancel ==
    /\ ppc = "cancel"
    /\ sub' = "cancelled"
    /\ ppc' = "cancelled"
    /\ UNCHANGED <<bus, conn, set, started, timeouts, batchVars, shardVars, queue, jobs, dpc,
                   peers, ch, flVars>>

CancelReturns ==
    /\ ppc = "cancelled"
    /\ bus = "loopback" => dpc = "done"
    /\ ppc' = "stopFlusher"
    /\ UNCHANGED <<bus, conn, set, started, timeouts, batchVars, shardVars, queue, jobs, subVars,
                   ch, flVars>>

(* flusher.stop: close stopc, once, and wait. *)
StopFlusher ==
    /\ ppc = "stopFlusher"
    /\ stopc' = TRUE
    /\ ppc' = "waitFlusher"
    /\ UNCHANGED <<bus, conn, set, started, timeouts, batchVars, shardVars, queue, jobs, subVars,
                   ch, fpc, draining, batch, toSend>>

(* Mutant of FlusherStopped: the wait is given up and shutdown goes on. *)
FlusherAbandoned ==
    /\ ppc = "waitFlusher"
    /\ ppc' = "stopSet"
    /\ UNCHANGED <<bus, conn, set, started, timeouts, batchVars, shardVars, queue, jobs, subVars,
                   ch, flVars>>

FlusherStopped ==
    /\ ppc = "waitFlusher"
    /\ fpc = "done"
    /\ ppc' = "stopSet"
    /\ UNCHANGED <<bus, conn, set, started, timeouts, batchVars, shardVars, queue, jobs, subVars,
                   ch, flVars>>

(* Set.Shutdown: intake off, quiesce, stop the worker, wait for it. *)
StopIntake ==
    /\ ppc = "stopSet"
    /\ intake' = FALSE
    /\ ppc' = "quiesce"
    /\ UNCHANGED <<bus, conn, set, started, timeouts, batchVars, handled, halt, closed, closeErr,
                   parked, queue, jobs, subVars, ch, flVars>>

Quiesced ==
    /\ ppc = "quiesce"
    /\ dpc # "call" /\ fpc # "retry"
    /\ halt' = TRUE
    /\ ppc' = "waitSet"
    /\ UNCHANGED <<bus, conn, set, started, timeouts, batchVars, handled, intake, closed,
                   closeErr, parked, queue, jobs, subVars, ch, flVars>>

(* A failed close fails the shutdown, now and on every retry; an unwinding *)
(* start goes on.                                                          *)
SetStopped ==
    /\ ppc = "waitSet"
    /\ closed
    /\ IF closeErr /\ started THEN Restore ELSE ppc' = "closeBus" /\ UNCHANGED set
    /\ UNCHANGED <<bus, conn, started, timeouts, batchVars, shardVars, queue, jobs, subVars, ch,
                   flVars>>

(* The context expires in one of the waits; unwinding waits without one. *)
ShutdownTimeout ==
    /\ started
    /\ timeouts < MaxTimeouts
    /\ \/ ppc = "waitFlusher" /\ fpc # "done"
       \/ ppc = "quiesce" /\ dpc = "call"
       \/ ppc = "waitSet" /\ ~closed
    /\ timeouts' = timeouts + 1
    /\ Restore
    /\ UNCHANGED <<bus, conn, started, batchVars, shardVars, queue, jobs, subVars, ch, flVars>>

Ended == IF started THEN "stopped" ELSE "failed"

(* closeBus: Close runs on a goroutine of its own. *)
CloseBus ==
    /\ ppc = "closeBus"
    /\ conn' = IF conn = "open" THEN "closing" ELSE conn
    /\ ppc' = IF conn = "open" THEN "waitBus" ELSE Ended
    /\ UNCHANGED <<bus, set, started, timeouts, batchVars, shardVars, queue, jobs, subVars, ch,
                   flVars>>

(* The drain waits for a delivery in flight. *)
BusCloses ==
    /\ conn = "closing"
    /\ dpc \notin {"loaded", "call"}
    /\ conn' = "closed"
    /\ UNCHANGED <<bus, ppc, set, started, timeouts, batchVars, shardVars, queue, jobs, subVars,
                   ch, flVars>>

(* Closed, or abandoned when the context expires. *)
BusClosed ==
    /\ ppc = "waitBus"
    /\ \/ conn = "closed" /\ UNCHANGED timeouts
       \/ conn = "closing" /\ timeouts < MaxTimeouts /\ timeouts' = timeouts + 1
    /\ ppc' = Ended
    /\ UNCHANGED <<bus, conn, set, started, batchVars, shardVars, queue, jobs, subVars, ch,
                   flVars>>

-----------------------------------------------------------------------------
Start      == StartBus \/ StartSet \/ StartSubscribe \/ StartDone
Processing(c) == OfferFragment(c) \/ KeepVerdict(c)
Worker     == Handle \/ CloseWorker
Delivery   == \/ Deliver \/ DeliverNats \/ DeliverEnter
              \/ DeliverLand \/ DeliverAbort \/ DeliverQuit
FlushStep  == \/ Gather \/ FlusherExit \/ PublishBegin \/ PublishSend
              \/ Consume \/ RetryEnter \/ RetryLand \/ RetryAbort
Stopping   == \/ Cancel \/ CancelReturns \/ StopFlusher \/ FlusherStopped
              \/ StopIntake \/ Quiesced \/ SetStopped \/ CloseBus \/ BusClosed

Next ==
    \/ Start
    \/ \E c \in Producers : LoadSet(c) \/ Processing(c)
    \/ Worker
    \/ \E j \in JobKinds : Tick(j)
    \/ PeerPublish
    \/ Delivery
    \/ FlushStep
    \/ BeginDrain
    \/ PublishJoin
    \/ Shutdown
    \/ Stopping
    \/ ShutdownTimeout
    \/ BusCloses

Spec == Init /\ [][Next]_vars

(***************************************************************************)
(* Fairness: every goroutine that can run does, and a select with several  *)
(* ready cases, chosen uniformly, does not pass over one for ever.  A      *)
(* channel wakes those that wait on it in order, so a caller waiting for a *)
(* buffer is not overtaken for ever.  The next consumer returns.  A NATS   *)
(* Publish need not return before stopc has closed, which is its context,  *)
(* or before the drain's own timeout.  The owner retries a shutdown that   *)
(* failed; nobody has to begin one.                                        *)
(***************************************************************************)
Fairness ==
    /\ WF_vars(Start \/ Stopping \/ (ppc = "retry" /\ Shutdown))
    /\ WF_vars(Worker)
    /\ SF_vars(Delivery)
    /\ WF_vars(FlushStep)
    /\ SF_vars(BeginDrain)
    /\ SF_vars(RetryAbort)
    /\ WF_vars(stopc /\ PublishJoin)
    /\ WF_vars(BusCloses)

FairSpec == Spec /\ Fairness

-----------------------------------------------------------------------------
(***************************************************************************)
(* Properties.                                                             *)
(***************************************************************************)
Named  == [kind : {"frag", "keep"}, from : Producers, k : 1 .. MaxBatches]
Events == Named \cup {BusKeep} \cup [kind : {"retry"}, job : JobKinds]

(* Every variable has its type. *)
TypeOK ==
    /\ bus \in BusKinds
    /\ conn \in {"none", "open", "closing", "closed"}
    /\ ppc \in {"new", "dialed", "opened", "subscribed", "started", "retry", "cancel",
                "cancelled", "stopFlusher", "waitFlusher", "stopSet", "quiesce", "waitSet",
                "closeBus", "waitBus", "stopped", "failed"}
    /\ set \in BOOLEAN /\ started \in BOOLEAN
    /\ timeouts \in 0 .. MaxTimeouts
    /\ bpc \in [Producers -> {"idle", "offer", "verdict"}]
    /\ refused \in [Producers -> BOOLEAN]
    /\ begun \in [Producers -> 0 .. MaxBatches]
    /\ promised \subseteq Named
    /\ handled \subseteq Named
    /\ queue \in Seq(Events) /\ Len(queue) <= QueueDepth
    /\ intake \in BOOLEAN /\ halt \in BOOLEAN /\ closed \in BOOLEAN /\ closeErr \in BOOLEAN
    /\ parked \subseteq JobKinds
    /\ jobs \in Seq(JobKinds) /\ Len(jobs) <= FlushDepth
    /\ sub \in {"none", "live", "cancelled"}
    /\ ch \in 0 .. LoopbackDepth
    /\ dpc \in {"none", "select", "loaded", "call", "done"}
    /\ peers \in 0 .. MaxPeerKeeps[bus]
    /\ stopc \in BOOLEAN
    /\ fpc \in {"none", "select", "publish", "send", "process", "retry", "done"}
    /\ draining \in BOOLEAN
    /\ batch \in Seq([job : JobKinds, failed : BOOLEAN])
    /\ toSend \in Nat

(* The event has been handled, or waits for a worker that will handle it. *)
OnItsWay(e) == e \in handled \/ (~closed /\ \E i \in 1 .. Len(queue) : queue[i] = e)

(* "A lost verdict with accepted fragments would silently un-decide the    *)
(* trace": the fragment and the verdict of a batch reported accepted are   *)
(* on the queue or have been handled, whenever the batch ran into a        *)
(* shutdown, a timed-out one or its retry.                                 *)
AckedNeverDropped == \A e \in promised : OnItsWay(e)

Quiet ==
    /\ fpc \in {"none", "done"}
    /\ Created => closed
    /\ queue = << >>
    /\ dpc # "call"
    /\ bus = "loopback" => dpc \in {"none", "done"}

(* A shutdown that reports success, and a start that fails, leave no       *)
(* goroutine of the processor running, nothing on the queue and no open    *)
(* connection behind; the types hold throughout.                           *)
EndedIsQuiet == TypeOK /\ (ppc \in {"stopped", "failed"} => Quiet /\ conn # "open")

(* "The bus closes last, and only once the drains have succeeded: the      *)
(* flusher's final publishes ride it": the connection is not being closed  *)
(* while the flusher or the worker still runs.                             *)
BusClosesLast == conn \in {"closing", "closed"} => fpc \in {"none", "done"} /\ (Created => closed)

(* A shutdown, retried when it fails, comes to an end with everything      *)
(* stopped, whatever the bus does, and reports success unless closing the  *)
(* buffer failed.                                                          *)
ShutdownEnds == (started /\ ~set) ~> (Quiet /\ (closeErr \/ ppc = "stopped"))

(* "safe backpressure in-process, since every consumer always makes        *)
(* progress": a Publish blocked on a full subscriber comes through, though *)
(* the subscriber waits for the worker that feeds the publisher.           *)
LoopbackPublishEnds == fpc = "send" ~> fpc # "send"
=============================================================================
