# retrosampler: verification project

retrosampler is an OpenTelemetry Collector processor for retroactive trace
sampling.  Every span is written to a short-lived disk buffer; when a span
anywhere in the fleet shows that its trace is worth keeping, a *keep* for that
trace id is broadcast, and every instance flushes the fragments of the trace it
has buffered and forwards the ones that still arrive.  This directory holds
TLA+ models of the parts of that machinery which are hard to test, the TLC runs
that check them on small instances, and TLAPS proofs, for every value of the
constants, of all of the safety properties that the passing runs check but those of
`Ingest`.

Run a check with `tlc -config <cfg> <module>` (the module as `PROJECT.json` gives it),
the proofs with `tlapm <module>` for each of `ShardSetProofs`, `ShardWorkerProofs`,
`LifecycleProofs`, `FleetProofs`, `OverloadProofs`, `BufferProofs`, `ShardPartsProofs` and
`SumTheorems`.  `PROJECT.json` maps every definition to the source
lines it models, and lists the runs, the mutants, the hazards and the theorems.

## 1. The system

```
 ConsumeTraces                       bus (Loopback or NATS JetStream)
      | fragmenter, detect             | KeepFromBus         ^ Publish
      v                                v                     |
  shards.Set ---- Offer/Keep ----> per-shard work queue      |
                                       |                     |
                                  shard worker --- jobs --> flusher --> next consumer
                                   |   |   ^                 |
                             decided  pend  +---- Retry -----+
                                   |
                             buffer.Buffer (segment files, trace index)
```

| Part | State | Operations | Modelled in |
| --- | --- | --- | --- |
| `shards.Set` hand-off, shutdown (`shards.go`) | `intake`, `inflight`, per shard `free` ring, `work` queue, `stop`, `done`, `atFloorCause`, shed counters | `Offer`, `Keep`, `KeepLocalOnly`, `KeepFromBus`, `Retry`, `Shutdown`; worker `run`, `drain` | `ShardSet` |
| shard worker (`worker.go`, `flush.go`) | decided ring, `pend`, `pendq`, the jobs channel | `handle`, `keep`, `appendFragment`, `sendJob`, `park`, `sweepPending`, `drainPending`, `tick` | `ShardWorker` |
| decided set (`decided.go`) | insertion-ordered ring, open-addressing table of sequence numbers into it | `mark`, `has`, `evict`, `rehash` | `DecidedSet`; `ShardWorker` (the ring only) |
| flusher (`flusher.go`) | batch, stop channel | `run`, `gather`, `processBatch`, `consume`, `retry`, `stop` | `ShardWorker` (its work), `Lifecycle` (its stop) |
| span buffer (`buffer.go`, `segment.go`, `record.go`) | segment files, active writer, `metas`, `readers`, `finalizedBytes`, `minGen` | `Open`, `Append`, `Collect`, `Expire`, `ExpireOldest`, `Close` | `Buffer`, `SpanBuffer` |
| trace index (`index.go`) | table, arena of loc nodes, free list | `put`, `head`, `sweep`, `compact`, `grow`, `rehash` | `TraceIndex`; `Buffer` (as one sequence of locs) |
| overload ladder (`worker.go`, `shards.go`) | shared disk total, each shard's last report and floor cause | `New`'s watermark check, `reportDisk`, `tick`'s watermark rung, `Offer`'s floor check | `Overload`; `ShardSet`, `ShardWorker` (its effects) |
| processor (`processor.go`) | set pointer, subscription, start/stop order | `start`, `processTraces`, `shutdown`, `closeBus` | `Lifecycle` |
| Loopback bus (`internal/bus`) | subscriber channels | `Publish`, `Subscribe`, cancel | `Lifecycle` |
| NATS bus (`internal/bus/natsbus`) | window of unacknowledged publishes, subscription loop | `Start`, `Publish`, `Subscribe`, cancel, `Close` | `NatsBus` (durable publish and subscribe), `Lifecycle` (the rest) |
| keep detection (`internal/detect`) | the compiled chain, fixed after `Build` | `Build`, `Eval`, `Baseline` | `Detect` |
| fragmenter (`internal/fragmenter`) | groups, chains and verdicts, reused by the next batch | `Fragment`, the encoder's size and put passes | `Encoding`, `Ingest` (`Otlp` is the reader) |
| the fleet | what each collector has on disk, decided and owes | detection, broadcast, peers' decisions, flush, crash and restart | `Fleet` |
| config, factory, telemetry, loadgen, generated code | none that changes at run time | | not modelled |

How the parts interact.  Producers and the bus subscription hand events to a
shard through two channels: `free`, which holds the shard's fixed stock of
buffers, and `work`.  The worker owns its buffer, decided set and pending map
without locks.  It hands flush jobs to the single flusher through a channel it
never blocks on: what does not fit is parked in `pend` and drained on the tick.
The flusher publishes a batch's keeps in one bus call, hands fragments to the
next consumer and sends failed work back with `Set.Retry`, which blocks for a
buffer.  The worker-to-flusher-to-worker cycle stays free of deadlock because
one of its links, the worker's, never blocks.

What is hard here: many goroutines calling the set while it is shut down, and
shut down again after a timeout; work that can fail at four places and must be
neither lost nor done twice; deadlines that are taken when an event is stamped
and used much later; a roll made of five file-system calls, each of which can
fail or be the last before a crash; tables whose slots refer to storage that moves
under them; a size pass and a write pass that must agree on every byte; keeps
that cross a network which loses, delays and replays them.  The `hazards` list in `PROJECT.json` names
each at its line with the properties aimed at it.

## 2. The models

### ShardSet

Variables are the fields of `Set` and `shard` under the source's names;
`pc`, `wpc`, `spc` are the positions of a caller, a worker and `Shutdown`.
A call of `Offer`, `Keep`, `KeepFromBus` or `Retry` is the steps `Enter` (take
the in-flight token), `CheckIntake`, `CheckFloor` (`Offer` only), `TakeBuffer` or
`ShedQueueFull` or `Abort`, `Send` and `Leave`: one step per touch of shared
state, so other goroutines run between any two.  The worker is `Dequeue`, `Recycle`,
`Tick`, `BeginDrain`, `CloseWorker`; `Shutdown` is `ShutdownBegin`,
`ShutdownQuiesced`, `ShutdownStop` (one stop channel per step), `ShutdownWait`
(the non-blocking look at `done`), `ShutdownAwait`, and `ShutdownTimeout`, after
which it may be called again.  What the worker does with an event is not looked
at here; any floor cause may come out of a tick.  `Send` and `Recycle` are guarded
by room in the channel, so that blocking would show.

### ShardWorker

One worker and the flusher.  `queue` is the work queue (an enqueue is one step,
its inner steps being ShardSet's subject), `disk` the buffer's fragments in
append order with `sealed` of them in finalized segments, `ring` the decided set,
`pend`/`pendq` the pending map and its queue from `pendqHead` on.  An event's stamp
lies up to `StampLag` before its enqueue (a caller stamps, then waits for a
buffer) and up to `StampSkew` ahead of this clock.  `handle` is `HandleFragment`,
`HandleKeep`, `HandleDuplicateKeep`, `HandleRetry`, each atomic as nothing else
touches the worker's state.  The tick is `TickBegin` (expiry, eviction, sweep)
and one step per intent of `drainPending`, because the flusher may empty the jobs
channel in between; it ends with the watermark rung (`Sacrifice`), which may
drop any finalized prefix older than the window floor, the disk total that
triggers it being left open.  The flusher is `Gather`, `Publish` (any subset of the
keeps fails), `RetryPublish`, `Consume`, `ConsumeRefused`.  Reading a trace's
fragments, appending, publishing and consuming may each fail, and a record may be corrupt
(`Unreadable`), which `Collect` skips and counts.  History
variables (`kept`, `settled`, `lastDeadline`, `localDeadline`, `outstanding`,
`credit`) record what the properties talk about.

An observation from the model: an entry of `pend` never owes a broadcast alone,
since NeedPublish enters it with NeedFlush, so the branch of `sweepPending` that
deletes an entry and leaves a tombstone in `pendq` is not taken.  It is modelled
(`Swept`) as written.

### Buffer and SpanBuffer

`Buffer` is the directory and the process memory over it.  A file is a sequence
of items, records and footers, of which the first `synced` are durable; offsets
count items, and a record has size one.  A roll is `RollFooter` (footer written
and flushed), `RollSync` (fsync, reopen, register), `RollCreate` (next generation)
and, for an append, `AppendAfterRoll`, with a failing variant at each point.
What a read at a loc's offset returns is what begins there (`Readable`): `Collect` compares
the CRC in the header it finds, and neither the id nor the length with the loc's.  In a
file with a footer among its records the offsets are off by the footer's 24n + 36
bytes.  `FooterFitsRecord` says that this is a record's length, so that a later offset is
the beginning of a neighbour; otherwise it is inside a record, and no CRC matches.
`Expire` is `ExpireBegin`, `ExpireRemove` per segment, `ExpireDeleted` (which may
roll a stale active segment) and `ExpireSweep` (any subset of the dead traces, as
the real sweep examines some slots per call; the cursor that brings it round to every
trace is `TraceIndex`'s).  Two ways to go down without
`Close`: `Kill` (what bufio holds is lost, the page cache is not) and `PowerLoss`
(of every file a prefix that contains the durable part survives, and a file of
which nothing is durable may be gone).  `Open` is recovery.  A writer whose handle
was closed by a half-done roll is modelled with its sticky bufio error.
`Faults` selects the calls that may fail in a run.

`SpanBuffer` is what the worker relies on: a sequence of fragments that grows
at the back, loses from the front only what is older than the window or was
sacrificed, and loses at most a suffix to a crash.  `Buffer!ImplementsSpanBuffer`
is the refinement, with `live` mapped to what `Collect` reaches, or, while the
process is down, to what `Open` would rebuild: a recovery that drops, revives or
reorders fragments is a violation.  `ShardWorker`'s `disk` is the same abstraction.

### TraceIndex

`x` is the index as a record with the fields of the code's struct, and every
method that changes it is an operator from record to record (`Put`, `Sweep`,
`Compact`, `Rehash`), as the index has a single owner.  The probe sequence of
`findSlot` is a sequence (`Probes`) and its end the least position with an empty slot
or the id.  A node reference is the code's `+1` form everywhere.  The hash is a
variable that any function of `Hashes` may be, fixed from the start; its high bits
select the slot.  The capacity that decides about compaction is the allocator's, so
a sweep compacts if it must at the smallest capacity and may at the largest.
`stored` and `sweeps` are history.  An observation: a `put` into a table whose
slots are all tombstones shrinks it to one slot, whatever its size was, and the
table is then rehashed back step by step.

### DecidedSet

`d` is the set as a record of the code's fields; `mark` and `evict` are operators
from record to record, as for `TraceIndex`.  A slot refers to an entry by its
sequence number, and `EntryOf` is where the ring's rebasing and the table meet: a
stale number is a lookup outside the ring, which TLC reports as an error.
Deadlines are unordered here, which is more than the worker can produce (see
section 4), and the hash is any function.

### Overload

Several shards and their one shared variable, `diskBytes`.  Everything else a tick
works on is the worker's own, so a tick is cut where it touches the total:
`TickReport` (expiry, the roll of a stale active segment, the delta), `Look` (the load
at the head of the loop and what follows from it) and `Drop` or `DropFails`
(`ExpireOldest` and the subtraction).  Another shard may report or drop between any
two.  `New`'s check of the watermark is `Accepted`, applied to the watermarks a run
offers.  Sizes are bytes in small units: a record has a header, a roll adds as much again per
record and a trailer (`Finalized`), and a record that does not fit goes into the next
segment unless the active one is empty, which a record larger than `SegmentSize` may then
exceed alone (`Append1`).  `LargestActive` and `LargestFile` are what that makes of an
active and of a finalized segment at most.

### Detect, Encoding, Otlp and Ingest

`Detect` and `Encoding` are pure operators, one per function of the code.  `Encoding`
writes bytes: the size pass and the put pass are separate, as in the code, because
that they agree is the question.  `Otlp` is a reader of the wire format that knows
nothing of the writer: `Reads...(b, x)` says that bytes `b` decode to `x`; it stands for the
pdata unmarshaler which `Decode` calls.  `Ingest` is `processTraces` on a pooled
fragmenter, call after call: `Begin` groups the batch, `Hand` is one call of `fn` with the
answers of the shard set as inputs, `Return` is what the caller sees.  64-bit integers
have `Word` values in the model, and wrap there; OTTL conditions are inputs that match,
do not match or fail.

### NatsBus and Fleet

`NatsBus` is one client per collector around a stream.  `Publish` is `PublishBegin`,
`SendNext` per keep, and per chunk `JoinBegin`, `JoinNext` per future and `JoinEnd`; its
context may end at any point, and the futures a dead context gave up on stay in the library's window (`late`) and resolve later.  The
server lands, acknowledges or refuses a message, or goes away with whatever is on the
wire; on its return the library fails every open publish.  The subscription is
`Subscribe`, `ConsumeOnce`, `Deliver` and `ConsumeEnds`, after which it replays from the start.
Server and library are external and marked so.

`Fleet` puts collectors around it, each seen from outside its threads: `disk`, `decided`,
`owed` and `flushed` abstract what `Buffer`, `DecidedSet` and `ShardWorker` model in detail.
A start subscribes first and stores the set last, a crash loses all but the disk.
`forgotten` and `missed` record the two losses the code accepts: a broadcast owed when
the process died, and a keep delivered between the subscription and the store.

### Lifecycle

The processor around one shard: `ppc` is where `start` or `shutdown` stands, `set` and
`intake` what lets a batch or a delivery in, `fpc` and `dpc` the flusher and the
delivery goroutine, `queue`, `jobs` and `ch` the three channels.  A batch is `LoadSet`,
`OfferFragment`, `KeepVerdict`, so that a shutdown may fall between any two.  A call of
the set is one step, or a step in and a step out where it blocks: its inner
steps are ShardSet's.  The worker is `Handle`, `Tick` and `CloseWorker`; what a handled
event yields is open (ShardWorker says which), and `parked` is the set of kinds
`pend` owes, as `park` merges.  The flusher's `Publish` is, on Loopback, one step per
keep handed over; on NATS it returns with any subset failed, and what landed may
come back to this instance.  The NATS server is external: its backlog for this
instance is capped by the depth of Loopback's channel, which changes nothing,
because no step of this process waits for room in it.  `start` may fail at each
of its calls and unwinds; `shutdown` may time out in each wait, puts the set back and
is called again.

Two observations, both in the model and neither contradicted by a comment.  When
closing a buffer fails, every retried shutdown returns the same error, so the
shutdown never reports success and the bus is never closed (`ShutdownEnds` says
what still holds: everything else has come to rest).  When `flusher.stop` times
out, the set is put back and takes batches again, while the flusher, once it
is through, is gone: what those batches decide is flushed by nobody.

## 3. The runs

| Run | Checks | Outcome |
| --- | --- | --- |
| `shardset` | InflightExact, SendsNeverBlock, FragmentsBeforeKeep, NothingSilentlyShed, NoStranded, ShutdownComplete, ShutdownDrains, BlockedSendsEnd | hold |
| `worker_safety` | PendqCoherent, PublishAgesFromDecision, KeptNeverLost, BroadcastExact, DecideOncePerWindow, EvictionWithinLag | hold |
| `worker_live` | NothingFromTheFuture, PublishSettles, FlushWorkEnds | hold |
| `worker_abandon` | AbandonsOnlyExpired | violated (finding) |
| `buffer_refines` | Openable, NoFalseMerge, DiskAccounted, ImplementsSpanBuffer, ReclaimsAll | hold |
| `buffer_faults` | CollectSound | holds |
| `buffer_false_merge` | NoFalseMerge | violated (finding) |
| `shard_parts` | FindsWhatWasPut, FullTurnReclaims, DecidedFound, SacrificeBounded, NeverAllPinned | hold |
| `ingest` | FragmentsFaithful, VerdictsRight, TakenWhole | hold |
| `ingest_empty_bytes` | FragmentsFaithful | violated (finding) |
| `fleet` | PublishContract, KeepSurvives, DecidedCoversStream, Completes | hold |
| `lifecycle` | AckedNeverDropped, EndedIsQuiet, BusClosesLast, ShutdownEnds, LoopbackPublishEnds | hold |

The type invariants of `ShardWorker`, `Buffer`, `Lifecycle` and `TraceIndex` are conjuncts of
`PendqCoherent`, `DiskAccounted`, `EndedIsQuiet` and `FindsWhatWasPut`; those of `ShardSet`,
`Overload`, `NatsBus` and `Fleet` are parts of what is proved.  `ingest` draws its byte attributes from non-empty ones, because of the finding;
`ingest_empty_bytes` adds the empty one.

Each property has a mutant: a plausible slip in the code (a dropped guard, a
stale check, a missing reset) under which TLC finds the property violated.

**Bounds.**  *ShardSet*: a producer, which is refused at a full queue, and the flusher,
which waits for a buffer, are the two kinds of caller; a queue depth of 2 with two
calls each lets the queue be empty, partly full and full, and two events of one caller
be in flight together; one timeout lets `Shutdown` time out in the quiesce or in the wait
and be called again.  There is one shard, since shards meet only in `Shutdown`'s
loops over them, and the proofs cover those for any number.  *ShardWorker*: two
traces, three arrivals, a flush channel of one: enough for a trace to be
decided, fail, be evicted and be decided again, with another trace occupying the
channel.  The clock runs to one past the window, so entries expire.
In `worker_safety` the second arrival, if it is a fragment, is corrupt on disk, between two that
are not; in `worker_live` the first is.
*Buffer*: segments of two records (`buffer_refines`), three or four appends and two crashes
give up to four generations, a torn tail and a recovery on top of a recovery; inputs end
while the clock still runs, so that everything can be reclaimed.  `buffer_faults` and
`buffer_false_merge` have segments of three, so that records can follow a footer that a
failed roll left.
*TraceIndex*: three traces, four puts and three generations take the table from
two slots to one, four and eight, with tombstones in front of, and around the wrap
from, a live slot, and let a swept trace come back and die again; the hash sends each
trace to the first or the last slot.
*DecidedSet*: four traces in a table of four slots, which the third fills to its load
limit, and six marks: entries are evicted, marked again over a tombstone, rehashed to
eight slots and back, and compacted in both of the ways.
*Overload*: two shards, segments of two units, records of one, two and five, the last
larger than a segment, and recovered files of seven, the largest there can be.  Under the
watermark 9 (3 is one that `New` refuses) two recovered files bring both shards to a `Drop` for
the same excess, and two appends make a full segment, a rolled one with its footer, or an
oversize one; the clock passes the window and the floor.
*Ingest*: one span for either side of every condition of the chain and one with every
field and value type set, in batches of three spans over one or more scopes and
resources; lengths of 127, 128 and 130 cross a varint's byte, a `Word` of 2^16 puts the
overflow test's edge within reach, and each batch follows one that leaves other groups
and verdicts behind.
*Fleet*: two collectors that share one trace, the first having another too, so that its
batch is two chunks of a window of one; one fault of any kind at any point.
*Lifecycle*: every channel is one deep; three keeps of other instances fill
Loopback's channel, its delivery goroutine and the queue, so that a `Publish` waits
behind all of them while the worker it depends on finds `jobs` full (with two, a
worker that blocks on `jobs` would go unnoticed); one batch gives the fragment and
the verdict, one timeout a shutdown that is retried at each point.
Counters named `Max...`, and `LastStamp`, `LastInput`, are bounds of the model and
not of the code; the last two stop inputs while the clock still runs, so that
expiry can be seen to finish.  Deadlock checking is off in all runs because the
inputs are bounded and a set that was shut down stops for good; that nothing gets
stuck before is what SendsNeverBlock and the liveness properties say.
Symmetry over trace ids is used for safety runs only.  `shard_parts` is three
modules that share no state in one run: a behaviour exercises one of them.

**Fairness.**  `ShardSet`: weak fairness of every goroutine's next step (the Go
scheduler), strong fairness of the worker's `stop` case (a `select` picks uniformly
among ready cases, so a case that is ready again and again is picked), and an
owner that retries a timed-out `Shutdown`.  Nobody has to start a call, close
an abort channel or begin the first `Shutdown`.  `ShardWorker`: strong
fairness of the queue and tick cases of the same `select`, weak fairness of the
drain and the clock, and strong fairness of the flusher, whose step `Retry` waits
on a channel that other senders fill too (Go channels serve waiters in order).
Bus and consumer may fail for ever.  `Lifecycle`: weak fairness of the goroutine
that starts and stops the processor, of the worker and of the flusher (so the next
consumer returns); strong fairness of the delivery goroutine, since a channel
serves those who wait for it in order, and of the stop cases of the flusher's two
`select`s; a NATS `Publish` has to return only after `stopc` was closed, which is its
context, or by the drain's timeout; a failed shutdown is retried, nobody has to
begin one.  `Buffer`: the ticker calls `Expire` again
and again, a started operation goes on, a process that is down is restarted, the
removal of a file that is tried again and again does not fail for ever, and sweeps that
could free a trace again and again do free it (strong fairness per trace), which
`TraceIndex` justifies: the cursor goes on where it stopped and a full turn of it reclaims
every dead chain (`FullTurnReclaims`).  `Fleet`: goroutines that can
run do, outages end, a message on a live connection lands and is acknowledged; the
flusher gets to flush between two publishes (strong fairness, as each publish takes it
away for a while).  No context has to end and no fault has to happen.

## 4. Where code and documentation disagree

* **Abandoned too early** (`worker_abandon`).  `park` keeps the first deadline of an
  entry.  When a failed publish of an earlier, already evicted decision is still
  parked, a new local verdict for the trace merges into it and its broadcast can
  be swept at the old deadline, before it was ever tried.
* **A failed fsync can merge traces** (`buffer_false_merge`).  `buffer.go:408-409` says that a roll
  failure leaves the active segment as it is, and ADR-006 that a false trace merge is a
  correctness bug.  When the fsync of a stale segment's roll fails, the footer is already in
  the file, and the writer's offsets do not count it.  Where it is as long as the records
  that follow (four records make a footer of 132 bytes), a later loc leads to the next record,
  whose CRC is right, and `Collect` returns a fragment of another trace under the id asked for;
  at other lengths the CRC does not match and the records are lost.  The retried roll
  writes a second footer, whose offsets do not fit, and a later `Open` refuses the directory.
  `NoMergeUnlessSyncFails` proves that no other fault merges traces.
* **An empty byte attribute** (`ingest_empty_bytes`).  The size pass counts it, the put pass
  omits it, and the fragment cannot be decoded: the flusher drops the spans.

The ADR gives the loss of the current segment as the bound on what a crash may
cost; the failed fsync exceeds it.  `buffer_refines` shows that without a failed fsync
or a kill before a power loss the bound holds.

More, of which no run is kept:

* A roll whose next file cannot be created (`buffer.go:313`) does not leave the active segment
  as it is either: it is finalized, closed and registered, and stays the active one, so
  later appends report success and cannot be read.  `Buffer` has it (`RollCreateFails`).
* `shards.go:221-224` refuses a watermark that the active segments alone can reach, so that it
  cannot come to every tick shedding all ingest.  `Append` lets a record of up to 64 MiB into
  an empty segment (`buffer.go:265`), which the arithmetic does not count: with such
  records in the active segments all shards may be shedding with nothing to reclaim until the
  segments go stale and are rolled.
  `NeverAllPinned` therefore says "while no active segment is larger than `SegmentSize`", and
  `shard_parts` reaches the other case.
* `decided.go:45` says deadlines are monotone per shard.  A deadline comes from
  the stamp a caller took before it waited for a buffer, so two keeps may be marked
  in the opposite order, and the expired one waits behind the live one.
  `EvictionWithinLag` bounds the effect: no more than the time between stamp and
  enqueue.
* A process killed between a roll's footer and its fsync leaves a footer in the
  page cache, which the next `Open` takes for durable (`buffer.go:203`); a power loss after
  that leaves a directory that is refused.  `Buffer` shows it when `Kill` and
  `PowerLoss` are both allowed, which is why `buffer_refines` has power losses and
  orderly restarts only, and `Openable` promises no more than that.
* `processor.go:205-207` says that a keep which arrives between `Subscribe` and the store of
  the set "costs nothing", as the instance "has buffered no spans to flush".  After a
  restart it has: the fragments recovered from disk, whose keeps the durable bus replays
  just then.  `Fleet` has it as `missed`, which `DecidedCoversStream` and `Completes` except.
* `docs/adrs/008-keep-decision-semantics.md:87` says of a bus outage that "local keeps still flush own fragments".
  The flusher publishes before it consumes, in one goroutine, under a context that only
  `stop` ends, so nothing is flushed until the library fails the publish or the bus is
  back.  `Completes` therefore needs outages to end.
* `natsbus.go:319` says that `Dropped` "neither double-counts nor gaps" when a subscription is
  cancelled.  `Dropped` loads `droppedGone` before it takes the lock, so a cancel in between
  is missed by that one reading.  Counters are not modelled.
* An integer t0 attribute near the low end of int64 wraps the age computed from it to a
  negative one, which is clamped, so `trace_age_threshold` does not fire; `Detect` has the
  wrap, and no span of the run is that old.

## 5. The proofs

A component's proofs are in a module of their own, which begins with the inductive
invariant (`ShardSet`, `Overload`, `NatsBus` and `Fleet`, where it is short or built from
properties, end with it).  Each invariant was checked with TLC, on instances like those of the runs
and with a witness for what it quantifies over all values (the lists of `XInv` are then
the chains read off the arena).  Every theorem is about `Spec`,
holds for every value of the constants that satisfies the `ASSUME`s of the component's
module (which TLC evaluates in each run; those of the two tables are in `ShardParts`, whose
instances `D` and `X` they are), and uses no fairness.

| Theorem | States |
| --- | --- |
| **`ShardSetProofs`** | |
| `TypeCorrect` | `Spec => []TypeOK` |
| `InflightIsExact` | the count `Shutdown` spins on is the number of callers inside an entry point |
| `SendsDoNotBlock` | the two sends without a `default` never find a full channel |
| `NothingStranded` | a closed worker's queue stays empty and nothing accepted is unhandled |
| `ShutdownIsComplete` | a `Shutdown` that returns has drained every shard |
| `FragmentsPrecedeKeep` | a caller's events on a shard are handled in the order it sent them |
| `ShedsAreCounted` | what producers offered is under way, accepted or counted as shed, each once |
| **`ShardWorkerProofs`** | |
| `ParkedOnce` | `PendqCoherent`: a parked intent is in the drain's queue exactly once |
| `ClampHolds` | `NothingFromTheFuture`, whatever clocks the producers have |
| `RetriesAge` | `PublishAgesFromDecision`: no retry makes a broadcast younger |
| `NothingKeptIsLost` | `KeptNeverLost`: a stored fragment of a decided trace is delivered, refused for good or still owed |
| `EachVerdictBroadcast` | `BroadcastExact`: a verdict is acked, abandoned or owed, and acked no more often than decided |
| `DecidedOnce` | `DecideOncePerWindow` |
| `EvictsInTime` | `EvictionWithinLag` |
| `WorkerInvariant` | `Spec => []WorkerInv` |
| **`LifecycleProofs`** | |
| `LifecycleInvariant` | `Spec => []LifecycleInv` |
| `PromisesKept` | `AckedNeverDropped` |
| `BusLast` | `BusClosesLast` |
| `EndsQuietly` | `EndedIsQuiet` |
| **`FleetProofs`** | |
| `FleetInvariant` | `Spec => []FleetInv` |
| `PublishKeepsItsContract` | `PublishContract` |
| `VerdictsSurvive` | `KeepSurvives` |
| `DeliveriesDecided` | `DecidedCoversStream` |
| **`OverloadProofs`** | |
| `LadderInvariant` | `Spec => []LadderInv` |
| `SacrificeIsBounded` | `SacrificeBounded`, for any number of shards and sizes of records |
| `NotAllPinned` | `NeverAllPinned`, records larger than a segment included |
| **`BufferProofs`** | |
| `BufferInvariant` | `Spec => []BufferInv` |
| `CollectIsSound` | `CollectSound`, with every fault, if `UnmixedCrashes` |
| `NoMergeUnlessSyncFails` | `NoFalseMerge`, if no fsync fails |
| `OpensAgain` | `Openable`, if `UnmixedCrashes` and no fsync fails |
| `DiskIsAccounted` | `DiskAccounted`, if only removals and writes fail |
| `SpanInvariant` | `Spec => []SpanInv`, if `UnmixedCrashes` and only removals fail |
| `BufferImplementsSpanBuffer` | `ImplementsSpanBuffer`, under the same conditions |
| **`ShardPartsProofs`** | |
| `DecidedSound` | `Spec => []SetInv` |
| `DecidedIsFound` | `DecidedFound`, for every hash function |
| `IndexSound` | `Spec => []XInv` |
| `IndexFindsWhatWasPut` | `FindsWhatWasPut`, for every hash function |
| `IndexReclaimed` | `FullTurnReclaims` |
| `PartsHold` | the same three properties, of `PartsSpec` |

### The arguments

**ShardSet.**  One inductive invariant,
`IndInv == TypeOK /\ InflightExact /\ BuffersConserved /\ QuiesceInv /\ PlaceInv`.
`SendsNeverBlock` follows from `BuffersConserved`: who holds a buffer is counted, so
the channel it goes to has room.  `NoStranded` is not inductive: a state with a
worker closed and a caller past the intake check satisfies it until the caller
sends.  What rules such a state out is history: stop is signalled only behind a
quiesce that read `inflight = 0`, `inflight` counts exactly the callers holding a token
(`InflightExact`), and since intake never comes back on nobody gets past the check
afterwards (`QuiesceInv`).  `PlaceInv` says where an accepted event can be and what
the wait loop has seen, which is what "closed" must be combined with to conclude
that everything was handled.  For the order, `OrderInv` numbers a caller's events by
its calls and says that queue and hands hold them ascending; a send is behind the
rest because it carries the caller's latest number.  For the account, that number
makes the accepted event a new one, and `RoleInv` makes each one that is shed a
producer's, so a step moves one unit between the four amounts.

**ShardWorker.**  `WorkerInv` has a part for each question.  `NeedsInv` is the fact that no
intent is owed to the bus alone: the sweep then never deletes an entry under the
drain's queue, and `PendqCoherent` is inductive with it.  `KeptNeverLost` needs
`StoredInv`: a fragment has a number of its own, is waiting or stored, and a job holds
stored fragments of its own trace, so that a job which settles fragments settles the
right ones.  `BroadcastExact` has two halves: `OutstandingInv` says where an unacked
verdict is, and `CreditInv` bounds the number of places a broadcast of the trace can
be at (parked, in jobs, in the batch until acked, in retries on the queue) by the local
decisions not yet paid for; each step moves a place or pays for one.
`DecidedInv` keeps the latest decision in the ring until its deadline, which gives
`DecideOncePerWindow`.  `LagInv` says how far stamps can be out of order, on the queue, in the
ring and between them, which gives `EvictionWithinLag`.

**Lifecycle.**  `Control` says, a part a conjunct, what is down at which step of start and
shutdown: the flusher ends by its own drain and before intake is off, intake is off
with nobody inside before the worker's stop, a worker that has closed has left nothing.
`BusClosesLast` and `EndedIsQuiet` are read off it.  `AckedNeverDropped` needs `BatchInv`
besides: the fragment of a batch whose verdict is still to come has not been lost.

**NatsBus and Fleet.**  `CallOK` is about one `Publish`: behind the join every keep has been
reported or has landed (`CallCovered`), ahead of it a keep has been reported only if it
was never sent (`CallReported`), and a join begins with every future resolved unless the
context is dead (`CallResolved`).  The first gives "in the stream or failed", the second
"reported once".  `FleetInv` adds that what was delivered is decided or was missed.

**Overload.**  `DropInv` is the strengthening of `SacrificeBounded`: what a pending drop may
rely on is a segment less for every shard that is *not* about to drop, so a shard that
drops uses up its own allowance, and a shard that joins has just seen the total above the
watermark, which renews that of all.  A drop takes `LargestFile` at most: a footer entry is
no longer than a record's header, so a segment of several records at most doubles, and
one with a single record larger than a segment gets one entry; `Actives` carries that.
`NeverAllPinned` is inductive with these: a shard that
ended its tick with nothing to reclaim has reported an active segment at most and
reports nothing else before its next tick.  If all had, and none of them more than
`SegmentSize`, the total would be at or below `N * SegmentSize`, which `New` makes less than
the watermark; but the last of them saw it above (`NotAllLow`).

**Buffer.**  `BufferInv` relates the directory, the writer, the registered segments and the
index.  `GenInv` says which generations there are, `DurableInv` what of them a power loss
cannot touch.  `FileInv` says that a footer which is where it claims to be lists the
records ahead of it, and `NumberInv` that records are numbered in append order across
files.  `ActiveInv` carries it through failed rolls: the active file either
holds the writer's records alone, or a footer lies ahead of the next record's place, so
that the record put there is not in its place.  With `IdxInv` (locs ascend, none is past the
writer, and one whose record is in its place leads to a record of its trace) a file that
grows cannot put an old loc's record back in its place, and what recovery rebuilds
lists what is there.  `CollectSound` follows: what is read at ascending offsets of files
whose records are numbered in append order comes in that order, shifted or not; and in a
file whose footers have no record behind them (`Whole`) every record is in its place.
`WholeInv` says that all files stay so while no fsync fails, since only a failed fsync
leaves a writer going on behind a footer; `NoFalseMerge` is then the same statement.
`FooterInv` holds while no fsync fails: what is registered has its footer, so that a crash
leaves at most the newest file without one.  `BytesInv` sums the sizes.

`BufferImplementsSpanBuffer` maps `live` to the fragments a trace's walk reaches, over all
traces, in append order.  What is reached depends on the index, the registered segments, the
writer and the files at once, so the proof goes through one fact: as long as no file
operation but a removal fails, what a walk reaches is what the directory stores, from the
oldest generation that counts on (`LiveIsKept`).  `SpanInv` is what that takes: footers are
where they claim to be, the clock is not behind a record, every record of a
generation that counts has its loc, and the writer's view is the file's.  A step then changes
the stored records in one of four ways: not at all, one more at the end (an append), some
fewer at the end (a power loss), some fewer at the front (an expiry), and these are
`SpanBuffer`'s actions.

The theorems' conditions are where the code stops keeping the promise.
`UnmixedCrashes` (one crash, kills only or power losses only) excludes a kill between a
footer and its fsync that is followed by a power loss (section 4).  A roll whose fsync
fails is retried and may leave a second footer, whose offset does not fit: the file is then
no segment that can be recovered unless it is the newest.  A roll that fails to reopen or
to create leaves a segment that is closed and still active, whose directory and size
are not the file's.  All conditions are
on `Faults`, `CrashKinds` and `MaxCrashes` only; every passing run of `Buffer` that checks one
of the properties satisfies its theorem's.

**DecidedSet.**  `DecidedFound` is not inductive: that a probe passes a tombstone says nothing
of where it began.  `SetInv` says that each slot in use refers to one live entry of the ring and
each live entry has such a slot, and that a probe for the entry's trace gets to it over slots
that are not empty (`Reached`).  No step but a rehash empties a slot, so what was reached stays so.
The load factor (`Roomy`, at most one entry past three quarters) leaves an empty slot at
which a probe for an absent trace ends.  A rehash begins with an empty table, and enters the ring's
entries in order; during it the invariant holds for the part of the ring already entered, which
is why `Sound` has the last such entry as a parameter.  Compaction moves ring and
base by the same amount.

**TraceIndex.**  `FindsWhatWasPut` speaks of the chains that a walk of the arena yields, and a
walk says nothing until it is known to end.  `XInv` therefore names the lists instead of
walking them: there is a function `W` from the traces, and from one more key for the free list,
to sequences of nodes, such that the arena links each node to its successor in
`W`, no node is in two places of `W`, and every node is in one (`Laid`).  From that the
walk from a slot's head is `W`'s sequence (`ChainIs`), and the partition of the arena is a
count.  The rest of `XInv` is the table (each live slot has a trace of its own, is where a probe
for it gets to and points to the two ends of its chain; the counters are cardinalities);
the history (`Recorded`: the locs of a chain that exist are `stored`, the newest is the last,
and none is newer than the active segment); and the sweeps (`Turned`).  Each operation is
a change of `W`: a put takes the first free node, or a new one, to the end of one sequence; a
sweep moves whole sequences, backwards, to the front of the free list; a rehash leaves `W`
alone; a compaction renames the nodes.  That a sweep may drop a chain for the
generation of its tail is the part of `Recorded` about the newest loc: all of the chain is then of
segments that are gone, so nothing of it is in `stored`.  `Turned` says that no trace is dead in
the `sweeps * SweepChunk` slots behind the cursor, counted round the table; a sweep adds the slots
it looks at and clears the dead ones among them, and when there are at least as many as
the table has slots, every slot is one of them.  The cursor need not be in the table
for this, which is as well: a rehash to a smaller table leaves it where it was.

### Induction over data

Sums appear in three of these: over callers and counters, over shards and segments, and
over files.
`SumTheorems` proves what is needed of the library's `SumFunctionOnSet`: it counts
pairs of an index and a unit (`SumCounts`), from which the rest follows by
cardinalities.  The induction over the recursive fold is done with the least-number
principle (from `WFMin`): of the subsets on which two folds differ, one of least
cardinality is contradictory.  The same is done there for `FlattenSeq`, which recovery, the
sweeps and the compaction are written with: its recursive function exists, and pieces that
ascend make a whole that ascends.  `ShardPartsProofs` does it for the loops of `rehash` and
`evict`, for the walk of a chain, and for `Since`, loc by loc: the recursive function of
the loop exists, and its first state that breaks the invariant is contradictory.

### Only model-checked

* All liveness (`ShutdownDrains`, `BlockedSendsEnd`, `PublishSettles`, `FlushWorkEnds`,
  `ReclaimsAll`, `Completes`, `ShutdownEnds`, `LoopbackPublishEnds`): the prover has no
  reasoning about fairness or ENABLED.
* `FragmentsFaithful`, `VerdictsRight`, `TakenWhole`: what `Encoding` and `Otlp` compute is
  recursive.
* The violated properties, of which the run shows the counterexample.

## 6. Not modelled

Not modelled for good: record headers and CRC (beyond which record, if any, begins where a
read looks; that bytes which are no record pass for one by chance is left out),
OTTL evaluation, the NATS server and client library (beyond what the code relies on),
NATS core mode, which keeps no state between a publish and the connection's buffer,
configuration, metrics, the load generator, generated code.
Byte-level contents of a torn tail are outside the model; see the hazard at
`segment.go:278`.  The routing of a trace to a shard is not modelled, so neither is a
restart with another number of shards (`processor.go:162`), after which a trace may be
looked for in another directory than the one its recovered fragments are in.
