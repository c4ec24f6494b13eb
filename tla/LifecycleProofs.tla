-------------------------- MODULE LifecycleProofs --------------------------
(***************************************************************************)
(* Proofs, for any number of producers, any depth of the channels and any  *)
(* bounds, of the safety properties of Lifecycle.                          *)
(***************************************************************************)
EXTENDS Lifecycle, FiniteSetTheorems, SequenceTheorems, TLAPS

-----------------------------------------------------------------------------
(***************************************************************************)
(* The inductive invariant: which parts are down at which step of the      *)
(* lifecycle, one part a conjunct.                                         *)
(***************************************************************************)
AfterBus     == {"waitBus", "stopped", "failed"}
AfterSet     == AfterBus \cup {"closeBus"}
AfterHalt    == AfterSet \cup {"waitSet"}
AfterIntake  == AfterHalt \cup {"quiesce"}
AfterFlusher == AfterIntake \cup {"stopSet"}
AfterCancel  == AfterFlusher \cup {"stopFlusher", "waitFlusher", "retry"}

(* A start that failed before the set was made has left nothing behind. *)
Uncreated ==
    ~Created =>
      /\ ppc \in {"new", "dialed"} \cup AfterSet
      /\ queue = << >> /\ ~intake /\ ~halt /\ ~closed
      /\ ~started /\ sub = "none" /\ dpc = "none"

(* The flusher goes down by its own drain, and before the intake, and what *)
(* it is working on is in its batch.                                       *)
FlusherInv ==
    /\ ppc \in {"new", "dialed"} => ~Created
    /\ ppc \in AfterFlusher => fpc \in {"none", "done"}
    /\ fpc \in {"publish", "send", "process", "retry"} => batch # << >>
    /\ fpc = "send" => toSend > 0

(* The intake goes before the worker's stop, with nobody left inside, and  *)
(* a worker that has closed has left nothing.                              *)
WorkerInv ==
    /\ ppc \in AfterIntake => ~intake
    /\ ppc \in AfterHalt /\ Created => halt
    /\ ppc \in AfterSet /\ Created => closed
    /\ closed => halt /\ queue = << >>
    /\ halt => ~intake /\ fpc = "done" /\ dpc # "call"

(* The subscription: a retry of shutdown finds it cancelled, and the       *)
(* cancel of a Loopback one has waited for its goroutine.                  *)
SubInv ==
    /\ ppc \in {"subscribed", "started", "cancel"} <=> sub = "live"
    /\ started => sub # "none"
    /\ ppc = "retry" => started
    /\ sub = "none" => dpc = "none"
    /\ ppc = "cancelled" => sub = "cancelled"
    /\ bus = "loopback" /\ ppc \in AfterCancel => dpc \in {"none", "done"}

(* The connection. *)
ConnInv ==
    /\ ppc = "new" => conn = "none"
    /\ conn \in {"closing", "closed"} => ppc \in AfterBus
    /\ ppc \in AfterBus => conn # "open"

(* The fragment of a batch whose verdict is to come has not been lost. *)
BatchInv ==
    \A c \in Producers :
      /\ bpc[c] # "idle" => begun[c] > 0
      /\ bpc[c] = "verdict" /\ ~refused[c] => OnItsWay(Frag(c))

Control == Uncreated /\ FlusherInv /\ WorkerInv /\ SubInv /\ ConnInv

LifecycleInv == TypeOK /\ Control /\ BatchInv /\ AckedNeverDropped

USE KnownBuses, LifecycleDepths, LifecycleBounds

-----------------------------------------------------------------------------
(***************************************************************************)
(* The flusher's batch.                                                    *)
(***************************************************************************)
Jobs == [job : JobKinds, failed : BOOLEAN]

(* Counting the keeps of a batch gives a number. *)
LEMMA OwingCounted ==
    ASSUME batch \in Seq(Jobs)
    PROVE  Cardinality(Owing) \in Nat
<1>1. Len(batch) \in Nat
  OBVIOUS
<1>2. IsFiniteSet(1 .. Len(batch))
  BY <1>1, FS_Interval
<1>3. IsFiniteSet(Owing)
  BY <1>2, FS_Subset DEF Owing
<1>4. QED
  BY <1>3, FS_CardinalityType

(* The next job comes from what is left of the batch. *)
LEMMA NextJobAdvances ==
    ASSUME batch \in Seq(Jobs), batch # << >>, NextJob
    PROVE  /\ batch' \in Seq(Jobs)
           /\ fpc' \in {"select", "process"}
           /\ fpc' = "process" => batch' # << >>
<1>1. Len(batch) \in Nat \ {0}
  BY EmptySeq
<1>2. batch' \in Seq(Jobs) /\ Len(batch') = Len(batch) - 1
  BY <1>1, HeadTailProperties DEF NextJob
<1>3. fpc' = "process" => Len(batch') # 0
  BY <1>1, <1>2 DEF NextJob
<1>4. QED
  BY <1>1, <1>2, <1>3, EmptySeq DEF NextJob

-----------------------------------------------------------------------------
(***************************************************************************)
(* The order in which the parts go down.                                   *)
(***************************************************************************)

(* A step of start keeps the order in which the parts go down. *)
LEMMA ControlStart ==
    ASSUME TypeOK, Control,
           StartBus \/ StartSet \/ StartSubscribe \/ StartDone
    PROVE  Control'
<1> USE DEF TypeOK, Control, Uncreated, FlusherInv, WorkerInv, SubInv, ConnInv, Created,
            AfterCancel, AfterFlusher, AfterIntake, AfterHalt, AfterSet, AfterBus,
            procVars, batchVars, shardVars, subVars, flVars
<1>1. CASE StartBus
  BY <1>1 DEF StartBus
<1>2. CASE StartSet
  BY <1>2 DEF StartSet
<1>3. CASE StartSubscribe
  BY <1>3 DEF StartSubscribe
<1>4. CASE StartDone
  BY <1>4 DEF StartDone
<1>5. QED
  BY <1>1, <1>2, <1>3, <1>4

(* A step of a producer keeps the order in which the parts go down. *)
LEMMA ControlBatch ==
    ASSUME TypeOK, Control, NEW c \in Producers,
           LoadSet(c) \/ OfferFragment(c) \/ KeepVerdict(c)
    PROVE  Control'
<1> USE DEF TypeOK, Control, Uncreated, FlusherInv, WorkerInv, SubInv, ConnInv, Created,
            AfterCancel, AfterFlusher, AfterIntake, AfterHalt, AfterSet, AfterBus,
            procVars, batchVars, shardVars, subVars, flVars
<1>1. CASE LoadSet(c)
  BY <1>1 DEF LoadSet
<1>2. CASE OfferFragment(c)
  BY <1>2 DEF OfferFragment
<1>3. CASE KeepVerdict(c)
  BY <1>3 DEF KeepVerdict, Report
<1>4. QED
  BY <1>1, <1>2, <1>3

(* A step of the worker keeps the order in which the parts go down. *)
LEMMA ControlWorker ==
    ASSUME TypeOK, Control, NEW j \in JobKinds,
           Handle \/ CloseWorker \/ Tick(j)
    PROVE  Control'
<1> USE DEF TypeOK, Control, Uncreated, FlusherInv, WorkerInv, SubInv, ConnInv, Created,
            AfterCancel, AfterFlusher, AfterIntake, AfterHalt, AfterSet, AfterBus,
            procVars, batchVars, shardVars, subVars, flVars
<1>1. CASE Handle
  BY <1>1 DEF Handle, Yield
<1>2. CASE CloseWorker
  BY <1>2 DEF CloseWorker
<1>3. CASE Tick(j)
  BY <1>3 DEF Tick
<1>4. QED
  BY <1>1, <1>2, <1>3

(* A step of the bus's delivery keeps the order in which the parts go down. *)
LEMMA ControlDelivery ==
    ASSUME TypeOK, Control,
           PeerPublish \/ Deliver \/ DeliverNats \/ DeliverEnter \/
           DeliverLand \/ DeliverAbort \/ DeliverQuit
    PROVE  Control'
<1> USE DEF TypeOK, Control, Uncreated, FlusherInv, WorkerInv, SubInv, ConnInv, Created,
            AfterCancel, AfterFlusher, AfterIntake, AfterHalt, AfterSet, AfterBus,
            procVars, batchVars, shardVars, subVars, flVars
<1>1. CASE PeerPublish
  BY <1>1 DEF PeerPublish
<1>2. CASE Deliver
  BY <1>2 DEF Deliver, Callback
<1>3. CASE DeliverNats
  BY <1>3 DEF DeliverNats, Callback
<1>4. CASE DeliverEnter
  BY <1>4 DEF DeliverEnter
<1>5. CASE DeliverLand
  BY <1>5 DEF DeliverLand
<1>6. CASE DeliverAbort
  BY <1>6 DEF DeliverAbort
<1>7. CASE DeliverQuit
  BY <1>7 DEF DeliverQuit
<1>8. QED
  BY <1>1, <1>2, <1>3, <1>4, <1>5, <1>6, <1>7

(* A step of the flusher keeps the order in which the parts go down. *)
LEMMA ControlFlusher ==
    ASSUME TypeOK, Control,
           Gather \/ BeginDrain \/ FlusherExit \/ PublishBegin \/
           PublishSend \/ PublishJoin \/ Consume \/ RetryEnter \/
           RetryLand \/ RetryAbort
    PROVE  Control'
<1> USE DEF TypeOK, Control, Uncreated, FlusherInv, WorkerInv, SubInv, ConnInv, Created,
            AfterCancel, AfterFlusher, AfterIntake, AfterHalt, AfterSet, AfterBus,
            procVars, batchVars, shardVars, subVars, flVars
<1>1. CASE Gather
  BY SMTT(40), <1>1 DEF Gather
<1>2. CASE BeginDrain
  BY <1>2 DEF BeginDrain
<1>3. CASE FlusherExit
  BY <1>3 DEF FlusherExit
<1>4. CASE PublishBegin
  BY <1>4, OwingCounted DEF PublishBegin, Jobs
<1>5. CASE PublishSend
  BY <1>5 DEF PublishSend
<1>6. CASE PublishJoin
  <2>1. PICK F : batch' = [i \in 1 .. Len(batch) |-> [batch[i] EXCEPT !.failed = i \in F]]
    BY <1>6 DEF PublishJoin
  <2>2. batch' # << >>
    BY <1>6, <2>1 DEF PublishJoin
  <2>3. QED
    BY <1>6, <2>2 DEF PublishJoin
<1>7. CASE Consume
  BY <1>7, NextJobAdvances DEF Consume, Jobs
<1>8. CASE RetryEnter
  <2>1. CASE intake
    <3>1. batch' # << >>
      BY <1>8, <2>1 DEF RetryEnter
    <3>2. QED
      BY <1>8, <2>1, <3>1 DEF RetryEnter
  <2>2. CASE ~intake
    BY <1>8, <2>2, NextJobAdvances DEF RetryEnter, Jobs
  <2>3. QED
    BY <2>1, <2>2
<1>9. CASE RetryLand
  <2>1. ppc \notin AfterIntake /\ ~halt
    BY <1>9 DEF RetryLand
  <2>2. QED
    BY <1>9, <2>1, NextJobAdvances DEF RetryLand, Jobs
<1>10. CASE RetryAbort
  BY <1>10, NextJobAdvances DEF RetryAbort, Jobs
<1>11. QED
  BY <1>1, <1>2, <1>3, <1>4, <1>5, <1>6, <1>7, <1>8, <1>9, <1>10

(* A step of shutdown keeps the order in which the parts go down. *)
LEMMA ControlStop ==
    ASSUME TypeOK, Control,
           Shutdown \/ Cancel \/ CancelReturns \/ StopFlusher \/
           FlusherStopped \/ StopIntake \/ Quiesced \/ SetStopped \/
           ShutdownTimeout \/ CloseBus \/ BusCloses \/ BusClosed
    PROVE  Control'
<1> USE DEF TypeOK, Control, Uncreated, FlusherInv, WorkerInv, SubInv, ConnInv, Created,
            AfterCancel, AfterFlusher, AfterIntake, AfterHalt, AfterSet, AfterBus,
            procVars, batchVars, shardVars, subVars, flVars
<1>1. CASE Shutdown
  BY <1>1 DEF Shutdown
<1>2. CASE Cancel
  BY <1>2 DEF Cancel
<1>3. CASE CancelReturns
  BY <1>3 DEF CancelReturns
<1>4. CASE StopFlusher
  BY <1>4 DEF StopFlusher
<1>5. CASE FlusherStopped
  BY <1>5 DEF FlusherStopped
<1>6. CASE StopIntake
  BY <1>6 DEF StopIntake
<1>7. CASE Quiesced
  BY <1>7 DEF Quiesced
<1>8. CASE SetStopped
  BY <1>8 DEF SetStopped, Restore
<1>9. CASE ShutdownTimeout
  BY <1>9 DEF ShutdownTimeout, Restore
<1>10. CASE CloseBus
  BY <1>10 DEF CloseBus, Ended
<1>11. CASE BusCloses
  BY <1>11 DEF BusCloses
<1>12. CASE BusClosed
  BY <1>12 DEF BusClosed, Ended
<1>13. QED
  BY <1>1, <1>2, <1>3, <1>4, <1>5, <1>6, <1>7, <1>8, <1>9, <1>10, <1>11, <1>12

-----------------------------------------------------------------------------
(***************************************************************************)
(* The types.                                                              *)
(***************************************************************************)

(* An event put on a queue with room. *)
LEMMA QueueGrows ==
    ASSUME TypeOK, Room, NEW e \in Events, queue' = Append(queue, e)
    PROVE  queue' \in Seq(Events) /\ Len(queue') <= QueueDepth
<1>1. queue' \in Seq(Events) /\ Len(queue') = Len(queue) + 1
  BY AppendProperties DEF TypeOK
<1>2. QED
  BY <1>1 DEF Room, TypeOK

(* What a job is owed for, or the worker yields, is a kind of job. *)
LEMMA YieldTyped ==
    ASSUME TypeOK, NEW kinds \in SUBSET JobKinds, Yield(kinds)
    PROVE  jobs' \in Seq(JobKinds) /\ Len(jobs') <= FlushDepth /\ parked' \subseteq JobKinds
<1> USE DEF TypeOK
<1>1. CASE UNCHANGED <<jobs, parked>>
  BY <1>1
<1>2. ASSUME NEW j \in kinds, Len(jobs) < FlushDepth, jobs' = Append(jobs, j), UNCHANGED parked
      PROVE  jobs' \in Seq(JobKinds) /\ Len(jobs') <= FlushDepth /\ parked' \subseteq JobKinds
  <2>1. jobs' \in Seq(JobKinds) /\ Len(jobs') = Len(jobs) + 1
    BY <1>2, AppendProperties
  <2>2. QED
    BY <1>2, <2>1
<1>3. QED
  BY <1>1, <1>2 DEF Yield

(* A step of start keeps the types. *)
LEMMA TypeStart ==
    ASSUME TypeOK, Control,
           StartBus \/ StartSet \/ StartSubscribe \/ StartDone
    PROVE  TypeOK'
<1> USE DEF TypeOK, procVars, batchVars, shardVars, subVars, flVars
<1>1. CASE StartBus
  BY <1>1 DEF StartBus
<1>2. CASE StartSet
  <2>1. intake' \in BOOLEAN /\ fpc' \in {"none", "select", "publish", "send", "process", "retry", "done"}
    BY <1>2, Zenon DEF StartSet
  <2>2. QED
    BY <1>2, <2>1 DEF StartSet
<1>3. CASE StartSubscribe
  BY <1>3 DEF StartSubscribe
<1>4. CASE StartDone
  BY <1>4 DEF StartDone
<1>5. QED
  BY <1>1, <1>2, <1>3, <1>4

(* A step of a producer keeps the types. *)
LEMMA TypeBatch ==
    ASSUME TypeOK, BatchInv, NEW c \in Producers,
           LoadSet(c) \/ OfferFragment(c) \/ KeepVerdict(c)
    PROVE  TypeOK'
<1> USE DEF TypeOK, BatchInv, procVars, batchVars, shardVars, subVars, flVars
<1>1. CASE LoadSet(c)
  BY <1>1 DEF LoadSet
<1>2. CASE OfferFragment(c)
  <2>1. refused' \in [Producers -> BOOLEAN] /\ bpc' \in [Producers -> {"idle", "offer", "verdict"}]
    BY <1>2 DEF OfferFragment
  <2>2. Frag(c) \in Events
    <3>1. bpc[c] # "idle"
      BY <1>2 DEF OfferFragment
    <3>2. begun[c] \in 1 .. MaxBatches
      BY <3>1
    <3>3. QED
      BY <3>2 DEF Frag, Events, Named
  <2>3. queue' \in Seq(Events) /\ Len(queue') <= QueueDepth
    BY <1>2, <2>2, QueueGrows DEF OfferFragment
  <2>4. QED
    BY <1>2, <2>1, <2>3 DEF OfferFragment
<1>3. CASE KeepVerdict(c)
  <2>1. {Frag(c), Verdict(c)} \subseteq Named
    <3>1. bpc[c] # "idle"
      BY <1>3 DEF KeepVerdict
    <3>2. begun[c] \in 1 .. MaxBatches
      BY <3>1
    <3>3. QED
      BY <3>2 DEF Frag, Verdict, Named
  <2>2. queue' \in Seq(Events) /\ Len(queue') <= QueueDepth
    BY <1>3, <2>1, QueueGrows DEF KeepVerdict, Events
  <2>3. promised' \subseteq Named /\ bpc' \in [Producers -> {"idle", "offer", "verdict"}]
    BY <1>3, <2>1 DEF KeepVerdict, Report
  <2>4. QED
    BY <1>3, <2>2, <2>3 DEF KeepVerdict
<1>4. QED
  BY <1>1, <1>2, <1>3

(* A step of the worker keeps the types. *)
LEMMA TypeWorker ==
    ASSUME TypeOK, Control, NEW j \in JobKinds,
           Handle \/ CloseWorker \/ Tick(j)
    PROVE  TypeOK'
<1> USE DEF TypeOK, procVars, batchVars, shardVars, subVars, flVars
<1>1. CASE Handle
  <2> DEFINE ev == Head(queue)
  <2>1. ev \in Events /\ queue' \in Seq(Events) /\ Len(queue') <= QueueDepth
    <3>1. Len(queue) # 0
      BY <1>1, EmptySeq DEF Handle
    <3>2. ev \in Events /\ Tail(queue) \in Seq(Events) /\ Len(Tail(queue)) = Len(queue) - 1
      BY <1>1, HeadTailProperties DEF Handle
    <3>3. QED
      BY <1>1, <3>1, <3>2 DEF Handle
  <2>2. CASE ev.kind = "retry"
    <3>1. ev.job \in JobKinds
      BY SMTT(40), <2>1, <2>2 DEF Events, Named, BusKeep
    <3>2. QED
      BY <1>1, <2>1, <2>2, <3>1 DEF Handle
  <2>3. CASE ev.kind # "retry"
    <3>1. ev \in Named \/ ev = BusKeep
      BY <2>1, <2>3 DEF Events
    <3>2. Yields(ev) \in SUBSET JobKinds
      BY <3>1 DEF Yields, Named, BusKeep, JobKinds
    <3>3. jobs' \in Seq(JobKinds) /\ Len(jobs') <= FlushDepth /\ parked' \subseteq JobKinds
      BY <1>1, <2>3, <3>2, YieldTyped DEF Handle
    <3>4. ev.kind # "busKeep" => ev \in Named
      BY <3>1 DEF BusKeep
    <3>5. handled' \subseteq Named
      BY <1>1, <2>3, <3>4 DEF Handle
    <3>6. QED
      BY <1>1, <2>1, <3>3, <3>5 DEF Handle
  <2>4. QED
    BY <2>2, <2>3
<1>2. CASE CloseWorker
  BY <1>2 DEF CloseWorker
<1>3. CASE Tick(j)
  <2>1. parked' \subseteq JobKinds
    BY <1>3 DEF Tick, JobKinds
  <2>2. jobs' \in Seq(JobKinds) /\ Len(jobs') <= FlushDepth
    <3>1. CASE UNCHANGED jobs
      BY <3>1
    <3>2. ASSUME NEW k \in JobKinds, Len(jobs) < FlushDepth, jobs' = Append(jobs, k)
          PROVE  jobs' \in Seq(JobKinds) /\ Len(jobs') <= FlushDepth
      BY <3>2, AppendProperties
    <3>3. QED
      BY <1>3, <3>1, <3>2 DEF Tick, JobKinds
  <2>3. QED
    BY <1>3, <2>1, <2>2 DEF Tick
<1>4. QED
  BY <1>1, <1>2, <1>3

(* A step of the bus's delivery keeps the types. *)
LEMMA TypeDelivery ==
    ASSUME TypeOK, Control,
           PeerPublish \/ Deliver \/ DeliverNats \/ DeliverEnter \/
           DeliverLand \/ DeliverAbort \/ DeliverQuit
    PROVE  TypeOK'
<1> USE DEF TypeOK, procVars, batchVars, shardVars, subVars, flVars
<1>1. CASE PeerPublish
  BY <1>1 DEF PeerPublish
<1>2. CASE Deliver
  BY <1>2 DEF Deliver, Callback
<1>3. CASE DeliverNats
  BY <1>3 DEF DeliverNats, Callback
<1>4. CASE DeliverEnter
  BY <1>4 DEF DeliverEnter
<1>5. CASE DeliverLand
  <2>1. queue' \in Seq(Events) /\ Len(queue') <= QueueDepth
    BY <1>5, QueueGrows DEF DeliverLand, Events
  <2>2. QED
    BY <1>5, <2>1 DEF DeliverLand
<1>6. CASE DeliverAbort
  BY <1>6 DEF DeliverAbort
<1>7. CASE DeliverQuit
  BY <1>7 DEF DeliverQuit
<1>8. QED
  BY <1>1, <1>2, <1>3, <1>4, <1>5, <1>6, <1>7

(* A step of the flusher keeps the types. *)
LEMMA TypeFlusher ==
    ASSUME TypeOK, Control,
           Gather \/ BeginDrain \/ FlusherExit \/ PublishBegin \/
           PublishSend \/ PublishJoin \/ Consume \/ RetryEnter \/
           RetryLand \/ RetryAbort
    PROVE  TypeOK'
<1> USE DEF TypeOK, Jobs, procVars, batchVars, shardVars, subVars, flVars
<1>1. CASE Gather
  BY <1>1 DEF Gather
<1>2. CASE BeginDrain
  BY <1>2 DEF BeginDrain
<1>3. CASE FlusherExit
  BY <1>3 DEF FlusherExit
<1>4. CASE PublishBegin
  BY <1>4, OwingCounted DEF PublishBegin
<1>5. CASE PublishSend
  BY <1>5 DEF PublishSend, Control, FlusherInv
<1>6. CASE PublishJoin
  <2>1. PICK F : batch' = [i \in 1 .. Len(batch) |-> [batch[i] EXCEPT !.failed = i \in F]]
    BY <1>6 DEF PublishJoin
  <2>2. ASSUME NEW r \in Jobs, NEW b \in BOOLEAN
        PROVE  [r EXCEPT !.failed = b] \in Jobs
    OBVIOUS
  <2>3. batch' \in Seq(Jobs)
    <3>1. ASSUME NEW i \in 1 .. Len(batch)
          PROVE  batch[i] \in Jobs
      BY ElementOfSeq
    <3>2. ASSUME NEW i \in 1 .. Len(batch)
          PROVE  [batch[i] EXCEPT !.failed = i \in F] \in Jobs
      <4>1. (i \in F) \in BOOLEAN
        OBVIOUS
      <4>2. batch[i] \in Jobs
        BY <3>1
      <4>3. QED
        BY <2>2, <4>1, <4>2, Zenon
    <3>3. QED
      BY SMTT(40), <2>1, <3>2
  <2>4. ch' \in 0 .. LoopbackDepth
    BY SMTT(40), <1>6, OwingCounted DEF PublishJoin
  <2>5. QED
    <3>1. UNCHANGED <<procVars, batchVars, shardVars, queue, jobs, subVars, stopc, draining, toSend>>
          /\ fpc' = "process"
      BY <1>6 DEF PublishJoin
    <3>2. QED
      BY <2>3, <2>4, <3>1
<1>7. CASE Consume
  BY <1>7, NextJobAdvances DEF Consume, Control, FlusherInv
<1>8. CASE RetryEnter
  <2>1. batch # << >>
    BY <1>8 DEF RetryEnter, Control, FlusherInv
  <2>2. CASE ~intake
    BY SMTT(40), <1>8, <2>1, <2>2, NextJobAdvances DEF RetryEnter
  <2>3. CASE intake
    <3>1. batch' \in Seq(Jobs)
      <4>1. batch' = batch \/ batch' = [batch EXCEPT ![1].job = "flush"]
        BY <1>8, <2>3 DEF RetryEnter
      <4>2. ASSUME NEW r \in Jobs
            PROVE  [r EXCEPT !.job = "flush"] \in Jobs
        BY DEF JobKinds
      <4>3. Len(batch) \in Nat /\ Len(batch) # 0
        BY <2>1, EmptySeq
      <4>4. 1 \in 1 .. Len(batch)
        BY <4>3
      <4>7. batch[1] \in Jobs
        BY <4>4, ElementOfSeq
      <4>5. [batch EXCEPT ![1] = [batch[1] EXCEPT !.job = "flush"]] \in Seq(Jobs)
        BY <4>2, <4>4, <4>7, ExceptSeq
      <4>6. QED
        BY <4>1, <4>5
    <3>2. QED
      BY SMTT(40), <1>8, <2>3, <3>1 DEF RetryEnter
  <2>4. QED
    BY <2>2, <2>3
<1>9. CASE RetryLand
  <2>1. batch # << >>
    BY <1>9 DEF RetryLand, Control, FlusherInv
  <2>2. Head(batch) \in Jobs
    BY <2>1, HeadTailProperties
  <2>3. Retried(Head(batch).job) \in Events
    BY <2>2 DEF Retried, Events
  <2>4. queue' \in Seq(Events) /\ Len(queue') <= QueueDepth
    BY <1>9, <2>3, QueueGrows DEF RetryLand
  <2>5. QED
    BY <1>9, <2>1, <2>4, NextJobAdvances DEF RetryLand
<1>10. CASE RetryAbort
  BY <1>10, NextJobAdvances DEF RetryAbort, Control, FlusherInv
<1>11. QED
  BY <1>1, <1>2, <1>3, <1>4, <1>5, <1>6, <1>7, <1>8, <1>9, <1>10

(* A step of shutdown keeps the types. *)
LEMMA TypeStop ==
    ASSUME TypeOK, Control,
           Shutdown \/ Cancel \/ CancelReturns \/ StopFlusher \/
           FlusherStopped \/ StopIntake \/ Quiesced \/ SetStopped \/
           ShutdownTimeout \/ CloseBus \/ BusCloses \/ BusClosed
    PROVE  TypeOK'
<1> USE DEF TypeOK, procVars, batchVars, shardVars, subVars, flVars
<1>1. CASE Shutdown
  <2>1. set' \in BOOLEAN
    BY <1>1, Zenon DEF Shutdown
  <2>2. QED
    BY <1>1, <2>1 DEF Shutdown
<1>2. CASE Cancel
  BY <1>2 DEF Cancel
<1>3. CASE CancelReturns
  BY <1>3 DEF CancelReturns
<1>4. CASE StopFlusher
  BY <1>4 DEF StopFlusher
<1>5. CASE FlusherStopped
  BY <1>5 DEF FlusherStopped
<1>6. CASE StopIntake
  <2>1. intake' \in BOOLEAN
    BY <1>6, Zenon DEF StopIntake
  <2>2. QED
    BY <1>6, <2>1 DEF StopIntake
<1>7. CASE Quiesced
  BY <1>7 DEF Quiesced
<1>8. CASE SetStopped
  <2>1. set' \in BOOLEAN
    BY <1>8, Zenon DEF SetStopped, Restore
  <2>2. QED
    BY <1>8, <2>1 DEF SetStopped, Restore
<1>9. CASE ShutdownTimeout
  BY <1>9 DEF ShutdownTimeout, Restore
<1>10. CASE CloseBus
  BY <1>10 DEF CloseBus, Ended
<1>11. CASE BusCloses
  BY <1>11 DEF BusCloses
<1>12. CASE BusClosed
  BY <1>12 DEF BusClosed, Ended
<1>13. QED
  BY <1>1, <1>2, <1>3, <1>4, <1>5, <1>6, <1>7, <1>8, <1>9, <1>10, <1>11, <1>12

-----------------------------------------------------------------------------
(***************************************************************************)
(* What was promised is on its way.                                        *)
(***************************************************************************)

(* An event on its way stays there while the queue grows. *)
LEMMA WayGrows ==
    ASSUME queue \in Seq(Events), NEW e, OnItsWay(e), NEW x \in Events,
           queue' \in {queue, Append(queue, x)}, UNCHANGED <<handled, closed>>
    PROVE  e \in handled' \/ (~closed' /\ \E i \in 1 .. Len(queue') : queue'[i] = e)
<1>1. CASE queue' = queue
  BY <1>1 DEF OnItsWay
<1>2. CASE queue' = Append(queue, x)
  <2>1. Len(queue') = Len(queue) + 1 /\ \A i \in 1 .. Len(queue) : queue'[i] = queue[i]
    BY <1>2, AppendProperties
  <2>2. QED
    BY <2>1 DEF OnItsWay
<1>3. QED
  BY <1>1, <1>2

(* An event just put on the queue of a worker that has not closed is on    *)
(* its way.                                                                *)
LEMMA WayBegins ==
    ASSUME queue \in Seq(Events), NEW x \in Events, queue' = Append(queue, x), ~closed,
           UNCHANGED closed
    PROVE  ~closed' /\ \E i \in 1 .. Len(queue') : queue'[i] = x
<1>1. Len(queue') = Len(queue) + 1 /\ queue'[Len(queue) + 1] = x
  BY AppendProperties
<1>2. QED
  BY <1>1

(* The worker takes the head of the queue, and handles it when it is one   *)
(* that can be promised.                                                   *)
LEMMA WayHandled ==
    ASSUME TypeOK, Handle, NEW e \in Named, OnItsWay(e)
    PROVE  e \in handled' \/ (~closed' /\ \E i \in 1 .. Len(queue') : queue'[i] = e)
<1>1. CASE e \in handled
  BY <1>1 DEF Handle
<1>2. CASE e \notin handled
  <2>1. PICK i \in 1 .. Len(queue) : queue[i] = e
    BY <1>2 DEF OnItsWay
  <2>2. ~closed'
    BY DEF Handle
  <2>3. CASE i = 1
    <3>1. Head(queue) = e
      BY <2>1, <2>3 DEF TypeOK
    <3>2. e.kind \in {"frag", "keep"}
      BY DEF Named
    <3>3. QED
      BY <3>1, <3>2 DEF Handle
  <2>4. CASE i # 1
    <3>1. queue' = Tail(queue) /\ queue # << >>
      BY DEF Handle
    <3>2. Len(queue') = Len(queue) - 1 /\ \A j \in 1 .. Len(queue') : queue'[j] = queue[j + 1]
      BY <3>1, HeadTailProperties DEF TypeOK
    <3>3. i - 1 \in 1 .. Len(queue') /\ queue'[i - 1] = e
      BY <2>1, <2>4, <3>2 DEF TypeOK
    <3>4. QED
      BY <2>2, <3>3
  <2>5. QED
    BY <2>3, <2>4
<1>3. QED
  BY <1>1, <1>2

(* A step that leaves the batches and the worker alone, and at most adds   *)
(* to the queue, loses nothing.                                            *)
LEMMA PromiseQuiet ==
    ASSUME LifecycleInv, NEW x \in Events, queue' \in {queue, Append(queue, x)},
           UNCHANGED <<batchVars, handled, closed>>
    PROVE  BatchInv' /\ AckedNeverDropped'
<1> USE DEF LifecycleInv, batchVars
<1>1. queue \in Seq(Events)
  BY DEF TypeOK
<1>2. ASSUME NEW e, OnItsWay(e)
      PROVE  e \in handled' \/ (~closed' /\ \E i \in 1 .. Len(queue') : queue'[i] = e)
  BY <1>1, <1>2, WayGrows
<1>3. AckedNeverDropped'
  BY <1>2 DEF AckedNeverDropped, OnItsWay
<1>4. ASSUME NEW c \in Producers
      PROVE  Frag(c)' = Frag(c)
  BY DEF Frag
<1>5. BatchInv'
  BY <1>2, <1>4 DEF BatchInv, OnItsWay
<1>6. QED
  BY <1>3, <1>5

(* A step of a producer. *)
LEMMA PromiseBatch ==
    ASSUME LifecycleInv, NEW c \in Producers,
           LoadSet(c) \/ OfferFragment(c) \/ KeepVerdict(c)
    PROVE  BatchInv' /\ AckedNeverDropped'
<1> USE DEF LifecycleInv
<1>1. UNCHANGED <<handled, closed>>
  BY DEF LoadSet, OfferFragment, KeepVerdict, shardVars
<1>2. ASSUME intake
      PROVE  ~closed
  BY <1>2 DEF Control, WorkerInv
<1>3. \A d \in Producers : d # c => Frag(d)' = Frag(d) /\ bpc'[d] = bpc[d] /\ refused'[d] = refused[d]
                                    /\ begun'[d] = begun[d]
  BY DEF LoadSet, OfferFragment, KeepVerdict, Report, Frag, TypeOK
<1>4. CASE LoadSet(c)
  <2>1. begun'[c] > 0 /\ bpc'[c] = "offer"
    BY <1>4 DEF LoadSet, TypeOK
  <2>2. UNCHANGED <<queue, promised>>
    BY <1>4 DEF LoadSet
  <2>3. BatchInv'
    BY <1>1, <1>3, <2>1, <2>2 DEF BatchInv, OnItsWay
  <2>4. QED
    BY <1>1, <2>2, <2>3 DEF AckedNeverDropped, OnItsWay
<1>5. CASE OfferFragment(c)
  <2>1. Frag(c) \in Events /\ Frag(c)' = Frag(c) /\ begun'[c] > 0
    <3>1. bpc[c] # "idle"
      BY <1>5 DEF OfferFragment
    <3>2. begun[c] \in 1 .. MaxBatches
      BY <3>1 DEF BatchInv, TypeOK
    <3>3. QED
      BY <1>5, <3>2 DEF OfferFragment, Frag, Events, Named
  <2>2. queue \in Seq(Events) /\ queue' \in {queue, Append(queue, Frag(c))} /\ promised' = promised
    BY <1>5 DEF OfferFragment, TypeOK
  <2>3. ASSUME NEW e, OnItsWay(e)
        PROVE  e \in handled' \/ (~closed' /\ \E i \in 1 .. Len(queue') : queue'[i] = e)
    BY <1>1, <2>1, <2>2, <2>3, WayGrows
  <2>4. AckedNeverDropped'
    BY <2>2, <2>3 DEF AckedNeverDropped, OnItsWay
  <2>5. ~refused'[c] => OnItsWay(Frag(c))'
    <3>1. CASE refused' = [refused EXCEPT ![c] = TRUE]
      BY <3>1 DEF TypeOK
    <3>2. CASE intake /\ queue' = Append(queue, Frag(c))
      <4>1. ~closed' /\ \E i \in 1 .. Len(queue') : queue'[i] = Frag(c)
        BY <1>1, <1>2, <2>1, <2>2, <3>2, WayBegins
      <4>2. QED
        BY <2>1, <4>1 DEF OnItsWay
    <3>3. QED
      BY <1>5, <3>1, <3>2 DEF OfferFragment
  <2>6. BatchInv'
    BY <1>3, <2>1, <2>3, <2>5 DEF BatchInv, OnItsWay
  <2>7. QED
    BY <2>4, <2>6
<1>6. CASE KeepVerdict(c)
  <2>1. Verdict(c) \in Events
    <3>1. bpc[c] # "idle"
      BY <1>6 DEF KeepVerdict
    <3>2. begun[c] \in 1 .. MaxBatches
      BY <3>1 DEF BatchInv, TypeOK
    <3>3. QED
      BY <3>2 DEF Verdict, Events, Named
  <2>2. queue \in Seq(Events) /\ queue' \in {queue, Append(queue, Verdict(c))} /\ bpc'[c] = "idle"
    BY <1>6 DEF KeepVerdict, Report, TypeOK
  <2>3. ASSUME NEW e, OnItsWay(e)
        PROVE  e \in handled' \/ (~closed' /\ \E i \in 1 .. Len(queue') : queue'[i] = e)
    BY <1>1, <2>1, <2>2, <2>3, WayGrows
  <2>4. BatchInv'
    BY <1>3, <2>2, <2>3 DEF BatchInv, OnItsWay
  <2>5. ~refused[c] => OnItsWay(Frag(c))
    BY <1>6 DEF KeepVerdict, BatchInv
  <2>6. AckedNeverDropped'
    <3>1. CASE UNCHANGED promised
      BY <2>3, <3>1 DEF AckedNeverDropped, OnItsWay
    <3>2. CASE ~refused[c] /\ promised' = promised \cup {Frag(c)}
      BY <2>3, <2>5, <3>2 DEF AckedNeverDropped, OnItsWay
    <3>3. CASE /\ ~refused[c] /\ promised' = promised \cup {Frag(c), Verdict(c)}
               /\ intake /\ queue' = Append(queue, Verdict(c))
      <4>1. ~closed' /\ \E i \in 1 .. Len(queue') : queue'[i] = Verdict(c)
        BY <1>1, <1>2, <2>1, <2>2, <3>3, WayBegins
      <4>2. QED
        BY <2>3, <2>5, <3>3, <4>1 DEF AckedNeverDropped, OnItsWay
    <3>4. QED
      BY <1>6, <3>1, <3>2, <3>3 DEF KeepVerdict, Report
  <2>7. QED
    BY <2>4, <2>6
<1>7. QED
  BY <1>4, <1>5, <1>6

(* A step of the worker: an event it takes from the queue is handled, and  *)
(* it closes on an empty queue only.                                       *)
LEMMA PromiseWorker ==
    ASSUME LifecycleInv, Handle \/ CloseWorker
    PROVE  BatchInv' /\ AckedNeverDropped'
<1> USE DEF LifecycleInv
<1>1. UNCHANGED batchVars
  BY DEF Handle, CloseWorker
<1>2. ASSUME NEW c \in Producers
      PROVE  Frag(c)' = Frag(c)
  BY <1>1 DEF Frag, batchVars
<1>3. ASSUME NEW c \in Producers, bpc[c] # "idle"
      PROVE  Frag(c) \in Named
  <2>1. begun[c] \in 1 .. MaxBatches
    BY <1>3 DEF BatchInv, TypeOK
  <2>2. QED
    BY <2>1 DEF Frag, Named
<1>4. ASSUME NEW e \in Named, OnItsWay(e)
      PROVE  e \in handled' \/ (~closed' /\ \E i \in 1 .. Len(queue') : queue'[i] = e)
  <2>1. CASE Handle
    BY <1>4, <2>1, WayHandled
  <2>2. CASE CloseWorker
    <3>1. e \in handled
      BY <1>4, <2>2 DEF CloseWorker, OnItsWay
    <3>2. QED
      BY <2>2, <3>1 DEF CloseWorker
  <2>3. QED
    BY <2>1, <2>2
<1>5. promised \subseteq Named
  BY DEF TypeOK
<1>6. AckedNeverDropped'
  BY <1>1, <1>4, <1>5 DEF AckedNeverDropped, OnItsWay, batchVars
<1>7. BatchInv'
  BY <1>1, <1>2, <1>3, <1>4 DEF BatchInv, OnItsWay, batchVars
<1>8. QED
  BY <1>6, <1>7

(* Every other step is quiet in that sense. *)
LEMMA PromiseOthers ==
    ASSUME LifecycleInv,
           \/ Start \/ PeerPublish \/ Delivery \/ FlushStep \/ BeginDrain \/ PublishJoin
           \/ Shutdown \/ Stopping \/ ShutdownTimeout \/ BusCloses
           \/ \E j \in JobKinds : Tick(j)
    PROVE  BatchInv' /\ AckedNeverDropped'
<1>1. BusKeep \in Events
  BY DEF Events
<1>2. CASE DeliverLand
  BY <1>1, <1>2, PromiseQuiet DEF DeliverLand, shardVars
<1>3. CASE RetryLand
  <2>1. batch \in Seq(Jobs) /\ batch # << >>
    BY <1>3 DEF RetryLand, LifecycleInv, TypeOK, Control, FlusherInv, Jobs
  <2>2. Head(batch) \in Jobs
    BY <2>1, HeadTailProperties
  <2>3. Retried(Head(batch).job) \in Events
    BY <2>2 DEF Retried, Events, Jobs
  <2>4. QED
    BY <1>3, <2>3, PromiseQuiet DEF RetryLand, shardVars
<1>4. CASE ~DeliverLand /\ ~RetryLand
  <2>1. CASE Start
    BY <2>1, <1>1, PromiseQuiet
       DEF Start, StartBus, StartSet, StartSubscribe, StartDone, shardVars
  <2>2. CASE PeerPublish \/ Delivery
    BY <2>2, <1>1, <1>4, PromiseQuiet
       DEF PeerPublish, Delivery, Deliver, DeliverNats, Callback, DeliverEnter, DeliverAbort,
           DeliverQuit, shardVars
  <2>3. CASE FlushStep \/ BeginDrain \/ PublishJoin
    BY <2>3, <1>1, <1>4, PromiseQuiet
       DEF FlushStep, Gather, FlusherExit, PublishBegin, PublishSend, Consume, RetryEnter,
           RetryAbort, BeginDrain, PublishJoin, shardVars
  <2>4. CASE Shutdown \/ Stopping \/ ShutdownTimeout \/ BusCloses
    BY <2>4, <1>1, PromiseQuiet
       DEF Shutdown, Stopping, Cancel, CancelReturns, StopFlusher, FlusherStopped, StopIntake,
           Quiesced, SetStopped, CloseBus, BusClosed, ShutdownTimeout, BusCloses, shardVars
  <2>5. CASE \E j \in JobKinds : Tick(j)
    BY <2>5, <1>1, PromiseQuiet DEF Tick
  <2>6. QED
    BY <2>1, <2>2, <2>3, <2>4, <2>5
<1>5. QED
  BY <1>2, <1>3, <1>4

-----------------------------------------------------------------------------
(***************************************************************************)
(* The theorems.                                                           *)
(***************************************************************************)

(* The invariant holds of a processor that has not been started. *)
LEMMA LifecycleInvInit == Init => LifecycleInv
<1> SUFFICES ASSUME Init PROVE LifecycleInv
  OBVIOUS
<1>1. TypeOK
  <2>1. bus \in BusKinds /\ MaxPeerKeeps[bus] \in Nat
    BY DEF Init
  <2>2. set \in BOOLEAN /\ started \in BOOLEAN /\ intake \in BOOLEAN /\ halt \in BOOLEAN
        /\ closed \in BOOLEAN /\ closeErr \in BOOLEAN /\ stopc \in BOOLEAN /\ draining \in BOOLEAN
    BY DEF Init
  <2>3. QED
    BY <2>1, <2>2 DEF Init, TypeOK
<1>2. Control
  BY DEF Init, Control, Uncreated, FlusherInv, WorkerInv, SubInv, ConnInv, Created,
         AfterCancel, AfterFlusher, AfterIntake, AfterHalt, AfterSet, AfterBus
<1>3. BatchInv /\ AckedNeverDropped
  BY DEF Init, BatchInv, AckedNeverDropped
<1>4. QED
  BY <1>1, <1>2, <1>3 DEF LifecycleInv

(* Every step keeps it. *)
LEMMA LifecycleInvStep == LifecycleInv /\ [Next]_vars => LifecycleInv'
<1> SUFFICES ASSUME LifecycleInv, [Next]_vars PROVE LifecycleInv'
  OBVIOUS
<1>1. TypeOK /\ Control /\ BatchInv
  BY DEF LifecycleInv
<1>2. CASE Start
  BY <1>1, <1>2, TypeStart, ControlStart, PromiseOthers DEF Start, LifecycleInv
<1>3. ASSUME NEW c \in Producers, LoadSet(c) \/ Processing(c)
      PROVE  LifecycleInv'
  BY <1>1, <1>3, TypeBatch, ControlBatch, PromiseBatch DEF Processing, LifecycleInv
<1>4. CASE Worker
  <2>1. TypeOK' /\ Control'
    <3>1. PICK j \in JobKinds : TRUE
      BY DEF JobKinds
    <3>2. QED
      BY <1>1, <1>4, TypeWorker, ControlWorker DEF Worker
  <2>2. QED
    BY <1>4, <2>1, PromiseWorker DEF Worker, LifecycleInv
<1>5. ASSUME NEW j \in JobKinds, Tick(j)
      PROVE  LifecycleInv'
  BY <1>1, <1>5, TypeWorker, ControlWorker, PromiseOthers DEF LifecycleInv
<1>6. CASE PeerPublish \/ Delivery
  BY <1>1, <1>6, TypeDelivery, ControlDelivery, PromiseOthers DEF Delivery, LifecycleInv
<1>7. CASE FlushStep \/ BeginDrain \/ PublishJoin
  BY <1>1, <1>7, TypeFlusher, ControlFlusher, PromiseOthers DEF FlushStep, LifecycleInv
<1>8. CASE Shutdown \/ Stopping \/ ShutdownTimeout \/ BusCloses
  BY <1>1, <1>8, TypeStop, ControlStop, PromiseOthers DEF Stopping, LifecycleInv
<1>9. CASE UNCHANGED vars
  <2>1. BatchInv' /\ AckedNeverDropped'
    BY <1>9, PromiseQuiet DEF vars, batchVars, Events
  <2>2. TypeOK'
    BY <1>1, <1>9 DEF vars, TypeOK
  <2>3. Control'
    BY <1>1, <1>9 DEF vars, Control, Uncreated, FlusherInv, WorkerInv, SubInv, ConnInv, Created
  <2>4. QED
    BY <2>1, <2>2, <2>3 DEF LifecycleInv
<1>10. QED
  BY <1>2, <1>3, <1>4, <1>5, <1>6, <1>7, <1>8, <1>9 DEF Next

(* The inductive invariant of the lifecycle: at each step of start and     *)
(* shutdown, a retried one too, the parts that should be down are down.    *)
THEOREM LifecycleInvariant == Spec => []LifecycleInv
  BY LifecycleInvInit, LifecycleInvStep, PTL DEF Spec

(* processTraces promises what it reports: the fragment and the verdict of *)
(* an accepted batch are handled or waiting on a queue that will be        *)
(* drained, through any shutdown, timeout and retry.                       *)
THEOREM PromisesKept == Spec => []AckedNeverDropped
<1>1. LifecycleInv => AckedNeverDropped
  BY DEF LifecycleInv
<1>2. QED
  BY <1>1, LifecycleInvariant, PTL

(* closeBus comes last: neither the flusher nor the worker still runs when *)
(* the connection is being closed.                                         *)
THEOREM BusLast == Spec => []BusClosesLast
<1>1. LifecycleInv => BusClosesLast
  BY DEF LifecycleInv, Control, ConnInv, FlusherInv, WorkerInv, BusClosesLast, AfterFlusher,
         AfterIntake, AfterHalt, AfterSet, AfterBus
<1>2. QED
  BY <1>1, LifecycleInvariant, PTL

(* A shutdown that succeeds and a start that fails leave nothing running,  *)
(* queued or connected.                                                    *)
THEOREM EndsQuietly == Spec => []EndedIsQuiet
<1>1. LifecycleInv => EndedIsQuiet
  BY DEF LifecycleInv, Control, ConnInv, FlusherInv, WorkerInv, SubInv, Uncreated, EndedIsQuiet,
         Quiet, TypeOK, AfterCancel, AfterFlusher, AfterIntake, AfterHalt, AfterSet, AfterBus
<1>2. QED
  BY <1>1, LifecycleInvariant, PTL

=============================================================================
