------------------------------ MODULE ShardSet ------------------------------
(***************************************************************************)
(* The hand-off between the goroutines that call a shards.Set and the      *)
(* shard workers, and its shutdown (internal/shards/shards.go, and the     *)
(* worker loop of internal/shards/worker.go).                              *)
(*                                                                         *)
(* Every shard owns QueueDepth fragment buffers.  A buffer is in the       *)
(* shard's free ring, in the hands of a caller that took it, in the work   *)
(* queue, or in the hands of the worker.  A caller runs one of             *)
(*   Offer        (non-blocking, sheds at the window floor),               *)
(*   Keep         (non-blocking; also KeepLocalOnly),                      *)
(*   KeepFromBus  and Retry  (block for a buffer until `abort' closes)     *)
(* and the points where it touches shared state are separate steps: the    *)
(* in-flight token, the intake flag, the floor flag, the free ring, the    *)
(* work queue, and giving the token back.                                  *)
(*                                                                         *)
(* What the worker does with an event is modelled in ShardWorker; here it  *)
(* is "in hand" and then handled.                                          *)
(***************************************************************************)
EXTENDS Integers, Sequences, FiniteSets, Functions

CONSTANTS
    Producers,      \* goroutines in ConsumeTraces: Offer, Keep
    Subscribers,    \* the bus delivery goroutine: KeepFromBus
    Flushers,       \* the flusher goroutine: Retry
    NShards,        \* Options.Shards
    QueueDepth,     \* queueDepth
    MaxCalls,       \* bound: calls each caller makes
    MaxTimeouts     \* bound: Shutdown attempts whose context expires

Callers == Producers \cup Subscribers \cup Flushers
Shards  == 1 .. NShards

ASSUME CallersFinite == IsFiniteSet(Callers)
ASSUME RolesDisjoint == /\ Producers \cap Subscribers = {}
                        /\ Producers \cap Flushers = {}
                        /\ Subscribers \cap Flushers = {}
ASSUME NShardsPositive == NShards \in Nat \ {0}
ASSUME QueueDepthPositive == QueueDepth \in Nat \ {0}
ASSUME BoundsNat == MaxCalls \in Nat /\ MaxTimeouts \in Nat

(* The entry point a caller of each role may run. *)
KindsOf(c) ==
    IF c \in Producers THEN {"Offer", "Keep"}
    ELSE IF c \in Subscribers THEN {"KeepFromBus"} ELSE {"Retry"}

Kinds == {"Offer", "Keep", "KeepFromBus", "Retry"}
Blocking == {"KeepFromBus", "Retry"}

(* Why rung 2 sheds a shard's ingest; floorClear when it does not. *)
FloorCauses == {"floorClear", "floorProtected", "nothingReclaimable"}

(* The counters a refused fragment or keep is charged to. *)
ShedCauses == {"queueFull", "floorProtected", "nothingReclaimable"}

(* A queue event is named by the call that made it. *)
Events == [from : Callers, n : Nat, shard : Shards, kind : Kinds]

VARIABLES
    intake,     \* Set.intake
    inflight,   \* Set.inflight
    pc,         \* per caller, where it stands in its call
    call,       \* per caller, the event it is enqueueing
    calls,      \* per caller, calls begun
    aborted,    \* per caller, the abort channel it was given is closed
    free,       \* per shard, buffers in the free ring
    work,       \* per shard, the work queue
    floor,      \* per shard, atFloorCause
    wpc,        \* per shard, where the worker stands
    hand,       \* per shard, the event in the worker's hands (at most one)
    stop,       \* per shard, the stop channel is closed
    spc,        \* where Shutdown stands
    si,         \* the shard Shutdown's loop is at
    timeouts,   \* Shutdown attempts that have timed out
    accepted,   \* history: events whose call returns true
    handled,    \* history: events the worker has handled
    shed        \* the shed counters of Stats

callerVars   == <<pc, call, calls, inflight>>
shutdownVars == <<intake, stop, spc, si, timeouts>>
workerVars   == <<wpc, hand, handled>>

vars == <<intake, inflight, pc, call, calls, aborted, free, work, floor, wpc,
          hand, stop, spc, si, timeouts, accepted, handled, shed>>

PCs  == {"idle", "token", "floorCheck", "take", "send", "leave"}
WPCs == {"select", "handle", "drain", "drainHandle", "closed"}
SPCs == {"idle", "quiesce", "stop", "wait", "await", "timedOut", "returned"}

(* What call[c] holds while c runs no call. *)
NoCall(c) == [from |-> c, n |-> 0, shard |-> 1, kind |-> "Offer"]

(* Mutant of Init: one buffer more than the channels are sized for. *)
InitExtraBuffer ==
    /\ intake = TRUE /\ inflight = 0 /\ spc = "idle" /\ si = 1 /\ timeouts = 0
    /\ pc = [c \in Callers |-> "idle"]
    /\ call = [c \in Callers |-> NoCall(c)]
    /\ calls = [c \in Callers |-> 0]
    /\ aborted = [c \in Callers |-> FALSE]
    /\ free = [s \in Shards |-> QueueDepth + 1]
    /\ work = [s \in Shards |-> << >>]
    /\ floor = [s \in Shards |-> "floorClear"]
    /\ wpc = [s \in Shards |-> "select"]
    /\ hand = [s \in Shards |-> {}]
    /\ stop = [s \in Shards |-> FALSE]
    /\ accepted = {} /\ handled = {}
    /\ shed = [k \in ShedCauses |-> 0]

(* New: every buffer is in a free ring, intake is on, the workers run. *)
Init ==
    /\ intake = TRUE
    /\ inflight = 0
    /\ pc = [c \in Callers |-> "idle"]
    /\ call = [c \in Callers |-> NoCall(c)]
    /\ calls = [c \in Callers |-> 0]
    /\ aborted = [c \in Callers |-> FALSE]
    /\ free = [s \in Shards |-> QueueDepth]
    /\ work = [s \in Shards |-> << >>]
    /\ floor = [s \in Shards |-> "floorClear"]
    /\ wpc = [s \in Shards |-> "select"]
    /\ hand = [s \in Shards |-> {}]
    /\ stop = [s \in Shards |-> FALSE]
    /\ spc = "idle"
    /\ si = 1
    /\ timeouts = 0
    /\ accepted = {}
    /\ handled = {}
    /\ shed = [k \in ShedCauses |-> 0]

-----------------------------------------------------------------------------
(***************************************************************************)
(* Callers: Offer, Keep, KeepFromBus, Retry.                               *)
(***************************************************************************)

(* The in-flight token is taken before anything else is read. *)
Enter(c, k, s) ==
    /\ pc[c] = "idle"
    /\ calls[c] < MaxCalls
    /\ inflight' = inflight + 1
    /\ calls' = [calls EXCEPT ![c] = @ + 1]
    /\ call' = [call EXCEPT ![c] = [from |-> c, n |-> calls[c] + 1, shard |-> s, kind |-> k]]
    /\ pc' = [pc EXCEPT ![c] = "token"]
    /\ UNCHANGED <<aborted, free, work, floor, accepted, shed, workerVars, shutdownVars>>

(* Mutant of CheckIntake: the refused caller keeps its token. *)
CheckIntakeLeaksToken(c) ==
    /\ pc[c] = "token"
    /\ pc' = [pc EXCEPT ![c] = IF ~intake THEN "idle"
                               ELSE IF call[c].kind = "Offer" THEN "floorCheck"
                               ELSE "take"]
    /\ UNCHANGED <<inflight, call, calls, aborted, free, work, floor, accepted, shed,
                   workerVars, shutdownVars>>

(* The intake check; only Offer goes on to look at the floor. *)
CheckIntake(c) ==
    /\ pc[c] = "token"
    /\ pc' = [pc EXCEPT ![c] = IF ~intake THEN "leave"
                               ELSE IF call[c].kind = "Offer" THEN "floorCheck"
                               ELSE "take"]
    /\ UNCHANGED <<inflight, call, calls, aborted, free, work, floor, accepted, shed,
                   workerVars, shutdownVars>>

(* Rung 2: a shard at its window floor sheds, under the cause's counter. *)
CheckFloor(c) ==
    /\ pc[c] = "floorCheck"
    /\ LET cause == floor[call[c].shard] IN
         IF cause = "floorClear"
         THEN /\ pc' = [pc EXCEPT ![c] = "take"]
              /\ UNCHANGED shed
         ELSE /\ pc' = [pc EXCEPT ![c] = "leave"]
              /\ shed' = [shed EXCEPT ![cause] = @ + 1]
    /\ UNCHANGED <<inflight, call, calls, aborted, free, work, floor, accepted,
                   workerVars, shutdownVars>>

(* The receive on the free ring. *)
TakeBuffer(c) ==
    /\ pc[c] = "take"
    /\ free[call[c].shard] > 0
    /\ free' = [free EXCEPT ![call[c].shard] = @ - 1]
    /\ pc' = [pc EXCEPT ![c] = "send"]
    /\ UNCHANGED <<inflight, call, calls, aborted, work, floor, accepted, shed,
                   workerVars, shutdownVars>>

(* Mutant of ShedQueueFull: refused, but not counted. *)
ShedQueueFullUncounted(c) ==
    /\ pc[c] = "take"
    /\ call[c].kind \notin Blocking
    /\ free[call[c].shard] = 0
    /\ pc' = [pc EXCEPT ![c] = "leave"]
    /\ UNCHANGED <<inflight, call, calls, aborted, free, work, floor, accepted, shed,
                   workerVars, shutdownVars>>

(* The default case of Offer's and Keep's select: shed and counted. *)
ShedQueueFull(c) ==
    /\ pc[c] = "take"
    /\ call[c].kind \notin Blocking
    /\ free[call[c].shard] = 0
    /\ shed' = [shed EXCEPT !["queueFull"] = @ + 1]
    /\ pc' = [pc EXCEPT ![c] = "leave"]
    /\ UNCHANGED <<inflight, call, calls, aborted, free, work, floor, accepted,
                   workerVars, shutdownVars>>

(* The abort case of KeepFromBus's and Retry's select. *)
Abort(c) ==
    /\ pc[c] = "take"
    /\ call[c].kind \in Blocking
    /\ aborted[c]
    /\ pc' = [pc EXCEPT ![c] = "leave"]
    /\ UNCHANGED <<inflight, call, calls, aborted, free, work, floor, accepted, shed,
                   workerVars, shutdownVars>>

(* The send on the work queue, which would block on a full channel. *)
Send(c) ==
    LET s == call[c].shard IN
    /\ pc[c] = "send"
    /\ Len(work[s]) < QueueDepth
    /\ work' = [work EXCEPT ![s] = Append(@, call[c])]
    /\ accepted' = accepted \cup {call[c]}
    /\ pc' = [pc EXCEPT ![c] = "leave"]
    /\ UNCHANGED <<inflight, call, calls, aborted, free, floor, shed,
                   workerVars, shutdownVars>>

(* The deferred token release. *)
Leave(c) ==
    /\ pc[c] = "leave"
    /\ inflight' = inflight - 1
    /\ pc' = [pc EXCEPT ![c] = "idle"]
    /\ call' = [call EXCEPT ![c] = NoCall(c)]
    /\ UNCHANGED <<calls, aborted, free, work, floor, accepted, shed,
                   workerVars, shutdownVars>>

(* The owner of a blocking caller closes the abort channel it gave it; the *)
(* processor gives every one the flusher's stopc, which flusher.stop       *)
(* closes.                                                                 *)
CloseAbort(c) ==
    /\ c \in Subscribers \cup Flushers
    /\ ~aborted[c]
    /\ aborted' = [aborted EXCEPT ![c] = TRUE]
    /\ UNCHANGED <<callerVars, free, work, floor, accepted, shed,
                   workerVars, shutdownVars>>

-----------------------------------------------------------------------------
(***************************************************************************)
(* Workers: run, handle and drain.                                         *)
(***************************************************************************)

(* Mutant of Dequeue: the newest event first. *)
DequeueNewest(s) ==
    /\ wpc[s] \in {"select", "drain"}
    /\ work[s] # << >>
    /\ hand' = [hand EXCEPT ![s] = {work[s][Len(work[s])]}]
    /\ work' = [work EXCEPT ![s] = SubSeq(@, 1, Len(@) - 1)]
    /\ wpc' = [wpc EXCEPT ![s] = IF @ = "select" THEN "handle" ELSE "drainHandle"]
    /\ UNCHANGED <<callerVars, aborted, free, floor, accepted, handled, shed, shutdownVars>>

(* The work case of run's select, and the receive of drain. *)
Dequeue(s) ==
    /\ wpc[s] \in {"select", "drain"}
    /\ work[s] # << >>
    /\ hand' = [hand EXCEPT ![s] = {Head(work[s])}]
    /\ work' = [work EXCEPT ![s] = Tail(@)]
    /\ wpc' = [wpc EXCEPT ![s] = IF @ = "select" THEN "handle" ELSE "drainHandle"]
    /\ UNCHANGED <<callerVars, aborted, free, floor, accepted, handled, shed, shutdownVars>>

(* Mutant of Recycle: the handled buffer never returns to the free ring. *)
RecycleDropsBuffer(s) ==
    /\ wpc[s] \in {"handle", "drainHandle"}
    /\ handled' = handled \cup hand[s]
    /\ hand' = [hand EXCEPT ![s] = {}]
    /\ wpc' = [wpc EXCEPT ![s] = IF @ = "handle" THEN "select" ELSE "drain"]
    /\ UNCHANGED <<callerVars, aborted, free, work, floor, accepted, shed, shutdownVars>>

(* handle ends by recycling the buffer, a send that would block on a full  *)
(* free ring.                                                              *)
Recycle(s) ==
    /\ wpc[s] \in {"handle", "drainHandle"}
    /\ free[s] < QueueDepth
    /\ free' = [free EXCEPT ![s] = @ + 1]
    /\ handled' = handled \cup hand[s]
    /\ hand' = [hand EXCEPT ![s] = {}]
    /\ wpc' = [wpc EXCEPT ![s] = IF @ = "handle" THEN "select" ELSE "drain"]
    /\ UNCHANGED <<callerVars, aborted, work, floor, accepted, shed, shutdownVars>>

(* The stop case of run's select. *)
BeginDrain(s) ==
    /\ wpc[s] = "select"
    /\ stop[s]
    /\ wpc' = [wpc EXCEPT ![s] = "drain"]
    /\ UNCHANGED <<callerVars, aborted, free, work, floor, hand, accepted, handled, shed,
                   shutdownVars>>

(* drain finds the queue empty: the buffer is closed and done with it. *)
CloseWorker(s) ==
    /\ wpc[s] = "drain"
    /\ work[s] = << >>
    /\ wpc' = [wpc EXCEPT ![s] = "closed"]
    /\ UNCHANGED <<callerVars, aborted, free, work, floor, hand, accepted, handled, shed,
                   shutdownVars>>

(* The tick republishes the floor cause; the ladder that computes it is    *)
(* not modelled here, so any cause may come out.                           *)
Tick(s) ==
    /\ wpc[s] = "select"
    /\ \E cause \in FloorCauses : floor' = [floor EXCEPT ![s] = cause]
    /\ UNCHANGED <<callerVars, aborted, free, work, accepted, shed, workerVars, shutdownVars>>

-----------------------------------------------------------------------------
(***************************************************************************)
(* Shutdown, one caller at a time; a timed-out attempt may be retried.     *)
(***************************************************************************)

ShutdownBegin ==
    /\ spc \in {"idle", "timedOut"}
    /\ intake' = FALSE
    /\ spc' = "quiesce"
    /\ UNCHANGED <<callerVars, aborted, free, work, floor, accepted, shed, workerVars,
                   stop, si, timeouts>>

(* Mutant of ShutdownQuiesced: the workers are stopped under the senders. *)
ShutdownNoQuiesce ==
    /\ spc = "quiesce"
    /\ spc' = "stop"
    /\ si' = 1
    /\ UNCHANGED <<callerVars, aborted, free, work, floor, accepted, shed, workerVars,
                   intake, stop, timeouts>>

(* The spin on inflight reads zero. *)
ShutdownQuiesced ==
    /\ spc = "quiesce"
    /\ inflight = 0
    /\ spc' = "stop"
    /\ si' = 1
    /\ UNCHANGED <<callerVars, aborted, free, work, floor, accepted, shed, workerVars,
                   intake, stop, timeouts>>

(* stopOnce closes the stop channels one by one; on a retry it does nothing. *)
ShutdownStop ==
    /\ spc = "stop"
    /\ IF stop[si]
       THEN stop' = stop /\ spc' = "wait" /\ si' = 1
       ELSE /\ stop' = [stop EXCEPT ![si] = TRUE]
            /\ IF si = NShards THEN spc' = "wait" /\ si' = 1 ELSE spc' = spc /\ si' = si + 1
    /\ UNCHANGED <<callerVars, aborted, free, work, floor, accepted, shed, workerVars,
                   intake, timeouts>>

(* A worker that is done is never charged to the context. *)
ShutdownWait ==
    /\ spc = "wait"
    /\ IF wpc[si] # "closed" THEN spc' = "await" /\ si' = si
       ELSE IF si = NShards THEN spc' = "returned" /\ si' = 1
       ELSE spc' = "wait" /\ si' = si + 1
    /\ UNCHANGED <<callerVars, aborted, free, work, floor, accepted, shed, workerVars,
                   intake, stop, timeouts>>

(* Mutant of ShutdownAwait: the select does not wait for done. *)
ShutdownAwaitNot ==
    /\ spc = "await"
    /\ IF si = NShards THEN spc' = "returned" /\ si' = 1 ELSE spc' = "wait" /\ si' = si + 1
    /\ UNCHANGED <<callerVars, aborted, free, work, floor, accepted, shed, workerVars,
                   intake, stop, timeouts>>

(* The blocking select on done and the context: done. *)
ShutdownAwait ==
    /\ spc = "await"
    /\ wpc[si] = "closed"
    /\ IF si = NShards THEN spc' = "returned" /\ si' = 1 ELSE spc' = "wait" /\ si' = si + 1
    /\ UNCHANGED <<callerVars, aborted, free, work, floor, accepted, shed, workerVars,
                   intake, stop, timeouts>>

(* The context expires in the quiesce, or in the wait for a worker. *)
ShutdownTimeout ==
    /\ timeouts < MaxTimeouts
    /\ \/ spc = "quiesce" /\ inflight # 0
       \/ spc = "await"
    /\ timeouts' = timeouts + 1
    /\ spc' = "timedOut"
    /\ si' = 1
    /\ UNCHANGED <<callerVars, aborted, free, work, floor, accepted, shed, workerVars,
                   intake, stop>>

-----------------------------------------------------------------------------
CallStep(c) ==
    \/ CheckIntake(c)
    \/ CheckFloor(c)
    \/ TakeBuffer(c)
    \/ ShedQueueFull(c)
    \/ Abort(c)
    \/ Send(c)
    \/ Leave(c)

WorkerStep(s) ==
    \/ Dequeue(s)
    \/ Recycle(s)
    \/ BeginDrain(s)
    \/ CloseWorker(s)

ShutdownStep ==
    \/ ShutdownQuiesced
    \/ ShutdownStop
    \/ ShutdownWait
    \/ ShutdownAwait

Next ==
    \/ \E c \in Callers : \/ \E k \in KindsOf(c), s \in Shards : Enter(c, k, s)
                          \/ CallStep(c)
                          \/ CloseAbort(c)
    \/ \E s \in Shards : WorkerStep(s) \/ Tick(s)
    \/ ShutdownBegin
    \/ ShutdownStep
    \/ ShutdownTimeout

Spec == Init /\ [][Next]_vars

(***************************************************************************)
(* Fairness: a goroutine that can run does; the worker's select is a       *)
(* uniform choice, so a ready stop case is eventually taken; the owner     *)
(* retries a Shutdown that timed out.  Nobody has to start a call, close   *)
(* an abort channel or begin the first Shutdown.                           *)
(***************************************************************************)
Fairness ==
    /\ \A c \in Callers : WF_vars(CallStep(c))
    /\ \A s \in Shards : WF_vars(WorkerStep(s))
    /\ \A s \in Shards : SF_vars(BeginDrain(s))
    /\ WF_vars(ShutdownStep)
    /\ WF_vars(spc = "timedOut" /\ ShutdownBegin)

FairSpec == Spec /\ Fairness

-----------------------------------------------------------------------------
(***************************************************************************)
(* Properties.                                                             *)
(***************************************************************************)

(* The callers that hold shard s's buffers. *)
Holders(s) == {c \in Callers : pc[c] = "send" /\ call[c].shard = s}

(* The callers that read intake as on and whose send is still to come. *)
PastIntake == {c \in Callers : pc[c] \in {"floorCheck", "take", "send"}}

(* The callers that hold an in-flight token. *)
TokenHolders == {c \in Callers : pc[c] # "idle"}

Busy(s) == wpc[s] \in {"handle", "drainHandle"}

Queued(s) == {work[s][i] : i \in 1 .. Len(work[s])}

(* The quiesce of some Shutdown attempt has been passed. *)
Quiesced == spc \in {"stop", "wait", "await", "returned"} \/ \E s \in Shards : stop[s]

(* Every variable has its type. *)
TypeOK ==
    /\ intake \in BOOLEAN
    /\ inflight \in Int
    /\ pc \in [Callers -> PCs]
    /\ call \in [Callers -> Events]
    /\ calls \in [Callers -> Nat]
    /\ aborted \in [Callers -> BOOLEAN]
    /\ free \in [Shards -> Nat]
    /\ work \in [Shards -> Seq(Events)]
    /\ floor \in [Shards -> FloorCauses]
    /\ wpc \in [Shards -> WPCs]
    /\ hand \in [Shards -> SUBSET Events]
    /\ stop \in [Shards -> BOOLEAN]
    /\ spc \in SPCs
    /\ si \in Shards
    /\ timeouts \in Nat
    /\ accepted \in SUBSET Events
    /\ handled \in SUBSET Events
    /\ shed \in [ShedCauses -> Nat]

(* The in-flight count Shutdown spins on is exactly the number of callers  *)
(* inside an entry point: no token leaks on a shed, refused or aborted     *)
(* call, and none is given back twice.                                     *)
InflightExact == inflight = Cardinality(TokenHolders)

(* A shard's buffers are never lost or duplicated: free ring, callers'     *)
(* hands, work queue and worker's hands together hold QueueDepth of them.  *)
BuffersConserved ==
    \A s \in Shards :
        free[s] + Len(work[s]) + Cardinality(Holders(s)) + (IF Busy(s) THEN 1 ELSE 0)
            = QueueDepth

(* "a send on either channel can never block": whoever holds a buffer      *)
(* finds room for it, in the work queue for a caller and in the free ring  *)
(* for the worker.                                                         *)
SendsNeverBlock ==
    /\ \A c \in Callers : pc[c] = "send" => Len(work[call[c].shard]) < QueueDepth
    /\ \A s \in Shards : Busy(s) => free[s] < QueueDepth

(* "an accepted event never lands on a drained queue": once a worker has   *)
(* closed its buffer, its queue is and stays empty, everything accepted    *)
(* for the shard has been handled, and no caller can still send to it.     *)
NoStranded ==
    \A s \in Shards : wpc[s] = "closed" =>
        /\ work[s] = << >>
        /\ \A e \in accepted : e.shard = s => e \in handled
        /\ \A c \in PastIntake : call[c].shard # s

(* A Shutdown that returns without a timeout leaves every worker closed,   *)
(* every accepted event handled and every buffer back in its free ring.    *)
ShutdownComplete ==
    spc = "returned" =>
        /\ \A s \in Shards : wpc[s] = "closed" /\ free[s] = QueueDepth
        /\ accepted = handled

(* "Same-queue FIFO is also the ordering guarantee": of two events one     *)
(* caller enqueues on one shard, the second is not handled before the      *)
(* first, so a batch's fragments are on disk before its keep is decided.   *)
FragmentsBeforeKeep ==
    \A e \in handled : \A f \in accepted :
        (f.from = e.from /\ f.shard = e.shard /\ f.n < e.n) => f \in handled

(* The producers whose call is still before its outcome. *)
Pending == {c \in Producers : pc[c] \in {"token", "floorCheck", "take", "send"}}

(* "every offered fragment is buffered or counted as shed": while intake   *)
(* is on, each call a producer has begun is still before its outcome, was  *)
(* accepted, or is in one of the shed counters.                            *)
NothingSilentlyShed ==
    intake =>
        SumFunctionOnSet(calls, Producers)
          = Cardinality({e \in accepted : e.from \in Producers}) + SumFunction(shed) + Cardinality(Pending)

(* Once Shutdown is called, and retried when it times out, every worker    *)
(* drains and closes: a caller blocked on an exhausted free ring is fed by *)
(* the workers, which run on through the quiesce.                          *)
ShutdownDrains == ~intake ~> (\A s \in Shards : wpc[s] = "closed")

(* A blocking send ends even if its abort channel never closes: it lands   *)
(* or is refused, before, during and after a Shutdown.                     *)
BlockedSendsEnd == \A c \in Callers : pc[c] = "take" ~> pc[c] = "idle"

-----------------------------------------------------------------------------
(***************************************************************************)
(* The parts of the inductive invariant that the safety properties above   *)
(* need and that are not properties of interest themselves.                *)
(***************************************************************************)

(* What the position of Shutdown and of the workers says about the callers: *)
(* stop is signalled only behind a quiesce, and a quiesce is final because  *)
(* intake never comes back on.                                              *)
QuiesceInv ==
    /\ spc # "idle" => ~intake
    /\ Quiesced => ~intake /\ PastIntake = {}
    /\ \A s \in Shards : wpc[s] \in {"drain", "drainHandle", "closed"} => stop[s]

(* Where events can be, and what Shutdown's wait loop has seen. *)
PlaceInv ==
    /\ \A s \in Shards : ~Busy(s) => hand[s] = {}
    /\ \A s \in Shards : wpc[s] = "closed" => work[s] = << >>
    /\ \A s \in Shards : \A i \in 1 .. Len(work[s]) : work[s][i].shard = s
    /\ \A s \in Shards : \A e \in hand[s] : e.shard = s
    /\ \A e \in accepted :
          \/ e \in handled
          \/ e \in hand[e.shard]
          \/ \E i \in 1 .. Len(work[e.shard]) : work[e.shard][i] = e
    /\ handled \subseteq accepted
    /\ \A s \in Shards : hand[s] \subseteq accepted
    /\ \A s \in Shards : \A i \in 1 .. Len(work[s]) : work[s][i] \in accepted
    /\ spc \in {"wait", "await"} => \A s \in Shards : s < si => wpc[s] = "closed"
    /\ spc = "returned" => \A s \in Shards : wpc[s] = "closed"

(* A caller's events are numbered in the order of its calls, and a shard   *)
(* holds those it was sent in that order.                                  *)
OrderInv ==
    /\ \A c \in Callers : pc[c] # "idle" => call[c].from = c /\ call[c].n = calls[c]
    /\ \A e \in accepted :
          /\ e.n <= calls[e.from]
          /\ pc[e.from] \in {"token", "floorCheck", "take", "send"} => e.n < calls[e.from]
    /\ \A s \in Shards : \A i, j \in 1 .. Len(work[s]) :
          i < j /\ work[s][i].from = work[s][j].from => work[s][i].n < work[s][j].n
    /\ \A s \in Shards : \A e \in hand[s] : \A i \in 1 .. Len(work[s]) :
          e.from = work[s][i].from => e.n < work[s][i].n

(* A caller runs an entry point of its role, and only Offer looks at the   *)
(* floor: what is counted as shed is a producer's.                         *)
RoleInv ==
    \A c \in Callers :
        /\ pc[c] # "idle" => call[c].kind \in KindsOf(c)
        /\ pc[c] = "floorCheck" => call[c].kind = "Offer"

(* The inductive invariant. *)
IndInv == TypeOK /\ InflightExact /\ BuffersConserved /\ QuiesceInv /\ PlaceInv

(* The inductive invariant of the order of events. *)
OrderedInv == IndInv /\ OrderInv /\ FragmentsBeforeKeep

(* The inductive invariant of the accounting. *)
AccountInv == RoleInv /\ IsFiniteSet(accepted) /\ NothingSilentlyShed
=============================================================================
