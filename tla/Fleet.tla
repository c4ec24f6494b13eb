------------------------------- MODULE Fleet -------------------------------
(***************************************************************************)
(* Collectors that buffer fragments of the same traces and tell each other *)
(* over NATS which to keep: detection, the owed broadcast, the bus, the    *)
(* peers' decisions and the flush, through crashes and restarts.           *)
(*                                                                         *)
(* Each collector is seen from outside its threads (the shard worker, the  *)
(* flusher and the processor's lifecycle are modules of their own): what   *)
(* it has on disk, what it has decided, the broadcasts it still owes.      *)
(* Everything happens within one retention window, so nothing expires      *)
(* from a disk or from the stream and no broadcast is abandoned.           *)
(***************************************************************************)
EXTENDS NatsBus

CONSTANTS
    Routes,         \* the <<collector, trace>> pairs for which there are spans
    Detectors       \* the collectors on which a span may raise a verdict

VARIABLES
    phase,      \* phase[c]: "down", "starting" (subscribed, no set stored) or "up"
    disk,       \* disk[c]: traces with a fragment in c's buffer, which a crash leaves
    decided,    \* decided[c]: c's decided set
    owed,       \* owed[c]: keeps c has yet to broadcast, or to hear acknowledged
    flushed,    \* flushed[c]: traces whose fragment c has passed on
    detected,   \* detected[c]: traces c has raised a verdict on, ever
    forgotten,  \* forgotten[c]: broadcasts that c owed when it died
    missed      \* missed[c]: keeps that reached c before it stored its set

fleetVars == <<phase, disk, decided, owed, flushed, detected, forgotten, missed>>
vars == <<busVars, fleetVars>>

Init ==
    /\ BusInit
    /\ phase = [c \in Collectors |-> "down"]
    /\ disk = [c \in Collectors |-> {}]
    /\ decided = [c \in Collectors |-> {}]
    /\ owed = [c \in Collectors |-> {}]
    /\ flushed = [c \in Collectors |-> {}]
    /\ detected = [c \in Collectors |-> {}]
    /\ forgotten = [c \in Collectors |-> {}]
    /\ missed = [c \in Collectors |-> {}]

-----------------------------------------------------------------------------
(* start: the shards recover what is on disk, the subscription begins, and *)
(* the set is stored last.                                                 *)
StartSubscribe(c) ==
    /\ phase[c] = "down"
    /\ Subscribe(c)
    /\ phase' = [phase EXCEPT ![c] = "starting"]
    /\ UNCHANGED <<disk, decided, owed, flushed, detected, forgotten, missed>>

StartStore(c) ==
    /\ phase[c] = "starting"
    /\ phase' = [phase EXCEPT ![c] = "up"]
    /\ UNCHANGED <<busVars, disk, decided, owed, flushed, detected, forgotten, missed>>

(* A fragment is buffered; a verdict on it decides the trace and owes the  *)
(* broadcast, unless the trace is decided already.                         *)
Ingest(c, t, verdict) ==
    /\ phase[c] = "up"
    /\ <<c, t>> \in Routes
    /\ t \notin disk[c]
    /\ verdict => c \in Detectors
    /\ disk' = [disk EXCEPT ![c] = @ \union {t}]
    /\ IF verdict /\ t \notin decided[c]
       THEN /\ decided' = [decided EXCEPT ![c] = @ \union {t}]
            /\ owed' = [owed EXCEPT ![c] = @ \union {t}]
            /\ detected' = [detected EXCEPT ![c] = @ \union {t}]
       ELSE UNCHANGED <<decided, owed, detected>>
    /\ UNCHANGED <<busVars, phase, flushed, forgotten, missed>>

(* processBatch: the owed keeps, without duplicates, in any order ... *)
PublishOwed(c) ==
    /\ phase[c] = "up"
    /\ \E batch \in SUBSET owed[c] \ {{}} : \E keeps \in SetToSeqs(batch) : PublishBegin(c, keeps)
    /\ UNCHANGED fleetVars

(* Mutant of Settled: every keep of the batch counts as broadcast. *)
SettledAll(p) == ToSet(p.keeps)

(* ... of which those that failed go back to their shard. *)
Settled(p) == ToSet(p.keeps) \ ToSet(p.failed)

PublishSettled(c) ==
    /\ pub[c].pc = "returned"
    /\ owed' = [owed EXCEPT ![c] = @ \ Settled(pub[c])]
    /\ pub' = [pub EXCEPT ![c] = NoCall]
    /\ UNCHANGED <<ctx, late, wire, acks, stream, serverUp, faults, subVars,
                   phase, disk, decided, flushed, detected, forgotten, missed>>

(* One goroutine publishes and then flushes: a decided trace whose own     *)
(* broadcast is owed waits for it, and nothing is flushed during a call.   *)
Flush(c, t) ==
    /\ phase[c] = "up"
    /\ pub[c].pc = "idle"
    /\ t \in (decided[c] \intersect disk[c]) \ (flushed[c] \union owed[c])
    /\ flushed' = [flushed EXCEPT ![c] = @ \union {t}]
    /\ UNCHANGED <<busVars, phase, disk, decided, owed, detected, forgotten, missed>>

(* The subscription's fn decides the trace without owing a broadcast, or   *)
(* finds no set and drops the keep.                                        *)
Receive(c, t) ==
    /\ Deliver(c, t)
    /\ IF phase[c] = "up"
       THEN /\ decided' = [decided EXCEPT ![c] = @ \union {t}]
            /\ missed' = [missed EXCEPT ![c] = @ \ {t}]
       ELSE /\ missed' = [missed EXCEPT ![c] = @ \union {t}]
            /\ UNCHANGED decided
    /\ UNCHANGED <<phase, disk, owed, flushed, detected, forgotten>>

(* The process dies at any point; the disk outlives it. *)
Crash(c) ==
    /\ phase[c] # "down"
    /\ Fault
    /\ ClientGone(c)
    /\ phase' = [phase EXCEPT ![c] = "down"]
    /\ decided' = [decided EXCEPT ![c] = {}]
    /\ owed' = [owed EXCEPT ![c] = {}]
    /\ forgotten' = [forgotten EXCEPT ![c] = @ \union owed[c]]
    /\ missed' = [missed EXCEPT ![c] = {}]
    /\ UNCHANGED <<disk, flushed, detected>>

BusStep(A) == A /\ UNCHANGED fleetVars

Next ==
    \/ \E c \in Collectors :
         \/ StartSubscribe(c)
         \/ StartStore(c)
         \/ \E t \in Traces, verdict \in BOOLEAN : Ingest(c, t, verdict)
         \/ PublishOwed(c)
         \/ PublishSettled(c)
         \/ \E t \in Traces : Flush(c, t) \/ Receive(c, t)
         \/ Crash(c)
         \/ BusStep(ClientStep(c))
         \/ BusStep(CtxDone(c))
         \/ BusStep(ConsumeOnce(c))
         \/ BusStep(ConsumeEnds(c))
    \/ BusStep(ServerStep)

Spec == Init /\ [][Next]_vars

(* Goroutines that can run do, the subscription's retry included; the      *)
(* flusher flushes what it can between one publish and the next, hence the *)
(* strong fairness; outages end; a message on a live connection lands and  *)
(* is acknowledged.  No context is bound to end, and no refusal to happen. *)
Fairness ==
    /\ \A c \in Collectors :
         /\ WF_vars(StartSubscribe(c) \/ StartStore(c))
         /\ WF_vars(PublishOwed(c) \/ PublishSettled(c) \/ BusStep(ClientStep(c)))
         /\ SF_vars(\E t \in Traces : Flush(c, t))
         /\ WF_vars(BusStep(ConsumeOnce(c)) \/ \E t \in Traces : Receive(c, t))
    /\ WF_vars(BusStep(ServerBack \/ \E c \in Collectors, t \in Traces : Land(c, t) \/ Ack(c, t)))

FairSpec == Spec /\ Fairness

-----------------------------------------------------------------------------
(* A verdict outlives everything but the crash ADR-009 r6 accepts: what a  *)
(* collector detected it still owes, or is in the stream for all to        *)
(* replay, or was owed when the process died (processBatch, Publish).      *)
KeepSurvives ==
    \A c \in Collectors : detected[c] \subseteq owed[c] \union ToSet(stream) \union forgotten[c]

(* What a collector in service has been sent it has decided: neither a     *)
(* replay, a rebuilt consume nor a restart leaves a hole, except for keeps *)
(* that came between its Subscribe and the store of its set.               *)
DecidedCoversStream ==
    \A c \in Collectors : phase[c] = "up" =>
      \A i \in 1 .. cursor[c] : stream[i] \in decided[c] \union missed[c]

(* A kept trace is completed: when its keep is in the stream, every        *)
(* collector with a fragment of it, buffered before or after, before a     *)
(* restart or since, passes it on, unless it dies or missed the keep while *)
(* starting.                                                               *)
Completes ==
    \A r \in Routes :
      (phase[r[1]] = "up" /\ r[2] \in disk[r[1]] /\ r[2] \in ToSet(stream))
        ~> (r[2] \in flushed[r[1]] \/ phase[r[1]] # "up" \/ r[2] \in missed[r[1]])

-----------------------------------------------------------------------------
(* The inductive invariant of the fleet. *)
FleetTypeOK ==
    /\ disk \in [Collectors -> SUBSET Traces]
    /\ decided \in [Collectors -> SUBSET Traces]
    /\ owed \in [Collectors -> SUBSET Traces]
    /\ detected \in [Collectors -> SUBSET Traces]
    /\ forgotten \in [Collectors -> SUBSET Traces]
    /\ missed \in [Collectors -> SUBSET Traces]
    /\ \A c \in Collectors : IsFiniteSet(owed[c])

Delivered ==
    \A c \in Collectors : \A i \in 1 .. cursor[c] : stream[i] \in decided[c] \union missed[c]

FleetInv == BusInv /\ FleetTypeOK /\ Delivered /\ KeepSurvives
=============================================================================
