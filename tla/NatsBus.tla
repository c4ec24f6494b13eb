------------------------------ MODULE NatsBus ------------------------------
(***************************************************************************)
(* The NATS client in durable mode (internal/bus/natsbus), one per         *)
(* collector, around one JetStream stream.                                 *)
(*                                                                         *)
(* publishDurable pushes a batch through the library's window of           *)
(* unacknowledged publishes, a chunk at a time: send the chunk, wait until *)
(* the window is empty or the context is done, join the futures.  A        *)
(* message on the wire may land, be refused or be lost with the            *)
(* connection, and its ack may come after the call has given up on it.     *)
(* subscribeDurable ensures the stream and consumes it from the start, and *)
(* does so again whenever a consume ends for good.                         *)
(*                                                                         *)
(* A keep is named by its trace: the reason byte is carried along.  Two    *)
(* copies of one collector's keep on the wire count as one.  The server    *)
(* and the library are external and modelled from what the client relies   *)
(* on.                                                                     *)
(***************************************************************************)
EXTENDS Integers, Sequences, FiniteSets, SequencesExt

CONSTANTS
    Collectors,         \* the collectors, each with one client
    Traces,             \* the traces that may be kept
    asyncMaxPending,    \* the window, and the chunk
    MaxFaults           \* bound: outages, refusals, dead contexts, ended consumes, crashes

ASSUME WindowHolds == asyncMaxPending \in Nat \ {0}

VARIABLES
    pub,        \* pub[c]: c's Publish call
    ctx,        \* ctx[c]: the call's context is done
    late,       \* late[c]: traces of given-up publishes still in the window
    wire,       \* messages on their way, <<collector, trace>>
    acks,       \* acknowledgements on their way back
    stream,     \* the stream, which the server keeps
    serverUp,
    faults,     \* the faults so far, of any kind
    sub,        \* sub[c]: where c's subscription loop is
    cursor      \* cursor[c]: entries of the stream its consume has delivered

pubVars == <<pub, ctx, late, wire, acks>>
subVars == <<sub, cursor>>
busVars == <<pubVars, stream, serverUp, faults, subVars>>

NoCall == [pc |-> "idle", keeps |-> << >>, start |-> 0, futs |-> << >>, joined |-> 0,
           failed |-> << >>, err |-> FALSE]

BusInit ==
    /\ pub = [c \in Collectors |-> NoCall]
    /\ ctx = [c \in Collectors |-> FALSE]
    /\ late = [c \in Collectors |-> {}]
    /\ wire = {}
    /\ acks = {}
    /\ stream = << >>
    /\ serverUp = TRUE
    /\ faults = 0
    /\ sub = [c \in Collectors |-> "none"]
    /\ cursor = [c \in Collectors |-> 0]

Fault == faults < MaxFaults /\ faults' = faults + 1

-----------------------------------------------------------------------------
(* The chunk in hand is keeps[start + 1 ..], futs its sent part: a future  *)
(* is "sent", "ok" or "err", or "none" where PublishAsync itself failed.   *)
(* joined counts the futures that the join has read.                       *)
ChunkEnd(p) == Min({p.start + asyncMaxPending, Len(p.keeps)})
Sent(p)     == p.start + Len(p.futs)
Open(c)     == {i \in DOMAIN pub[c].futs : pub[c].futs[i] = "sent"}
Window(c)   == Cardinality(Open(c)) + Cardinality(late[c])

PublishBegin(c, keeps) ==
    /\ pub[c].pc = "idle"
    /\ pub' = [pub EXCEPT ![c] = [NoCall EXCEPT !.pc = IF keeps = << >> THEN "returned" ELSE "send",
                                                !.keeps = keeps]]
    /\ ctx' = [ctx EXCEPT ![c] = FALSE]
    /\ UNCHANGED <<late, wire, acks, stream, serverUp, faults, subVars>>

(* The next keep of the chunk goes out, when the context is alive. *)
SendNext(c) ==
    LET p == pub[c]
        t == p.keeps[Sent(p) + 1]
    IN /\ p.pc = "send"
       /\ ~ctx[c]
       /\ Sent(p) < ChunkEnd(p)
       /\ \/ /\ Window(c) < asyncMaxPending
             /\ pub' = [pub EXCEPT ![c].futs = Append(@, "sent")]
             /\ wire' = wire \union {<<c, t>>}
          \/ /\ ~serverUp \/ Window(c) >= asyncMaxPending
             /\ pub' = [pub EXCEPT ![c].futs = Append(@, "none"),
                                   ![c].failed = Append(@, t), ![c].err = TRUE]
             /\ wire' = wire
       /\ UNCHANGED <<ctx, late, acks, stream, serverUp, faults, subVars>>

(* PublishAsyncComplete: no publish of this or an earlier call is open. *)
Complete(c) == Open(c) = {} /\ late[c] = {}

(* The chunk is out and its acks are in, or the context is done. *)
JoinBegin(c) ==
    LET p == pub[c]
    IN /\ p.pc = "send"
       /\ ctx[c] \/ (Sent(p) = ChunkEnd(p) /\ Complete(c))
       /\ pub' = [pub EXCEPT ![c].pc = "join"]
       /\ UNCHANGED <<ctx, late, wire, acks, stream, serverUp, faults, subVars>>

(* The next future is read: an ack, an error, or still open, for which the *)
(* context is the reason; a publish that was refused at once has been      *)
(* reported already.                                                       *)
JoinNext(c) ==
    LET p == pub[c]
        f == p.futs[p.joined + 1]
        t == p.keeps[p.start + p.joined + 1]
    IN /\ p.pc = "join"
       /\ p.joined < Len(p.futs)
       /\ \/ /\ f \in {"none", "ok"}
             /\ pub' = [pub EXCEPT ![c].joined = @ + 1]
          \/ /\ f \in {"err", "sent"}
             /\ pub' = [pub EXCEPT ![c].joined = @ + 1, ![c].failed = Append(@, t),
                                   ![c].err = @ \/ f = "err" \/ ctx[c]]
       /\ UNCHANGED <<ctx, late, wire, acks, stream, serverUp, faults, subVars>>

(* Mutant of Unattempted: only the rest of the chunk is failed. *)
UnattemptedInChunk(p) == SubSeq(p.keeps, Sent(p) + 1, ChunkEnd(p))

(* What a dead context leaves untried: the rest of the chunk and of the    *)
(* batch.                                                                  *)
Unattempted(p) == SubSeq(p.keeps, Sent(p) + 1, Len(p.keeps))

(* Back to the caller, or on to the next chunk.  A future still open stays *)
(* behind in the window.                                                   *)
JoinEnd(c) ==
    LET p      == pub[c]
        failed == p.failed \o Unattempted(p)
    IN /\ p.pc = "join"
       /\ p.joined = Len(p.futs)
       /\ late' = [late EXCEPT ![c] = @ \union {p.keeps[p.start + i] : i \in Open(c)}]
       /\ pub' = [pub EXCEPT ![c] =
                    IF ctx[c]
                    THEN [p EXCEPT !.pc = "returned", !.futs = << >>, !.joined = 0, !.failed = failed,
                                   !.err = @ \/ failed # << >>]
                    ELSE [p EXCEPT !.pc = IF ChunkEnd(p) = Len(p.keeps) THEN "returned" ELSE "send",
                                   !.start = ChunkEnd(p), !.futs = << >>, !.joined = 0]]
       /\ UNCHANGED <<ctx, wire, acks, stream, serverUp, faults, subVars>>

(* The context of the call ends: the flusher stops, or its drain timeout   *)
(* is up.                                                                  *)
CtxDone(c) ==
    /\ pub[c].pc \in {"send", "join"}
    /\ ~ctx[c]
    /\ Fault
    /\ ctx' = [ctx EXCEPT ![c] = TRUE]
    /\ UNCHANGED <<pub, late, wire, acks, stream, serverUp, subVars>>

-----------------------------------------------------------------------------
(* The future of a message resolves, in the call or after it. *)
Resolve(c, t, how) ==
    /\ pub' = [pub EXCEPT ![c].futs =
                 [i \in DOMAIN @ |-> IF @[i] = "sent" /\ pub[c].keeps[pub[c].start + i] = t THEN how ELSE @[i]]]
    /\ late' = [late EXCEPT ![c] = @ \ {t}]

Land(c, t) ==
    /\ serverUp
    /\ <<c, t>> \in wire
    /\ wire' = wire \ {<<c, t>>}
    /\ acks' = acks \union {<<c, t>>}
    /\ stream' = Append(stream, t)
    /\ UNCHANGED <<pub, ctx, late, serverUp, faults, subVars>>

Ack(c, t) ==
    /\ <<c, t>> \in acks
    /\ acks' = acks \ {<<c, t>>}
    /\ Resolve(c, t, "ok")
    /\ UNCHANGED <<ctx, wire, stream, serverUp, faults, subVars>>

Refuse(c, t) ==
    /\ serverUp
    /\ Fault
    /\ <<c, t>> \in wire
    /\ wire' = wire \ {<<c, t>>}
    /\ Resolve(c, t, "err")
    /\ UNCHANGED <<ctx, acks, stream, serverUp, subVars>>

(* The connection breaks, with messages and acknowledgements on it. *)
ServerGone ==
    /\ serverUp
    /\ serverUp' = FALSE
    /\ Fault
    /\ \E lost \in SUBSET wire : wire' = wire \ lost
    /\ acks' = {}
    /\ UNCHANGED <<pub, ctx, late, stream, subVars>>

(* On a reconnect the library fails every publish it has no ack for. *)
ServerBack ==
    /\ ~serverUp
    /\ serverUp' = TRUE
    /\ pub' = [c \in Collectors |->
                 [pub[c] EXCEPT !.futs = [i \in DOMAIN @ |-> IF @[i] = "sent" THEN "err" ELSE @[i]]]]
    /\ late' = [c \in Collectors |-> {}]
    /\ UNCHANGED <<ctx, wire, acks, stream, faults, subVars>>

-----------------------------------------------------------------------------
(* subscribeDurable starts the loop and returns at once. *)
Subscribe(c) ==
    /\ sub[c] = "none"
    /\ sub' = [sub EXCEPT ![c] = "ensure"]
    /\ UNCHANGED <<cursor, pubVars, stream, serverUp, faults>>

(* Mutant of ConsumeOnce: only new entries are delivered. *)
ConsumeOnceNew(c) ==
    /\ sub[c] = "ensure"
    /\ serverUp
    /\ sub' = [sub EXCEPT ![c] = "consume"]
    /\ cursor' = [cursor EXCEPT ![c] = Len(stream)]
    /\ UNCHANGED <<pubVars, stream, serverUp, faults>>

(* consumeOnce: ensure the stream and consume it from its first entry; an  *)
(* attempt that fails changes nothing and is made again a second later.    *)
ConsumeOnce(c) ==
    /\ sub[c] = "ensure"
    /\ serverUp
    /\ sub' = [sub EXCEPT ![c] = "consume"]
    /\ cursor' = [cursor EXCEPT ![c] = 0]
    /\ UNCHANGED <<pubVars, stream, serverUp, faults>>

(* Mutant of ConsumeEnds: the loop ends with its consume. *)
ConsumeEndsLoop(c) ==
    /\ sub[c] = "consume"
    /\ sub' = [sub EXCEPT ![c] = "none"]
    /\ Fault
    /\ UNCHANGED <<cursor, pubVars, stream, serverUp>>

(* cc.Closed: the consume has ended for good, and the loop starts anew. *)
ConsumeEnds(c) ==
    /\ sub[c] = "consume"
    /\ sub' = [sub EXCEPT ![c] = "ensure"]
    /\ Fault
    /\ UNCHANGED <<cursor, pubVars, stream, serverUp>>

(* The next entry goes to the subscriber's fn. *)
Deliver(c, t) ==
    /\ sub[c] = "consume"
    /\ serverUp
    /\ cursor[c] < Len(stream)
    /\ t = stream[cursor[c] + 1]
    /\ cursor' = [cursor EXCEPT ![c] = @ + 1]
    /\ UNCHANGED <<sub, pubVars, stream, serverUp, faults>>

(* The collector's process is gone: its call, its window and its           *)
(* subscription with it, but not what is already on the wire.              *)
ClientGone(c) ==
    /\ pub' = [pub EXCEPT ![c] = NoCall]
    /\ ctx' = [ctx EXCEPT ![c] = FALSE]
    /\ late' = [late EXCEPT ![c] = {}]
    /\ sub' = [sub EXCEPT ![c] = "none"]
    /\ cursor' = [cursor EXCEPT ![c] = 0]
    /\ acks' = {a \in acks : a[1] # c}
    /\ UNCHANGED <<wire, stream, serverUp>>

ClientStep(c) ==
    \/ SendNext(c)
    \/ JoinBegin(c)
    \/ JoinNext(c)
    \/ JoinEnd(c)

ServerStep ==
    \/ \E c \in Collectors, t \in Traces : Land(c, t) \/ Ack(c, t) \/ Refuse(c, t)
    \/ ServerBack
    \/ ServerGone

-----------------------------------------------------------------------------
(* The contract of Publish: "failed is a subset of keeps; err describes    *)
(* why, nil iff failed is empty", and exhaustive: when it returns, each    *)
(* keep of the batch is in the stream or is reported failed, once, however *)
(* the context, the acks and the chunks fell out.                          *)
PublishContract ==
    \A c \in Collectors :
      LET p == pub[c]
      IN p.pc = "returned" =>
           /\ ToSet(p.failed) \subseteq ToSet(p.keeps)
           /\ ToSet(p.keeps) \subseteq ToSet(p.failed) \union ToSet(stream)
           /\ IsInjective(p.failed)
           /\ p.err = (p.failed # << >>)

-----------------------------------------------------------------------------
(***************************************************************************)
(* The inductive invariant of the client, a call at a time: what of the    *)
(* batch is behind the join has been reported or has landed; what is ahead *)
(* of it has been reported only if it was never sent.                      *)
(***************************************************************************)
Futures == {"none", "sent", "ok", "err"}
Calls   == [pc : {"idle", "send", "join", "returned"}, keeps : Seq(Traces), start : Nat,
            futs : Seq(Futures), joined : Nat, failed : Seq(Traces), err : BOOLEAN]

Running(p) == p.pc \in {"send", "join"}

CallShape(p) ==
    /\ IsInjective(p.keeps)
    /\ IsInjective(p.failed)
    /\ Running(p) => Sent(p) <= ChunkEnd(p)
    /\ p.joined <= Len(p.futs)
    /\ p.pc = "send" => p.joined = 0
    /\ p.err = (p.failed # << >>)

(* While the context lives the join begins with every future resolved. *)
CallResolved(p, dead) ==
    p.pc = "join" /\ ~dead =>
      Sent(p) = ChunkEnd(p) /\ \A i \in DOMAIN p.futs : p.futs[i] # "sent"

CallReported(p) ==
    Running(p) =>
      \A k \in DOMAIN p.failed : \E m \in 1 .. Sent(p) :
        /\ p.failed[k] = p.keeps[m]
        /\ m <= p.start + p.joined \/ p.futs[m - p.start] = "none"

CallCovered(p, landed) ==
    Running(p) =>
      /\ \A m \in 1 .. p.start + p.joined : p.keeps[m] \in ToSet(p.failed) \union landed
      /\ \A i \in p.joined + 1 .. Len(p.futs) :
           /\ p.futs[i] = "none" => p.keeps[p.start + i] \in ToSet(p.failed)
           /\ p.futs[i] = "ok" => p.keeps[p.start + i] \in landed

CallDone(p, landed) ==
    p.pc = "returned" =>
      /\ ToSet(p.failed) \subseteq ToSet(p.keeps)
      /\ ToSet(p.keeps) \subseteq ToSet(p.failed) \union landed

CallOK(p, dead, landed) ==
    /\ CallShape(p)
    /\ CallResolved(p, dead)
    /\ CallReported(p)
    /\ CallCovered(p, landed)
    /\ CallDone(p, landed)

BusTypeOK ==
    /\ pub \in [Collectors -> Calls]
    /\ ctx \in [Collectors -> BOOLEAN]
    /\ late \in [Collectors -> SUBSET Traces]
    /\ wire \subseteq Collectors \X Traces
    /\ acks \subseteq Collectors \X Traces
    /\ stream \in Seq(Traces)
    /\ cursor \in [Collectors -> Nat]

BusInv ==
    /\ BusTypeOK
    /\ \A a \in acks : a[2] \in ToSet(stream)
    /\ \A c \in Collectors : cursor[c] <= Len(stream)
    /\ \A c \in Collectors : CallOK(pub[c], ctx[c], ToSet(stream))
=============================================================================
