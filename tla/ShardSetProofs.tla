--------------------------- MODULE ShardSetProofs ---------------------------
(***************************************************************************)
(* Proofs, for any number of callers, shards and buffers and any bounds,   *)
(* of the safety properties of ShardSet.                                   *)
(***************************************************************************)
EXTENDS ShardSet, SumTheorems

USE DEF Shards, PCs, WPCs, SPCs

-----------------------------------------------------------------------------
(* The initial state is well typed. *)
LEMMA TypeInit == Init => TypeOK
  BY NShardsPositive, QueueDepthPositive
     DEF Init, TypeOK, NoCall, Events, Kinds, FloorCauses, ShedCauses

(* A step of a caller keeps the types. *)
LEMMA TypeCaller ==
    ASSUME TypeOK, NEW c \in Callers,
           CallStep(c) \/ CloseAbort(c) \/ \E k \in KindsOf(c), s \in Shards : Enter(c, k, s)
    PROVE  TypeOK'
<1> USE NShardsPositive, QueueDepthPositive DEF TypeOK
<1>1. CASE \E k \in KindsOf(c), s \in Shards : Enter(c, k, s)
  <2>1. PICK k \in KindsOf(c), s \in Shards : Enter(c, k, s)
    BY <1>1
  <2>2. [from |-> c, n |-> calls[c] + 1, shard |-> s, kind |-> k] \in Events
    BY DEF Events, Kinds, KindsOf
  <2>3. QED
    BY SMTT(40), <2>1, <2>2 DEF Enter, workerVars, shutdownVars
<1>2. CASE CheckIntake(c)
  BY <1>2 DEF CheckIntake, workerVars, shutdownVars
<1>3. CASE CheckFloor(c)
  <2>1. call[c].shard \in Shards
    BY DEF Events
  <2>2. floor[call[c].shard] \in FloorCauses
    BY <2>1
  <2>3. CASE floor[call[c].shard] = "floorClear"
    BY <1>3, <2>3 DEF CheckFloor, workerVars, shutdownVars
  <2>4. CASE floor[call[c].shard] # "floorClear"
    <3>1. PICK cause \in ShedCauses : cause = floor[call[c].shard]
      BY <2>2, <2>4 DEF FloorCauses, ShedCauses
    <3>2. pc' = [pc EXCEPT ![c] = "leave"] /\ shed' = [shed EXCEPT ![cause] = @ + 1]
      BY <1>3, <2>4, <3>1 DEF CheckFloor
    <3>3. shed' \in [ShedCauses -> Nat] /\ pc' \in [Callers -> PCs]
      BY <3>2
    <3>4. QED
      BY <1>3, <3>3 DEF CheckFloor, workerVars, shutdownVars
  <2>5. QED
    BY <2>3, <2>4
<1>4. CASE TakeBuffer(c)
  <2>1. call[c].shard \in Shards
    BY DEF Events
  <2>2. free' \in [Shards -> Nat]
    BY SMTT(40), <1>4, <2>1 DEF TakeBuffer
  <2>3. pc' \in [Callers -> PCs]
    BY <1>4 DEF TakeBuffer
  <2>4. QED
    BY <1>4, <2>2, <2>3 DEF TakeBuffer, workerVars, shutdownVars
<1>5. CASE ShedQueueFull(c)
  <2>1. shed' \in [ShedCauses -> Nat]
    BY SMTT(40), <1>5 DEF ShedQueueFull, ShedCauses
  <2>2. pc' \in [Callers -> PCs]
    BY <1>5 DEF ShedQueueFull
  <2>3. QED
    BY <1>5, <2>1, <2>2 DEF ShedQueueFull, workerVars, shutdownVars
<1>6. CASE Abort(c)
  BY <1>6 DEF Abort, workerVars, shutdownVars
<1>7. CASE Send(c)
  <2>1. call[c] \in Events /\ call[c].shard \in Shards
    BY DEF Events
  <2>2. Append(work[call[c].shard], call[c]) \in Seq(Events)
    BY <2>1
  <2>3. QED
    BY <1>7, <2>1, <2>2 DEF Send, workerVars, shutdownVars
<1>8. CASE Leave(c)
  <2>1. NoCall(c) \in Events
    BY DEF NoCall, Events, Kinds
  <2>2. QED
    BY <1>8, <2>1 DEF Leave, workerVars, shutdownVars
<1>9. CASE CloseAbort(c)
  BY <1>9 DEF CloseAbort, callerVars, workerVars, shutdownVars
<1>10. QED
  BY <1>1, <1>2, <1>3, <1>4, <1>5, <1>6, <1>7, <1>8, <1>9 DEF CallStep

(* A step of a worker keeps the types. *)
LEMMA TypeWorker ==
    ASSUME TypeOK, NEW s \in Shards, WorkerStep(s) \/ Tick(s)
    PROVE  TypeOK'
<1> USE NShardsPositive, QueueDepthPositive DEF TypeOK
<1>1. CASE Dequeue(s)
  <2>1. work[s] \in Seq(Events) /\ work[s] # << >>
    BY <1>1 DEF Dequeue
  <2>2. Head(work[s]) \in Events /\ Tail(work[s]) \in Seq(Events)
    BY <2>1
  <2>3. QED
    BY <1>1, <2>2 DEF Dequeue, callerVars, shutdownVars
<1>2. CASE Recycle(s)
  BY SMTT(40), <1>2 DEF Recycle, callerVars, shutdownVars
<1>3. CASE BeginDrain(s)
  BY <1>3 DEF BeginDrain, callerVars, shutdownVars
<1>4. CASE CloseWorker(s)
  BY <1>4 DEF CloseWorker, callerVars, shutdownVars
<1>5. CASE Tick(s)
  BY <1>5 DEF Tick, callerVars, workerVars, shutdownVars
<1>6. QED
  BY <1>1, <1>2, <1>3, <1>4, <1>5 DEF WorkerStep

(* A step of Shutdown keeps the types. *)
LEMMA TypeShutdown ==
    ASSUME TypeOK, ShutdownBegin \/ ShutdownStep \/ ShutdownTimeout
    PROVE  TypeOK'
<1> USE NShardsPositive DEF TypeOK, callerVars, workerVars
<1>1. CASE ShutdownBegin
  BY <1>1 DEF ShutdownBegin
<1>2. CASE ShutdownQuiesced
  BY <1>2 DEF ShutdownQuiesced
<1>3. CASE ShutdownStop
  <2>1. si' \in Shards /\ spc' \in SPCs
    BY <1>3 DEF ShutdownStop
  <2>2. stop' \in [Shards -> BOOLEAN]
    BY <1>3 DEF ShutdownStop
  <2>3. QED
    BY <1>3, <2>1, <2>2 DEF ShutdownStop
<1>4. CASE ShutdownWait
  BY SMTT(40), <1>4 DEF ShutdownWait
<1>5. CASE ShutdownAwait
  BY SMTT(40), <1>5 DEF ShutdownAwait
<1>6. CASE ShutdownTimeout
  BY <1>6 DEF ShutdownTimeout
<1>7. QED
  BY <1>1, <1>2, <1>3, <1>4, <1>5, <1>6 DEF ShutdownStep

(* Every step keeps the types. *)
LEMMA TypeNext == TypeOK /\ [Next]_vars => TypeOK'
<1> SUFFICES ASSUME TypeOK, [Next]_vars PROVE TypeOK'
  OBVIOUS
<1>1. CASE UNCHANGED vars
  BY <1>1 DEF vars, TypeOK
<1>2. CASE Next
  BY <1>2, TypeCaller, TypeWorker, TypeShutdown DEF Next
<1>3. QED
  BY <1>1, <1>2

(* Every reachable state of ShardSet is well typed. *)
THEOREM TypeCorrect == Spec => []TypeOK
  BY TypeInit, TypeNext, PTL DEF Spec

-----------------------------------------------------------------------------
(***************************************************************************)
(* The in-flight count.                                                    *)
(***************************************************************************)

(* The sets of callers the invariants count are finite. *)
LEMMA HoldersFinite ==
    IsFiniteSet(TokenHolders) /\ \A s \in Shards : IsFiniteSet(Holders(s))
  BY CallersFinite, FS_Subset DEF TokenHolders, Holders

(* A step after which the same callers hold tokens, and which leaves the   *)
(* count alone, keeps the count exact.                                     *)
LEMMA InflightUnmoved ==
    ASSUME InflightExact, inflight' = inflight,
           \A c \in Callers : pc'[c] # "idle" <=> pc[c] # "idle"
    PROVE  InflightExact'
<1>1. TokenHolders' = TokenHolders
  BY DEF TokenHolders
<1>2. QED
  BY <1>1 DEF InflightExact

(* Every step keeps the in-flight count exact. *)
LEMMA InflightNext == TypeOK /\ InflightExact /\ [Next]_vars => InflightExact'
<1> SUFFICES ASSUME TypeOK, InflightExact, [Next]_vars PROVE InflightExact'
  OBVIOUS
<1> USE DEF TypeOK
<1>1. ASSUME NEW c \in Callers, NEW k \in KindsOf(c), NEW s \in Shards, Enter(c, k, s)
      PROVE  InflightExact'
  <2>1. TokenHolders' = TokenHolders \cup {c} /\ c \notin TokenHolders
    BY <1>1 DEF Enter, TokenHolders
  <2>2. Cardinality(TokenHolders') = Cardinality(TokenHolders) + 1
    BY <2>1, HoldersFinite, FS_AddElement
  <2>3. QED
    BY <1>1, <2>2 DEF Enter, InflightExact
<1>2. ASSUME NEW c \in Callers, Leave(c)
      PROVE  InflightExact'
  <2>1. TokenHolders' = TokenHolders \ {c} /\ c \in TokenHolders
    BY <1>2 DEF Leave, TokenHolders
  <2>2. Cardinality(TokenHolders') = Cardinality(TokenHolders) - 1
    BY <2>1, HoldersFinite, FS_RemoveElement
  <2>3. QED
    BY <1>2, <2>2 DEF Leave, InflightExact
<1>3. ASSUME NEW c \in Callers, CheckIntake(c) \/ CheckFloor(c) \/ TakeBuffer(c)
                                  \/ ShedQueueFull(c) \/ Abort(c) \/ Send(c)
      PROVE  InflightExact'
  <2>1. inflight' = inflight /\ pc[c] # "idle"
    BY <1>3 DEF CheckIntake, CheckFloor, TakeBuffer, ShedQueueFull, Abort, Send
  <2>2. \E p \in PCs \ {"idle"} : pc' = [pc EXCEPT ![c] = p]
    BY <1>3 DEF CheckIntake, CheckFloor, TakeBuffer, ShedQueueFull, Abort, Send
  <2>3. \A d \in Callers : pc'[d] # "idle" <=> pc[d] # "idle"
    BY <2>1, <2>2
  <2>4. QED
    BY <2>1, <2>3, InflightUnmoved
<1>4. ASSUME UNCHANGED <<inflight, pc>> PROVE InflightExact'
  BY <1>4, InflightUnmoved
<1>5. ASSUME NEW c \in Callers, CloseAbort(c) PROVE InflightExact'
  BY <1>4, <1>5 DEF CloseAbort, callerVars
<1>6. ASSUME NEW s \in Shards, WorkerStep(s) \/ Tick(s) PROVE InflightExact'
  BY <1>4, <1>6
     DEF WorkerStep, Dequeue, Recycle, BeginDrain, CloseWorker, Tick, callerVars
<1>7. ASSUME ShutdownBegin \/ ShutdownStep \/ ShutdownTimeout PROVE InflightExact'
  BY <1>4, <1>7
     DEF ShutdownBegin, ShutdownStep, ShutdownQuiesced, ShutdownStop, ShutdownWait,
         ShutdownAwait, ShutdownTimeout, callerVars
<1>8. ASSUME UNCHANGED vars PROVE InflightExact'
  BY <1>4, <1>8 DEF vars
<1>9. QED
  BY <1>1, <1>2, <1>3, <1>5, <1>6, <1>7, <1>8 DEF Next, CallStep

-----------------------------------------------------------------------------
(***************************************************************************)
(* The quiesce: stop is signalled only when nobody can send any more.      *)
(***************************************************************************)

(* A zero count means that no caller is past the intake check. *)
LEMMA ZeroMeansNobody ==
    ASSUME InflightExact, inflight = 0
    PROVE  PastIntake = {}
<1>1. TokenHolders = {}
  BY HoldersFinite, FS_EmptySet DEF InflightExact
<1>2. QED
  BY <1>1 DEF TokenHolders, PastIntake

(* Every step keeps QuiesceInv. *)
LEMMA QuiesceNext == TypeOK /\ InflightExact /\ QuiesceInv /\ [Next]_vars => QuiesceInv'
<1> SUFFICES ASSUME TypeOK, InflightExact, QuiesceInv, [Next]_vars PROVE QuiesceInv'
  OBVIOUS
<1> USE DEF TypeOK
<1>1. ASSUME NEW c \in Callers, CheckIntake(c)
      PROVE  QuiesceInv'
  <2>1. ~intake => PastIntake' \subseteq PastIntake
    BY <1>1 DEF CheckIntake, PastIntake
  <2>2. UNCHANGED <<intake, wpc, stop, spc>>
    BY <1>1 DEF CheckIntake, workerVars, shutdownVars
  <2>3. Quiesced' <=> Quiesced
    BY <2>2 DEF Quiesced
  <2>4. QED
    BY <2>1, <2>2, <2>3 DEF QuiesceInv
<1>2. ASSUME PastIntake' \subseteq PastIntake, UNCHANGED <<intake, wpc, stop, spc>>
      PROVE  QuiesceInv'
  <2>1. Quiesced' <=> Quiesced
    BY <1>2 DEF Quiesced
  <2>2. QED
    BY <1>2, <2>1 DEF QuiesceInv
<1>3. ASSUME NEW c \in Callers, NEW k \in KindsOf(c), NEW s \in Shards, Enter(c, k, s)
      PROVE  QuiesceInv'
  <2>1. PastIntake' \subseteq PastIntake
    BY <1>3 DEF Enter, PastIntake
  <2>2. QED
    BY <1>2, <1>3, <2>1 DEF Enter, workerVars, shutdownVars
<1>4. ASSUME NEW c \in Callers, CheckFloor(c) \/ TakeBuffer(c) \/ ShedQueueFull(c)
                                  \/ Abort(c) \/ Send(c) \/ Leave(c)
      PROVE  QuiesceInv'
  <2>1. \E p \in PCs : pc' = [pc EXCEPT ![c] = p] /\ (pc[c] = "leave" => p = "idle")
    BY <1>4 DEF CheckFloor, TakeBuffer, ShedQueueFull, Abort, Send, Leave
  <2>2. pc[c] \in {"floorCheck", "take", "send", "leave"}
    BY <1>4 DEF CheckFloor, TakeBuffer, ShedQueueFull, Abort, Send, Leave
  <2>3. PastIntake' \subseteq PastIntake
    BY <2>1, <2>2 DEF PastIntake
  <2>4. UNCHANGED <<intake, wpc, stop, spc>>
    BY <1>4 DEF CheckFloor, TakeBuffer, ShedQueueFull, Abort, Send, Leave,
                workerVars, shutdownVars
  <2>5. QED
    BY <1>2, <2>3, <2>4
<1>5. ASSUME NEW c \in Callers, CloseAbort(c) PROVE QuiesceInv'
  BY <1>2, <1>5 DEF CloseAbort, callerVars, workerVars, shutdownVars, PastIntake
<1>6. ASSUME NEW s \in Shards, WorkerStep(s) \/ Tick(s) PROVE QuiesceInv'
  <2>1. UNCHANGED <<intake, stop, spc>> /\ PastIntake' = PastIntake
    BY <1>6 DEF WorkerStep, Dequeue, Recycle, BeginDrain, CloseWorker, Tick,
                callerVars, shutdownVars, PastIntake
  <2>2. Quiesced' <=> Quiesced
    BY <2>1 DEF Quiesced
  <2>3. \A t \in Shards : wpc'[t] \in {"drain", "drainHandle", "closed"} => stop[t]
    BY <1>6 DEF WorkerStep, Dequeue, Recycle, BeginDrain, CloseWorker, Tick,
                workerVars, QuiesceInv
  <2>4. QED
    BY <2>1, <2>2, <2>3 DEF QuiesceInv
<1>7. ASSUME ShutdownBegin \/ ShutdownStep \/ ShutdownTimeout PROVE QuiesceInv'
  <2>1. UNCHANGED wpc /\ PastIntake' = PastIntake
    BY <1>7 DEF ShutdownBegin, ShutdownStep, ShutdownQuiesced, ShutdownStop, ShutdownWait,
                ShutdownAwait, ShutdownTimeout, callerVars, workerVars, PastIntake
  <2>2. CASE ShutdownBegin
    BY <2>1, <2>2 DEF ShutdownBegin, QuiesceInv, Quiesced
  <2>3. CASE ShutdownQuiesced
    <3>1. PastIntake = {}
      BY <2>3, ZeroMeansNobody DEF ShutdownQuiesced
    <3>2. QED
      BY <2>1, <2>3, <3>1 DEF ShutdownQuiesced, QuiesceInv, Quiesced
  <2>4. CASE ShutdownStop
    <3>1. ~intake /\ PastIntake = {} /\ intake' = intake /\ spc' # "idle"
      BY <2>4 DEF ShutdownStop, QuiesceInv, Quiesced
    <3>2. \A s \in Shards : stop[s] => stop'[s]
      BY <2>4 DEF ShutdownStop
    <3>3. QED
      BY <2>1, <3>1, <3>2 DEF QuiesceInv
  <2>5. CASE ShutdownWait \/ ShutdownAwait \/ ShutdownTimeout
    <3>1. UNCHANGED <<intake, stop>> /\ ~intake /\ spc' # "idle"
      BY <2>5 DEF ShutdownWait, ShutdownAwait, ShutdownTimeout, QuiesceInv
    <3>2. Quiesced' => Quiesced
      BY <2>5 DEF ShutdownWait, ShutdownAwait, ShutdownTimeout, Quiesced
    <3>3. QED
      BY <2>1, <3>1, <3>2 DEF QuiesceInv
  <2>6. QED
    BY <1>7, <2>2, <2>3, <2>4, <2>5 DEF ShutdownStep
<1>8. ASSUME UNCHANGED vars PROVE QuiesceInv'
  BY <1>2, <1>8 DEF vars, PastIntake
<1>9. QED
  BY <1>1, <1>3, <1>4, <1>5, <1>6, <1>7, <1>8 DEF Next, CallStep

-----------------------------------------------------------------------------
(***************************************************************************)
(* The buffers of a shard.                                                 *)
(***************************************************************************)

(* The number of buffers in callers' hands is a natural number. *)
LEMMA HoldersNat == \A s \in Shards : Cardinality(Holders(s)) \in Nat
  BY HoldersFinite, FS_CardinalityType

(* The terms of a shard's balance, before a step. *)
LEMMA Balance ==
    ASSUME TypeOK, BuffersConserved, NEW s \in Shards
    PROVE  /\ free[s] \in Nat /\ Len(work[s]) \in Nat /\ Cardinality(Holders(s)) \in Nat
           /\ Busy(s) => free[s] + Len(work[s]) + Cardinality(Holders(s)) + 1 = QueueDepth
           /\ ~Busy(s) => free[s] + Len(work[s]) + Cardinality(Holders(s)) + 0 = QueueDepth
<1>1. work[s] \in Seq(Events) /\ free[s] \in Nat
  BY DEF TypeOK
<1>2. QED
  BY <1>1, HoldersNat DEF BuffersConserved

(* A step that moves no buffer keeps the balance. *)
LEMMA BuffersUnmoved ==
    ASSUME BuffersConserved, UNCHANGED <<free, work, wpc>>,
           \A s \in Shards : Holders(s)' = Holders(s)
    PROVE  BuffersConserved'
  BY DEF BuffersConserved, Busy

(* Every step keeps the buffers' balance. *)
LEMMA BuffersNext == TypeOK /\ BuffersConserved /\ [Next]_vars => BuffersConserved'
<1> SUFFICES ASSUME TypeOK, BuffersConserved, [Next]_vars PROVE BuffersConserved'
  OBVIOUS
<1> USE DEF TypeOK
<1>1. ASSUME NEW c \in Callers, TakeBuffer(c)
      PROVE  BuffersConserved'
  <2> SUFFICES ASSUME NEW s \in Shards
               PROVE  (free[s] + Len(work[s]) + Cardinality(Holders(s))
                         + (IF Busy(s) THEN 1 ELSE 0) = QueueDepth)'
    BY DEF BuffersConserved
  <2>1. UNCHANGED <<work, wpc, call>> /\ pc' = [pc EXCEPT ![c] = "send"] /\ pc[c] = "take"
    BY <1>1 DEF TakeBuffer, workerVars
  <2>2. CASE call[c].shard = s
    <3>1. Holders(s)' = Holders(s) \cup {c} /\ c \notin Holders(s)
      BY <2>1, <2>2 DEF Holders
    <3>2. Cardinality(Holders(s)') = Cardinality(Holders(s)) + 1
      BY ZenonT(40), <3>1, HoldersFinite, FS_AddElement
    <3>3. free'[s] = free[s] - 1
      BY <1>1, <2>2 DEF TakeBuffer
    <3>4. QED
      <4>1. Busy(s)' <=> Busy(s)
        BY <2>1 DEF Busy
      <4>2. Len(work'[s]) = Len(work[s])
        BY <2>1
      <4>3. CASE Busy(s)
        BY SMTT(40), <3>2, <3>3, <4>1, <4>2, <4>3, Balance
      <4>4. CASE ~Busy(s)
        BY <3>2, <3>3, <4>1, <4>2, <4>4, Balance
      <4>5. QED
        BY <4>3, <4>4
  <2>3. CASE call[c].shard # s
    <3>1. Holders(s)' = Holders(s)
      BY <2>1, <2>3 DEF Holders
    <3>2. free'[s] = free[s]
      BY <1>1, <2>3 DEF TakeBuffer
    <3>3. QED
      BY <2>1, <3>1, <3>2 DEF BuffersConserved, Busy
  <2>4. QED
    BY <2>2, <2>3
<1>2. ASSUME NEW c \in Callers, Send(c)
      PROVE  BuffersConserved'
  <2> SUFFICES ASSUME NEW s \in Shards
               PROVE  (free[s] + Len(work[s]) + Cardinality(Holders(s))
                         + (IF Busy(s) THEN 1 ELSE 0) = QueueDepth)'
    BY DEF BuffersConserved
  <2>1. UNCHANGED <<free, wpc, call>> /\ pc' = [pc EXCEPT ![c] = "leave"] /\ pc[c] = "send"
    BY <1>2 DEF Send, workerVars
  <2>2. CASE call[c].shard = s
    <3>1. Holders(s)' = Holders(s) \ {c} /\ c \in Holders(s)
      BY <2>1, <2>2 DEF Holders
    <3>2. Cardinality(Holders(s)') = Cardinality(Holders(s)) - 1
      BY <3>1, HoldersFinite, FS_RemoveElement
    <3>3. work'[s] = Append(work[s], call[c]) /\ call[c] \in Events /\ work[s] \in Seq(Events)
      BY <1>2, <2>2 DEF Send
    <3>4. Len(work'[s]) = Len(work[s]) + 1 /\ Len(work[s]) \in Nat
      BY <3>3
    <3>5. QED
      <4>1. (Busy(s)' <=> Busy(s)) /\ free'[s] = free[s]
        BY <2>1 DEF Busy
      <4>2. free[s] \in Nat /\ Cardinality(Holders(s)) \in Nat
        BY Balance
      <4>3. free'[s] + Len(work'[s]) + Cardinality(Holders(s)')
              = free[s] + Len(work[s]) + Cardinality(Holders(s))
        BY <3>2, <3>4, <4>1, <4>2
      <4>4. QED
        BY <4>1, <4>3, Balance
  <2>3. CASE call[c].shard # s
    <3>1. Holders(s)' = Holders(s)
      BY <2>1, <2>3 DEF Holders
    <3>2. work'[s] = work[s]
      BY <1>2, <2>3 DEF Send
    <3>3. QED
      BY <2>1, <3>1, <3>2 DEF BuffersConserved, Busy
  <2>4. QED
    BY <2>2, <2>3
<1>3. ASSUME NEW t \in Shards, Dequeue(t) \/ Recycle(t)
      PROVE  BuffersConserved'
  <2> SUFFICES ASSUME NEW s \in Shards
               PROVE  (free[s] + Len(work[s]) + Cardinality(Holders(s))
                         + (IF Busy(s) THEN 1 ELSE 0) = QueueDepth)'
    BY DEF BuffersConserved
  <2>1. Holders(s)' = Holders(s)
    BY <1>3 DEF Dequeue, Recycle, callerVars, Holders
  <2>2. CASE s # t
    <3>1. free'[s] = free[s] /\ work'[s] = work[s] /\ wpc'[s] = wpc[s]
      BY <1>3, <2>2 DEF Dequeue, Recycle
    <3>2. QED
      BY <2>1, <3>1 DEF BuffersConserved, Busy
  <2>3. CASE s = t /\ Dequeue(t)
    <3>1. work'[s] = Tail(work[s]) /\ work[s] # << >> /\ work[s] \in Seq(Events)
      BY <2>3 DEF Dequeue
    <3>2. Len(work'[s]) = Len(work[s]) - 1 /\ Len(work[s]) \in Nat
      BY <3>1
    <3>3. free'[s] = free[s] /\ ~Busy(s) /\ Busy(s)'
      BY <2>3 DEF Dequeue, Busy
    <3>4. QED
      <4>1. Cardinality(Holders(s)') = Cardinality(Holders(s))
        BY <2>1
      <4>2. free[s] + Len(work[s]) + Cardinality(Holders(s)) + 0 = QueueDepth
        BY <3>3, Balance
      <4>3. free'[s] + Len(work'[s]) + Cardinality(Holders(s)') + 1 = QueueDepth
        <5>1. free[s] \in Nat /\ Cardinality(Holders(s)) \in Nat
          BY Balance
        <5>2. QED
          BY <3>2, <3>3, <4>1, <4>2, <5>1
      <4>4. QED
        BY <3>3, <4>3
  <2>4. CASE s = t /\ Recycle(t)
    <3>1. work'[s] = work[s] /\ free'[s] = free[s] + 1 /\ Busy(s) /\ ~Busy(s)'
      BY <2>4 DEF Recycle, Busy
    <3>2. QED
      BY SMTT(40), <2>1, <3>1, Balance
  <2>5. QED
    BY <1>3, <2>2, <2>3, <2>4
<1>4. ASSUME NEW t \in Shards, BeginDrain(t) \/ CloseWorker(t) \/ Tick(t)
      PROVE  BuffersConserved'
  <2>1. UNCHANGED <<free, work>> /\ \A s \in Shards : Holders(s)' = Holders(s)
    BY <1>4 DEF BeginDrain, CloseWorker, Tick, callerVars, Holders
  <2>2. \A s \in Shards : Busy(s)' <=> Busy(s)
    BY <1>4 DEF BeginDrain, CloseWorker, Tick, workerVars, Busy
  <2>3. QED
    BY <2>1, <2>2 DEF BuffersConserved
<1>5. ASSUME NEW c \in Callers, CheckIntake(c) \/ CheckFloor(c) \/ ShedQueueFull(c)
                                  \/ Abort(c) \/ CloseAbort(c)
      PROVE  BuffersConserved'
  <2>1. UNCHANGED <<free, work, wpc, call>>
    BY <1>5 DEF CheckIntake, CheckFloor, ShedQueueFull, Abort, CloseAbort, callerVars,
                workerVars
  <2>2. \A d \in Callers : pc'[d] = "send" <=> pc[d] = "send"
    BY <1>5 DEF CheckIntake, CheckFloor, ShedQueueFull, Abort, CloseAbort, callerVars
  <2>3. \A s \in Shards : Holders(s)' = Holders(s)
    BY <2>1, <2>2 DEF Holders
  <2>4. QED
    BY <2>1, <2>3, BuffersUnmoved
<1>6. ASSUME NEW c \in Callers, Leave(c) \/ \E k \in KindsOf(c), s \in Shards : Enter(c, k, s)
      PROVE  BuffersConserved'
  <2>1. UNCHANGED <<free, work, wpc>>
    BY <1>6 DEF Leave, Enter, workerVars
  <2>2. pc[c] # "send" /\ pc'[c] # "send"
    BY <1>6 DEF Leave, Enter
  <2>3. \A d \in Callers : d # c => pc'[d] = pc[d] /\ call'[d] = call[d]
    BY <1>6 DEF Leave, Enter
  <2>4. \A s \in Shards : Holders(s)' = Holders(s)
    BY <2>2, <2>3 DEF Holders
  <2>5. QED
    BY <2>1, <2>4, BuffersUnmoved
<1>7. ASSUME ShutdownBegin \/ ShutdownStep \/ ShutdownTimeout \/ UNCHANGED vars
      PROVE  BuffersConserved'
  <2>1. UNCHANGED <<free, work, wpc, pc, call>>
    BY <1>7 DEF ShutdownBegin, ShutdownStep, ShutdownQuiesced, ShutdownStop, ShutdownWait,
                ShutdownAwait, ShutdownTimeout, callerVars, workerVars, vars
  <2>2. \A s \in Shards : Holders(s)' = Holders(s)
    BY <2>1 DEF Holders
  <2>3. QED
    BY <2>1, <2>2, BuffersUnmoved
<1>8. QED
  BY <1>1, <1>2, <1>3, <1>4, <1>5, <1>6, <1>7 DEF Next, CallStep, WorkerStep

-----------------------------------------------------------------------------
(***************************************************************************)
(* Where the accepted events are.                                          *)
(***************************************************************************)

(* A step that moves no event and no worker keeps PlaceInv. *)
LEMMA PlaceUnmoved ==
    ASSUME PlaceInv, UNCHANGED <<work, hand, wpc, accepted, handled, spc, si>>
    PROVE  PlaceInv'
  BY DEF PlaceInv, Busy

(* Every step keeps PlaceInv. *)
LEMMA PlaceNext == TypeOK /\ QuiesceInv /\ PlaceInv /\ [Next]_vars => PlaceInv'
<1> SUFFICES ASSUME TypeOK, QuiesceInv, PlaceInv, [Next]_vars PROVE PlaceInv'
  OBVIOUS
<1> USE DEF TypeOK
<1>1. ASSUME NEW c \in Callers, Send(c) PROVE PlaceInv'
  <2> DEFINE t == call[c].shard
             e == call[c]
  <2>1. t \in Shards /\ e \in Events /\ work[t] \in Seq(Events) /\ e.shard = t
    BY DEF Events
  <2>2. wpc[t] # "closed"
    <3>1. c \in PastIntake
      BY <1>1 DEF Send, PastIntake
    <3>2. ~stop[t]
      BY <2>1, <3>1 DEF QuiesceInv, Quiesced
    <3>3. QED
      BY <2>1, <3>2 DEF QuiesceInv
  <2>3. /\ work' = [work EXCEPT ![t] = Append(work[t], e)]
        /\ accepted' = accepted \cup {e}
        /\ UNCHANGED <<hand, wpc, handled, spc, si>>
    BY <1>1 DEF Send, workerVars, shutdownVars
  <2> HIDE DEF t, e
  <2>4. /\ Len(work'[t]) = Len(work[t]) + 1
        /\ work'[t][Len(work[t]) + 1] = e
        /\ \A i \in 1 .. Len(work[t]) : work'[t][i] = work[t][i]
        /\ Len(work[t]) \in Nat
    BY <2>1, <2>3
  <2>5. \A s \in Shards : s # t => work'[s] = work[s]
    BY <2>3
  <2>6. \A s \in Shards : \A i \in 1 .. Len(work'[s]) :
            \/ work'[s][i] = e /\ s = t
            \/ i \in 1 .. Len(work[s]) /\ work'[s][i] = work[s][i]
    <3> SUFFICES ASSUME NEW s \in Shards, NEW i \in 1 .. Len(work'[s])
                 PROVE  \/ work'[s][i] = e /\ s = t
                        \/ i \in 1 .. Len(work[s]) /\ work'[s][i] = work[s][i]
      OBVIOUS
    <3>1. CASE s = t
      <4>1. i \in 1 .. Len(work[t]) \/ i = Len(work[t]) + 1
        BY <2>4, <3>1
      <4>2. QED
        BY <2>4, <3>1, <4>1
    <3>2. CASE s # t
      BY <2>5, <3>2
    <3>3. QED
      BY <3>1, <3>2
  <2>7. \A f \in accepted' : \/ f \in handled'
                             \/ f \in hand'[f.shard]
                             \/ \E i \in 1 .. Len(work'[f.shard]) : work'[f.shard][i] = f
    <3> SUFFICES ASSUME NEW f \in accepted', f \notin handled', f \notin hand'[f.shard]
                 PROVE  \E i \in 1 .. Len(work'[f.shard]) : work'[f.shard][i] = f
      OBVIOUS
    <3>1. CASE f = e
      BY <2>1, <2>4, <3>1
    <3>2. CASE f \in accepted
      <4>1. f.shard \in Shards
        BY <3>2 DEF Events
      <4>2. PICK i \in 1 .. Len(work[f.shard]) : work[f.shard][i] = f
        BY <2>3, <3>2 DEF PlaceInv
      <4>3. i \in 1 .. Len(work'[f.shard]) /\ work'[f.shard][i] = f
        <5>1. CASE f.shard = t
          BY <2>4, <4>2, <5>1
        <5>2. CASE f.shard # t
          BY <2>5, <4>1, <4>2, <5>2
        <5>3. QED
          BY <5>1, <5>2
      <4>4. QED
        BY <4>3
    <3>3. QED
      BY <2>3, <3>1, <3>2
  <2>8. \A s \in Shards : wpc'[s] = "closed" => work'[s] = << >>
    BY <2>2, <2>3, <2>5 DEF PlaceInv
  <2>9. \A s \in Shards : \A i \in 1 .. Len(work'[s]) :
            work'[s][i].shard = s /\ work'[s][i] \in accepted'
    BY <2>1, <2>3, <2>6 DEF PlaceInv
  <2>10. QED
    BY <2>3, <2>7, <2>8, <2>9 DEF PlaceInv, Busy
<1>2. ASSUME NEW t \in Shards, Dequeue(t) PROVE PlaceInv'
  <2> DEFINE e == Head(work[t])
  <2>1. /\ work[t] \in Seq(Events) /\ work[t] # << >>
        /\ work' = [work EXCEPT ![t] = Tail(work[t])]
        /\ hand' = [hand EXCEPT ![t] = {e}]
        /\ wpc[t] \in {"select", "drain"}
        /\ wpc' = [wpc EXCEPT ![t] = IF wpc[t] = "select" THEN "handle" ELSE "drainHandle"]
        /\ UNCHANGED <<accepted, handled, spc, si>>
    BY <1>2 DEF Dequeue, shutdownVars
  <2>2. /\ Len(work[t]) \in Nat \ {0} /\ e = work[t][1] /\ e \in Events
        /\ Len(work'[t]) = Len(work[t]) - 1
        /\ \A i \in 1 .. Len(work[t]) - 1 : work'[t][i] = work[t][i + 1]
    BY <2>1
  <2>3. /\ \A s \in Shards : s # t => work'[s] = work[s] /\ hand'[s] = hand[s] /\ wpc'[s] = wpc[s]
        /\ hand'[t] = {e} /\ wpc'[t] \in {"handle", "drainHandle"}
    BY <2>1
  <2>4. hand[t] = {}
    BY <2>1 DEF PlaceInv, Busy
  <2>12. 1 \in 1 .. Len(work[t])
    BY <2>2
  <2>13. work[t][1].shard = t /\ work[t][1] \in accepted
    BY <2>12 DEF PlaceInv
  <2>14. e.shard = t /\ e \in accepted
    BY <2>2, <2>13
  <2>5. \A s \in Shards : \A i \in 1 .. Len(work'[s]) :
            work'[s][i].shard = s /\ work'[s][i] \in accepted
    <3> SUFFICES ASSUME NEW s \in Shards, NEW i \in 1 .. Len(work'[s])
                 PROVE  work'[s][i].shard = s /\ work'[s][i] \in accepted
      OBVIOUS
    <3>1. CASE s = t
      <4>1. i + 1 \in 1 .. Len(work[t]) /\ work'[t][i] = work[t][i + 1]
        BY <2>2, <3>1
      <4>2. work[t][i + 1].shard = t /\ work[t][i + 1] \in accepted
        BY <4>1 DEF PlaceInv
      <4>3. QED
        BY <3>1, <4>1, <4>2
    <3>2. CASE s # t
      BY <2>3, <3>2 DEF PlaceInv
    <3>3. QED
      BY <3>1, <3>2
  <2>6. \A f \in accepted : \/ f \in handled
                            \/ f \in hand'[f.shard]
                            \/ \E i \in 1 .. Len(work'[f.shard]) : work'[f.shard][i] = f
    <3> SUFFICES ASSUME NEW f \in accepted, f \notin handled, f \notin hand'[f.shard]
                 PROVE  \E i \in 1 .. Len(work'[f.shard]) : work'[f.shard][i] = f
      OBVIOUS
    <3>1. f.shard \in Shards
      BY DEF Events
    <3>5. f \in hand[f.shard] \/ \E i \in 1 .. Len(work[f.shard]) : work[f.shard][i] = f
      BY DEF PlaceInv
    <3>2. CASE f.shard # t
      BY <2>3, <3>1, <3>2, <3>5
    <3>3. CASE f.shard = t
      <4>1. PICK i \in 1 .. Len(work[t]) : work[t][i] = f
        BY <2>4, <3>3, <3>5
      <4>2. i # 1
        BY <2>2, <2>3, <3>3, <4>1
      <4>3. i - 1 \in 1 .. Len(work[t]) - 1
        BY <2>2, <4>1, <4>2
      <4>5. work'[t][i - 1] = work[t][(i - 1) + 1] /\ (i - 1) + 1 = i
        BY <2>2, <4>1, <4>3
      <4>6. i - 1 \in 1 .. Len(work'[t]) /\ work'[t][i - 1] = f
        BY <2>2, <4>1, <4>3, <4>5
      <4>4. QED
        BY <3>3, <4>6
    <3>4. QED
      BY <3>2, <3>3
  <2>7. \A s \in Shards : (~Busy(s) => hand[s] = {})'
    BY <2>3 DEF PlaceInv, Busy
  <2>8. \A s \in Shards : wpc'[s] = "closed" => work'[s] = << >>
    BY <2>3 DEF PlaceInv
  <2>9. \A s \in Shards : \A f \in hand'[s] : f.shard = s /\ f \in accepted
    BY <2>3, <2>14 DEF PlaceInv
  <2>10. \A s \in Shards : wpc[s] = "closed" => wpc'[s] = "closed"
    BY <2>1, <2>3
  <2>11. QED
    BY SMTT(40), <2>1, <2>5, <2>6, <2>7, <2>8, <2>9, <2>10 DEF PlaceInv
<1>3. ASSUME NEW t \in Shards, Recycle(t) PROVE PlaceInv'
  <2>1. /\ handled' = handled \cup hand[t]
        /\ hand' = [hand EXCEPT ![t] = {}]
        /\ wpc[t] \in {"handle", "drainHandle"}
        /\ wpc' = [wpc EXCEPT ![t] = IF wpc[t] = "handle" THEN "select" ELSE "drain"]
        /\ UNCHANGED <<work, accepted, spc, si>>
    BY <1>3 DEF Recycle, shutdownVars
  <2>2. /\ \A s \in Shards : s # t => hand'[s] = hand[s] /\ wpc'[s] = wpc[s]
        /\ hand'[t] = {} /\ wpc'[t] \in {"select", "drain"}
    BY <2>1
  <2>3. \A s \in Shards : (~Busy(s) => hand[s] = {})'
    BY <2>2 DEF PlaceInv, Busy
  <2>4. \A f \in accepted : f.shard \in Shards
    BY DEF Events
  <2>5. \A f \in accepted : f \in hand[f.shard] => f \in handled' \/ f \in hand'[f.shard]
    BY <2>1, <2>2, <2>4
  <2>6. \A s \in Shards : wpc'[s] = "closed" <=> wpc[s] = "closed"
    BY <2>1, <2>2
  <2>7. \A s \in Shards : hand'[s] \subseteq hand[s]
    BY <2>2
  <2>8. handled' \subseteq accepted' /\ handled \subseteq handled'
    BY <2>1 DEF PlaceInv
  <2>9. QED
    BY <2>1, <2>3, <2>5, <2>6, <2>7, <2>8 DEF PlaceInv
<1>4. ASSUME NEW t \in Shards, BeginDrain(t) \/ CloseWorker(t) PROVE PlaceInv'
  <2>1. UNCHANGED <<work, hand, accepted, handled, spc, si>>
    BY <1>4 DEF BeginDrain, CloseWorker, shutdownVars
  <2>2. \A s \in Shards : /\ (Busy(s)' <=> Busy(s))
                          /\ wpc[s] = "closed" => wpc'[s] = "closed"
                          /\ wpc'[s] = "closed" => wpc[s] = "closed" \/ work[s] = << >>
    BY <1>4 DEF BeginDrain, CloseWorker, Busy
  <2>3. QED
    BY <2>1, <2>2 DEF PlaceInv
<1>5. ASSUME ShutdownWait \/ ShutdownAwait PROVE PlaceInv'
  <2>1. UNCHANGED <<work, hand, wpc, accepted, handled>>
    BY <1>5 DEF ShutdownWait, ShutdownAwait, workerVars
  <2>2. /\ spc' \in {"wait", "await"} => \A s \in Shards : s < si' => wpc[s] = "closed"
        /\ spc' = "returned" => \A s \in Shards : wpc[s] = "closed"
    <3>1. \A s \in Shards : s < si => wpc[s] = "closed"
      BY <1>5 DEF ShutdownWait, ShutdownAwait, PlaceInv
    <3>2. CASE wpc[si] # "closed"
      <4>1. spc' = "await" /\ si' = si
        BY <1>5, <3>2 DEF ShutdownWait, ShutdownAwait
      <4>2. QED
        BY <3>1, <4>1
    <3>3. CASE wpc[si] = "closed" /\ si = NShards
      <4>1. spc' = "returned"
        BY <1>5, <3>3 DEF ShutdownWait, ShutdownAwait
      <4>2. \A s \in Shards : s = si \/ s < si
        BY <3>3
      <4>3. QED
        BY <3>1, <3>3, <4>1, <4>2
    <3>4. CASE wpc[si] = "closed" /\ si # NShards
      <4>1. spc' = "wait" /\ si' = si + 1
        BY <1>5, <3>4 DEF ShutdownWait, ShutdownAwait
      <4>2. \A s \in Shards : s < si + 1 => s = si \/ s < si
        OBVIOUS
      <4>3. QED
        BY <3>1, <3>4, <4>1, <4>2
    <3>5. QED
      BY <3>2, <3>3, <3>4
  <2>3. QED
    BY <2>1, <2>2 DEF PlaceInv, Busy
<1>6. ASSUME ShutdownBegin \/ ShutdownQuiesced \/ ShutdownStop \/ ShutdownTimeout
      PROVE  PlaceInv'
  <2>1. UNCHANGED <<work, hand, wpc, accepted, handled>>
    BY <1>6 DEF ShutdownBegin, ShutdownQuiesced, ShutdownStop, ShutdownTimeout, workerVars
  <2>2. spc' # "returned" /\ (spc' \in {"wait", "await"} => si' = 1)
    BY <1>6 DEF ShutdownBegin, ShutdownQuiesced, ShutdownStop, ShutdownTimeout
  <2>3. QED
    BY <2>1, <2>2 DEF PlaceInv, Busy
<1>7. ASSUME NEW c \in Callers, CheckIntake(c) \/ CheckFloor(c) \/ TakeBuffer(c)
                  \/ ShedQueueFull(c) \/ Abort(c) \/ Leave(c) \/ CloseAbort(c)
                  \/ \E k \in KindsOf(c), s \in Shards : Enter(c, k, s)
      PROVE  PlaceInv'
  BY <1>7, PlaceUnmoved
     DEF CheckIntake, CheckFloor, TakeBuffer, ShedQueueFull, Abort, Leave, CloseAbort, Enter,
         workerVars, shutdownVars
<1>8. ASSUME (\E s \in Shards : Tick(s)) \/ UNCHANGED vars PROVE PlaceInv'
  BY <1>8, PlaceUnmoved DEF Tick, workerVars, shutdownVars, vars
<1>9. QED
  BY <1>1, <1>2, <1>3, <1>4, <1>5, <1>6, <1>7, <1>8
     DEF Next, CallStep, WorkerStep, ShutdownStep

-----------------------------------------------------------------------------
(***************************************************************************)
(* The theorems.                                                           *)
(***************************************************************************)

(* The initial state satisfies the inductive invariant. *)
LEMMA IndInit == Init => IndInv
<1> SUFFICES ASSUME Init PROVE IndInv
  OBVIOUS
<1>1. TokenHolders = {} /\ PastIntake = {} /\ \A s \in Shards : Holders(s) = {}
  BY DEF Init, TokenHolders, PastIntake, Holders
<1>2. InflightExact
  BY <1>1, FS_EmptySet DEF Init, InflightExact
<1>3. BuffersConserved
  <2> SUFFICES ASSUME NEW s \in Shards
               PROVE  free[s] + Len(work[s]) + Cardinality(Holders(s))
                        + (IF Busy(s) THEN 1 ELSE 0) = QueueDepth
    BY DEF BuffersConserved
  <2>1. Cardinality(Holders(s)) = 0 /\ free[s] = QueueDepth /\ work[s] = << >> /\ ~Busy(s)
    BY <1>1, FS_EmptySet DEF Init, Busy
  <2>2. Len(work[s]) = 0
    BY <2>1
  <2>3. QED
    BY <2>1, <2>2, QueueDepthPositive
<1>4. QuiesceInv
  BY <1>1 DEF Init, QuiesceInv, Quiesced
<1>5. PlaceInv
  BY DEF Init, PlaceInv
<1>6. QED
  BY <1>2, <1>3, <1>4, <1>5, TypeInit DEF IndInv

(* The inductive invariant holds in every reachable state. *)
THEOREM IndInvHolds == Spec => []IndInv
<1>1. IndInv /\ [Next]_vars => IndInv'
  BY TypeNext, InflightNext, QuiesceNext, BuffersNext, PlaceNext DEF IndInv
<1>2. QED
  BY IndInit, <1>1, PTL DEF Spec

(* Shutdown spins on exactly the number of callers inside an entry point,  *)
(* however many there are and however their calls end.                     *)
THEOREM InflightIsExact == Spec => []InflightExact
  BY IndInvHolds, PTL DEF IndInv

(* No send on a work queue or a free ring ever blocks. *)
THEOREM SendsDoNotBlock == Spec => []SendsNeverBlock
<1>1. IndInv => SendsNeverBlock
  <2> SUFFICES ASSUME IndInv PROVE SendsNeverBlock
    OBVIOUS
  <2>1. TypeOK /\ BuffersConserved
    BY DEF IndInv
  <2>2. ASSUME NEW c \in Callers, pc[c] = "send"
        PROVE  Len(work[call[c].shard]) < QueueDepth
    <3>1. PICK s \in Shards : s = call[c].shard
      BY <2>1 DEF TypeOK, Events
    <3>2. c \in Holders(s)
      BY <2>2, <3>1 DEF Holders
    <3>3. Cardinality(Holders(s)) # 0
      BY <3>2, HoldersFinite, FS_EmptySet
    <3>4. free[s] \in Nat /\ Len(work[s]) \in Nat /\ Cardinality(Holders(s)) \in Nat
      BY <2>1, Balance
    <3>5. free[s] + Len(work[s]) + Cardinality(Holders(s)) <= QueueDepth
      BY <2>1, <3>4, Balance, QueueDepthPositive
    <3>6. QED
      BY <3>1, <3>3, <3>4, <3>5, QueueDepthPositive
  <2>3. ASSUME NEW s \in Shards, Busy(s)
        PROVE  free[s] < QueueDepth
    BY <2>1, <2>3, Balance, QueueDepthPositive
  <2>4. QED
    BY <2>2, <2>3 DEF SendsNeverBlock
<1>2. QED
  BY IndInvHolds, <1>1, PTL

(* A worker that has closed its buffer leaves nothing accepted unhandled,  *)
(* and nothing can reach its queue any more.                               *)
THEOREM NothingStranded == Spec => []NoStranded
<1>1. IndInv => NoStranded
  <2> SUFFICES ASSUME IndInv, NEW s \in Shards, wpc[s] = "closed"
               PROVE  /\ work[s] = << >>
                      /\ \A e \in accepted : e.shard = s => e \in handled
                      /\ \A c \in PastIntake : call[c].shard # s
    BY DEF NoStranded
  <2>1. work[s] = << >> /\ hand[s] = {}
    BY DEF IndInv, PlaceInv, Busy
  <2>2. \A e \in accepted : e.shard = s => e \in handled
    BY <2>1 DEF IndInv, PlaceInv
  <2>3. PastIntake = {}
    BY DEF IndInv, QuiesceInv, Quiesced
  <2>4. QED
    BY <2>1, <2>2, <2>3
<1>2. QED
  BY IndInvHolds, <1>1, PTL

(* A Shutdown that returns has closed every worker, handled everything     *)
(* accepted and gathered every buffer.                                     *)
THEOREM ShutdownIsComplete == Spec => []ShutdownComplete
<1>1. IndInv => ShutdownComplete
  <2> SUFFICES ASSUME IndInv, spc = "returned"
               PROVE  /\ \A s \in Shards : wpc[s] = "closed" /\ free[s] = QueueDepth
                      /\ accepted = handled
    BY DEF ShutdownComplete
  <2>1. \A s \in Shards : wpc[s] = "closed"
    BY DEF IndInv, PlaceInv
  <2>2. \A s \in Shards : work[s] = << >> /\ hand[s] = {} /\ ~Busy(s)
    BY <2>1 DEF IndInv, PlaceInv, Busy
  <2>3. PastIntake = {}
    BY DEF IndInv, QuiesceInv, Quiesced
  <2>4. ASSUME NEW s \in Shards PROVE free[s] = QueueDepth
    <3>1. Holders(s) = {}
      BY <2>3 DEF Holders, PastIntake
    <3>2. Cardinality(Holders(s)) = 0 /\ Len(work[s]) = 0
      BY <2>2, <3>1, FS_EmptySet
    <3>3. free[s] \in Nat /\ free[s] + Len(work[s]) + Cardinality(Holders(s)) + 0 = QueueDepth
      BY <2>2, Balance DEF IndInv
    <3>4. QED
      BY <3>2, <3>3
  <2>5. accepted = handled
    <3>1. \A e \in accepted : e.shard \in Shards
      BY DEF IndInv, TypeOK, Events
    <3>2. accepted \subseteq handled
      BY <2>2, <3>1 DEF IndInv, PlaceInv
    <3>3. QED
      BY <3>2 DEF IndInv, PlaceInv
  <2>6. QED
    BY <2>1, <2>4, <2>5
<1>2. QED
  BY IndInvHolds, <1>1, PTL

-----------------------------------------------------------------------------
(***************************************************************************)
(* The order of one caller's events on one shard.                          *)
(***************************************************************************)

(* A step that moves no event and begins no call keeps the order. *)
LEMMA OrderUnmoved ==
    ASSUME TypeOK, OrderInv, FragmentsBeforeKeep, UNCHANGED <<work, hand, accepted, handled, calls>>,
           \A c \in Callers : pc'[c] # "idle" => pc[c] # "idle" /\ call'[c] = call[c],
           \A c \in Callers : pc'[c] \in {"token", "floorCheck", "take", "send"}
                                => pc[c] \in {"token", "floorCheck", "take", "send"}
    PROVE  OrderInv' /\ FragmentsBeforeKeep'
<1>1. FragmentsBeforeKeep'
  BY DEF FragmentsBeforeKeep
<1>2. \A e \in accepted : e.from \in Callers
  BY DEF TypeOK, Events
<1>3. OrderInv'
  BY <1>2 DEF OrderInv
<1>4. QED
  BY <1>1, <1>3

(* A call begins: its number is past those of the caller's other events. *)
LEMMA OrderEnter ==
    ASSUME TypeOK, OrderInv, FragmentsBeforeKeep, NEW c \in Callers, NEW k, NEW s, Enter(c, k, s)
    PROVE  OrderInv' /\ FragmentsBeforeKeep'
<1>1. /\ UNCHANGED <<work, hand, accepted, handled>> /\ calls' = [calls EXCEPT ![c] = @ + 1]
      /\ call' = [call EXCEPT ![c] = [from |-> c, n |-> calls[c] + 1, shard |-> s, kind |-> k]]
      /\ pc' = [pc EXCEPT ![c] = "token"]
  BY DEF Enter, workerVars
<1>2. pc \in [Callers -> PCs] /\ calls \in [Callers -> Nat] /\ call \in [Callers -> Events]
  BY DEF TypeOK
<1>3. \A d \in Callers : pc'[d] # "idle" => call'[d].from = d /\ call'[d].n = calls'[d]
  BY <1>1, <1>2 DEF OrderInv
<1>4. ASSUME NEW e \in accepted
      PROVE  /\ e.n <= calls'[e.from]
             /\ pc'[e.from] \in {"token", "floorCheck", "take", "send"} => e.n < calls'[e.from]
  <2>1. e.from \in Callers /\ e.n \in Nat
    BY DEF TypeOK, Events
  <2>2. e.n <= calls[e.from]
    BY DEF OrderInv
  <2>3. CASE e.from = c
    <3>1. calls'[e.from] = calls[e.from] + 1 /\ calls[e.from] \in Nat
      BY <1>1, <1>2, <2>3
    <3>2. QED
      BY <2>1, <2>2, <3>1
  <2>4. CASE e.from # c
    BY <1>1, <1>2, <2>1, <2>4 DEF OrderInv
  <2>5. QED
    BY <2>3, <2>4
<1>5. OrderInv'
  BY <1>1, <1>3, <1>4 DEF OrderInv
<1>6. QED
  BY <1>1, <1>5 DEF FragmentsBeforeKeep

(* An event is accepted behind all the caller's earlier ones. *)
LEMMA OrderSend ==
    ASSUME IndInv, OrderInv, FragmentsBeforeKeep, NEW c \in Callers, Send(c)
    PROVE  OrderInv' /\ FragmentsBeforeKeep'
<1> DEFINE e == call[c]
<1> DEFINE t == e.shard
<1>1. /\ pc[c] = "send" /\ work' = [work EXCEPT ![t] = Append(work[t], e)]
      /\ accepted' = accepted \cup {e} /\ pc' = [pc EXCEPT ![c] = "leave"]
      /\ UNCHANGED <<call, calls, hand, handled>>
  BY DEF Send, workerVars
<1>2. TypeOK /\ PlaceInv
  BY DEF IndInv
<1>3. /\ e \in Events /\ t \in Shards /\ e.n \in Nat /\ e.from = c /\ e.n = calls[c]
      /\ pc \in [Callers -> PCs] /\ calls \in [Callers -> Nat] /\ work \in [Shards -> Seq(Events)]
  BY <1>1, <1>2 DEF TypeOK, Events, OrderInv
<1>4. \A f \in accepted : f.from = c => f.n < e.n
  BY <1>1, <1>3 DEF OrderInv
<1>5. /\ Len(work[t]) \in Nat /\ Len(work'[t]) = Len(work[t]) + 1
      /\ \A i \in 1 .. Len(work[t]) : work'[t][i] = work[t][i]
      /\ work'[t][Len(work[t]) + 1] = e
      /\ \A s \in Shards \ {t} : work'[s] = work[s]
  BY <1>1, <1>3
<1>6. \A d \in Callers : pc'[d] # "idle" => call'[d].from = d /\ call'[d].n = calls'[d]
  BY <1>1, <1>3 DEF OrderInv
<1>7. ASSUME NEW f \in accepted'
      PROVE  /\ f.n <= calls'[f.from]
             /\ pc'[f.from] \in {"token", "floorCheck", "take", "send"} => f.n < calls'[f.from]
  <2>1. CASE f \in accepted
    <3>1. f.from \in Callers
      BY <1>2, <2>1 DEF TypeOK, Events
    <3>2. QED
      BY <1>1, <1>3, <2>1, <3>1 DEF OrderInv
  <2>2. CASE f = e
    BY <1>1, <1>3, <2>2
  <2>3. QED
    BY <1>1, <2>1, <2>2
<1>8. ASSUME NEW s \in Shards, NEW i \in 1 .. Len(work'[s]), NEW j \in 1 .. Len(work'[s]),
             i < j, work'[s][i].from = work'[s][j].from
      PROVE  work'[s][i].n < work'[s][j].n
  <2>1. CASE s # t
    BY <1>5, <1>8, <2>1 DEF OrderInv
  <2>2. CASE s = t /\ j = Len(work[t]) + 1
    <3>1. i \in 1 .. Len(work[t]) /\ work'[s][j] = e /\ work'[s][i] = work[t][i]
      BY <1>5, <1>8, <2>2
    <3>2. work[t][i] \in accepted
      BY <1>2, <1>3, <3>1 DEF PlaceInv
    <3>3. QED
      BY <1>3, <1>4, <1>8, <3>1, <3>2
  <2>3. CASE s = t /\ j # Len(work[t]) + 1
    <3>1. /\ i \in 1 .. Len(work[t]) /\ j \in 1 .. Len(work[t])
          /\ work'[s][j] = work[t][j] /\ work'[s][i] = work[t][i]
      <4>1. i \in 1 .. Len(work[t]) /\ j \in 1 .. Len(work[t])
        BY SMTT(40), <1>5, <1>8, <2>3
      <4>2. QED
        BY <1>5, <2>3, <4>1
    <3>2. \A a, b \in 1 .. Len(work[t]) :
            a < b /\ work[t][a].from = work[t][b].from => work[t][a].n < work[t][b].n
      BY <1>3 DEF OrderInv
    <3>3. QED
      BY <1>8, <3>1, <3>2
  <2>4. QED
    BY <2>1, <2>2, <2>3
<1>9. ASSUME NEW s \in Shards, NEW f \in hand'[s], NEW i \in 1 .. Len(work'[s]),
             f.from = work'[s][i].from
      PROVE  f.n < work'[s][i].n
  <2>1. f \in hand[s] /\ f \in accepted
    BY <1>1, <1>2, <1>9 DEF PlaceInv
  <2>2. CASE s # t
    BY SMTT(40), <1>5, <1>9, <2>1, <2>2 DEF OrderInv
  <2>3. CASE s = t /\ i = Len(work[t]) + 1
    <3>1. work'[s][i] = e
      BY <1>5, <2>3
    <3>2. QED
      BY <1>3, <1>4, <1>9, <2>1, <3>1
  <2>4. CASE s = t /\ i # Len(work[t]) + 1
    <3>1. i \in 1 .. Len(work[t]) /\ work'[s][i] = work[t][i]
      BY <1>5, <1>9, <2>4
    <3>2. QED
      BY ZenonT(40), <1>3, <1>9, <2>1, <2>4, <3>1 DEF OrderInv
  <2>5. QED
    BY <2>2, <2>3, <2>4
<1>10. OrderInv'
  BY <1>6, <1>7, <1>8, <1>9 DEF OrderInv
<1>11. FragmentsBeforeKeep'
  <2> SUFFICES ASSUME NEW g \in handled, NEW f \in accepted',
                      f.from = g.from, f.shard = g.shard, f.n < g.n
               PROVE  f \in handled
    BY <1>1 DEF FragmentsBeforeKeep
  <2>1. g \in accepted /\ g.n \in Nat
    BY <1>2 DEF PlaceInv, TypeOK, Events
  <2>2. f # e
    BY <1>3, <1>4, <2>1
  <2>3. QED
    BY <1>1, <2>2 DEF FragmentsBeforeKeep
<1>12. QED
  BY <1>10, <1>11

(* The worker takes the oldest event. *)
LEMMA OrderDequeue ==
    ASSUME IndInv, OrderInv, FragmentsBeforeKeep, NEW t \in Shards, Dequeue(t)
    PROVE  OrderInv' /\ FragmentsBeforeKeep'
<1>1. /\ work[t] # << >> /\ hand' = [hand EXCEPT ![t] = {Head(work[t])}]
      /\ work' = [work EXCEPT ![t] = Tail(work[t])]
      /\ UNCHANGED <<pc, call, calls, accepted, handled>>
  BY DEF Dequeue, callerVars
<1>2. work \in [Shards -> Seq(Events)] /\ hand \in [Shards -> SUBSET Events]
  BY DEF IndInv, TypeOK
<1>3. /\ Len(work[t]) \in Nat \ {0} /\ Head(work[t]) = work[t][1]
      /\ Len(Tail(work[t])) = Len(work[t]) - 1
      /\ \A i \in 1 .. Len(work[t]) - 1 : Tail(work[t])[i] = work[t][i + 1]
  BY <1>1, <1>2
<1>4. /\ hand'[t] = {work[t][1]} /\ Len(work'[t]) = Len(work[t]) - 1
      /\ \A i \in 1 .. Len(work'[t]) : i + 1 \in 1 .. Len(work[t]) /\ work'[t][i] = work[t][i + 1]
      /\ \A s \in Shards \ {t} : work'[s] = work[s] /\ hand'[s] = hand[s]
  BY <1>1, <1>2, <1>3
<1>5. ASSUME NEW s \in Shards, NEW i \in 1 .. Len(work'[s]), NEW j \in 1 .. Len(work'[s]),
             i < j, work'[s][i].from = work'[s][j].from
      PROVE  work'[s][i].n < work'[s][j].n
  <2>1. CASE s # t
    BY ZenonT(40), <1>4, <1>5, <2>1 DEF OrderInv
  <2>2. CASE s = t
    <3>1. /\ i + 1 \in 1 .. Len(work[t]) /\ j + 1 \in 1 .. Len(work[t]) /\ i + 1 < j + 1
          /\ work'[s][j] = work[t][j + 1] /\ work'[s][i] = work[t][i + 1]
      BY SMTT(40), <1>4, <1>5, <2>2
    <3>2. \A a, b \in 1 .. Len(work[t]) :
            a < b /\ work[t][a].from = work[t][b].from => work[t][a].n < work[t][b].n
      BY DEF OrderInv
    <3>3. QED
      BY <1>5, <3>1, <3>2
  <2>3. QED
    BY <2>1, <2>2
<1>6. ASSUME NEW s \in Shards, NEW f \in hand'[s], NEW i \in 1 .. Len(work'[s]),
             f.from = work'[s][i].from
      PROVE  f.n < work'[s][i].n
  <2>1. CASE s # t
    BY <1>4, <1>6, <2>1 DEF OrderInv
  <2>2. CASE s = t
    <3>1. /\ f = work[t][1] /\ i + 1 \in 1 .. Len(work[t]) /\ 1 \in 1 .. Len(work[t]) /\ 1 < i + 1
          /\ work'[s][i] = work[t][i + 1]
      BY <1>3, <1>4, <1>6, <2>2
    <3>2. QED
      BY <1>6, <3>1 DEF OrderInv
  <2>3. QED
    BY <2>1, <2>2
<1>7. OrderInv'
  BY <1>1, <1>5, <1>6 DEF OrderInv
<1>8. QED
  BY <1>1, <1>7 DEF FragmentsBeforeKeep

(* The event in hand is handled: what the caller sent before it was        *)
(* handled before it.                                                      *)
LEMMA OrderRecycle ==
    ASSUME IndInv, OrderInv, FragmentsBeforeKeep, NEW t \in Shards, Recycle(t)
    PROVE  OrderInv' /\ FragmentsBeforeKeep'
<1>1. /\ handled' = handled \cup hand[t] /\ hand' = [hand EXCEPT ![t] = {}]
      /\ UNCHANGED <<pc, call, calls, work, accepted>>
  BY DEF Recycle, callerVars
<1>2. \A s \in Shards : hand'[s] \subseteq hand[s]
  BY <1>1 DEF IndInv, TypeOK
<1>3. OrderInv'
  BY <1>1, <1>2 DEF OrderInv
<1>4. FragmentsBeforeKeep'
  <2> SUFFICES ASSUME NEW e \in handled', NEW f \in accepted,
                      f.from = e.from, f.shard = e.shard, f.n < e.n
               PROVE  f \in handled'
    BY <1>1 DEF FragmentsBeforeKeep
  <2>1. CASE e \in handled
    BY <1>1, <2>1 DEF FragmentsBeforeKeep
  <2>2. CASE e \in hand[t]
    <3>1. e.shard = t /\ e.n \in Nat /\ f.n \in Nat
      BY <2>2 DEF IndInv, PlaceInv, TypeOK, Events
    <3>2. ASSUME NEW i \in 1 .. Len(work[t]), work[t][i] = f
          PROVE  FALSE
      <4>1. e.n < f.n
        BY <2>2, <3>2 DEF OrderInv
      <4>2. QED
        BY <3>1, <4>1
    <3>3. f \in handled \/ f \in hand[t]
      BY <3>1, <3>2 DEF IndInv, PlaceInv
    <3>4. QED
      BY <1>1, <3>3
  <2>3. QED
    BY <1>1, <2>1, <2>2
<1>5. QED
  BY <1>3, <1>4

(* Every step keeps the order. *)
LEMMA OrderNext == OrderedInv /\ [Next]_vars => OrderInv' /\ FragmentsBeforeKeep'
<1> SUFFICES ASSUME OrderedInv, [Next]_vars PROVE OrderInv' /\ FragmentsBeforeKeep'
  OBVIOUS
<1>0. IndInv /\ TypeOK /\ OrderInv /\ FragmentsBeforeKeep /\ pc \in [Callers -> PCs] /\ call \in [Callers -> Events]
  BY DEF OrderedInv, IndInv, TypeOK
<1>1. ASSUME UNCHANGED <<pc, call, calls, work, hand, accepted, handled>>
      PROVE  OrderInv' /\ FragmentsBeforeKeep'
  BY <1>0, <1>1, OrderUnmoved
<1>2. ASSUME NEW c \in Callers, CheckIntake(c) \/ CheckFloor(c) \/ TakeBuffer(c) \/ ShedQueueFull(c) \/ Abort(c)
      PROVE  OrderInv' /\ FragmentsBeforeKeep'
  <2>1. UNCHANGED <<call, calls, work, hand, accepted, handled>>
    BY <1>2 DEF CheckIntake, CheckFloor, TakeBuffer, ShedQueueFull, Abort, workerVars
  <2>2. /\ pc[c] \in {"token", "floorCheck", "take", "send"}
        /\ \E p \in PCs : pc' = [pc EXCEPT ![c] = p]
    BY <1>2 DEF CheckIntake, CheckFloor, TakeBuffer, ShedQueueFull, Abort
  <2>3. \A d \in Callers :
          /\ pc'[d] # "idle" => pc[d] # "idle"
          /\ pc'[d] \in {"token", "floorCheck", "take", "send"}
               => pc[d] \in {"token", "floorCheck", "take", "send"}
    BY <1>0, <2>2
  <2>4. QED
    BY <1>0, <2>1, <2>3, OrderUnmoved
<1>3. ASSUME NEW c \in Callers, Leave(c)
      PROVE  OrderInv' /\ FragmentsBeforeKeep'
  <2>1. /\ UNCHANGED <<calls, work, hand, accepted, handled>> /\ pc' = [pc EXCEPT ![c] = "idle"]
        /\ call' = [call EXCEPT ![c] = NoCall(c)]
    BY <1>3 DEF Leave, workerVars
  <2>2. \A d \in Callers : pc'[d] # "idle" => pc'[d] = pc[d] /\ call'[d] = call[d]
    BY <1>0, <2>1
  <2>3. QED
    BY <1>0, <2>1, <2>2, OrderUnmoved
<1>4. ASSUME NEW c \in Callers, CloseAbort(c)
      PROVE  OrderInv' /\ FragmentsBeforeKeep'
  BY <1>1, <1>4 DEF CloseAbort, callerVars, workerVars
<1>5. ASSUME NEW s \in Shards, BeginDrain(s) \/ CloseWorker(s) \/ Tick(s)
      PROVE  OrderInv' /\ FragmentsBeforeKeep'
  BY <1>1, <1>5 DEF BeginDrain, CloseWorker, Tick, callerVars, workerVars
<1>6. ASSUME ShutdownBegin \/ ShutdownStep \/ ShutdownTimeout
      PROVE  OrderInv' /\ FragmentsBeforeKeep'
  BY <1>1, <1>6 DEF ShutdownBegin, ShutdownStep, ShutdownQuiesced, ShutdownStop, ShutdownWait,
                    ShutdownAwait, ShutdownTimeout, callerVars, workerVars
<1>7. CASE UNCHANGED vars
  BY <1>1, <1>7 DEF vars
<1>8. ASSUME NEW c \in Callers, \E k \in KindsOf(c), s \in Shards : Enter(c, k, s)
      PROVE  OrderInv' /\ FragmentsBeforeKeep'
  BY <1>0, <1>8, OrderEnter
<1>9. ASSUME NEW c \in Callers, CallStep(c)
      PROVE  OrderInv' /\ FragmentsBeforeKeep'
  BY <1>0, <1>2, <1>3, <1>9, OrderSend DEF CallStep
<1>10. ASSUME NEW s \in Shards, WorkerStep(s) \/ Tick(s)
       PROVE  OrderInv' /\ FragmentsBeforeKeep'
  BY <1>0, <1>5, <1>10, OrderDequeue, OrderRecycle DEF WorkerStep
<1>11. QED
  BY <1>4, <1>6, <1>7, <1>8, <1>9, <1>10 DEF Next

(* A batch's fragments are handled before its keep is decided: one         *)
(* caller's events on one shard are handled in the order it sent them,     *)
(* through any interleaving of callers, workers and Shutdown.              *)
THEOREM FragmentsPrecedeKeep == Spec => []FragmentsBeforeKeep
<1>1. Init => OrderInv /\ FragmentsBeforeKeep
  BY DEF Init, OrderInv, FragmentsBeforeKeep
<1>2. IndInv /\ OrderInv /\ FragmentsBeforeKeep /\ [Next]_vars => OrderInv' /\ FragmentsBeforeKeep'
  BY OrderNext DEF OrderedInv
<1>3. QED
  BY IndInvHolds, <1>1, <1>2, PTL DEF Spec

-----------------------------------------------------------------------------
(***************************************************************************)
(* The accounting of what producers offer.                                 *)
(***************************************************************************)
Taken == {e \in accepted : e.from \in Producers}

(* The four amounts are numbers. *)
LEMMA Amounts ==
    ASSUME TypeOK, IsFiniteSet(accepted)
    PROVE  /\ IsFiniteSet(Producers) /\ IsFiniteSet(ShedCauses) /\ IsFiniteSet(Pending) /\ IsFiniteSet(Taken)
           /\ SumFunctionOnSet(calls, Producers) \in Nat /\ SumFunction(shed) \in Nat
           /\ Cardinality(Taken) \in Nat /\ Cardinality(Pending) \in Nat
<1>1. Producers \subseteq Callers /\ Pending \subseteq Producers /\ Taken \subseteq accepted
  BY DEF Callers, Pending, Taken
<1>2. IsFiniteSet(Producers)
  BY <1>1, CallersFinite, FS_Subset
<1>3. IsFiniteSet(Pending) /\ IsFiniteSet(Taken)
  BY <1>1, <1>2, FS_Subset
<1>4. IsFiniteSet(ShedCauses)
  <2>1. IsFiniteSet({"queueFull"})
    BY FS_Singleton
  <2>2. IsFiniteSet({"queueFull"} \cup {"floorProtected"})
    BY <2>1, FS_AddElement
  <2>3. IsFiniteSet(({"queueFull"} \cup {"floorProtected"}) \cup {"nothingReclaimable"})
    BY <2>2, FS_AddElement
  <2>4. ShedCauses = ({"queueFull"} \cup {"floorProtected"}) \cup {"nothingReclaimable"}
    BY DEF ShedCauses
  <2>5. QED
    BY <2>3, <2>4
<1>5. SumFunctionOnSet(calls, Producers) \in Nat
  <2>1. \A c \in Producers : calls[c] \in Nat
    BY <1>1 DEF TypeOK
  <2>2. QED
    BY <1>2, <2>1, SumIsNat
<1>6. SumFunction(shed) \in Nat
  <2>1. DOMAIN shed = ShedCauses /\ \A k \in ShedCauses : shed[k] \in Nat
    BY DEF TypeOK
  <2>2. QED
    BY <1>4, <2>1, SumIsNat DEF SumFunction
<1>7. QED
  BY <1>2, <1>3, <1>4, <1>5, <1>6, FS_CardinalityType

(* A step that counts nothing and moves no producer past its outcome keeps *)
(* the account.                                                            *)
LEMMA AccountUnmoved ==
    ASSUME NothingSilentlyShed, intake' => intake, UNCHANGED <<calls, accepted, shed>>,
           intake' => \A c \in Producers : pc'[c] \in {"token", "floorCheck", "take", "send"}
                                             <=> pc[c] \in {"token", "floorCheck", "take", "send"}
    PROVE  NothingSilentlyShed'
<1> SUFFICES ASSUME intake'
             PROVE  SumFunctionOnSet(calls', Producers)
                      = Cardinality({e \in accepted' : e.from \in Producers}) + SumFunction(shed')
                          + Cardinality(Pending')
  BY DEF NothingSilentlyShed
<1>1. Pending' = Pending
  BY DEF Pending
<1>2. QED
  BY <1>1 DEF NothingSilentlyShed

(* A counter that goes up by one takes the sum of the counters along. *)
LEMMA OneMoreShed ==
    ASSUME IsFiniteSet(ShedCauses), NEW f \in [ShedCauses -> Nat], NEW k \in ShedCauses
    PROVE  SumFunction([f EXCEPT ![k] = @ + 1]) = SumFunction(f) + 1
<1> DEFINE v == f[k] + 1
<1>1. f[k] \in Nat /\ v \in Nat /\ v - f[k] = 1
  OBVIOUS
<1> HIDE DEF v
<1>2. SumFunction([f EXCEPT ![k] = v]) = SumFunction(f) + (v - f[k])
  BY <1>1, SumUpdate
<1>3. QED
  BY <1>1, <1>2 DEF v

(* A producer leaves the pending ones under a shed counter. *)
LEMMA AccountShed ==
    ASSUME TypeOK, IsFiniteSet(accepted), NothingSilentlyShed, NEW c \in Producers, NEW k \in ShedCauses,
           c \in Pending, pc' = [pc EXCEPT ![c] = "leave"], shed' = [shed EXCEPT ![k] = @ + 1],
           UNCHANGED <<intake, calls, accepted>>
    PROVE  NothingSilentlyShed'
<1>1. /\ IsFiniteSet(ShedCauses) /\ IsFiniteSet(Pending) /\ SumFunction(shed) \in Nat
      /\ Cardinality(Taken) \in Nat /\ Cardinality(Pending) \in Nat
  BY Amounts
<1>2. shed \in [ShedCauses -> Nat] /\ pc \in [Callers -> PCs] /\ Producers \subseteq Callers
  BY DEF TypeOK, Callers
<1>3. SumFunction(shed') = SumFunction(shed) + 1
  BY <1>1, <1>2, OneMoreShed
<1>4. Pending' = Pending \ {c}
  BY <1>2 DEF Pending
<1>5. Cardinality(Pending') = Cardinality(Pending) - 1
  BY <1>1, <1>4, FS_RemoveElement
<1>6. QED
  BY <1>1, <1>3, <1>5 DEF NothingSilentlyShed, Taken

(* A call of a producer, or of another, begins. *)
LEMMA AccountEnter ==
    ASSUME TypeOK, IsFiniteSet(accepted), NothingSilentlyShed, NEW c \in Callers, NEW k, NEW s, Enter(c, k, s)
    PROVE  NothingSilentlyShed'
<1>1. /\ pc[c] = "idle" /\ pc' = [pc EXCEPT ![c] = "token"] /\ calls' = [calls EXCEPT ![c] = @ + 1]
      /\ UNCHANGED <<intake, accepted, shed>>
  BY DEF Enter, shutdownVars
<1>2. /\ IsFiniteSet(Producers) /\ IsFiniteSet(Pending) /\ SumFunctionOnSet(calls, Producers) \in Nat
      /\ SumFunction(shed) \in Nat /\ Cardinality(Taken) \in Nat /\ Cardinality(Pending) \in Nat
  BY Amounts
<1>3. calls \in [Callers -> Nat] /\ pc \in [Callers -> PCs] /\ Producers \subseteq Callers
  BY DEF TypeOK, Callers
<1>4. CASE c \in Producers
  <2>1. SumFunctionOnSet(calls', Producers) = SumFunctionOnSet(calls, Producers) + 1
    <3>1. /\ \A d \in Producers : calls[d] \in Nat /\ calls'[d] \in Nat
          /\ \A d \in Producers \ {c} : calls'[d] = calls[d]
          /\ calls'[c] = calls[c] + 1
      BY <1>1, <1>3
    <3>2. SumFunctionOnSet(calls', Producers) = SumFunctionOnSet(calls, Producers) + (calls'[c] - calls[c])
      BY <1>2, <1>4, <3>1, SumChange
    <3>3. QED
      BY <1>2, <1>4, <3>1, <3>2
  <2>2. Pending' = Pending \cup {c} /\ c \notin Pending
    BY <1>1, <1>3, <1>4 DEF Pending
  <2>3. Cardinality(Pending') = Cardinality(Pending) + 1
    BY <1>2, <2>2, FS_AddElement
  <2>4. QED
    BY <1>1, <1>2, <2>1, <2>3 DEF NothingSilentlyShed, Taken
<1>5. CASE c \notin Producers
  <2>1. SumFunctionOnSet(calls', Producers) = SumFunctionOnSet(calls, Producers)
    <3>1. \A d \in Producers : calls[d] \in Nat /\ calls'[d] = calls[d]
      BY <1>1, <1>3, <1>5
    <3>2. QED
      BY <1>2, <3>1, SumSame
  <2>2. Pending' = Pending
    BY <1>1, <1>3, <1>5 DEF Pending
  <2>3. QED
    BY <1>1, <2>1, <2>2 DEF NothingSilentlyShed
<1>6. QED
  BY <1>4, <1>5

(* An event is accepted: it is a new one. *)
LEMMA AccountSend ==
    ASSUME TypeOK, OrderInv, IsFiniteSet(accepted), NothingSilentlyShed, NEW c \in Callers, Send(c)
    PROVE  IsFiniteSet(accepted') /\ NothingSilentlyShed'
<1>1. /\ pc[c] = "send" /\ pc' = [pc EXCEPT ![c] = "leave"] /\ accepted' = accepted \cup {call[c]}
      /\ UNCHANGED <<intake, calls, shed>>
  BY DEF Send, shutdownVars
<1>2. /\ IsFiniteSet(Pending) /\ IsFiniteSet(Taken)
      /\ SumFunction(shed) \in Nat /\ Cardinality(Taken) \in Nat /\ Cardinality(Pending) \in Nat
  BY Amounts
<1>3. pc \in [Callers -> PCs] /\ Producers \subseteq Callers /\ calls[c] \in Nat
  BY DEF TypeOK, Callers
<1>4. call[c] \notin accepted /\ call[c].from = c
  <2>1. call[c].from = c /\ call[c].n = calls[c]
    BY <1>1 DEF OrderInv
  <2>2. \A e \in accepted : e.from = c => e.n < calls[c]
    BY <1>1 DEF OrderInv
  <2>3. QED
    BY <1>3, <2>1, <2>2
<1>5. IsFiniteSet(accepted')
  BY <1>1, FS_AddElement
<1>6. CASE c \in Producers
  <2>1. Taken' = Taken \cup {call[c]} /\ call[c] \notin Taken
    BY <1>1, <1>4, <1>6 DEF Taken
  <2>2. Cardinality(Taken') = Cardinality(Taken) + 1
    BY <1>2, <2>1, FS_AddElement
  <2>3. Pending' = Pending \ {c} /\ c \in Pending
    BY <1>1, <1>3, <1>6 DEF Pending
  <2>4. Cardinality(Pending') = Cardinality(Pending) - 1
    BY <1>2, <2>3, FS_RemoveElement
  <2>5. QED
    BY <1>1, <1>2, <1>5, <2>2, <2>4 DEF NothingSilentlyShed, Taken
<1>7. CASE c \notin Producers
  <2>1. Taken' = Taken
    BY <1>1, <1>4, <1>7 DEF Taken
  <2>2. Pending' = Pending
    BY <1>1, <1>3, <1>7 DEF Pending
  <2>3. QED
    BY <1>1, <1>5, <2>1, <2>2 DEF NothingSilentlyShed, Taken
<1>8. QED
  BY <1>6, <1>7

(* Who runs an entry point of a producer is one. *)
LEMMA Roles ==
    ASSUME NEW c \in Callers
    PROVE  /\ \A k \in KindsOf(c) : k \notin Blocking <=> c \in Producers
           /\ \A k \in KindsOf(c) : k = "Offer" => c \in Producers
  BY DEF KindsOf, Blocking

(* Every step keeps the account. *)
LEMMA AccountNext == OrderedInv /\ AccountInv /\ [Next]_vars => AccountInv'
<1> SUFFICES ASSUME OrderedInv, AccountInv, [Next]_vars PROVE AccountInv'
  OBVIOUS
<1>0. /\ TypeOK /\ OrderInv /\ RoleInv /\ IsFiniteSet(accepted) /\ NothingSilentlyShed
      /\ pc \in [Callers -> PCs] /\ call \in [Callers -> Events] /\ Producers \subseteq Callers
  BY DEF OrderedInv, IndInv, AccountInv, TypeOK, Callers
<1>1. ASSUME UNCHANGED <<pc, call, calls, accepted, shed>>, intake' => intake
      PROVE  AccountInv'
  <2>1. NothingSilentlyShed'
    BY <1>0, <1>1, AccountUnmoved
  <2>2. QED
    BY <1>0, <1>1, <2>1 DEF AccountInv, RoleInv
<1>2. ASSUME NEW c \in Callers, NEW p \in PCs, pc' = [pc EXCEPT ![c] = p], call' = call, pc[c] # "idle",
             p = "floorCheck" => call[c].kind = "Offer"
      PROVE  RoleInv'
  BY <1>0, <1>2 DEF RoleInv
<1>3. ASSUME NEW c \in Callers, CheckIntake(c)
      PROVE  AccountInv'
  <2>1. /\ pc[c] = "token" /\ UNCHANGED <<call, intake, calls, accepted, shed>>
        /\ pc' = [pc EXCEPT ![c] = IF ~intake THEN "leave" ELSE IF call[c].kind = "Offer" THEN "floorCheck"
                                   ELSE "take"]
    BY <1>3 DEF CheckIntake, shutdownVars
  <2>2. RoleInv'
    BY <1>2, <2>1
  <2>3. intake => \A d \in Producers : pc'[d] \in {"token", "floorCheck", "take", "send"}
                                         <=> pc[d] \in {"token", "floorCheck", "take", "send"}
    BY <1>0, <2>1
  <2>4. NothingSilentlyShed'
    BY <1>0, <2>1, <2>3, AccountUnmoved
  <2>5. QED
    BY <1>0, <2>1, <2>2, <2>4 DEF AccountInv
<1>4. ASSUME NEW c \in Callers, CheckFloor(c)
      PROVE  AccountInv'
  <2>1. pc[c] = "floorCheck" /\ UNCHANGED <<call, intake, calls, accepted>>
    BY <1>4 DEF CheckFloor, shutdownVars
  <2>2. c \in Producers /\ c \in Pending
    BY <1>0, <2>1, Roles DEF RoleInv, Pending
  <2>3. floor[call[c].shard] \in FloorCauses
    BY <1>0 DEF TypeOK, Events
  <2>4. CASE floor[call[c].shard] = "floorClear"
    <3>1. pc' = [pc EXCEPT ![c] = "take"] /\ UNCHANGED shed
      BY <1>4, <2>4 DEF CheckFloor
    <3>2. RoleInv'
      BY <1>2, <2>1, <3>1
    <3>3. \A d \in Producers : pc'[d] \in {"token", "floorCheck", "take", "send"}
                                 <=> pc[d] \in {"token", "floorCheck", "take", "send"}
      BY <1>0, <2>1, <3>1
    <3>4. NothingSilentlyShed'
      BY <1>0, <2>1, <3>1, <3>3, AccountUnmoved
    <3>5. QED
      BY <1>0, <2>1, <3>2, <3>4 DEF AccountInv
  <2>5. CASE floor[call[c].shard] # "floorClear"
    <3>1. PICK k \in ShedCauses : k = floor[call[c].shard]
      BY <2>3, <2>5 DEF FloorCauses, ShedCauses
    <3>2. pc' = [pc EXCEPT ![c] = "leave"] /\ shed' = [shed EXCEPT ![k] = @ + 1]
      BY <1>4, <2>5, <3>1 DEF CheckFloor
    <3>3. RoleInv'
      BY <1>2, <2>1, <3>2
    <3>4. NothingSilentlyShed'
      BY <1>0, <2>1, <2>2, <3>2, AccountShed
    <3>5. QED
      BY <1>0, <2>1, <3>3, <3>4 DEF AccountInv
  <2>6. QED
    BY <2>4, <2>5
<1>5. ASSUME NEW c \in Callers, TakeBuffer(c)
      PROVE  AccountInv'
  <2>1. /\ pc[c] = "take" /\ pc' = [pc EXCEPT ![c] = "send"] /\ UNCHANGED <<call, intake, calls, accepted, shed>>
    BY <1>5 DEF TakeBuffer, shutdownVars
  <2>2. RoleInv'
    BY <1>2, <2>1
  <2>3. \A d \in Producers : pc'[d] \in {"token", "floorCheck", "take", "send"}
                               <=> pc[d] \in {"token", "floorCheck", "take", "send"}
    BY <1>0, <2>1
  <2>4. NothingSilentlyShed'
    BY <1>0, <2>1, <2>3, AccountUnmoved
  <2>5. QED
    BY <1>0, <2>1, <2>2, <2>4 DEF AccountInv
<1>6. ASSUME NEW c \in Callers, ShedQueueFull(c)
      PROVE  AccountInv'
  <2>1. /\ pc[c] = "take" /\ call[c].kind \notin Blocking /\ UNCHANGED <<call, intake, calls, accepted>>
        /\ pc' = [pc EXCEPT ![c] = "leave"] /\ shed' = [shed EXCEPT !["queueFull"] = @ + 1]
    BY <1>6 DEF ShedQueueFull, shutdownVars
  <2>2. c \in Producers /\ c \in Pending /\ "queueFull" \in ShedCauses
    BY <1>0, <2>1, Roles DEF RoleInv, Pending, ShedCauses
  <2>3. RoleInv'
    BY <1>2, <2>1
  <2>4. NothingSilentlyShed'
    BY <1>0, <2>1, <2>2, AccountShed
  <2>5. QED
    BY <1>0, <2>1, <2>3, <2>4 DEF AccountInv
<1>7. ASSUME NEW c \in Callers, Abort(c)
      PROVE  AccountInv'
  <2>1. /\ pc[c] = "take" /\ call[c].kind \in Blocking /\ UNCHANGED <<call, intake, calls, accepted, shed>>
        /\ pc' = [pc EXCEPT ![c] = "leave"]
    BY <1>7 DEF Abort, shutdownVars
  <2>2. c \notin Producers
    BY <1>0, <2>1, Roles DEF RoleInv
  <2>3. RoleInv'
    BY <1>2, <2>1
  <2>4. \A d \in Producers : pc'[d] = pc[d]
    BY <1>0, <2>1, <2>2
  <2>5. NothingSilentlyShed'
    BY <1>0, <2>1, <2>4, AccountUnmoved
  <2>6. QED
    BY <1>0, <2>1, <2>3, <2>5 DEF AccountInv
<1>8. ASSUME NEW c \in Callers, Send(c)
      PROVE  AccountInv'
  <2>1. pc[c] = "send" /\ call' = call /\ pc' = [pc EXCEPT ![c] = "leave"]
    BY <1>8 DEF Send
  <2>2. RoleInv'
    BY <1>2, <2>1
  <2>3. QED
    BY <1>0, <1>8, <2>2, AccountSend DEF AccountInv
<1>9. ASSUME NEW c \in Callers, Leave(c)
      PROVE  AccountInv'
  <2>1. /\ pc[c] = "leave" /\ UNCHANGED <<intake, calls, accepted, shed>> /\ pc' = [pc EXCEPT ![c] = "idle"]
        /\ call' = [call EXCEPT ![c] = NoCall(c)]
    BY <1>9 DEF Leave, shutdownVars
  <2>2. \A d \in Callers : pc'[d] # "idle" => pc'[d] = pc[d] /\ call'[d] = call[d]
    BY <1>0, <2>1
  <2>3. RoleInv'
    BY <1>0, <2>2 DEF RoleInv
  <2>4. \A d \in Producers : pc'[d] \in {"token", "floorCheck", "take", "send"}
                               <=> pc[d] \in {"token", "floorCheck", "take", "send"}
    BY <1>0, <2>1
  <2>5. NothingSilentlyShed'
    BY <1>0, <2>1, <2>4, AccountUnmoved
  <2>6. QED
    BY <1>0, <2>1, <2>3, <2>5 DEF AccountInv
<1>10. ASSUME NEW c \in Callers, NEW k \in KindsOf(c), NEW s \in Shards, Enter(c, k, s)
       PROVE  AccountInv'
  <2>1. /\ pc' = [pc EXCEPT ![c] = "token"] /\ accepted' = accepted
        /\ call' = [call EXCEPT ![c] = [from |-> c, n |-> calls[c] + 1, shard |-> s, kind |-> k]]
    BY <1>10 DEF Enter
  <2>2. RoleInv'
    <3>1. call'[c].kind = k /\ pc'[c] = "token" /\ \A d \in Callers \ {c} : call'[d] = call[d] /\ pc'[d] = pc[d]
      BY <1>0, <2>1
    <3>2. QED
      BY <1>0, <3>1 DEF RoleInv
  <2>3. NothingSilentlyShed'
    BY <1>0, <1>10, AccountEnter
  <2>4. QED
    BY <1>0, <2>1, <2>2, <2>3 DEF AccountInv
<1>11. ASSUME NEW c \in Callers, CloseAbort(c)
       PROVE  AccountInv'
  BY <1>1, <1>11 DEF CloseAbort, callerVars, shutdownVars
<1>12. ASSUME NEW s \in Shards, WorkerStep(s) \/ Tick(s)
       PROVE  AccountInv'
  BY <1>1, <1>12 DEF WorkerStep, Dequeue, Recycle, BeginDrain, CloseWorker, Tick, callerVars, shutdownVars
<1>13. ASSUME ShutdownBegin \/ ShutdownStep \/ ShutdownTimeout
       PROVE  AccountInv'
  BY <1>1, <1>13 DEF ShutdownBegin, ShutdownStep, ShutdownQuiesced, ShutdownStop, ShutdownWait,
                     ShutdownAwait, ShutdownTimeout, callerVars
<1>14. CASE UNCHANGED vars
  BY <1>1, <1>14 DEF vars
<1>15. ASSUME NEW c \in Callers, CallStep(c)
       PROVE  AccountInv'
  BY <1>3, <1>4, <1>5, <1>6, <1>7, <1>8, <1>9, <1>15 DEF CallStep
<1>16. QED
  BY <1>10, <1>11, <1>12, <1>13, <1>14, <1>15 DEF Next

(* "every offered fragment is buffered or counted as shed": as long as the *)
(* set takes events, what the producers have offered is under way,         *)
(* accepted or in a shed counter, each once, for any callers and shards.   *)
THEOREM ShedsAreCounted == Spec => []NothingSilentlyShed
<1>1. Init => OrderInv /\ FragmentsBeforeKeep
  BY DEF Init, OrderInv, FragmentsBeforeKeep
<1>2. IndInv /\ OrderInv /\ FragmentsBeforeKeep /\ [Next]_vars => OrderInv' /\ FragmentsBeforeKeep'
  BY OrderNext DEF OrderedInv
<1>3. Init => AccountInv
  <2> SUFFICES ASSUME Init PROVE AccountInv
    OBVIOUS
  <2>1. /\ accepted = {} /\ calls = [c \in Callers |-> 0] /\ shed = [k \in ShedCauses |-> 0]
        /\ pc = [c \in Callers |-> "idle"]
    BY DEF Init
  <2>2. TypeOK /\ IsFiniteSet(accepted) /\ Producers \subseteq Callers
    BY <2>1, TypeInit, FS_EmptySet DEF Callers
  <2>3. IsFiniteSet(Producers) /\ IsFiniteSet(ShedCauses)
    BY <2>2, Amounts
  <2>4. SumFunctionOnSet(calls, Producers) = 0
    <3>1. \A c \in Producers : calls[c] = 0
      BY <2>1, <2>2
    <3>2. QED
      BY <2>3, <3>1, SumOfZeros
  <2>5. SumFunction(shed) = 0
    <3>1. DOMAIN shed = ShedCauses /\ \A k \in ShedCauses : shed[k] = 0
      BY <2>1
    <3>2. QED
      BY <2>3, <3>1, SumOfZeros DEF SumFunction
  <2>6. Taken = {} /\ Pending = {}
    BY <2>1, <2>2 DEF Taken, Pending
  <2>7. NothingSilentlyShed
    BY <2>4, <2>5, <2>6, FS_EmptySet DEF NothingSilentlyShed, Taken
  <2>8. QED
    BY <2>1, <2>2, <2>7 DEF AccountInv, RoleInv
<1>4. IndInv /\ OrderInv /\ FragmentsBeforeKeep /\ AccountInv /\ [Next]_vars => AccountInv'
  BY AccountNext DEF OrderedInv
<1>5. AccountInv => NothingSilentlyShed
  BY DEF AccountInv
<1>6. QED
  BY IndInvHolds, <1>1, <1>2, <1>3, <1>4, <1>5, PTL DEF Spec
=============================================================================
