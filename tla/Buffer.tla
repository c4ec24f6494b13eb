------------------------------- MODULE Buffer -------------------------------
(***************************************************************************)
(* The disk-segment span buffer of one shard (internal/buffer/buffer.go,   *)
(* segment.go): appends, rolls, expiry, forced expiry, close, crash and    *)
(* recovery, with the failures of the file system the code handles.        *)
(*                                                                         *)
(* A segment file is a sequence of items, records and footers; offsets     *)
(* count items.  Items up to `synced' survive any crash, the rest as a     *)
(* prefix.  A file's contents include what bufio still holds: a reader     *)
(* flushes first, and a crash may take it.  Record sizes are one, so       *)
(* SegmentSize counts records.  A record's stamp is not stored: it is      *)
(* carried along to state what may expire.                                 *)
(*                                                                         *)
(* The buffer is used by one goroutine; only a crash can come between the  *)
(* steps of an operation.                                                  *)
(***************************************************************************)
EXTENDS Integers, Sequences, FiniteSets, FiniteSetsExt, SequencesExt

CONSTANTS
    Ids,            \* trace ids
    SegmentSize,    \* Options.SegmentSize, in records
    FooterFitsRecord, \* a footer is as long as a record: 24n + 36 bytes
    Window,         \* Options.Window, W
    StampLag,       \* how old an appended fragment's stamp may be
    Faults,         \* the file-system calls that may fail
    CrashKinds,     \* the ways the process may end without Close
    MaxTime,        \* bound: the clock
    MaxAppends,     \* bound: appends tried
    MaxCrashes,     \* bound: crashes and closes
    MaxFailedSyncs, \* bound: footers a file may get by rolls whose fsync fails
    LastInput       \* bound: the latest instant of an append or a restart

FaultKinds == {"remove", "create", "reopen", "sync", "write"}

ASSUME SegmentSizePositive == SegmentSize \in Nat \ {0}
ASSUME FooterFitsBoolean == FooterFitsRecord \in BOOLEAN
ASSUME BufferWindowPositive == Window \in Nat \ {0}
ASSUME FaultsKnown == Faults \subseteq FaultKinds /\ CrashKinds \subseteq {"kill", "power"}
ASSUME BufferBounds ==
    /\ StampLag \in Nat /\ MaxTime \in Nat /\ MaxAppends \in Nat
    /\ MaxCrashes \in Nat /\ MaxFailedSyncs \in Nat /\ LastInput \in Nat

VARIABLES
    now,        \* the `now' argument of the call under way
    appended,   \* appends tried
    early,      \* segments ExpireOldest removed
    crashes,    \* times the process went down
    pc,         \* where the operation under way stands; "down", no process
    todo,       \* what a roll is for: the append that needs it, or Expire
    files,      \* the directory: per generation, the segment file
    w,          \* Buffer.w, the active segment's writer
    metas,      \* Buffer.metas; the keys of Buffer.readers are the same
    bytes,      \* Buffer.finalizedBytes
    minGen,     \* Buffer.minGen
    idx         \* Buffer.idx: the locs of all traces in put order

opVars     == <<pc, todo>>
memVars    == <<w, metas, bytes, minGen, idx>>
countVars  == <<now, appended, early, crashes>>

vars == <<now, appended, early, crashes, pc, todo, files, w, metas, bytes, minGen, idx>>

PCs == {"down", "idle", "expire", "finalize", "sync", "create", "append", "sweep"}

Record(id, n, at) == [kind |-> "record", id |-> id, n |-> n, at |-> at]
Footer(dir, tMax) == [kind |-> "footer", off |-> Len(dir), dir |-> dir, tMax |-> tMax]

EmptyFile == [items |-> << >>, synced |-> 0]

(* newSegmentWriter.  closed: the file handle is; err: bufio's error, which *)
(* is sticky; dirty: bufio holds data a closed handle will refuse.          *)
NewWriter(gen) ==
    [gen |-> gen, dir |-> << >>, tMax |-> 0, closed |-> FALSE, err |-> FALSE, dirty |-> FALSE]

NoWork == [op |-> "none"]

NoMap == [g \in {} |-> 0]

(* Adding an entry to a map, and deleting one. *)
With(f, g, v) == [x \in DOMAIN f \cup {g} |-> IF x = g THEN v ELSE f[x]]
Without(f, g) == [x \in DOMAIN f \ {g} |-> f[x]]

(* Open on an empty directory. *)
Init ==
    /\ now = 0 /\ appended = 0 /\ early = 0 /\ crashes = 0
    /\ pc = "idle"
    /\ todo = NoWork
    /\ files = [g \in {1} |-> EmptyFile]
    /\ w = NewWriter(1)
    /\ metas = NoMap
    /\ bytes = 0
    /\ minGen = 1
    /\ idx = << >>

Advance ==
    /\ pc \in {"idle", "down"}
    /\ now < MaxTime
    /\ pc = "down" => now <= LastInput
    /\ now' = now + 1
    /\ UNCHANGED <<appended, early, crashes, opVars, files, memVars>>

-----------------------------------------------------------------------------
(***************************************************************************)
(* Append and roll.                                                        *)
(***************************************************************************)

(* segmentWriter.append and the index put.  On a closed handle the record  *)
(* stays in bufio, and nothing says so.                                    *)
Put(id, at) ==
    LET off == Len(w.dir) IN
    /\ ~w.err
    /\ files' = IF w.closed THEN files
                ELSE [files EXCEPT ![w.gen].items = Append(@, Record(id, appended + 1, at))]
    /\ w' = [w EXCEPT !.dir = Append(@, [id |-> id, off |-> off]),
                      !.tMax = Max({@, at}),
                      !.dirty = w.closed]
    /\ idx' = Append(idx, [id |-> id, gen |-> w.gen, off |-> off])
    /\ appended' = appended + 1
    /\ UNCHANGED <<metas, bytes, minGen>>

(* The append fails: bufio's sticky error, or a write that fails now. *)
PutFails ==
    /\ w.err \/ "write" \in Faults
    /\ w' = [w EXCEPT !.err = TRUE]
    /\ appended' = appended + 1
    /\ UNCHANGED <<files, metas, bytes, minGen, idx>>

Fits == Len(w.dir) = 0 \/ Len(w.dir) + 1 <= SegmentSize

AppendFragment(id, at) ==
    /\ pc = "idle"
    /\ appended < MaxAppends
    /\ now <= LastInput
    /\ IF Fits THEN (Put(id, at) \/ PutFails) /\ UNCHANGED opVars
       ELSE /\ pc' = "finalize"
            /\ todo' = [op |-> "append", id |-> id, at |-> at]
            /\ UNCHANGED <<appended, files, memVars>>
    /\ UNCHANGED <<now, early, crashes>>

(* The append a roll was for. *)
AppendAfterRoll ==
    /\ pc = "append"
    /\ Put(todo.id, todo.at) \/ PutFails
    /\ pc' = "idle"
    /\ todo' = NoWork
    /\ UNCHANGED <<now, early, crashes>>

(* A failed roll: Append returns the error, Expire goes on to its sweep. *)
RollFails ==
    /\ pc' = IF todo.op = "expire" THEN "sweep" ELSE "idle"
    /\ todo' = NoWork
    /\ appended' = IF todo.op = "expire" THEN appended ELSE appended + 1
    /\ UNCHANGED <<now, early, crashes, minGen, idx>>

WithFooter(f) == [f EXCEPT !.items = Append(@, Footer(w.dir, w.tMax))]

(* Mutant of Synced: the fsync of a roll is left out. *)
Unsynced(f) == f

(* Sync makes a file's contents durable. *)
Synced(f) == [f EXCEPT !.synced = Len(f.items)]

(* finalize up to its fsync: the footer is written and flushed. *)
RollFooter ==
    /\ pc = "finalize"
    /\ ~w.closed /\ ~w.err
    /\ files' = [files EXCEPT ![w.gen] = WithFooter(@)]
    /\ pc' = "sync"
    /\ UNCHANGED <<countVars, todo, memVars>>

(* The rest of finalize, reopen for reading, and register the segment. *)
RollSync ==
    LET size == Len(files[w.gen].items) IN
    /\ pc = "sync"
    /\ files' = [files EXCEPT ![w.gen] = Synced(@)]
    /\ w' = [w EXCEPT !.closed = TRUE]
    /\ metas' = With(metas, w.gen, [tMax |-> w.tMax, size |-> size])
    /\ bytes' = bytes + size
    /\ pc' = "create"
    /\ UNCHANGED <<countVars, todo, minGen, idx>>

(* The fsync fails: the writer is as it was, the file is not. *)
RollSyncFails ==
    /\ pc = "sync"
    /\ "sync" \in Faults
    /\ Len(files[w.gen].items) - Len(w.dir) <= MaxFailedSyncs
    /\ RollFails
    /\ UNCHANGED <<files, w, metas, bytes>>

(* finalize succeeds, the file cannot be opened for reading: half-rolled. *)
RollReopenFails ==
    /\ pc = "sync"
    /\ "reopen" \in Faults
    /\ files' = [files EXCEPT ![w.gen] = Synced(@)]
    /\ w' = [w EXCEPT !.closed = TRUE]
    /\ RollFails
    /\ UNCHANGED <<metas, bytes>>

(* finalize cannot write: a write fails, an earlier one did, or the handle *)
(* was closed by an earlier roll.                                          *)
RollWriteFails ==
    /\ pc = "finalize"
    /\ w.closed \/ w.err \/ "write" \in Faults
    /\ w' = [w EXCEPT !.err = TRUE]
    /\ RollFails
    /\ UNCHANGED <<files, metas, bytes>>

(* newSegmentWriter at the next generation. *)
RollCreate ==
    /\ pc = "create"
    /\ w.gen + 1 \notin DOMAIN files
    /\ files' = With(files, w.gen + 1, EmptyFile)
    /\ w' = NewWriter(w.gen + 1)
    /\ IF todo.op = "append" THEN pc' = "append" /\ UNCHANGED todo
       ELSE pc' = "sweep" /\ todo' = NoWork
    /\ UNCHANGED <<countVars, metas, bytes, minGen, idx>>

(* The next file cannot be created: the closed writer stays in place. *)
RollCreateFails ==
    /\ pc = "create"
    /\ "create" \in Faults
    /\ RollFails
    /\ UNCHANGED <<files, w, metas, bytes>>

-----------------------------------------------------------------------------
(***************************************************************************)
(* Collect and what it reads.                                              *)
(***************************************************************************)

(* Mutant of Readable: the payload's CRC is not compared. *)
ReadableUnchecked(l) == l.off < Len(files[l.gen].items)

(* The record that was put at a loc's offset is there: no footer shifts    *)
(* the records up to it.                                                   *)
InPlace(l) ==
    /\ l.gen \in DOMAIN files
    /\ l.off < Len(files[l.gen].items)
    /\ \A i \in 1 .. l.off + 1 : files[l.gen].items[i].kind = "record"

(* A read at a loc's offset returns whatever record begins there: the CRC  *)
(* is the record's own, and neither its id nor its length is compared with *)
(* the loc's.  Behind a footer that is as long as a record, that is a      *)
(* neighbour of the one that was put; behind one of another length the     *)
(* offset is inside a record and its CRC does not match.                   *)
Readable(l) ==
    /\ l.gen \in DOMAIN files
    /\ l.off < Len(files[l.gen].items)
    /\ files[l.gen].items[l.off + 1].kind = "record"
    /\ FooterFitsRecord \/ InPlace(l)

(* Collect visits the locs of the generations that are left, and yields    *)
(* the records it can read.                                                *)
Yields(l) == l.gen >= minGen /\ Readable(l)

Reachable == FlattenSeq([i \in 1 .. Len(idx) |-> IF Yields(idx[i]) THEN <<idx[i]>> ELSE << >>])

Item(l) == files[l.gen].items[l.off + 1]

(* The write buffer is flushed before the active segment is read; the      *)
(* error of a failed flush sticks.                                         *)
CollectFlushFails(id) ==
    /\ pc = "idle"
    /\ \E l \in ToSet(idx) : l.id = id /\ l.gen = w.gen /\ l.gen >= minGen
    /\ w.dirty \/ "write" \in Faults
    /\ ~w.err
    /\ w' = [w EXCEPT !.err = TRUE]
    /\ UNCHANGED <<countVars, opVars, files, metas, bytes, minGen, idx>>

-----------------------------------------------------------------------------
(***************************************************************************)
(* Expire and ExpireOldest.                                                *)
(***************************************************************************)

(* oldestFinalized *)
Oldest == Min(DOMAIN metas)

(* A segment's fragments may go once its newest is older than the window. *)
Expired(tMax) == tMax < now - Window

(* Mutant of RemoveOldest: the bytes of the removed segment stay counted. *)
RemoveOldestKeepsBytes ==
    /\ DOMAIN metas # {}
    /\ files' = Without(files, Oldest)
    /\ metas' = Without(metas, Oldest)
    /\ minGen' = Oldest + 1
    /\ UNCHANGED bytes

(* removeSegment of the oldest finalized segment: the file goes first, and *)
(* if it does not go nothing else changes.                                 *)
RemoveOldest ==
    /\ DOMAIN metas # {}
    /\ files' = Without(files, Oldest)
    /\ bytes' = bytes - metas[Oldest].size
    /\ metas' = Without(metas, Oldest)
    /\ minGen' = Oldest + 1

HasExpired == DOMAIN metas # {} /\ Expired(metas[Oldest].tMax)

ExpireBegin ==
    /\ pc = "idle"
    /\ pc' = "expire"
    /\ UNCHANGED <<countVars, todo, files, memVars>>

(* One round of deleteExpired. *)
ExpireRemove ==
    /\ pc = "expire"
    /\ HasExpired
    /\ RemoveOldest
    /\ UNCHANGED <<countVars, opVars, w, idx>>

(* Mutant of ExpireDeleted: a stale active segment is left alone. *)
ExpireDeletedOnly ==
    /\ pc = "expire"
    /\ ~HasExpired \/ "remove" \in Faults
    /\ pc' = "sweep"
    /\ UNCHANGED <<countVars, todo, files, memVars>>

(* deleteExpired ends, with nothing left to delete or on a failed removal; *)
(* a stale active segment is rolled.                                       *)
ExpireDeleted ==
    /\ pc = "expire"
    /\ ~HasExpired \/ "remove" \in Faults
    /\ IF w.dir # << >> /\ Expired(w.tMax)
       THEN pc' = "finalize" /\ todo' = [op |-> "expire"]
       ELSE pc' = "sweep" /\ UNCHANGED todo
    /\ UNCHANGED <<countVars, files, memVars>>

(* Mutant of Dead: the trace's oldest loc is looked at, not its newest. *)
DeadByHead(id) ==
    \E i \in 1 .. Len(idx) : idx[i].id = id /\ idx[i].gen < minGen

(* A trace is dead when its newest loc is. *)
Dead(id) == \A i \in 1 .. Len(idx) : idx[i].id = id => idx[i].gen < minGen

(* The index without the chains of some traces. *)
Freed(S) == FlattenSeq([i \in 1 .. Len(idx) |-> IF idx[i].id \in S THEN << >> ELSE <<idx[i]>>])

(* sweep frees the dead traces among the slots it examines. *)
ExpireSweep ==
    /\ pc = "sweep"
    /\ \E S \in SUBSET {id \in Ids : Dead(id)} : idx' = Freed(S)
    /\ pc' = "idle"
    /\ UNCHANGED <<countVars, todo, files, w, metas, bytes, minGen>>

(* The watermark rung's sacrifice.  A failed removal changes nothing. *)
ExpireOldest ==
    /\ pc = "idle"
    /\ RemoveOldest
    /\ early' = early + 1
    /\ UNCHANGED <<now, appended, crashes, opVars, w, idx>>

-----------------------------------------------------------------------------
(***************************************************************************)
(* Close, crash and Open.                                                  *)
(***************************************************************************)
GoDown ==
    /\ now <= LastInput
    /\ crashes < MaxCrashes
    /\ crashes' = crashes + 1
    /\ pc' = "down"
    /\ todo' = NoWork
    /\ w' = NewWriter(0)
    /\ metas' = NoMap
    /\ bytes' = 0
    /\ minGen' = 1
    /\ idx' = << >>
    /\ UNCHANGED <<now, appended, early>>

(* Close flushes and fsyncs the active segment; it writes no footer. *)
Close ==
    /\ pc = "idle"
    /\ ~w.closed /\ ~w.err
    /\ files' = [files EXCEPT ![w.gen] = Synced(@)]
    /\ GoDown

(* A process that is killed, between any two steps, loses some of what     *)
(* bufio holds; what the kernel has is not durable for that.               *)
Kill ==
    /\ pc # "down"
    /\ "kill" \in CrashKinds
    /\ \/ w.gen \notin DOMAIN files /\ UNCHANGED files
       \/ /\ w.gen \in DOMAIN files
          /\ \E k \in files[w.gen].synced .. Len(files[w.gen].items) :
                files' = [files EXCEPT ![w.gen].items = SubSeq(@, 1, k)]
    /\ GoDown

(* Of a file at least the durable items survive a power loss, and what     *)
(* survives is durable.                                                    *)
Survivors(f) == {[items |-> SubSeq(f.items, 1, k), synced |-> k] : k \in f.synced .. Len(f.items)}

(* A file with nothing durable may be gone, too: a directory is never      *)
(* fsynced.                                                                *)
PowerLoss ==
    /\ pc # "down"
    /\ "power" \in CrashKinds
    /\ \E gone \in SUBSET {g \in DOMAIN files : files[g].synced = 0} :
       \E rest \in [DOMAIN files \ gone -> UNION {Survivors(files[g]) : g \in DOMAIN files}] :
          /\ \A g \in DOMAIN rest : rest[g] \in Survivors(files[g])
          /\ files' = rest
    /\ GoDown

(* readFooter: the trailer is at the end and its offsets fit the size. *)
HasFooter(f) ==
    /\ f.items # << >>
    /\ Last(f.items).kind = "footer"
    /\ Last(f.items).off + 1 = Len(f.items)

(* scanRecords: the records before the first item that is none. *)
ValidEnd(f) == Max({k \in 0 .. Len(f.items) : \A i \in 1 .. k : f.items[i].kind = "record"})

(* Mutant of ScannedDir: the offset is advanced before it is entered. *)
ScannedDirAdvanced(f) == [i \in 1 .. ValidEnd(f) |-> [id |-> f.items[i].id, off |-> i]]

ScannedDir(f) == [i \in 1 .. ValidEnd(f) |-> [id |-> f.items[i].id, off |-> i - 1]]

Entries(f) == IF HasFooter(f) THEN Last(f.items).dir ELSE ScannedDir(f)

Locs(g) ==
    LET entries == Entries(files[g]) IN
    [i \in 1 .. Len(entries) |-> [id |-> entries[i].id, gen |-> g, off |-> entries[i].off]]

Newest == Max(DOMAIN files)

(* The locs recovery puts, in ascending generation order. *)
RecoveredLocs ==
    IF DOMAIN files = {} THEN << >>
    ELSE FlattenSeq([g \in 1 .. Newest |-> IF g \in DOMAIN files THEN Locs(g) ELSE << >>])

(* "segment %d has no footer but is not the newest segment" *)
Recoverable == \A g \in DOMAIN files : HasFooter(files[g]) \/ g = Newest

(* Stamps are not in the records, so a scanned segment's clock starts over. *)
RecoveredTMax == now

(* Open: footered segments are registered with their footer's tMax; a      *)
(* footerless newest is truncated behind its last valid record and goes on *)
(* as the active segment, its clock starting at now; otherwise the next    *)
(* generation begins.                                                      *)
Open ==
    LET footered == {g \in DOMAIN files : HasFooter(files[g])}
        torn     == DOMAIN files \ footered
    IN
    /\ pc = "down"
    /\ Recoverable
    /\ metas' = [g \in footered |-> [tMax |-> Last(files[g].items).tMax,
                                     size |-> Len(files[g].items)]]
    /\ bytes' = SumFunction([g \in footered |-> Len(files[g].items)])
    /\ idx' = RecoveredLocs
    /\ IF torn # {}
       THEN LET f == files[Newest] IN
            /\ files' = [files EXCEPT ![Newest] = [items  |-> SubSeq(f.items, 1, ValidEnd(f)),
                                                   synced |-> Min({f.synced, ValidEnd(f)})]]
            /\ w' = [NewWriter(Newest) EXCEPT !.dir = ScannedDir(f), !.tMax = RecoveredTMax]
       ELSE LET gen == IF footered = {} THEN 1 ELSE Newest + 1 IN
            /\ files' = With(files, gen, EmptyFile)
            /\ w' = NewWriter(gen)
    /\ minGen' = 1
    /\ pc' = "idle"
    /\ UNCHANGED <<countVars, todo>>

-----------------------------------------------------------------------------
Roll == RollFooter \/ RollSync \/ RollCreate \/ AppendAfterRoll
          \/ RollSyncFails \/ RollReopenFails \/ RollWriteFails \/ RollCreateFails
Expire == ExpireRemove \/ ExpireDeleted \/ ExpireSweep

Stamps == {t \in (now - StampLag) .. now : 0 <= t}

Next ==
    \/ Advance
    \/ \E id \in Ids : \/ \E at \in Stamps : AppendFragment(id, at)
                       \/ CollectFlushFails(id)
    \/ Roll
    \/ ExpireBegin
    \/ Expire
    \/ ExpireOldest
    \/ Close
    \/ Kill
    \/ PowerLoss
    \/ Open

Spec == Init /\ [][Next]_vars

(***************************************************************************)
(* Fairness: the clock runs, a started operation goes on, the worker's     *)
(* ticker keeps calling Expire, a removal that is retried on every Expire  *)
(* does not fail forever, and a process that is down is restarted.  The    *)
(* cursor of sweep goes on where it stopped, so that the sweeps come by    *)
(* every trace: TraceIndex has the cursor and states that a full turn of   *)
(* it reclaims every dead chain.                                           *)
(***************************************************************************)
SweepFrees(id) ==
    ExpireSweep /\ (\E l \in ToSet(idx) : l.id = id) /\ ~ \E l \in ToSet(idx') : l.id = id

Fairness ==
    /\ \A id \in Ids : SF_vars(SweepFrees(id))
    /\ SF_vars(Advance)
    /\ WF_vars(Roll \/ Expire)
    /\ SF_vars(ExpireRemove)
    /\ WF_vars(ExpireBegin)
    /\ WF_vars(Open)

FairSpec == Spec /\ Fairness

-----------------------------------------------------------------------------
(***************************************************************************)
(* Properties.                                                             *)
(***************************************************************************)
DirEntries == [id : Ids, off : Nat]

Items == [kind : {"record"}, id : Ids, n : 1 .. MaxAppends, at : 0 .. now]
           \cup [kind : {"footer"}, off : Nat, dir : Seq(DirEntries), tMax : 0 .. now]

(* Every variable has its type. *)
TypeOK ==
    /\ now \in 0 .. MaxTime
    /\ appended \in 0 .. MaxAppends
    /\ early \in Nat
    /\ crashes \in 0 .. MaxCrashes
    /\ pc \in PCs
    /\ todo \in {NoWork} \cup [op : {"expire"}] \cup [op : {"append"}, id : Ids, at : 0 .. now]
    /\ DOMAIN files \subseteq Nat \ {0}
    /\ files \in [DOMAIN files -> [items : Seq(Items), synced : Nat]]
    /\ \A g \in DOMAIN files : files[g].synced <= Len(files[g].items)
    /\ w \in [gen : Nat, dir : Seq(DirEntries), tMax : 0 .. now, closed : BOOLEAN,
               err : BOOLEAN, dirty : BOOLEAN]
    /\ DOMAIN metas \subseteq Nat \ {0}
    /\ metas \in [DOMAIN metas -> [tMax : 0 .. now, size : Nat]]
    /\ bytes \in Int
    /\ minGen \in Nat
    /\ idx \in Seq([id : Ids, gen : Nat, off : Nat])

(* What is live, as SpanBuffer sees it: what Collect reaches, or what Open *)
(* would rebuild while the process is down.                                *)
Live ==
    LET locs == IF pc = "down" THEN RecoveredLocs ELSE Reachable
        Fragment(l) == LET r == Item(l) IN [id |-> r.id, n |-> r.n, at |-> r.at]
    IN [i \in 1 .. Len(locs) |-> Fragment(locs[i])]

Abstract == INSTANCE SpanBuffer WITH live <- Live

(* The buffer is a SpanBuffer: across rolls, expiry, failed removals,      *)
(* crashes and recoveries Collect reaches every appended fragment, in      *)
(* append order, until its whole segment is older than the window or is    *)
(* sacrificed, a crash takes only a suffix, and Open brings back what is   *)
(* on disk, no more and no less.                                           *)
ImplementsSpanBuffer == Abstract!Spec

(* "data-loss bound is the current segment": whatever a power loss, at any *)
(* point of an operation, or a close leaves in the directory, Open does    *)
(* not refuse it, as long as no fsync fails and no process is killed       *)
(* before the power goes.                                                  *)
Openable == pc = "down" => Recoverable

(* Between operations every file in the directory is a registered          *)
(* finalized segment or the active one, never both, and DiskBytes, which   *)
(* the overload ladder sums over the shards, is the size of the files; the *)
(* types hold throughout.                                                  *)
DiskAccounted ==
    /\ TypeOK
    /\ pc = "idle" =>
          /\ DOMAIN files = DOMAIN metas \cup {w.gen}
          /\ w.gen \notin DOMAIN metas
          /\ bytes + Len(w.dir) = SumFunction([g \in DOMAIN files |-> Len(files[g].items)])

(* "Gens are contiguous by construction": the finalized segments are an    *)
(* unbroken run of generations up to the active one and minGen is not past *)
(* any of them, also after rolls and removals that failed.                 *)
GensContiguous ==
    pc # "down" =>
        \A g \in DOMAIN metas :
            /\ g \in minGen .. w.gen
            /\ \A h \in g .. w.gen - 1 : h \in DOMAIN metas

(* No footer lies ahead of a record: every roll of the file that wrote one *)
(* went through its fsync.                                                 *)
Whole(f) == \A i \in 1 .. Len(f.items) - 1 : f.items[i].kind = "record"

(* Whatever file operations failed before, what Collect yields is a record *)
(* and a trace's records come in append order; in a file no failed fsync   *)
(* left a footer in, it is a record of the loc's own trace; the            *)
(* generations Collect skips below minGen are contiguous with those it     *)
(* reads.                                                                  *)
CollectSound ==
    /\ GensContiguous
    /\ pc # "down" =>
          /\ \A l \in ToSet(idx) :
                Yields(l) => /\ Item(l).kind = "record"
                             /\ Whole(files[l.gen]) => Item(l).id = l.id
          /\ \A i, j \in 1 .. Len(idx) :
                i < j /\ Yields(idx[i]) /\ Yields(idx[j]) => Item(idx[i]).n < Item(idx[j]).n

(* "a false trace merge is a correctness bug": Collect never yields a      *)
(* record of another trace, however often a torn segment was recovered and *)
(* appended to.  It does once the fsync of a stale segment's roll fails:   *)
(* the active segment is not left as it was, its file keeps the footer,    *)
(* the writer's offsets do not count it, and the locs of later records     *)
(* read their neighbours.                                                  *)
NoFalseMerge ==
    pc # "down" => \A l \in ToSet(idx) : Yields(l) => Item(l).id = l.id

(* When appends stop, expiry returns all the disk: every fragment leaves,  *)
(* the ones recovered after a crash too, and the index forgets the traces. *)
ReclaimsAll == <>[](idx = << >> /\ Live = << >> /\ Cardinality(DOMAIN files) = 1)
=============================================================================
