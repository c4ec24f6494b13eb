----------------------------- MODULE TraceIndex -----------------------------
(***************************************************************************)
(* The trace index of a buffer (internal/buffer/index.go): an              *)
(* open-addressing table from trace id to a chain of locs in an arena with *)
(* a free list, swept incrementally from a rotating cursor, rehashed when  *)
(* live slots and tombstones fill it and compacted when the arena holds    *)
(* too much slack.                                                         *)
(*                                                                         *)
(* A node of the arena is referred to by its position from 1, the form     *)
(* slot.head and slot.tail have in the code; 0 stands for the code's -1    *)
(* where it ends a chain or the free list.  The owner makes one call at a  *)
(* time, so a call is one step.                                            *)
(***************************************************************************)
EXTENDS Integers, Sequences, FiniteSets, SequencesExt, FiniteSetsExt

CONSTANTS
    Ids,            \* trace ids
    InitialSlots,   \* initialSlots
    CompactFloor,   \* arenaCompactFloor
    SweepChunk,     \* Options.SweepChunk
    HashRange,      \* the values of hashKey
    Hashes,         \* the hash functions considered
    MaxPuts,        \* bound: locs put
    MaxGen          \* bound: generations

(* A number all of whose divisors but 1 are even. *)
IsPowerOfTwo(n) == n >= 1 /\ \A m \in 2 .. n : n % m = 0 => m % 2 = 0

(* What the constants are: newIndex starts with a power of two of slots. *)
IndexConstants ==
    /\ InitialSlots \in Nat /\ IsPowerOfTwo(InitialSlots)
    /\ HashRange \in Nat /\ IsPowerOfTwo(HashRange)
    /\ Hashes \subseteq [Ids -> 0 .. HashRange - 1]
    /\ CompactFloor \in Nat /\ SweepChunk \in Nat \ {0}
    /\ MaxPuts \in Nat /\ MaxGen \in Nat \ {0}

VARIABLES
    x,          \* the index
    hash,       \* hashKey, any function
    gen,        \* the active segment's generation
    minGen,     \* Buffer.minGen
    puts,       \* locs put so far; a loc's offset is its number
    stored,     \* history: per trace, its locs in segments that exist
    sweeps      \* history: sweeps since a put or a removal, up to a full turn

vars == <<x, hash, gen, minGen, puts, stored, sweeps>>

NoId      == "none"
EmptySlot == [id |-> NoId, head |-> 0, tail |-> 0]
NoSlot    == -1

(* newIndex *)
Init ==
    /\ x = [slots |-> [i \in 0 .. InitialSlots - 1 |-> EmptySlot], arena |-> << >>, free |-> 0,
            freeLen |-> 0, liveCount |-> 0, tombs |-> 0, cursor |-> 0]
    /\ hash \in Hashes
    /\ gen = 1
    /\ minGen = 1
    /\ puts = 0
    /\ stored = [id \in Ids |-> << >>]
    /\ sweeps = 0

-----------------------------------------------------------------------------
Size(slots) == Cardinality(DOMAIN slots)

(* The slots in the order id is looked for: from the one the high bits of  *)
(* its hash name, as many of them as the table's size asks for.            *)
Probes(slots, id) ==
    LET size  == Size(slots)
        start == (hash[id] * size) \div HashRange
    IN [p \in 1 .. size |-> (start + p - 1) % size]

(* The nodes of the chain, or of the free list, that begins at node i. *)
Chain(arena, i) ==
    LET chain[n \in 0 .. Len(arena)] ==
            IF n = 0 THEN << >> ELSE <<n>> \o chain[arena[n].next]
    IN chain[i]

Holds(slot, id) == slot.head > 0 /\ slot.id = id

(* findSlot: the probe ends at the id or at an empty slot; an absent id    *)
(* goes to the first tombstone passed.                                     *)
FindSlot(slots, id) ==
    LET at    == Probes(slots, id)
        ends  == {p \in DOMAIN at : slots[at[p]].head = 0 \/ Holds(slots[at[p]], id)}
        end   == IF ends = {} THEN Len(at) + 1 ELSE Min(ends)
        tombs == {p \in 1 .. end - 1 : slots[at[p]].head = -1}
    IN IF ends # {} /\ Holds(slots[at[end]], id) THEN [slot |-> at[end], found |-> TRUE]
       ELSE IF tombs # {} THEN [slot |-> at[Min(tombs)], found |-> FALSE]
       ELSE [slot |-> IF ends = {} THEN NoSlot ELSE at[end], found |-> FALSE]

(* alloc: the free list first, else a new node. *)
Allocated(y) == IF y.free # 0 THEN y.free ELSE Len(y.arena) + 1

Alloc(y, l) ==
    IF y.free # 0
    THEN [y EXCEPT !.free = y.arena[y.free].next, !.freeLen = @ - 1, !.arena[y.free] = l]
    ELSE [y EXCEPT !.arena = Append(@, l)]

(* The table with a slot of the old one, if it is live. *)
Inserted(table, s) ==
    IF s.head > 0 THEN [table EXCEPT ![FindSlot(table, s.id).slot] = s] ELSE table

(* rehash: the live slots, in table order, into an empty table. *)
Rehash(y, size) ==
    LET table[n \in 0 .. Size(y.slots)] ==
            IF n = 0 THEN [i \in 0 .. size - 1 |-> EmptySlot]
            ELSE Inserted(table[n - 1], y.slots[n - 1])
    IN [y EXCEPT !.slots = table[Size(y.slots)],
                 !.liveCount = Cardinality({i \in DOMAIN y.slots : y.slots[i].head > 0}),
                 !.tombs = 0]

(* grow: the least size that live traces do not fill by three quarters,   *)
(* possibly a smaller table.                                               *)
GrowSize(live) == Min({s \in 1 .. 4 * live + 1 : 4 * live < 3 * s /\ IsPowerOfTwo(s)})

Grow(y) == Rehash(y, GrowSize(y.liveCount))

Loaded(y) == (y.liveCount + y.tombs) * 4 >= 3 * Size(y.slots)

(* put, of a trace that is present or not. *)
Put(y0, id, l) ==
    LET y == IF Loaded(y0) THEN Grow(y0) ELSE y0
        f == FindSlot(y.slots, id)
        s == y.slots[f.slot]
        n == Allocated(y)
        z == Alloc(y, l)
    IN IF f.found
       THEN [z EXCEPT !.arena[s.tail].next = n, !.slots[f.slot].tail = n]
       ELSE [z EXCEPT !.slots[f.slot] = [id |-> id, head |-> n, tail |-> n],
                      !.tombs = IF s.head = -1 THEN @ - 1 ELSE @,
                      !.liveCount = @ + 1]

(* What the k-th node pushed on the free list is put in front of. *)
Below(y, nodes, k) == IF k = 1 THEN y.free ELSE nodes[k - 1]

(* freeChain, for the chains of several slots one after the other: every   *)
(* node is pushed on the free list.                                        *)
FreeChain(y, nodes) ==
    LET freed(i) == {k \in 1 .. Len(nodes) : nodes[k] = i} IN
    [y EXCEPT
        !.arena = [i \in DOMAIN @ |->
                      IF freed(i) = {} THEN @[i]
                      ELSE [@[i] EXCEPT !.next = Below(y, nodes, Min(freed(i)))]],
        !.free = IF nodes = << >> THEN @ ELSE Last(nodes),
        !.freeLen = @ + Len(nodes)]

(* The nodes of the chains, in table order. *)
Kept(y) ==
    FlattenSeq([i \in 1 .. Size(y.slots) |->
        IF y.slots[i - 1].head > 0 THEN Chain(y.arena, y.slots[i - 1].head) ELSE << >>])

(* Where a node goes that is kept; no node stays none. *)
Moved(kept, n) == IF n <= 0 THEN n ELSE CHOOSE k \in 1 .. Len(kept) : kept[k] = n

(* compact: the chains are all there is in the new arena. *)
Compact(y) ==
    LET kept == Kept(y) IN
    [y EXCEPT
        !.arena = [k \in 1 .. Len(kept) |-> [y.arena[kept[k]] EXCEPT !.next = Moved(kept, @)]],
        !.slots = [i \in DOMAIN y.slots |->
                      [y.slots[i] EXCEPT !.head = Moved(kept, @), !.tail = Moved(kept, @)]],
        !.free = 0,
        !.freeLen = 0]

(* Mutant of IsDead: the oldest loc is looked at. *)
IsDeadByHead(y, i) == y.slots[i].head > 0 /\ y.arena[y.slots[i].head].gen < minGen

(* The newest loc decides for the chain. *)
IsDead(y, i) == y.slots[i].head > 0 /\ y.arena[y.slots[i].tail].gen < minGen

(* Mutant of Advanced: the cursor starts over. *)
AdvancedAnew(y) == SweepChunk % Size(y.slots)

Advanced(y) == (y.cursor + SweepChunk) % Size(y.slots)

(* The slots a sweep looks at. *)
Swept(y) ==
    LET size == Size(y.slots)
    IN [k \in 1 .. Min({SweepChunk, size}) |-> (y.cursor + k - 1) % size]

(* sweep, up to the compaction. *)
Sweep(y) ==
    LET order == Swept(y)
        dead  == {i \in {order[k] : k \in DOMAIN order} : IsDead(y, i)}
        freed == FlattenSeq([k \in DOMAIN order |->
                    IF IsDead(y, order[k]) THEN Chain(y.arena, y.slots[order[k]].head) ELSE << >>])
    IN [FreeChain(y, freed) EXCEPT
          !.slots = [i \in DOMAIN @ |-> IF i \in dead THEN [@[i] EXCEPT !.head = -1, !.tail = 0] ELSE @[i]],
          !.liveCount = @ - Cardinality(dead),
          !.tombs = @ + Cardinality(dead),
          !.cursor = Advanced(y)]

(* The arena's capacity, from its length to twice that, is the             *)
(* allocator's choice.                                                     *)
Slack(y, cap) ==
    LET needed == Len(y.arena) - y.freeLen IN
    Len(y.arena) >= CompactFloor /\ needed > 0 /\ (cap - needed) * 4 > needed

(* The locs of segments from generation g on. *)
Since(locs, g) ==
    FlattenSeq([k \in 1 .. Len(locs) |-> IF locs[k].gen >= g THEN <<locs[k]>> ELSE << >>])

-----------------------------------------------------------------------------
(* Append, or Open going through a footer: gens do not decrease. *)
PutLoc(id) ==
    /\ puts < MaxPuts
    /\ x' = Put(x, id, [gen |-> gen, off |-> puts + 1, next |-> 0])
    /\ puts' = puts + 1
    /\ stored' = [stored EXCEPT ![id] = Append(@, [gen |-> gen, off |-> puts + 1])]
    /\ sweeps' = 0
    /\ UNCHANGED <<hash, gen, minGen>>

(* The last step of every Expire. *)
SweepSome ==
    /\ \E y \in {Sweep(x)} :
          \/ Slack(y, 2 * Len(y.arena)) /\ x' = Compact(y)
          \/ ~Slack(y, Len(y.arena)) /\ x' = y
    /\ sweeps' = IF sweeps * SweepChunk < Size(x.slots) THEN sweeps + 1 ELSE sweeps
    /\ UNCHANGED <<hash, gen, minGen, puts, stored>>

Roll ==
    /\ gen < MaxGen
    /\ gen' = gen + 1
    /\ UNCHANGED <<x, hash, minGen, puts, stored, sweeps>>

(* removeSegment, of finalized segments only. *)
RemoveSegment ==
    /\ minGen < gen
    /\ minGen' = minGen + 1
    /\ stored' = [id \in Ids |-> Since(stored[id], minGen + 1)]
    /\ sweeps' = 0
    /\ UNCHANGED <<x, hash, gen, puts>>

Next == (\E id \in Ids : PutLoc(id)) \/ SweepSome \/ Roll \/ RemoveSegment

Spec == Init /\ [][Next]_vars

-----------------------------------------------------------------------------
(***************************************************************************)
(* Properties.                                                             *)
(***************************************************************************)
Live == {i \in DOMAIN x.slots : x.slots[i].head > 0}

(* Every variable has its type, and the table's size is a power of two. *)
TypeOK ==
    /\ IsPowerOfTwo(Size(x.slots)) /\ DOMAIN x.slots = 0 .. Size(x.slots) - 1
    /\ \A i \in DOMAIN x.slots :
          x.slots[i] \in [id : Ids \cup {NoId}, head : -1 .. Len(x.arena),
                          tail : 0 .. Len(x.arena)]
    /\ x.arena \in Seq([gen : 1 .. MaxGen, off : 1 .. MaxPuts, next : 0 .. Len(x.arena)])
    /\ x.free \in 0 .. Len(x.arena) /\ x.freeLen \in 0 .. Len(x.arena)
    /\ x.liveCount \in Nat /\ x.tombs \in Nat /\ x.cursor \in Nat
    /\ hash \in Hashes
    /\ gen \in 1 .. MaxGen /\ minGen \in 1 .. gen /\ puts \in 0 .. MaxPuts
    /\ DOMAIN stored = Ids /\ sweeps \in 0 .. Size(x.slots)

(* Every node of the arena is on the free list or in the chain of one      *)
(* slot, once: nothing is leaked by a sweep or shared after a reuse, and   *)
(* freeLen, by which compaction is decided, counts the list.               *)
ArenaPartitioned ==
    LET all == Chain(x.arena, x.free) \o
               FlattenSeq([k \in 1 .. Size(x.slots) |->
                   IF k - 1 \in Live THEN Chain(x.arena, x.slots[k - 1].head) ELSE << >>])
    IN /\ Len(all) = Len(x.arena)
       /\ ToSet(all) = DOMAIN x.arena
       /\ x.freeLen = Len(Chain(x.arena, x.free))

(* The counters put decides by are exact, and no trace has two slots, also *)
(* when it was tombstoned and came back past its old slot.                 *)
CountsExact ==
    /\ x.liveCount = Cardinality(Live)
    /\ x.tombs = Cardinality({i \in DOMAIN x.slots : x.slots[i].head = -1})
    /\ \A i, j \in Live : x.slots[i].id = x.slots[j].id => i = j

(* "Table saturated with tombstones/occupied slots (shouldn't happen: put  *)
(* rehashes before load factor allows this)": once put has rehashed or not *)
(* there is an empty slot for every probe to end at.                       *)
ProbeEnds ==
    LET y == IF Loaded(x) THEN Grow(x) ELSE x IN
    \E i \in DOMAIN y.slots : y.slots[i].head = 0

(* The table and the arena stay what the code takes them for: typed, no    *)
(* node lost or shared, the counters exact, and room for a probe to end.   *)
StructureOK == TypeOK /\ ArenaPartitioned /\ CountsExact /\ ProbeEnds

(* What Collect finds when it walks a trace: it passes over the locs of    *)
(* segments that are gone.                                                 *)
Found(id) ==
    LET f == FindSlot(x.slots, id)
        c == IF f.found THEN Chain(x.arena, x.slots[f.slot].head) ELSE << >>
        locs == [k \in 1 .. Len(c) |-> [gen |-> x.arena[c[k]].gen, off |-> x.arena[c[k]].off]]
    IN Since(locs, minGen)

(* Whatever was swept, reused, rehashed or compacted meanwhile, Collect    *)
(* finds of a trace every loc put for it whose segment exists, in the      *)
(* order they were put, and no other.                                      *)
FindsWhatWasPut == StructureOK /\ \A id \in Ids : Found(id) = stored[id]

(* Once the sweeps have gone round the table, no trace of which no segment *)
(* exists is left in it, wherever a rehash left the cursor.                *)
FullTurnReclaims ==
    sweeps * SweepChunk >= Size(x.slots) => \A i \in DOMAIN x.slots : ~IsDead(x, i)
=============================================================================
