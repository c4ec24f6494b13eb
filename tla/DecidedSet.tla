----------------------------- MODULE DecidedSet -----------------------------
(***************************************************************************)
(* The decided set of a shard (internal/shards/decided.go): a ring of      *)
(* decided traces in the order they were decided, and an open-addressing   *)
(* table whose slots hold only sequence numbers into it.  The ring is      *)
(* consumed from its head and compacted under the table's feet; the table  *)
(* is rebuilt from the ring when entries and tombstones fill it.           *)
(*                                                                         *)
(* The shard's worker makes one call at a time, so a call is one step.     *)
(* Deadlines come in any order, more than the worker's clock allows.       *)
(***************************************************************************)
EXTENDS Integers, Sequences, FiniteSets, SequencesExt, FiniteSetsExt

CONSTANTS
    Ids,            \* trace ids
    InitialSlots,   \* decidedInitialSlots
    HashRange,      \* the values of fibHash
    Hashes,         \* the hash functions considered
    Deadlines,      \* deadlines, and the instants of an eviction
    MaxMarks        \* bound: traces marked

(* What the constants are; mark's load factor leaves a slot empty in four  *)
(* or more.                                                                *)
DecidedConstants ==
    /\ InitialSlots \in Nat /\ InitialSlots >= 4
    /\ HashRange \in Nat \ {0} /\ Hashes \subseteq [Ids -> 0 .. HashRange - 1]
    /\ MaxMarks \in Nat

VARIABLES
    d,          \* the set
    hash,       \* fibHash, any function
    marks       \* traces marked so far

vars == <<d, hash, marks>>

Empty == 0      \* decidedEmpty
Tomb  == -1     \* decidedTomb
NoSlot == -1

Init ==
    /\ d = [slots |-> [i \in 0 .. InitialSlots - 1 |-> Empty], ring |-> << >>, head |-> 0,
            baseSeq |-> 0, tombs |-> 0]
    /\ hash \in Hashes
    /\ marks = 0

-----------------------------------------------------------------------------
Size(slots) == Cardinality(DOMAIN slots)
Population(s) == Len(s.ring) - s.head

(* The slots in the order id is looked for, from the one the high bits of  *)
(* its hash name.                                                          *)
Probes(slots, id) ==
    LET start == (hash[id] * Size(slots)) \div HashRange
    IN [p \in 1 .. Size(slots) |-> (start + p - 1) % Size(slots)]

(* The entry a slot refers to: ring[ref - 1 - baseSeq], counted from 0. *)
EntryOf(s, ref) == s.ring[ref - s.baseSeq]

(* The slot that holds id, or where it belongs: the first tombstone of the *)
(* probe, else the empty slot that ends it.                                *)
FindSlot(s, id) ==
    LET at    == Probes(s.slots, id)
        stop  == SelectInSeq(at, LAMBDA j : s.slots[j] = Empty)
        until == IF stop = 0 THEN Len(at) ELSE stop
        hits  == {p \in 1 .. until : s.slots[at[p]] \notin {Empty, Tomb} /\ EntryOf(s, s.slots[at[p]]).id = id}
        tombs == {p \in 1 .. until : s.slots[at[p]] = Tomb}
    IN IF hits # {} THEN [slot |-> at[Min(hits)], found |-> TRUE]
       ELSE IF tombs # {} THEN [slot |-> at[Min(tombs)], found |-> FALSE]
       ELSE [slot |-> IF stop = 0 THEN 0 ELSE at[stop], found |-> FALSE]

Has(s, id) == FindSlot(s, id).found

(* The smallest size that keeps the population under three quarters. *)
RehashSize(s) ==
    LET sizes[k \in 0 .. Population(s)] == IF k = 0 THEN InitialSlots ELSE 2 * sizes[k - 1]
    IN Min({n \in {sizes[k] : k \in 0 .. Population(s)} : 3 * n > 4 * Population(s)})

(* The table with the i-th entry of the ring, which it does not hold. *)
Entered(s, i) == [s EXCEPT !.slots[FindSlot(s, s.ring[i].id).slot] = s.baseSeq + i]

(* A new table from the live part of the ring; sequence numbers stay. *)
Rehash(s) ==
    LET empty == [s EXCEPT !.slots = [i \in 0 .. RehashSize(s) - 1 |-> Empty], !.tombs = 0]
        filled[n \in 0 .. Population(s)] == IF n = 0 THEN empty ELSE Entered(filled[n - 1], s.head + n)
    IN filled[Population(s)]

Loaded(s) == (Population(s) + s.tombs) * 4 >= 3 * Size(s.slots)

(* mark: a trace decided already is left as it is. *)
Marked(s, id, deadline) ==
    LET r  == IF Loaded(s) THEN Rehash(s) ELSE s
        at == FindSlot(r, id)
    IN IF at.found THEN r
       ELSE [r EXCEPT !.slots[at.slot] = r.baseSeq + Len(r.ring) + 1,
                      !.tombs = IF r.slots[at.slot] = Tomb THEN @ - 1 ELSE @,
                      !.ring = Append(@, [id |-> id, deadline |-> deadline])]

(* The entries evict pops: those at the head whose deadline has passed. *)
Due(s, now) ==
    LET live == {i \in s.head + 1 .. Len(s.ring) : s.ring[i].deadline > now}
    IN (IF live = {} THEN Len(s.ring) ELSE Min(live) - 1) - s.head

(* Mutant of Popped: the slot is emptied, which ends the probes behind it. *)
PoppedToEmpty(s) ==
    LET at == FindSlot(s, s.ring[s.head + 1].id)
    IN IF at.found
       THEN [s EXCEPT !.slots[at.slot] = Empty, !.head = @ + 1]
       ELSE [s EXCEPT !.head = @ + 1]

Popped(s) ==
    LET at == FindSlot(s, s.ring[s.head + 1].id)
    IN IF at.found
       THEN [s EXCEPT !.slots[at.slot] = Tomb, !.tombs = @ + 1, !.head = @ + 1]
       ELSE [s EXCEPT !.head = @ + 1]

(* A ring that is all, or mostly, dead gives up its dead prefix. *)
Compacted(s) ==
    IF s.head = Len(s.ring) \/ 2 * s.head > Len(s.ring)
    THEN [s EXCEPT !.ring = SubSeq(@, s.head + 1, Len(@)), !.baseSeq = @ + s.head, !.head = 0]
    ELSE s

Mark(id, deadline) ==
    /\ marks < MaxMarks
    /\ d' = Marked(d, id, deadline)
    /\ marks' = IF Has(d, id) THEN marks ELSE marks + 1
    /\ UNCHANGED hash

Evicted(s, now) ==
    LET popped[n \in 0 .. Due(s, now)] == IF n = 0 THEN s ELSE Popped(popped[n - 1])
    IN Compacted(popped[Due(s, now)])

Evict(now) ==
    /\ d' = Evicted(d, now)
    /\ UNCHANGED <<hash, marks>>

Next ==
    \/ \E id \in Ids, deadline \in Deadlines : Mark(id, deadline)
    \/ \E now \in Deadlines : Evict(now)

Spec == Init /\ [][Next]_vars

-----------------------------------------------------------------------------
LiveRing == {i \in DOMAIN d.ring : i > d.head}

(* The slots hold the sequence numbers of the live entries and nothing     *)
(* else, the tombstone count is exact, and an empty slot is left to end    *)
(* every probe.                                                            *)
TableSound ==
    LET refs == {i \in DOMAIN d.slots : d.slots[i] \notin {Empty, Tomb}}
    IN /\ {d.slots[i] : i \in refs} = {d.baseSeq + i : i \in LiveRing}
       /\ Cardinality(refs) = Cardinality(LiveRing)
       /\ d.tombs = Cardinality({i \in DOMAIN d.slots : d.slots[i] = Tomb})
       /\ \E i \in DOMAIN d.slots : d.slots[i] = Empty

(* Exactly the traces in the live part of the ring are found, each once:   *)
(* no tombstone, wrap-around, rehash or compaction hides a decided trace,  *)
(* which would reopen it to a second flush, or revives an evicted one.     *)
DecidedFound ==
    /\ TableSound
    /\ \A i, j \in LiveRing : d.ring[i].id = d.ring[j].id => i = j
    /\ \A id \in Ids : Has(d, id) <=> \E i \in LiveRing : d.ring[i].id = id
=============================================================================
