-------------------------- MODULE ShardPartsProofs --------------------------
(***************************************************************************)
(* Proofs about the two open-addressing tables of a shard.  The decided    *)
(* set (D): the table finds what is in the live part of the ring, whatever *)
(* collides, is evicted, rehashed or compacted.  The trace index (X): a    *)
(* probe finds the chain of what was put, whatever is swept, reused,       *)
(* rehashed or compacted, and a full turn of the sweeps leaves no dead     *)
(* trace.                                                                  *)
(***************************************************************************)
EXTENDS ShardParts, SumTheorems

-----------------------------------------------------------------------------
(***************************************************************************)
(* The inductive invariant.  n is the table's size, and top is the last    *)
(* entry of the ring that the table holds: in a rehash not all are yet.    *)
(***************************************************************************)
Entries == [id : DecidedIds, deadline : Deadlines]

SetType(n) == [slots : [0 .. n - 1 -> Nat \cup {D!Tomb}], ring : Seq(Entries), head : Nat, baseSeq : Nat, tombs : Nat]

(* The p-th slot that is probed for id. *)
At(n, id, p) == ((fibHash[id] * n) \div HashRange + p - 1) % n

(* A probe for id gets to slot j. *)
Reached(slots, n, id, j) ==
    \E p \in 1 .. n : At(n, id, p) = j /\ \A q \in 1 .. n : q < p => slots[At(n, id, q)] # D!Empty

RefSlots(slots, n) == {j \in 0 .. n - 1 : slots[j] # D!Empty /\ slots[j] # D!Tomb}
TombSlots(slots, n) == {j \in 0 .. n - 1 : slots[j] = D!Tomb}

(* The slots hold the live entries, one each, every one where a probe for  *)
(* it gets to, and no trace is decided twice.                              *)
RefsLive(s, n, top) ==
    \A j \in RefSlots(s.slots, n) : s.slots[j] - s.baseSeq \in s.head + 1 .. top

RefsOnce(s, n) ==
    \A j, k \in RefSlots(s.slots, n) : s.slots[j] = s.slots[k] => j = k

RefsAll(s, n, top) ==
    \A i \in s.head + 1 .. top : \E j \in RefSlots(s.slots, n) : s.slots[j] = s.baseSeq + i

RefsReached(s, n) ==
    \A j \in RefSlots(s.slots, n) : Reached(s.slots, n, D!EntryOf(s, s.slots[j]).id, j)

Unique(s) == \A i, k \in s.head + 1 .. Len(s.ring) : s.ring[i].id = s.ring[k].id => i = k

Sound(s, n, top) ==
    /\ s \in SetType(n)
    /\ top \in s.head .. Len(s.ring)
    /\ RefsLive(s, n, top) /\ RefsOnce(s, n) /\ RefsAll(s, n, top) /\ RefsReached(s, n)
    /\ s.tombs = Cardinality(TombSlots(s.slots, n))
    /\ Unique(s)

(* What mark's load factor leaves of the table. *)
Roomy(s, n) == n >= 4 /\ 4 * (D!Population(s) + s.tombs) < 3 * n + 4

HashOK == fibHash \in [DecidedIds -> 0 .. HashRange - 1]

SetInv ==
    /\ HashOK
    /\ \E n \in Nat : Sound(d, n, Len(d.ring)) /\ Roomy(d, n)

-----------------------------------------------------------------------------
(***************************************************************************)
(* Probes.                                                                 *)
(***************************************************************************)
LEMMA LeastOf ==
    ASSUME NEW S \in SUBSET Nat, S # {}
    PROVE  D!Min(S) \in S /\ \A y \in S : D!Min(S) <= y
<1>1. \E m \in S : \A y \in S : m =< y
  BY LeastNumber
<1>2. QED
  BY <1>1, Zenon DEF D!Min

LEMMA Wraps ==
    ASSUME NEW n \in Nat \ {0}, NEW j \in 0 .. n - 1
    PROVE  j % n = j /\ (j + n) % n = j
<1>1. j % n = j
  OBVIOUS
<1>2. (j + n) % n = j
  OBVIOUS
<1>3. QED
  BY <1>1, <1>2

LEMMA StartInTable ==
    ASSUME NEW n \in Nat \ {0}, NEW m \in Nat \ {0}, NEW h \in 0 .. m - 1
    PROVE  (h * n) \div m \in 0 .. n - 1
OBVIOUS

(* A probe stays in the table and gets to every slot. *)
LEMMA Probed ==
    ASSUME NEW n \in Nat \ {0}, NEW m \in Nat \ {0}, NEW h \in 0 .. m - 1
    PROVE  /\ \A p \in 1 .. n : ((h * n) \div m + p - 1) % n \in 0 .. n - 1
           /\ \A j \in 0 .. n - 1 : \E p \in 1 .. n : ((h * n) \div m + p - 1) % n = j
<1> DEFINE start == (h * n) \div m
<1>1. start \in 0 .. n - 1
  BY StartInTable
<1> HIDE DEF start
<1>2. ASSUME NEW p \in 1 .. n PROVE (start + p - 1) % n \in 0 .. n - 1
  <2>1. start + p - 1 \in Nat
    BY <1>1
  <2>2. QED
    BY <2>1
<1>3. ASSUME NEW j \in 0 .. n - 1 PROVE \E p \in 1 .. n : (start + p - 1) % n = j
  <2>1. CASE start <= j
    <3> DEFINE p == j - start + 1
    <3>1. p \in 1 .. n /\ start + p - 1 = j
      BY <1>1, <2>1
    <3>2. (start + p - 1) % n = j
      BY <3>1, Wraps
    <3> HIDE DEF p
    <3>3. QED
      BY <3>1, <3>2
  <2>2. CASE ~(start <= j)
    <3> DEFINE p == j + n - start + 1
    <3>1. p \in 1 .. n /\ start + p - 1 = j + n
      BY <1>1, <2>2
    <3>2. (start + p - 1) % n = j
      BY <3>1, Wraps
    <3> HIDE DEF p
    <3>3. QED
      BY <3>1, <3>2
  <2>3. QED
    BY <2>1, <2>2
<1>4. QED
  BY <1>2, <1>3, Zenon DEF start

LEMMA ProbesAll ==
    ASSUME D!DecidedConstants, HashOK, NEW n \in Nat \ {0}, NEW id \in DecidedIds
    PROVE  /\ \A p \in 1 .. n : At(n, id, p) \in 0 .. n - 1
           /\ \A j \in 0 .. n - 1 : \E p \in 1 .. n : At(n, id, p) = j
<1>1. HashRange \in Nat \ {0} /\ fibHash[id] \in 0 .. HashRange - 1
  BY DEF D!DecidedConstants, HashOK
<1>2. QED
  BY <1>1, Probed, Zenon DEF At

(* The instance's cardinality is the one of FiniteSets. *)
LEMMA SameCardinality ==
    ASSUME NEW S
    PROVE  D!Cardinality(S) = Cardinality(S)
BY Zenon DEF D!Cardinality, Cardinality

LEMMA SizeIs ==
    ASSUME NEW n \in Nat, NEW slots, DOMAIN slots = 0 .. n - 1
    PROVE  /\ D!Size(slots) = n
           /\ \A id : D!Probes(slots, id) = [p \in 1 .. n |-> At(n, id, p)]
<1>1. Cardinality(0 .. n - 1) = n
  BY FS_Interval
<1>2. D!Size(slots) = n
  BY <1>1, SameCardinality DEF D!Size
<1>3. QED
  BY <1>2, Zenon DEF D!Probes, At

LEMMA SetFacts ==
    ASSUME NEW n \in Nat, NEW s \in SetType(n)
    PROVE  /\ s.slots \in [0 .. n - 1 -> Nat \cup {D!Tomb}] /\ DOMAIN s.slots = 0 .. n - 1
           /\ s.ring \in Seq(Entries) /\ Len(s.ring) \in Nat
           /\ \A i \in 1 .. Len(s.ring) : s.ring[i] \in Entries /\ s.ring[i].id \in DecidedIds
           /\ s.head \in Nat /\ s.baseSeq \in Nat /\ s.tombs \in Nat
<1>1. s.slots \in [0 .. n - 1 -> Nat \cup {D!Tomb}] /\ s.ring \in Seq(Entries) /\ s.head \in Nat /\ s.baseSeq \in Nat /\ s.tombs \in Nat
  BY DEF SetType
<1>2. \A e \in Entries : e.id \in DecidedIds
  BY DEF Entries
<1>3. QED
  BY <1>1, <1>2

(* findSlot finds an entry the table holds, and otherwise names a slot     *)
(* that is free and that a probe gets to.                                  *)
LEMMA FindsSlot ==
    ASSUME D!DecidedConstants, HashOK, NEW n \in Nat \ {0}, NEW s, NEW top, Sound(s, n, top), NEW id \in DecidedIds,
           NEW e \in 0 .. n - 1, s.slots[e] = D!Empty
    PROVE  /\ D!FindSlot(s, id).slot \in 0 .. n - 1
           /\ D!FindSlot(s, id).found <=> \E i \in s.head + 1 .. top : s.ring[i].id = id
           /\ D!FindSlot(s, id).found => /\ D!FindSlot(s, id).slot \in RefSlots(s.slots, n)
                                       /\ D!EntryOf(s, s.slots[D!FindSlot(s, id).slot]).id = id
           /\ ~D!FindSlot(s, id).found => /\ s.slots[D!FindSlot(s, id).slot] \in {D!Empty, D!Tomb}
                                        /\ Reached(s.slots, n, id, D!FindSlot(s, id).slot)
<1> DEFINE at == [p \in 1 .. n |-> At(n, id, p)]
           T == {p \in 1 .. n : s.slots[at[p]] = D!Empty}
           stop == D!Min(T)
           hits == {p \in 1 .. stop : s.slots[at[p]] \notin {D!Empty, D!Tomb} /\ D!EntryOf(s, s.slots[at[p]]).id = id}
           tombs == {p \in 1 .. stop : s.slots[at[p]] = D!Tomb}
<1>1. s \in SetType(n) /\ RefsLive(s, n, top) /\ RefsAll(s, n, top) /\ RefsReached(s, n)
  BY DEF Sound
<1>2. DOMAIN s.slots = 0 .. n - 1 /\ s.head \in Nat /\ s.baseSeq \in Nat
  BY <1>1, SetFacts
<1>3. /\ \A p \in 1 .. n : at[p] = At(n, id, p) /\ at[p] \in 0 .. n - 1
      /\ \A j \in 0 .. n - 1 : \E p \in 1 .. n : at[p] = j
  BY ProbesAll
<1>4. D!Probes(s.slots, id) = at /\ Len(at) = n
  <2>1. D!Probes(s.slots, id) = at
    BY <1>2, SizeIs
  <2>2. QED
    BY <2>1
<1> HIDE DEF at
<1>5. stop \in 1 .. n /\ s.slots[at[stop]] = D!Empty /\ \A q \in 1 .. n : q < stop => s.slots[at[q]] # D!Empty
  <2>1. T # {} /\ T \in SUBSET Nat
    BY <1>3
  <2>2. stop \in T /\ \A q \in T : stop <= q
    <3> HIDE DEF T
    <3>1. QED
      BY <2>1, LeastOf
  <2> HIDE DEF stop
  <2>3. QED
    BY <2>2
<1>6. D!SelectInSeq(at, LAMBDA j : s.slots[j] = D!Empty) = stop
  <2>1. T # {}
    BY <1>3
  <2>2. QED
    BY <1>4, <2>1, Zenon DEF D!SelectInSeq
<1> HIDE DEF stop, T
<1>7. D!FindSlot(s, id) = IF hits # {} THEN [slot |-> at[D!Min(hits)], found |-> TRUE]
                        ELSE IF tombs # {} THEN [slot |-> at[D!Min(tombs)], found |-> FALSE]
                        ELSE [slot |-> at[stop], found |-> FALSE]
  <2>1. stop # 0
    BY <1>5
  <2>2. QED
    BY <1>4, <1>6, <2>1, Zenon DEF D!FindSlot
<1>8. hits # {} => D!Min(hits) \in hits
  <2>1. hits \in SUBSET Nat
    BY <1>5
  <2> HIDE DEF hits
  <2>2. QED
    BY <2>1, LeastOf
<1>9. tombs # {} => D!Min(tombs) \in tombs
  <2>1. tombs \in SUBSET Nat
    BY <1>5
  <2> HIDE DEF tombs
  <2>2. QED
    BY <2>1, LeastOf
<1>10. ASSUME NEW p \in 1 .. stop
       PROVE  /\ p \in 1 .. n /\ at[p] \in 0 .. n - 1
              /\ Reached(s.slots, n, id, at[p])
  <2>1. p \in 1 .. n
    BY <1>5
  <2>2. at[p] \in 0 .. n - 1 /\ at[p] = At(n, id, p)
    BY <1>3, <2>1
  <2>3. ASSUME NEW q \in 1 .. n, q < p PROVE s.slots[At(n, id, q)] # D!Empty
    <3>1. q < stop /\ at[q] = At(n, id, q)
      BY <1>3, <1>5, <2>1, <2>3
    <3>2. QED
      BY <1>5, <3>1
  <2>4. QED
    BY <2>1, <2>2, <2>3, Zenon DEF Reached
<1>11. ASSUME NEW i \in s.head + 1 .. top, s.ring[i].id = id PROVE hits # {}
  <2>1. PICK j \in RefSlots(s.slots, n) : s.slots[j] = s.baseSeq + i
    BY <1>1 DEF RefsAll
  <2>2. j \in 0 .. n - 1 /\ s.slots[j] # D!Empty /\ s.slots[j] # D!Tomb
    BY <2>1 DEF RefSlots
  <2>3. D!EntryOf(s, s.slots[j]).id = id
    <3>1. top \in s.head .. Len(s.ring) /\ Len(s.ring) \in Nat
      BY <1>1, SetFacts DEF Sound
    <3>2. s.slots[j] - s.baseSeq = i
      BY <1>2, <2>1, <3>1
    <3>3. QED
      BY <1>11, <3>2 DEF D!EntryOf
  <2>4. Reached(s.slots, n, id, j)
    BY <1>1, <2>1, <2>3 DEF RefsReached
  <2>5. PICK p \in 1 .. n : At(n, id, p) = j /\ \A q \in 1 .. n : q < p => s.slots[At(n, id, q)] # D!Empty
    BY <2>4, Zenon DEF Reached
  <2>6. p <= stop
    <3>1. SUFFICES ASSUME stop < p PROVE FALSE
      BY <1>5
    <3>2. s.slots[At(n, id, stop)] # D!Empty
      BY <1>5, <2>5, <3>1
    <3>3. QED
      BY <1>3, <1>5, <3>2
  <2>7. p \in 1 .. stop /\ at[p] = j
    BY <1>3, <1>5, <2>5, <2>6
  <2>8. p \in hits
    BY <2>2, <2>3, <2>7
  <2>9. QED
    BY <2>8
<1>12. CASE hits # {}
  <2> DEFINE m == D!Min(hits)
  <2>1. m \in 1 .. stop /\ s.slots[at[m]] # D!Empty /\ s.slots[at[m]] # D!Tomb /\ D!EntryOf(s, s.slots[at[m]]).id = id
    BY <1>8, <1>12
  <2>2. D!FindSlot(s, id).slot = at[m] /\ D!FindSlot(s, id).found = TRUE
    <3>1. D!FindSlot(s, id) = [slot |-> at[m], found |-> TRUE]
      BY <1>7, <1>12, Zenon
    <3>2. QED
      BY ONLY <3>1
  <2> HIDE DEF m, hits
  <2>3. at[m] \in RefSlots(s.slots, n)
    BY <1>10, <2>1 DEF RefSlots
  <2>4. s.slots[at[m]] - s.baseSeq \in s.head + 1 .. top /\ s.ring[s.slots[at[m]] - s.baseSeq].id = id
    BY <1>1, <2>1, <2>3 DEF RefsLive, D!EntryOf
  <2>5. QED
    BY <1>10, <2>1, <2>2, <2>3, <2>4
<1>13. CASE hits = {} /\ tombs # {}
  <2> DEFINE m == D!Min(tombs)
  <2>1. m \in 1 .. stop /\ s.slots[at[m]] = D!Tomb
    BY <1>9, <1>13
  <2>2. D!FindSlot(s, id).slot = at[m] /\ D!FindSlot(s, id).found = FALSE
    <3>1. D!FindSlot(s, id) = [slot |-> at[m], found |-> FALSE]
      BY <1>7, <1>13, Zenon
    <3>2. QED
      BY ONLY <3>1
  <2>3. ~\E i \in s.head + 1 .. top : s.ring[i].id = id
    BY <1>11, <1>13, Zenon
  <2> HIDE DEF m, hits, tombs
  <2>4. QED
    BY <1>10, <2>1, <2>2, <2>3
<1>14. CASE hits = {} /\ tombs = {}
  <2>1. D!FindSlot(s, id).slot = at[stop] /\ D!FindSlot(s, id).found = FALSE
    <3>1. D!FindSlot(s, id) = [slot |-> at[stop], found |-> FALSE]
      BY <1>7, <1>14, Zenon
    <3>2. QED
      BY ONLY <3>1
  <2>2. ~\E i \in s.head + 1 .. top : s.ring[i].id = id
    BY <1>11, <1>14, Zenon
  <2>3. stop \in 1 .. stop
    BY <1>5
  <2> HIDE DEF hits, tombs
  <2>4. QED
    BY <1>5, <1>10, <2>1, <2>2, <2>3
<1>15. QED
  BY <1>12, <1>13, <1>14, Zenon

-----------------------------------------------------------------------------
(***************************************************************************)
(* Counting slots.                                                         *)
(***************************************************************************)
LEMMA SlotsFinite ==
    ASSUME NEW n \in Nat, NEW slots
    PROVE  /\ IsFiniteSet(0 .. n - 1) /\ Cardinality(0 .. n - 1) = n
           /\ IsFiniteSet(RefSlots(slots, n)) /\ Cardinality(RefSlots(slots, n)) \in Nat
           /\ IsFiniteSet(TombSlots(slots, n)) /\ Cardinality(TombSlots(slots, n)) \in Nat
<1>1. IsFiniteSet(0 .. n - 1) /\ Cardinality(0 .. n - 1) = n
  BY FS_Interval
<1>2. RefSlots(slots, n) \in SUBSET (0 .. n - 1) /\ TombSlots(slots, n) \in SUBSET (0 .. n - 1)
  BY DEF RefSlots, TombSlots
<1>3. QED
  BY <1>1, <1>2, FS_Subset, FS_CardinalityType

(* As many references as entries. *)
LEMMA RefCount ==
    ASSUME NEW n \in Nat, NEW s, NEW top, Sound(s, n, top)
    PROVE  Cardinality(RefSlots(s.slots, n)) = top - s.head
<1> DEFINE R == RefSlots(s.slots, n)
           I == s.head + 1 .. top
           f == [j \in R |-> s.slots[j] - s.baseSeq]
<1>1. /\ s \in SetType(n) /\ RefsLive(s, n, top) /\ RefsOnce(s, n) /\ RefsAll(s, n, top)
      /\ top \in s.head .. Len(s.ring)
  BY DEF Sound
<1>2. s.slots \in [0 .. n - 1 -> Nat \cup {D!Tomb}] /\ s.head \in Nat /\ s.baseSeq \in Nat /\ Len(s.ring) \in Nat
  BY <1>1, SetFacts
<1>3. \A j \in R : s.slots[j] \in Int
  BY <1>2 DEF RefSlots, D!Tomb
<1>4. \A j \in R : f[j] = s.slots[j] - s.baseSeq /\ f[j] \in I
  BY <1>1 DEF RefsLive
<1>5. f \in [R -> I]
  BY <1>4
<1>6. \A j, k \in R : f[j] = f[k] => j = k
  <2>1. ASSUME NEW j \in R, NEW k \in R, f[j] = f[k] PROVE j = k
    <3>1. s.slots[j] = s.slots[k]
      BY SMTT(40), <1>2, <1>3, <1>4, <2>1
    <3>2. QED
      BY <1>1, <3>1 DEF RefsOnce
  <2>2. QED
    BY <2>1
<1>7. \A i \in I : \E j \in R : f[j] = i
  <2>1. ASSUME NEW i \in I PROVE \E j \in R : f[j] = i
    <3>1. PICK j \in R : s.slots[j] = s.baseSeq + i
      BY <1>1 DEF RefsAll
    <3>2. f[j] = i
      BY <1>1, <1>2, <1>4, <3>1
    <3>3. QED
      BY <3>2
  <2>2. QED
    BY <2>1
<1> HIDE DEF f, R, I
<1>8. f \in Bijection(R, I)
  BY <1>5, <1>6, <1>7 DEF Bijection, Injection, Surjection, IsInjective
<1>9. IsFiniteSet(R)
  BY SlotsFinite DEF R
<1>10. Cardinality(I) = Cardinality(R)
  BY <1>8, <1>9, FS_Bijection DEF ExistsBijection
<1>11. Cardinality(I) = top - s.head
  <2>1. s.head + 1 \in Int /\ top \in Int /\ s.head <= top
    BY <1>1, <1>2
  <2>2. Cardinality(s.head + 1 .. top) = IF s.head + 1 > top THEN 0 ELSE top - (s.head + 1) + 1
    BY <2>1, FS_Interval
  <2>3. QED
    BY <1>1, <1>2, <2>1, <2>2 DEF I
<1>12. QED
  BY <1>10, <1>11 DEF R

(* A slot is empty if the others do not fill the table. *)
LEMMA EmptyLeft ==
    ASSUME NEW n \in Nat, NEW s, NEW top, Sound(s, n, top), top - s.head + s.tombs < n
    PROVE  \E e \in 0 .. n - 1 : s.slots[e] = D!Empty
<1> DEFINE R == RefSlots(s.slots, n)
           T == TombSlots(s.slots, n)
<1>1. SUFFICES ASSUME \A e \in 0 .. n - 1 : s.slots[e] # D!Empty PROVE FALSE
  OBVIOUS
<1>2. R \cup T = 0 .. n - 1 /\ R \cap T = {}
  BY <1>1 DEF RefSlots, TombSlots
<1>3. Cardinality(R) = top - s.head /\ Cardinality(T) = s.tombs
  BY RefCount DEF Sound
<1>4. IsFiniteSet(R) /\ IsFiniteSet(T) /\ Cardinality(R) \in Nat /\ Cardinality(T) \in Nat /\ Cardinality(0 .. n - 1) = n
  BY SlotsFinite
<1> HIDE DEF R, T
<1>5. Cardinality(R \cup T) = Cardinality(R) + Cardinality(T)
  <2>1. Cardinality(R \cup T) = Cardinality(R) + Cardinality(T) - Cardinality(R \cap T)
    BY <1>4, FS_Union, Zenon
  <2>2. Cardinality(R \cap T) = 0
    BY <1>2, FS_EmptySet, Zenon
  <2>3. QED
    BY <1>4, <2>1, <2>2
<1>6. Cardinality(R \cup T) = n
  BY <1>2, <1>4, Zenon
<1>7. QED
  BY <1>3, <1>4, <1>5, <1>6

(* A roomy table has an empty slot. *)
LEMMA RoomLeft ==
    ASSUME NEW n \in Nat, NEW s, Sound(s, n, Len(s.ring)), Roomy(s, n)
    PROVE  \E e \in 0 .. n - 1 : s.slots[e] = D!Empty
<1>1. s.head \in Nat /\ s.tombs \in Nat /\ Len(s.ring) \in Nat
  BY SetFacts DEF Sound
<1>2. Len(s.ring) - s.head + s.tombs < n
  BY <1>1 DEF Roomy, D!Population
<1>3. QED
  BY <1>2, EmptyLeft

-----------------------------------------------------------------------------
(***************************************************************************)
(* What the operations keep.                                               *)
(***************************************************************************)

(* The tombstones when a slot is written. *)
LEMMA TombsWritten ==
    ASSUME NEW n \in Nat, NEW slots, NEW slots1, NEW j \in 0 .. n - 1,
           \A k \in 0 .. n - 1 : k # j => slots1[k] = slots[k]
    PROVE  /\ slots1[j] # D!Tomb /\ slots[j] = D!Tomb =>
                 Cardinality(TombSlots(slots1, n)) = Cardinality(TombSlots(slots, n)) - 1
           /\ slots1[j] # D!Tomb /\ slots[j] # D!Tomb =>
                 Cardinality(TombSlots(slots1, n)) = Cardinality(TombSlots(slots, n))
           /\ slots1[j] = D!Tomb /\ slots[j] # D!Tomb =>
                 Cardinality(TombSlots(slots1, n)) = Cardinality(TombSlots(slots, n)) + 1
<1> DEFINE T == TombSlots(slots, n)
           T1 == TombSlots(slots1, n)
<1>1. IsFiniteSet(T)
  BY SlotsFinite
<1>2. slots[j] = D!Tomb <=> j \in T
  BY DEF TombSlots
<1>3. slots1[j] # D!Tomb => T1 = T \ {j}
  BY DEF TombSlots
<1>4. slots1[j] = D!Tomb => T1 = T \cup {j}
  BY DEF TombSlots
<1> HIDE DEF T, T1
<1>5. Cardinality(T \ {j}) = IF j \in T THEN Cardinality(T) - 1 ELSE Cardinality(T)
  BY <1>1, FS_RemoveElement
<1>6. Cardinality(T \cup {j}) = IF j \in T THEN Cardinality(T) ELSE Cardinality(T) + 1
  BY <1>1, FS_AddElement
<1>7. /\ slots1[j] # D!Tomb /\ slots[j] = D!Tomb => Cardinality(T1) = Cardinality(T) - 1
      /\ slots1[j] # D!Tomb /\ slots[j] # D!Tomb => Cardinality(T1) = Cardinality(T)
      /\ slots1[j] = D!Tomb /\ slots[j] # D!Tomb => Cardinality(T1) = Cardinality(T) + 1
  BY <1>2, <1>3, <1>4, <1>5, <1>6, Zenon
<1>8. QED
  BY <1>7 DEF T, T1

(* A probe gets as far as before when no slot becomes empty. *)
LEMMA StillReached ==
    ASSUME D!DecidedConstants, HashOK, NEW n \in Nat \ {0}, NEW slots \in [0 .. n - 1 -> Nat \cup {D!Tomb}],
           NEW j \in 0 .. n - 1, NEW v, v # D!Empty,
           NEW id \in DecidedIds, NEW k, Reached(slots, n, id, k)
    PROVE  Reached([slots EXCEPT ![j] = v], n, id, k)
<1>1. PICK p \in 1 .. n : At(n, id, p) = k /\ \A q \in 1 .. n : q < p => slots[At(n, id, q)] # D!Empty
  BY Zenon DEF Reached
<1>2. \A q \in 1 .. n : At(n, id, q) \in 0 .. n - 1
  BY ProbesAll
<1>3. \A i \in 0 .. n - 1 : slots[i] # D!Empty => [slots EXCEPT ![j] = v][i] # D!Empty
  OBVIOUS
<1>4. \A q \in 1 .. n : q < p => [slots EXCEPT ![j] = v][At(n, id, q)] # D!Empty
  BY <1>1, <1>2, <1>3, Zenon
<1>5. QED
  BY <1>1, <1>4, Zenon DEF Reached

(* The next entry is put in a free slot that its probe gets to. *)
LEMMA Placed ==
    ASSUME D!DecidedConstants, HashOK, NEW n \in Nat \ {0}, NEW s, NEW top, Sound(s, n, top),
           NEW s1 \in SetType(n), NEW j \in 0 .. n - 1, NEW id \in DecidedIds,
           s.slots[j] \in {D!Empty, D!Tomb}, Reached(s.slots, n, id, j),
           s1.slots = [s.slots EXCEPT ![j] = s.baseSeq + top + 1],
           s1.head = s.head, s1.baseSeq = s.baseSeq,
           s1.tombs = IF s.slots[j] = D!Tomb THEN s.tombs - 1 ELSE s.tombs,
           top + 1 <= Len(s1.ring), \A i \in 1 .. top : s1.ring[i] = s.ring[i],
           s1.ring[top + 1].id = id, Unique(s1)
    PROVE  Sound(s1, n, top + 1)
<1> DEFINE v == s.baseSeq + top + 1
           R == RefSlots(s.slots, n)
           R1 == RefSlots(s1.slots, n)
<1>1. /\ s \in SetType(n) /\ top \in s.head .. Len(s.ring)
      /\ RefsLive(s, n, top) /\ RefsOnce(s, n) /\ RefsAll(s, n, top) /\ RefsReached(s, n)
      /\ s.tombs = Cardinality(TombSlots(s.slots, n))
  BY DEF Sound
<1>2. /\ s.slots \in [0 .. n - 1 -> Nat \cup {D!Tomb}] /\ s.head \in Nat /\ s.baseSeq \in Nat
      /\ Len(s.ring) \in Nat /\ top \in Nat /\ Len(s1.ring) \in Nat
      /\ \A i \in 1 .. Len(s.ring) : s.ring[i].id \in DecidedIds
  BY SMTT(40), <1>1, SetFacts
<1>3. v \in Nat /\ v # D!Empty /\ v # D!Tomb
  BY SMTT(40), <1>1, <1>2 DEF D!Empty, D!Tomb
<1>4. /\ s1.slots[j] = v
      /\ \A k \in 0 .. n - 1 : k # j => s1.slots[k] = s.slots[k]
  BY <1>2
<1>5. j \in R1 /\ j \notin R /\ \A k \in R1 : k # j => k \in R /\ s1.slots[k] = s.slots[k]
  BY <1>3, <1>4 DEF RefSlots
<1>6. \A k \in R : k \in R1 /\ k # j /\ s1.slots[k] = s.slots[k]
  BY <1>4, <1>5 DEF RefSlots
<1>7. \A k \in R : s.slots[k] - s.baseSeq \in s.head + 1 .. top /\ s.slots[k] \in Nat
  <2>1. \A k \in R : s.slots[k] \in Nat
    BY <1>2 DEF RefSlots
  <2>2. QED
    BY <1>1, <2>1 DEF RefsLive
<1> HIDE DEF R, R1
<1>8. RefsLive(s1, n, top + 1)
  <2>1. ASSUME NEW k \in R1 PROVE s1.slots[k] - s.baseSeq \in s.head + 1 .. top + 1
    <3>1. CASE k = j
      BY <1>1, <1>2, <1>4, <3>1, SMTT(40)
    <3>2. CASE k # j
      BY <1>1, <1>2, <1>5, <1>7, <3>2
    <3>3. QED
      BY <3>1, <3>2
  <2>2. QED
    BY <2>1 DEF RefsLive, R1
<1>9. RefsOnce(s1, n)
  <2>1. \A k \in R : s.slots[k] # v
    BY <1>2, <1>7
  <2> HIDE DEF v
  <2>2. ASSUME NEW k \in R1, NEW l \in R1, s1.slots[k] = s1.slots[l] PROVE k = l
    <3>1. CASE k = j \/ l = j
      BY <1>4, <1>5, <2>1, <2>2, <3>1
    <3>2. CASE k # j /\ l # j
      <4>1. k \in R /\ l \in R /\ s.slots[k] = s.slots[l]
        BY <1>5, <2>2, <3>2
      <4>2. QED
        BY <1>1, <4>1 DEF RefsOnce, R
    <3>3. QED
      BY <3>1, <3>2
  <2>3. QED
    BY <2>2 DEF RefsOnce, R1
<1>10. RefsAll(s1, n, top + 1)
  <2>1. ASSUME NEW i \in s.head + 1 .. top + 1 PROVE \E k \in R1 : s1.slots[k] = s.baseSeq + i
    <3>1. CASE i = top + 1
      <4>1. v = s.baseSeq + i
        <5>1. s.baseSeq \in Nat /\ top \in Nat
          BY <1>2
        <5>2. QED
          BY ONLY <3>1, <5>1
      <4> HIDE DEF v
      <4>2. QED
        BY <1>4, <1>5, <4>1, Zenon
    <3>2. CASE i # top + 1
      <4>1. i \in s.head + 1 .. top
        BY <1>1, <1>2, <3>2
      <4>2. PICK k \in R : s.slots[k] = s.baseSeq + i
        BY <1>1, <4>1 DEF RefsAll, R
      <4>3. QED
        BY <1>6, <4>2
    <3>3. QED
      BY <3>1, <3>2
  <2>2. QED
    BY <2>1 DEF RefsAll, R1
<1>11. RefsReached(s1, n)
  <2>1. ASSUME NEW k \in R1 PROVE Reached(s1.slots, n, D!EntryOf(s1, s1.slots[k]).id, k)
    <3>1. CASE k = j
      <4>1. s1.slots[k] - s1.baseSeq = top + 1
        BY <1>2, <1>4, <3>1
      <4>2. D!EntryOf(s1, s1.slots[k]).id = id
        BY <4>1 DEF D!EntryOf
      <4>3. Reached([s.slots EXCEPT ![j] = v], n, id, k)
        <5> HIDE DEF v
        <5>1. QED
          BY <1>2, <1>3, <3>1, StillReached
      <4>4. QED
        BY <4>2, <4>3
    <3>2. CASE k # j
      <4> DEFINE i == s.slots[k] - s.baseSeq
      <4>1. k \in R /\ s1.slots[k] = s.slots[k] /\ i \in s.head + 1 .. top
        BY <1>5, <1>7, <3>2
      <4>2. i \in 1 .. top /\ i \in 1 .. Len(s.ring)
        BY SMTT(40), <1>1, <1>2, <4>1
      <4> DEFINE z == s.ring[i].id
      <4>3. D!EntryOf(s1, s1.slots[k]).id = z /\ D!EntryOf(s, s.slots[k]).id = z /\ z \in DecidedIds
        BY <1>2, <4>1, <4>2 DEF D!EntryOf
      <4> HIDE DEF z
      <4>4. Reached(s.slots, n, z, k)
        BY <1>1, <4>1, <4>3 DEF RefsReached, R
      <4>5. Reached([s.slots EXCEPT ![j] = v], n, z, k)
        <5> HIDE DEF v, i
        <5>1. QED
          BY <1>2, <1>3, <4>3, <4>4, StillReached
      <4>6. QED
        BY <4>3, <4>5
    <3>3. QED
      BY <3>1, <3>2
  <2>2. QED
    BY <2>1 DEF RefsReached, R1
<1>12. s1.tombs = Cardinality(TombSlots(s1.slots, n))
  <2>1. n \in Nat /\ s1.slots[j] # D!Tomb
    BY <1>3, <1>4
  <2>2. /\ s.slots[j] = D!Tomb => Cardinality(TombSlots(s1.slots, n)) = Cardinality(TombSlots(s.slots, n)) - 1
        /\ s.slots[j] # D!Tomb => Cardinality(TombSlots(s1.slots, n)) = Cardinality(TombSlots(s.slots, n))
    <3> DEFINE a == s.slots
               b == s1.slots
    <3>1. b[j] # D!Tomb /\ \A k \in 0 .. n - 1 : k # j => b[k] = a[k]
      BY <1>4, <2>1
    <3> HIDE DEF a, b
    <3>2. /\ a[j] = D!Tomb => Cardinality(TombSlots(b, n)) = Cardinality(TombSlots(a, n)) - 1
          /\ a[j] # D!Tomb => Cardinality(TombSlots(b, n)) = Cardinality(TombSlots(a, n))
      BY ONLY n \in Nat, j \in 0 .. n - 1, <3>1, TombsWritten
    <3>3. QED
      BY <3>2, Zenon DEF a, b
  <2>3. QED
    BY <1>1, <2>2, Zenon
<1>13. top + 1 \in s1.head .. Len(s1.ring)
  BY <1>1, <1>2
<1>14. QED
  BY <1>8, <1>9, <1>10, <1>11, <1>12, <1>13 DEF Sound

-----------------------------------------------------------------------------
(***************************************************************************)
(* The recursive functions of rehash and evict exist.                      *)
(***************************************************************************)
(* The table sizes tried. *)
IsSizes(size, n, g) == g = [i \in 0 .. n |-> IF i = 0 THEN size ELSE 2 * g[i - 1]]

LEMMA SizesExists ==
    ASSUME NEW size, NEW n \in Nat
    PROVE  \E g : IsSizes(size, n, g)
<1>1. SUFFICES ASSUME ~\E g : IsSizes(size, n, g)
               PROVE  FALSE
  OBVIOUS
<1> DEFINE B == {k \in Nat : ~\E g : IsSizes(size, k, g)}
<1>2. B \in SUBSET Nat /\ n \in B
  BY <1>1
<1>3. PICK m \in B : \A k \in B : m <= k
  <2> HIDE DEF B
  <2>1. QED
    BY <1>2, LeastNumber
<1>4. m \in Nat /\ ~\E g : IsSizes(size, m, g)
  BY <1>3
<1>5. CASE m = 0
  <2> DEFINE g == [i \in 0 .. 0 |-> size]
  <2>1. \A i \in 0 .. 0 : i = 0
    OBVIOUS
  <2>2. g = [i \in 0 .. 0 |-> IF i = 0 THEN size ELSE 2 * g[i - 1]]
    BY <2>1, Zenon
  <2>3. QED
    BY <1>4, <1>5, <2>2, Zenon DEF IsSizes
<1>6. CASE m # 0
  <2>1. m - 1 \in Nat /\ m - 1 \notin B
    BY <1>3, <1>4, <1>6
  <2>2. PICK g : IsSizes(size, m - 1, g)
    BY <2>1
  <2> DEFINE h == [i \in 0 .. m |-> IF i = m THEN 2 * g[m - 1] ELSE g[i]]
  <2>3. ASSUME NEW i \in 0 .. m
        PROVE  h[i] = IF i = 0 THEN size ELSE 2 * h[i - 1]
    <3>1. CASE i = m
      <4>1. i # 0 /\ i - 1 \in 0 .. m /\ i - 1 # m /\ i - 1 = m - 1
        BY <1>4, <1>6, <3>1
      <4>2. h[i] = 2 * g[m - 1]
        BY <3>1, Zenon
      <4>3. h[i - 1] = g[i - 1]
        BY <4>1, Zenon
      <4>4. QED
        BY <3>1, <4>1, <4>2, <4>3, Zenon
    <3>2. CASE i # m
      <4>1. i \in 0 .. m - 1 /\ (i # 0 => i - 1 \in 0 .. m /\ i - 1 # m)
        BY <1>4, <3>2
      <4>2. h[i] = g[i]
        BY <3>2, Zenon
      <4>3. g[i] = IF i = 0 THEN size ELSE 2 * g[i - 1]
        BY <2>2, <4>1, Zenon DEF IsSizes
      <4>4. i # 0 => h[i - 1] = g[i - 1]
        BY <4>1, Zenon
      <4>5. QED
        BY <4>2, <4>3, <4>4, Zenon
    <3>3. QED
      BY <3>1, <3>2
  <2>4. h = [i \in 0 .. m |-> h[i]]
    BY Zenon
  <2>5. h = [i \in 0 .. m |-> IF i = 0 THEN size ELSE 2 * h[i - 1]]
    <3> HIDE DEF h
    <3>1. QED
      BY <2>3, <2>4, Zenon
  <2>6. IsSizes(size, m, h)
    <3> HIDE DEF h
    <3>1. QED
      BY <2>5, Zenon DEF IsSizes
  <2>7. QED
    BY <1>4, <2>6
<1>7. QED
  BY <1>5, <1>6

(* The tables of a rehash. *)
IsFilled(s, first, n, g) == g = [i \in 0 .. n |-> IF i = 0 THEN s ELSE D!Entered(g[i - 1], first + i)]

LEMMA FilledExists ==
    ASSUME NEW s, NEW first, NEW n \in Nat
    PROVE  \E g : IsFilled(s, first, n, g)
<1>1. SUFFICES ASSUME ~\E g : IsFilled(s, first, n, g)
               PROVE  FALSE
  OBVIOUS
<1> DEFINE B == {k \in Nat : ~\E g : IsFilled(s, first, k, g)}
<1>2. B \in SUBSET Nat /\ n \in B
  BY <1>1
<1>3. PICK m \in B : \A k \in B : m <= k
  <2> HIDE DEF B
  <2>1. QED
    BY <1>2, LeastNumber
<1>4. m \in Nat /\ ~\E g : IsFilled(s, first, m, g)
  BY <1>3
<1>5. CASE m = 0
  <2> DEFINE g == [i \in 0 .. 0 |-> s]
  <2>1. \A i \in 0 .. 0 : i = 0
    OBVIOUS
  <2>2. g = [i \in 0 .. 0 |-> IF i = 0 THEN s ELSE D!Entered(g[i - 1], first + i)]
    BY <2>1, Zenon
  <2>3. QED
    BY <1>4, <1>5, <2>2, Zenon DEF IsFilled
<1>6. CASE m # 0
  <2>1. m - 1 \in Nat /\ m - 1 \notin B
    BY <1>3, <1>4, <1>6
  <2>2. PICK g : IsFilled(s, first, m - 1, g)
    BY <2>1
  <2> DEFINE h == [i \in 0 .. m |-> IF i = m THEN D!Entered(g[m - 1], first + m) ELSE g[i]]
  <2>3. ASSUME NEW i \in 0 .. m
        PROVE  h[i] = IF i = 0 THEN s ELSE D!Entered(h[i - 1], first + i)
    <3>1. CASE i = m
      <4>1. i # 0 /\ i - 1 \in 0 .. m /\ i - 1 # m /\ i - 1 = m - 1
        BY <1>4, <1>6, <3>1
      <4>2. h[i] = D!Entered(g[m - 1], first + m)
        BY <3>1, Zenon
      <4>3. h[i - 1] = g[i - 1]
        BY <4>1, Zenon
      <4>4. QED
        BY <3>1, <4>1, <4>2, <4>3, Zenon
    <3>2. CASE i # m
      <4>1. i \in 0 .. m - 1 /\ (i # 0 => i - 1 \in 0 .. m /\ i - 1 # m)
        BY <1>4, <3>2
      <4>2. h[i] = g[i]
        BY <3>2, Zenon
      <4>3. g[i] = IF i = 0 THEN s ELSE D!Entered(g[i - 1], first + i)
        BY <2>2, <4>1, Zenon DEF IsFilled
      <4>4. i # 0 => h[i - 1] = g[i - 1]
        BY <4>1, Zenon
      <4>5. QED
        BY <4>2, <4>3, <4>4, Zenon
    <3>3. QED
      BY <3>1, <3>2
  <2>4. h = [i \in 0 .. m |-> h[i]]
    BY Zenon
  <2>5. h = [i \in 0 .. m |-> IF i = 0 THEN s ELSE D!Entered(h[i - 1], first + i)]
    <3> HIDE DEF h
    <3>1. QED
      BY <2>3, <2>4, Zenon
  <2>6. IsFilled(s, first, m, h)
    <3> HIDE DEF h
    <3>1. QED
      BY <2>5, Zenon DEF IsFilled
  <2>7. QED
    BY <1>4, <2>6
<1>7. QED
  BY <1>5, <1>6

(* The sets of an eviction. *)
IsDrained(s, n, g) == g = [i \in 0 .. n |-> IF i = 0 THEN s ELSE D!Popped(g[i - 1])]

LEMMA DrainedExists ==
    ASSUME NEW s, NEW n \in Nat
    PROVE  \E g : IsDrained(s, n, g)
<1>1. SUFFICES ASSUME ~\E g : IsDrained(s, n, g)
               PROVE  FALSE
  OBVIOUS
<1> DEFINE B == {k \in Nat : ~\E g : IsDrained(s, k, g)}
<1>2. B \in SUBSET Nat /\ n \in B
  BY <1>1
<1>3. PICK m \in B : \A k \in B : m <= k
  <2> HIDE DEF B
  <2>1. QED
    BY <1>2, LeastNumber
<1>4. m \in Nat /\ ~\E g : IsDrained(s, m, g)
  BY <1>3
<1>5. CASE m = 0
  <2> DEFINE g == [i \in 0 .. 0 |-> s]
  <2>1. \A i \in 0 .. 0 : i = 0
    OBVIOUS
  <2>2. g = [i \in 0 .. 0 |-> IF i = 0 THEN s ELSE D!Popped(g[i - 1])]
    BY <2>1, Zenon
  <2>3. QED
    BY <1>4, <1>5, <2>2, Zenon DEF IsDrained
<1>6. CASE m # 0
  <2>1. m - 1 \in Nat /\ m - 1 \notin B
    BY <1>3, <1>4, <1>6
  <2>2. PICK g : IsDrained(s, m - 1, g)
    BY <2>1
  <2> DEFINE h == [i \in 0 .. m |-> IF i = m THEN D!Popped(g[m - 1]) ELSE g[i]]
  <2>3. ASSUME NEW i \in 0 .. m
        PROVE  h[i] = IF i = 0 THEN s ELSE D!Popped(h[i - 1])
    <3>1. CASE i = m
      <4>1. i # 0 /\ i - 1 \in 0 .. m /\ i - 1 # m /\ i - 1 = m - 1
        BY <1>4, <1>6, <3>1
      <4>2. h[i] = D!Popped(g[m - 1])
        BY <3>1, Zenon
      <4>3. h[i - 1] = g[i - 1]
        BY <4>1, Zenon
      <4>4. QED
        BY <3>1, <4>1, <4>2, <4>3, Zenon
    <3>2. CASE i # m
      <4>1. i \in 0 .. m - 1 /\ (i # 0 => i - 1 \in 0 .. m /\ i - 1 # m)
        BY <1>4, <3>2
      <4>2. h[i] = g[i]
        BY <3>2, Zenon
      <4>3. g[i] = IF i = 0 THEN s ELSE D!Popped(g[i - 1])
        BY <2>2, <4>1, Zenon DEF IsDrained
      <4>4. i # 0 => h[i - 1] = g[i - 1]
        BY <4>1, Zenon
      <4>5. QED
        BY <4>2, <4>3, <4>4, Zenon
    <3>3. QED
      BY <3>1, <3>2
  <2>4. h = [i \in 0 .. m |-> h[i]]
    BY Zenon
  <2>5. h = [i \in 0 .. m |-> IF i = 0 THEN s ELSE D!Popped(h[i - 1])]
    <3> HIDE DEF h
    <3>1. QED
      BY <2>3, <2>4, Zenon
  <2>6. IsDrained(s, m, h)
    <3> HIDE DEF h
    <3>1. QED
      BY <2>5, Zenon DEF IsDrained
  <2>7. QED
    BY <1>4, <2>6
<1>7. QED
  BY <1>5, <1>6

-----------------------------------------------------------------------------
(***************************************************************************)
(* A rehash holds the live part of the ring.                               *)
(***************************************************************************)
(* Some size tried keeps the population under three quarters. *)
LEMMA RehashRoom ==
    ASSUME D!DecidedConstants, NEW s, D!Population(s) \in Nat
    PROVE  D!RehashSize(s) \in Nat /\ D!RehashSize(s) >= 4 /\ 3 * D!RehashSize(s) > 4 * D!Population(s)
<1> DEFINE n == D!Population(s)
           c == CHOOSE g : IsSizes(DecidedSlots, n, g)
           S == {m \in {c[k] : k \in 0 .. n} : 3 * m > 4 * n}
<1>1. IsSizes(DecidedSlots, n, c)
  BY SizesExists, Zenon
<1>2. D!RehashSize(s) = D!Min(S)
  BY Zenon DEF D!RehashSize, IsSizes
<1>3. DecidedSlots \in Nat /\ DecidedSlots >= 4
  BY DEF D!DecidedConstants
<1>4. \A k \in 0 .. n : c[k] = IF k = 0 THEN DecidedSlots ELSE 2 * c[k - 1]
  BY <1>1, Zenon DEF IsSizes
<1>5. n \in Nat
  OBVIOUS
<1> HIDE DEF c, n
<1>6. \A k \in 0 .. n : c[k] \in Nat /\ c[k] >= 4 /\ 3 * c[k] > 4 * k
  <2> DEFINE B == {k \in Nat : k \in 0 .. n /\ ~(c[k] \in Nat /\ c[k] >= 4 /\ 3 * c[k] > 4 * k)}
  <2>1. SUFFICES ASSUME B # {} PROVE FALSE
    BY <1>5
  <2>2. PICK m \in B : \A k \in B : m <= k
    <3>1. B \in SUBSET Nat
      OBVIOUS
    <3> HIDE DEF B
    <3>2. QED
      BY <2>1, <3>1, LeastNumber
  <2>3. m \in 0 .. n /\ ~(c[m] \in Nat /\ c[m] >= 4 /\ 3 * c[m] > 4 * m)
    BY <2>2
  <2>4. CASE m = 0
    BY <1>3, <1>4, <2>3, <2>4
  <2>5. CASE m # 0
    <3>1. m - 1 \in 0 .. n /\ m - 1 \notin B
      BY <1>5, <2>2, <2>3, <2>5
    <3>2. c[m - 1] \in Nat /\ c[m - 1] >= 4 /\ 3 * c[m - 1] > 4 * (m - 1)
      BY <1>5, <3>1
    <3>3. c[m] = 2 * c[m - 1]
      BY <1>4, <2>3, <2>5
    <3>4. QED
      BY <1>5, <2>3, <3>2, <3>3
  <2>6. QED
    BY <2>4, <2>5
<1>7. c[n] \in S /\ S \in SUBSET Nat
  BY <1>5, <1>6
<1>8. D!Min(S) \in S
  <2> HIDE DEF S
  <2>1. QED
    BY <1>7, LeastOf
<1>9. D!Min(S) \in Nat /\ D!Min(S) >= 4 /\ 3 * D!Min(S) > 4 * n
  BY <1>6, <1>8
<1>10. QED
  BY <1>2, <1>9 DEF n

(* The new table holds nothing. *)
LEMMA EmptySound ==
    ASSUME NEW n \in Nat, NEW s \in SetType(n), NEW m \in Nat, s.head <= Len(s.ring), Unique(s),
           NEW e \in SetType(m), \A i \in 0 .. m - 1 : e.slots[i] = D!Empty,
           e.ring = s.ring, e.head = s.head, e.baseSeq = s.baseSeq, e.tombs = 0
    PROVE  Sound(e, m, s.head)
<1>1. Len(s.ring) \in Nat /\ s.head \in Nat
  BY SetFacts
<1>2. RefSlots(e.slots, m) = {} /\ TombSlots(e.slots, m) = {}
  BY DEF RefSlots, TombSlots, D!Empty, D!Tomb
<1>3. Cardinality(TombSlots(e.slots, m)) = 0
  BY <1>2, FS_EmptySet, Zenon
<1>4. RefsLive(e, m, s.head) /\ RefsOnce(e, m) /\ RefsReached(e, m)
  BY <1>2, Zenon DEF RefsLive, RefsOnce, RefsReached
<1>5. RefsAll(e, m, s.head)
  BY <1>1 DEF RefsAll
<1>6. Unique(e) /\ s.head \in e.head .. Len(e.ring)
  BY <1>1 DEF Unique
<1>7. QED
  BY <1>3, <1>4, <1>5, <1>6 DEF Sound

(* The next entry enters: it is not in the table, and a slot is empty. *)
LEMMA EnteredSound ==
    ASSUME D!DecidedConstants, HashOK, NEW n \in Nat \ {0}, NEW s, NEW top, Sound(s, n, top), s.tombs = 0,
           top < Len(s.ring), top - s.head < n
    PROVE  /\ Sound(D!Entered(s, top + 1), n, top + 1)
           /\ D!Entered(s, top + 1).ring = s.ring /\ D!Entered(s, top + 1).head = s.head
           /\ D!Entered(s, top + 1).baseSeq = s.baseSeq /\ D!Entered(s, top + 1).tombs = 0
<1> DEFINE id == s.ring[top + 1].id
           j == D!FindSlot(s, id).slot
           s1 == D!Entered(s, top + 1)
<1>1. s \in SetType(n) /\ top \in s.head .. Len(s.ring) /\ Unique(s) /\ s.tombs = Cardinality(TombSlots(s.slots, n))
  BY DEF Sound
<1>2. /\ s.slots \in [0 .. n - 1 -> Nat \cup {D!Tomb}] /\ s.head \in Nat /\ s.baseSeq \in Nat
      /\ Len(s.ring) \in Nat /\ top \in Nat /\ s.ring \in Seq(Entries)
      /\ \A i \in 1 .. Len(s.ring) : s.ring[i].id \in DecidedIds
  BY <1>1, SetFacts
<1>3. top + 1 \in 1 .. Len(s.ring) /\ top + 1 \in s.head + 1 .. Len(s.ring)
  BY <1>1, <1>2
<1>4. id \in DecidedIds
  BY <1>2, <1>3
<1>5. PICK e \in 0 .. n - 1 : s.slots[e] = D!Empty
  BY <1>1, <1>2, EmptyLeft
<1>6. ~\E i \in s.head + 1 .. top : s.ring[i].id = id
  <2>1. \A i \in s.head + 1 .. top : i \in s.head + 1 .. Len(s.ring) /\ i # top + 1
    BY <1>1, <1>2
  <2>2. QED
    BY <1>1, <1>3, <2>1, Zenon DEF Unique
<1>7. j \in 0 .. n - 1 /\ s.slots[j] \in {D!Empty, D!Tomb} /\ Reached(s.slots, n, id, j)
  <2> HIDE DEF id
  <2>1. ~D!FindSlot(s, id).found
    BY <1>4, <1>5, <1>6, FindsSlot
  <2>2. QED
    BY <1>4, <1>5, <2>1, FindsSlot
<1>8. s1 = [s EXCEPT !.slots[j] = s.baseSeq + (top + 1)]
  BY Zenon DEF D!Entered
<1> HIDE DEF j, s1, id
<1>9. /\ s1.slots = [s.slots EXCEPT ![j] = s.baseSeq + top + 1]
      /\ s1.ring = s.ring /\ s1.head = s.head /\ s1.baseSeq = s.baseSeq /\ s1.tombs = 0
  <2>1. s.baseSeq + (top + 1) = s.baseSeq + top + 1
    <3>1. s.baseSeq \in Nat /\ top \in Nat
      BY <1>2
    <3>2. QED
      BY ONLY <3>1
  <2>2. QED
    BY <1>1, <1>8, <2>1 DEF SetType
<1>10. s1 \in SetType(n)
  <2> DEFINE v == s.baseSeq + (top + 1)
  <2>1. v \in Nat
    BY <1>2
  <2> HIDE DEF v
  <2>2. [s.slots EXCEPT ![j] = v] \in [0 .. n - 1 -> Nat \cup {D!Tomb}]
    BY <1>2, <2>1
  <2>3. s1 = [s EXCEPT !.slots = [s.slots EXCEPT ![j] = v]]
    BY <1>8 DEF v
  <2> DEFINE f == [s.slots EXCEPT ![j] = v]
  <2> HIDE DEF f
  <2>4. s1 = [s EXCEPT !.slots = f] /\ f \in [0 .. n - 1 -> Nat \cup {D!Tomb}]
    BY <2>2, <2>3 DEF f
  <2>5. QED
    BY <1>1, <2>4 DEF SetType
<1>11. s.slots[j] # D!Tomb
  <2>1. TombSlots(s.slots, n) = {}
    BY <1>1, SlotsFinite, FS_EmptySet
  <2>2. QED
    BY <1>7, <2>1 DEF TombSlots
<1>12. Unique(s1)
  BY <1>1, <1>9 DEF Unique
<1>13. Sound(s1, n, top + 1)
  <2>1. s1.tombs = IF s.slots[j] = D!Tomb THEN s.tombs - 1 ELSE s.tombs
    BY <1>9, <1>11, Zenon
  <2>2. top + 1 <= Len(s1.ring) /\ (\A i \in 1 .. top : s1.ring[i] = s.ring[i]) /\ s1.ring[top + 1].id = id
    BY <1>3, <1>9 DEF id
  <2>3. QED
    BY <1>4, <1>7, <1>9, <1>10, <1>12, <2>1, <2>2, Placed
<1>14. QED
  BY <1>9, <1>13 DEF s1

(* A rehash keeps the ring and its sequence numbers, and leaves no         *)
(* tombstone.                                                              *)
LEMMA RehashSound ==
    ASSUME D!DecidedConstants, HashOK, NEW n \in Nat, NEW s, Sound(s, n, Len(s.ring))
    PROVE  /\ Sound(D!Rehash(s), D!RehashSize(s), Len(s.ring))
           /\ D!Rehash(s).ring = s.ring /\ D!Rehash(s).head = s.head
           /\ D!Rehash(s).baseSeq = s.baseSeq /\ D!Rehash(s).tombs = 0
<1> DEFINE N == D!RehashSize(s)
           m == D!Population(s)
           empty == [s EXCEPT !.slots = [i \in 0 .. N - 1 |-> D!Empty], !.tombs = 0]
           c == CHOOSE g : IsFilled(empty, s.head, m, g)
           Good(k) == /\ Sound(c[k], N, s.head + k) /\ c[k].ring = s.ring /\ c[k].head = s.head
                      /\ c[k].baseSeq = s.baseSeq /\ c[k].tombs = 0
<1>1. s \in SetType(n) /\ Len(s.ring) \in s.head .. Len(s.ring) /\ Unique(s)
  BY DEF Sound
<1>2. s.head \in Nat /\ Len(s.ring) \in Nat /\ s.head <= Len(s.ring)
  BY <1>1, SetFacts
<1>3. m \in Nat /\ s.head + m = Len(s.ring)
  BY <1>2 DEF D!Population
<1>4. N \in Nat \ {0} /\ 3 * N > 4 * m
  BY <1>3, RehashRoom
<1>5. IsFilled(empty, s.head, m, c)
  <2> HIDE DEF empty
  <2>1. QED
    BY <1>3, FilledExists, Zenon
<1>6. D!Rehash(s) = c[m]
  BY Zenon DEF D!Rehash, IsFilled
<1>7. \A k \in 0 .. m : c[k] = IF k = 0 THEN empty ELSE D!Entered(c[k - 1], s.head + k)
  BY <1>5, Zenon DEF IsFilled
<1>8. Sound(empty, N, s.head) /\ empty.ring = s.ring /\ empty.head = s.head /\ empty.baseSeq = s.baseSeq /\ empty.tombs = 0
  <2> HIDE DEF N
  <2>1. N \in Nat
    BY <1>4
  <2>2. /\ empty.ring = s.ring /\ empty.head = s.head /\ empty.baseSeq = s.baseSeq /\ empty.tombs = 0
        /\ empty.slots = [i \in 0 .. N - 1 |-> D!Empty]
    BY <1>1 DEF SetType
  <2>3. [i \in 0 .. N - 1 |-> D!Empty] \in [0 .. N - 1 -> Nat \cup {D!Tomb}]
    BY DEF D!Empty
  <2>4. empty \in SetType(N)
    BY <1>1, <2>3 DEF SetType
  <2>5. \A i \in 0 .. N - 1 : empty.slots[i] = D!Empty
    BY <2>2, Zenon
  <2> HIDE DEF empty
  <2>6. QED
    BY <1>1, <1>2, <2>1, <2>2, <2>4, <2>5, EmptySound
<1> HIDE DEF c, empty, N, m
<1>9. \A k \in 0 .. m : Good(k)
  <2> DEFINE B == {k \in Nat : k \in 0 .. m /\ ~Good(k)}
  <2>1. SUFFICES ASSUME B # {} PROVE FALSE
    <3> HIDE DEF Good
    <3>1. QED
      BY <1>3
  <2>2. PICK b \in B : \A k \in B : b <= k
    <3>1. B \in SUBSET Nat
      OBVIOUS
    <3> HIDE DEF B
    <3>2. QED
      BY <2>1, <3>1, LeastNumber
  <2>3. b \in Nat /\ b \in 0 .. m /\ ~Good(b)
    BY <2>2
  <2>4. CASE b = 0
    <3>1. c[b] = empty /\ s.head + b = s.head
      BY <1>2, <1>7, <2>3, <2>4
    <3>2. Good(b)
      BY <1>8, <3>1, Zenon
    <3>3. QED
      BY <2>3, <3>2
  <2>5. CASE b # 0
    <3> DEFINE p == c[b - 1]
               top == s.head + (b - 1)
    <3>1. b - 1 \in 0 .. m /\ b - 1 \in Nat /\ b - 1 \notin B
      BY <1>3, <2>2, <2>3, <2>5
    <3>2. Good(b - 1)
      <4> HIDE DEF Good
      <4>1. QED
        BY <3>1
    <3>3. /\ Sound(p, N, top) /\ p.ring = s.ring /\ p.head = s.head /\ p.baseSeq = s.baseSeq /\ p.tombs = 0
      BY <3>2, Zenon
    <3>4. top < Len(s.ring) /\ top - s.head < N /\ top + 1 = s.head + b
      BY SMTT(40), <1>2, <1>3, <1>4, <2>3
    <3>5. c[b] = D!Entered(p, top + 1)
      BY <1>7, <2>3, <2>5, <3>4, Zenon
    <3> HIDE DEF p, top
    <3>6. /\ Sound(D!Entered(p, top + 1), N, top + 1)
          /\ D!Entered(p, top + 1).ring = p.ring /\ D!Entered(p, top + 1).head = p.head
          /\ D!Entered(p, top + 1).baseSeq = p.baseSeq /\ D!Entered(p, top + 1).tombs = 0
      <4>1. top < Len(p.ring) /\ top - p.head < N
        BY <3>3, <3>4
      <4>2. QED
        BY <1>4, <3>3, <4>1, EnteredSound
    <3>7. Good(b)
      BY <3>3, <3>4, <3>5, <3>6, Zenon
    <3>8. QED
      BY <2>3, <3>7
  <2>6. QED
    BY <2>4, <2>5
<1>10. Good(m)
  <2> HIDE DEF Good
  <2>1. QED
    BY <1>3, <1>9
<1>11. QED
  BY <1>3, <1>6, <1>10, Zenon DEF N

-----------------------------------------------------------------------------
(***************************************************************************)
(* mark.                                                                   *)
(***************************************************************************)
(* The table mark writes to has room for one more. *)
LEMMA ReadyToMark ==
    ASSUME D!DecidedConstants, HashOK, NEW n \in Nat, NEW s, Sound(s, n, Len(s.ring)), Roomy(s, n),
           NEW r, r = IF D!Loaded(s) THEN D!Rehash(s) ELSE s
    PROVE  /\ r.ring = s.ring /\ r.head = s.head
           /\ \E m \in Nat : Sound(r, m, Len(s.ring)) /\ m >= 4 /\ 4 * (D!Population(r) + r.tombs) < 3 * m
<1>1. s \in SetType(n) /\ Len(s.ring) \in s.head .. Len(s.ring)
  BY DEF Sound
<1>2. s.head \in Nat /\ Len(s.ring) \in Nat /\ s.tombs \in Nat /\ DOMAIN s.slots = 0 .. n - 1
  BY <1>1, SetFacts
<1>3. CASE D!Loaded(s)
  <2> DEFINE N == D!RehashSize(s)
  <2>1. r = D!Rehash(s)
    BY <1>3, Zenon
  <2>2. Sound(r, N, Len(s.ring)) /\ r.ring = s.ring /\ r.head = s.head /\ r.tombs = 0
    BY <2>1, RehashSound
  <2>3. D!Population(s) \in Nat
    BY <1>1, <1>2 DEF D!Population
  <2>4. N \in Nat /\ N >= 4 /\ 3 * N > 4 * D!Population(s)
    BY <2>3, RehashRoom
  <2> HIDE DEF N
  <2>5. D!Population(r) = D!Population(s)
    BY <2>2, Zenon DEF D!Population
  <2>6. 4 * (D!Population(r) + r.tombs) < 3 * N
    BY <2>2, <2>3, <2>4, <2>5
  <2>7. QED
    BY <2>2, <2>4, <2>6
<1>4. CASE ~D!Loaded(s)
  <2>1. r = s
    BY <1>4, Zenon
  <2>2. D!Size(s.slots) = n
    BY <1>2, SizeIs
  <2>3. 4 * (D!Population(s) + s.tombs) < 3 * n
    BY <1>2, <1>4, <2>2 DEF D!Loaded, D!Population
  <2>4. n >= 4
    BY DEF Roomy
  <2>5. QED
    BY <2>1, <2>3, <2>4
<1>5. QED
  BY <1>3, <1>4

(* mark keeps the set sound and leaves an empty slot. *)
LEMMA MarkedSound ==
    ASSUME D!DecidedConstants, HashOK, NEW n \in Nat, NEW s, Sound(s, n, Len(s.ring)), Roomy(s, n),
           NEW id \in DecidedIds, NEW deadline \in Deadlines,
           NEW s1, s1 = D!Marked(s, id, deadline)
    PROVE  \E m \in Nat : Sound(s1, m, Len(s1.ring)) /\ Roomy(s1, m)
<1> DEFINE r == IF D!Loaded(s) THEN D!Rehash(s) ELSE s
           j == D!FindSlot(r, id).slot
           v == r.baseSeq + Len(r.ring) + 1
           e == [id |-> id, deadline |-> deadline]
<1>1. /\ r.ring = s.ring
      /\ \E m \in Nat : Sound(r, m, Len(s.ring)) /\ m >= 4 /\ 4 * (D!Population(r) + r.tombs) < 3 * m
  BY ReadyToMark
<1>2. s1 = IF D!FindSlot(r, id).found THEN r
           ELSE [r EXCEPT !.slots[j] = v,
                          !.tombs = IF r.slots[j] = D!Tomb THEN @ - 1 ELSE @,
                          !.ring = Append(@, e)]
  BY Zenon DEF D!Marked
<1> HIDE DEF r, j
<1>3. PICK m \in Nat : Sound(r, m, Len(r.ring)) /\ m >= 4 /\ 4 * (D!Population(r) + r.tombs) < 3 * m
  BY <1>1
<1>4. r \in SetType(m) /\ Len(r.ring) \in r.head .. Len(r.ring) /\ Unique(r) /\ r.tombs = Cardinality(TombSlots(r.slots, m))
  BY <1>3 DEF Sound
<1>5. /\ r.slots \in [0 .. m - 1 -> Nat \cup {D!Tomb}] /\ r.head \in Nat /\ r.baseSeq \in Nat /\ r.tombs \in Nat
      /\ Len(r.ring) \in Nat /\ r.ring \in Seq(Entries)
  BY <1>4, SetFacts
<1>6. m \in Nat \ {0} /\ Roomy(r, m)
  BY <1>3, <1>5, SMTT(40) DEF Roomy, D!Population
<1>7. PICK z \in 0 .. m - 1 : r.slots[z] = D!Empty
  BY <1>3, <1>6, RoomLeft
<1>8. CASE D!FindSlot(r, id).found
  <2>1. s1 = r
    BY <1>2, <1>8, Zenon
  <2>2. QED
    BY <1>3, <1>6, <2>1
<1>9. CASE ~D!FindSlot(r, id).found
  <2>1. /\ j \in 0 .. m - 1 /\ r.slots[j] \in {D!Empty, D!Tomb} /\ Reached(r.slots, m, id, j)
        /\ ~\E i \in r.head + 1 .. Len(r.ring) : r.ring[i].id = id
    BY <1>3, <1>6, <1>7, <1>9, FindsSlot DEF j
  <2> DEFINE f == [r.slots EXCEPT ![j] = v]
             t == IF r.slots[j] = D!Tomb THEN r.tombs - 1 ELSE r.tombs
             q == Append(r.ring, e)
  <2>2. s1 = [r EXCEPT !.slots = f, !.tombs = t, !.ring = q]
    BY <1>2, <1>9, Zenon
  <2>3. e \in Entries /\ e.id = id
    BY DEF Entries
  <2>4. /\ q \in Seq(Entries) /\ Len(q) = Len(r.ring) + 1 /\ q[Len(r.ring) + 1] = e
        /\ \A i \in 1 .. Len(r.ring) : q[i] = r.ring[i]
    <3> HIDE DEF e
    <3>1. QED
      BY <1>5, <2>3
  <2>5. v \in Nat
    BY <1>5
  <2>6. f \in [0 .. m - 1 -> Nat \cup {D!Tomb}]
    <3> HIDE DEF v
    <3>1. QED
      BY <1>5, <2>1, <2>5
  <2>7. r.slots[j] = D!Tomb => r.tombs # 0
    <3>1. ASSUME r.slots[j] = D!Tomb, r.tombs = 0 PROVE FALSE
      <4>1. TombSlots(r.slots, m) = {}
        BY <1>4, <3>1, SlotsFinite, FS_EmptySet
      <4>2. QED
        BY <2>1, <3>1, <4>1 DEF TombSlots
    <3>2. QED
      BY <3>1
  <2>8. t \in Nat /\ t <= r.tombs
    BY <1>5, <2>7
  <2> HIDE DEF f, t, q, e
  <2>9. s1.slots = f /\ s1.tombs = t /\ s1.ring = q /\ s1.head = r.head /\ s1.baseSeq = r.baseSeq
    BY <1>4, <2>2 DEF SetType
  <2>10. s1 \in SetType(m)
    BY <1>4, <2>2, <2>4, <2>6, <2>8 DEF SetType
  <2>11. Unique(s1)
    <3> DEFINE L == Len(r.ring)
               h == r.head
    <3>1. L \in Nat /\ h \in Nat
      BY <1>5
    <3>2. /\ \A i, k \in h + 1 .. L : q[i].id = q[k].id => i = k
          /\ \A i \in h + 1 .. L : q[i].id # id
          /\ q[L + 1].id = id
      <4>1. \A i \in h + 1 .. L : q[i] = r.ring[i]
        BY <1>5, <2>4
      <4>2. \A i, k \in h + 1 .. L : r.ring[i].id = r.ring[k].id => i = k
        BY <1>4, Zenon DEF Unique
      <4>3. \A i \in h + 1 .. L : r.ring[i].id # id
        BY <2>1, Zenon
      <4>4. q[L + 1].id = id
        BY <2>3, <2>4, Zenon
      <4>5. QED
        BY ONLY <4>1, <4>2, <4>3, <4>4
    <3> HIDE DEF L, h
    <3>3. \A i, k \in h + 1 .. L + 1 : q[i].id = q[k].id => i = k
      <4>1. \A i \in h + 1 .. L + 1 : i = L + 1 \/ i \in h + 1 .. L
        BY <3>1
      <4>2. QED
        BY ONLY <3>2, <4>1, Zenon
    <3>4. s1.head = h /\ s1.ring = q /\ Len(q) = L + 1
      BY <2>4, <2>9 DEF L, h
    <3>5. \A i, k \in s1.head + 1 .. Len(s1.ring) : s1.ring[i].id = s1.ring[k].id => i = k
      BY ONLY <3>3, <3>4
    <3>6. QED
      BY ONLY <3>5 DEF Unique
  <2>12. Sound(s1, m, Len(r.ring) + 1)
    <3>1. s1.slots = [r.slots EXCEPT ![j] = r.baseSeq + Len(r.ring) + 1]
      BY <2>9 DEF f
    <3>2. s1.tombs = IF r.slots[j] = D!Tomb THEN r.tombs - 1 ELSE r.tombs
      BY <2>9 DEF t
    <3>3. Len(r.ring) + 1 <= Len(s1.ring) /\ (\A i \in 1 .. Len(r.ring) : s1.ring[i] = r.ring[i]) /\ s1.ring[Len(r.ring) + 1].id = id
      BY SMTT(40), <1>5, <2>3, <2>4, <2>9
    <3>4. QED
      BY <1>3, <1>6, <2>1, <2>9, <2>10, <2>11, <3>1, <3>2, <3>3, Placed
  <2>13. Roomy(s1, m)
    <3>1. Len(s1.ring) = Len(r.ring) + 1 /\ s1.head = r.head /\ s1.tombs \in Nat /\ s1.tombs <= r.tombs
      BY <2>4, <2>8, <2>9
    <3>2. Len(r.ring) \in Nat /\ r.head \in Nat /\ r.tombs \in Nat
      BY <1>5
    <3>3. \A a, b, c, x1, y \in Nat : x1 <= c /\ 4 * (a - b + c) < 3 * y => 4 * ((a + 1) - b + x1) < 3 * y + 4
      OBVIOUS
    <3>4. 4 * (Len(r.ring) - r.head + r.tombs) < 3 * m /\ m >= 4
      BY <1>3 DEF D!Population
    <3>5. 4 * ((Len(r.ring) + 1) - r.head + s1.tombs) < 3 * m + 4
      BY <3>1, <3>2, <3>3, <3>4, Zenon
    <3>6. D!Population(s1) = (Len(r.ring) + 1) - r.head
      BY <3>1, Zenon DEF D!Population
    <3>7. QED
      BY <3>4, <3>5, <3>6, Zenon DEF Roomy
  <2>14. QED
    BY <2>4, <2>9, <2>12, <2>13
<1>10. QED
  BY <1>8, <1>9

-----------------------------------------------------------------------------
(***************************************************************************)
(* evict.                                                                  *)
(***************************************************************************)
(* The oldest entry gives its slot up to a tombstone. *)
LEMMA PoppedSound ==
    ASSUME D!DecidedConstants, HashOK, NEW n \in Nat, NEW s, Sound(s, n, Len(s.ring)), Roomy(s, n),
           s.head < Len(s.ring), NEW s1, s1 = D!Popped(s)
    PROVE  Sound(s1, n, Len(s1.ring)) /\ Roomy(s1, n) /\ s1.ring = s.ring /\ s1.head = s.head + 1
<1> DEFINE L == Len(s.ring)
           id == s.ring[s.head + 1].id
           j == D!FindSlot(s, id).slot
           R == RefSlots(s.slots, n)
           R1 == RefSlots(s1.slots, n)
<1>1. /\ s \in SetType(n) /\ RefsLive(s, n, L) /\ RefsOnce(s, n) /\ RefsAll(s, n, L) /\ RefsReached(s, n)
      /\ s.tombs = Cardinality(TombSlots(s.slots, n)) /\ Unique(s) /\ n \in Nat \ {0}
  BY DEF Sound, Roomy
<1>2. /\ s.slots \in [0 .. n - 1 -> Nat \cup {D!Tomb}] /\ s.head \in Nat /\ s.baseSeq \in Nat /\ s.tombs \in Nat
      /\ L \in Nat /\ \A i \in 1 .. L : s.ring[i].id \in DecidedIds
  BY <1>1, SetFacts
<1>3. s.head + 1 \in 1 .. L /\ s.head + 1 \in s.head + 1 .. L
  BY <1>2
<1>4. PICK e \in 0 .. n - 1 : s.slots[e] = D!Empty
  BY RoomLeft
<1>5. D!FindSlot(s, id).found /\ j \in R /\ D!EntryOf(s, s.slots[j]).id = id
  <2>1. id \in DecidedIds /\ \E i \in s.head + 1 .. L : s.ring[i].id = id
    BY <1>2, <1>3
  <2> HIDE DEF id
  <2>2. QED
    BY <1>1, <1>4, <2>1, FindsSlot
<1>6. s1 = [s EXCEPT !.slots[j] = D!Tomb, !.tombs = @ + 1, !.head = @ + 1]
  BY <1>5, Zenon DEF D!Popped
<1> HIDE DEF j
<1>7. /\ s1.slots = [s.slots EXCEPT ![j] = D!Tomb] /\ s1.tombs = s.tombs + 1 /\ s1.head = s.head + 1
      /\ s1.ring = s.ring /\ s1.baseSeq = s.baseSeq
  BY <1>1, <1>6 DEF SetType
<1>8. s1 \in SetType(n)
  <2> DEFINE f == [s.slots EXCEPT ![j] = D!Tomb]
  <2>1. f \in [0 .. n - 1 -> Nat \cup {D!Tomb}]
    BY <1>2
  <2> HIDE DEF f
  <2>2. s1 = [s EXCEPT !.slots = f, !.tombs = s.tombs + 1, !.head = s.head + 1]
    BY <1>6, Zenon DEF f
  <2>3. s.tombs + 1 \in Nat /\ s.head + 1 \in Nat
    BY <1>2
  <2>4. QED
    BY <1>1, <2>1, <2>2, <2>3 DEF SetType
<1>9. \A k \in R : s.slots[k] \in Nat /\ s.slots[k] - s.baseSeq \in s.head + 1 .. L
  <2>1. \A k \in R : s.slots[k] \in Nat
    BY <1>2 DEF RefSlots
  <2>2. QED
    BY <1>1, <2>1 DEF RefsLive
<1>10. s.slots[j] = s.baseSeq + s.head + 1
  <2>1. s.slots[j] - s.baseSeq \in s.head + 1 .. L /\ s.slots[j] \in Nat
    BY <1>5, <1>9
  <2>2. s.ring[s.slots[j] - s.baseSeq].id = s.ring[s.head + 1].id
    BY <1>5 DEF D!EntryOf
  <2>3. s.slots[j] - s.baseSeq = s.head + 1
    BY <1>1, <1>3, <2>1, <2>2 DEF Unique
  <2>4. s.slots[j] \in Nat /\ s.baseSeq \in Nat /\ s.head \in Nat
    BY <1>2, <2>1
  <2>5. QED
    BY ONLY <2>3, <2>4
<1>11. /\ j \in 0 .. n - 1 /\ s.slots[j] # D!Tomb /\ s1.slots[j] = D!Tomb
       /\ \A k \in 0 .. n - 1 : k # j => s1.slots[k] = s.slots[k]
  BY <1>2, <1>5, <1>7 DEF RefSlots
<1>12. /\ \A k \in R1 : k # j /\ k \in R /\ s1.slots[k] = s.slots[k]
       /\ \A k \in R : k # j => k \in R1
  BY <1>11 DEF RefSlots
<1>13. \A k \in R1 : s1.slots[k] # s.slots[j]
  BY <1>1, <1>5, <1>12 DEF RefsOnce
<1> HIDE DEF R, R1, id
<1>14. RefsLive(s1, n, L)
  <2>1. ASSUME NEW k \in R1 PROVE s1.slots[k] - s.baseSeq \in (s.head + 1) + 1 .. L
    <3>1. s1.slots[k] \in Nat /\ s1.slots[k] - s.baseSeq \in s.head + 1 .. L /\ s1.slots[k] # s.baseSeq + s.head + 1
      BY <1>9, <1>10, <1>12, <1>13
    <3>2. QED
      BY SMTT(40), <1>2, <3>1
  <2>2. QED
    BY <1>7, <2>1, Zenon DEF RefsLive, R1
<1>15. RefsOnce(s1, n)
  <2>1. ASSUME NEW k \in R1, NEW l \in R1, s1.slots[k] = s1.slots[l] PROVE k = l
    <3>1. k \in R /\ l \in R /\ s.slots[k] = s.slots[l]
      BY <1>12, <2>1
    <3>2. QED
      BY <1>1, <3>1 DEF RefsOnce, R
  <2>2. QED
    BY <2>1, Zenon DEF RefsOnce, R1
<1>16. RefsAll(s1, n, L)
  <2>1. ASSUME NEW i \in (s.head + 1) + 1 .. L PROVE \E k \in R1 : s1.slots[k] = s.baseSeq + i
    <3>1. i \in s.head + 1 .. L /\ i # s.head + 1
      BY <1>2
    <3>2. PICK k \in R : s.slots[k] = s.baseSeq + i
      BY <1>1, <3>1 DEF RefsAll, R
    <3>3. k # j
      BY <1>2, <1>10, <3>1, <3>2
    <3>4. QED
      BY <1>12, <3>2, <3>3
  <2>2. QED
    BY <1>7, <2>1, Zenon DEF RefsAll, R1
<1>17. RefsReached(s1, n)
  <2>1. ASSUME NEW k \in R1 PROVE Reached(s1.slots, n, D!EntryOf(s1, s1.slots[k]).id, k)
    <3> DEFINE z == D!EntryOf(s, s.slots[k]).id
    <3>1. k \in R /\ s1.slots[k] = s.slots[k]
      BY <1>12
    <3>2. D!EntryOf(s1, s1.slots[k]).id = z
      BY <1>7, <3>1, Zenon DEF D!EntryOf
    <3>3. z \in DecidedIds
      <4>1. s.slots[k] - s.baseSeq \in 1 .. L
        BY <1>2, <1>9, <3>1
      <4>2. QED
        BY <1>2, <4>1 DEF D!EntryOf
    <3>4. Reached(s.slots, n, z, k)
      BY <1>1, <3>1 DEF RefsReached, R
    <3> HIDE DEF z
    <3>5. D!Tomb # D!Empty
      BY DEF D!Tomb, D!Empty
    <3>6. Reached([s.slots EXCEPT ![j] = D!Tomb], n, z, k)
      BY <1>1, <1>2, <1>11, <3>3, <3>4, <3>5, StillReached
    <3>7. QED
      BY <1>7, <3>2, <3>6, Zenon
  <2>2. QED
    BY <2>1, Zenon DEF RefsReached, R1
<1>18. s1.tombs = Cardinality(TombSlots(s1.slots, n))
  <2> DEFINE a == s.slots
             b == s1.slots
  <2>1. a[j] # D!Tomb /\ b[j] = D!Tomb /\ \A k \in 0 .. n - 1 : k # j => b[k] = a[k]
    BY <1>11, Zenon
  <2> HIDE DEF a, b
  <2>2. Cardinality(TombSlots(b, n)) = Cardinality(TombSlots(a, n)) + 1
    BY ONLY n \in Nat, <1>11, <2>1, TombsWritten
  <2>3. QED
    BY <1>1, <1>7, <2>2, Zenon DEF a, b
<1>19. Unique(s1) /\ L \in s1.head .. L
  <2>1. s1.ring = s.ring /\ s1.head = s.head + 1 /\ s.head \in Nat /\ Len(s.ring) \in Nat /\ s.head < Len(s.ring)
    BY <1>2, <1>7
  <2>2. QED
    BY ONLY <1>1, <2>1 DEF Unique, L
<1>20. Sound(s1, n, Len(s1.ring))
  BY <1>7, <1>8, <1>14, <1>15, <1>16, <1>17, <1>18, <1>19, Zenon DEF Sound
<1>21. Roomy(s1, n)
  <2>1. D!Population(s1) + s1.tombs = D!Population(s) + s.tombs
    <3>1. s1.ring = s.ring /\ s1.head = s.head + 1 /\ s1.tombs = s.tombs + 1
      BY <1>7
    <3>2. s.head \in Nat /\ Len(s.ring) \in Nat /\ s.tombs \in Nat
      BY <1>2
    <3>3. QED
      BY ONLY <3>1, <3>2, SMTT(40) DEF D!Population
  <2>2. QED
    BY <2>1, Zenon DEF Roomy
<1>22. QED
  BY <1>7, <1>20, <1>21

LEMMA DueBounded ==
    ASSUME NEW n \in Nat, NEW s, Sound(s, n, Len(s.ring)), NEW now
    PROVE  D!Due(s, now) \in Nat /\ s.head + D!Due(s, now) <= Len(s.ring)
<1> DEFINE live == {i \in s.head + 1 .. Len(s.ring) : s.ring[i].deadline > now}
<1>1. s.head \in Nat /\ Len(s.ring) \in Nat /\ s.head <= Len(s.ring)
  BY SetFacts DEF Sound
<1>2. D!Due(s, now) = (IF live = {} THEN Len(s.ring) ELSE D!Min(live) - 1) - s.head
  BY Zenon DEF D!Due
<1>3. live \in SUBSET Nat /\ \A i \in live : i \in s.head + 1 .. Len(s.ring)
  BY <1>1
<1> HIDE DEF live
<1>4. CASE live = {}
  <2>1. D!Due(s, now) = Len(s.ring) - s.head
    BY <1>2, <1>4, Zenon
  <2>2. QED
    BY <1>1, <2>1
<1>5. CASE live # {}
  <2>1. D!Due(s, now) = D!Min(live) - 1 - s.head
    BY <1>2, <1>5, Zenon
  <2>2. D!Min(live) \in s.head + 1 .. Len(s.ring)
    BY <1>3, <1>5, LeastOf
  <2>3. QED
    BY <1>1, <2>1, <2>2
<1>6. QED
  BY <1>4, <1>5

(* The ring gives up its dead prefix under the table's feet. *)
LEMMA CompactedSound ==
    ASSUME NEW n \in Nat, NEW s, Sound(s, n, Len(s.ring)), Roomy(s, n), NEW s1, s1 = D!Compacted(s)
    PROVE  Sound(s1, n, Len(s1.ring)) /\ Roomy(s1, n)
<1> DEFINE L == Len(s.ring)
           q == SubSeq(s.ring, s.head + 1, L)
<1>1. CASE ~(s.head = Len(s.ring) \/ 2 * s.head > Len(s.ring))
  <2>1. s1 = s
    BY <1>1, Zenon DEF D!Compacted
  <2>2. QED
    BY <2>1
<1>2. CASE s.head = Len(s.ring) \/ 2 * s.head > Len(s.ring)
  <2>1. /\ s \in SetType(n) /\ RefsLive(s, n, L) /\ RefsOnce(s, n) /\ RefsAll(s, n, L) /\ RefsReached(s, n)
        /\ s.tombs = Cardinality(TombSlots(s.slots, n)) /\ Unique(s) /\ s.head <= L
    BY SetFacts DEF Sound
  <2>2. /\ s.slots \in [0 .. n - 1 -> Nat \cup {D!Tomb}] /\ s.head \in Nat /\ s.baseSeq \in Nat /\ s.tombs \in Nat
        /\ L \in Nat /\ s.ring \in Seq(Entries)
    BY <2>1, SetFacts
  <2>3. s1 = [s EXCEPT !.ring = q, !.baseSeq = s.baseSeq + s.head, !.head = 0]
    BY <1>2, Zenon DEF D!Compacted
  <2>4. q \in Seq(Entries) /\ Len(q) = L - s.head /\ \A i \in 1 .. L - s.head : q[i] = s.ring[s.head + i]
    <3>1. q \in Seq(Entries) /\ Len(q) = L - s.head
      BY SMTT(40), <2>1, <2>2
    <3>2. ASSUME NEW i \in 1 .. L - s.head PROVE q[i] = s.ring[s.head + i]
      <4>1. q[i] = s.ring[s.head + 1 + i - 1]
        BY SMTT(40), <2>1, <2>2
      <4>2. s.head + 1 + i - 1 = s.head + i
        BY <2>2
      <4>3. QED
        BY <4>1, <4>2
    <3>3. QED
      BY <3>1, <3>2
  <2> HIDE DEF q
  <2>5. s1.ring = q /\ s1.baseSeq = s.baseSeq + s.head /\ s1.head = 0 /\ s1.slots = s.slots /\ s1.tombs = s.tombs
    BY <2>1, <2>3 DEF SetType
  <2>6. s1 \in SetType(n)
    <3>1. s.baseSeq + s.head \in Nat
      BY <2>2
    <3> DEFINE b == s.baseSeq + s.head
    <3> HIDE DEF b
    <3>2. s \in SetType(n) /\ q \in Seq(Entries) /\ b \in Nat /\ s1 = [s EXCEPT !.ring = q, !.baseSeq = b, !.head = 0]
      BY <2>1, <2>3, <2>4, <3>1, Zenon DEF b
    <3>3. QED
      BY ONLY <3>2 DEF SetType
  <2> DEFINE R == RefSlots(s.slots, n)
             M == Len(q)
  <2>7. M \in Nat /\ M = L - s.head
    BY <2>2, <2>4
  <2>8. \A k \in R : s.slots[k] \in Nat /\ s.slots[k] - s.baseSeq \in s.head + 1 .. L
    <3>1. \A k \in R : s.slots[k] \in Nat
      BY <2>2 DEF RefSlots
    <3>2. QED
      BY <2>1, <3>1 DEF RefsLive
  <2> HIDE DEF R, M, L
  <2>9. \A k \in R : s.slots[k] - (s.baseSeq + s.head) \in 1 .. M
    <3>1. \A a, b, h, l \in Nat : a - b \in h + 1 .. l => a - (b + h) \in 1 .. l - h
      OBVIOUS
    <3>2. QED
      BY <2>2, <2>7, <2>8, <3>1, Zenon
  <2>10. RefsLive(s1, n, M)
    <3>1. 0 + 1 = 1
      OBVIOUS
    <3>2. QED
      BY <2>5, <2>9, <3>1, Zenon DEF RefsLive, R
  <2>11. RefsOnce(s1, n)
    BY <2>1, <2>5, Zenon DEF RefsOnce
  <2>12. RefsAll(s1, n, M)
    <3>1. ASSUME NEW i \in 0 + 1 .. M PROVE \E k \in R : s.slots[k] = s.baseSeq + s.head + i
      <4>1. s.head + i \in s.head + 1 .. L
        BY <2>2, <2>7
      <4>2. PICK k \in R : s.slots[k] = s.baseSeq + (s.head + i)
        BY <2>1, <4>1 DEF RefsAll, R, L
      <4>3. s.baseSeq + (s.head + i) = s.baseSeq + s.head + i
        BY <2>2
      <4>4. QED
        BY <4>2, <4>3
    <3>2. QED
      BY <2>5, <3>1, Zenon DEF RefsAll, R
  <2>13. RefsReached(s1, n)
    <3>1. ASSUME NEW k \in R PROVE D!EntryOf(s1, s.slots[k]) = D!EntryOf(s, s.slots[k])
      <4> DEFINE i == s.slots[k] - (s.baseSeq + s.head)
      <4>1. i \in 1 .. M /\ s.head + i = s.slots[k] - s.baseSeq
        BY SMTT(40), <2>2, <2>8, <2>9
      <4>2. q[i] = s.ring[s.head + i]
        BY <2>4, <2>7, <4>1
      <4>3. D!EntryOf(s1, s.slots[k]) = q[i] /\ D!EntryOf(s, s.slots[k]) = s.ring[s.slots[k] - s.baseSeq]
        BY <2>5, Zenon DEF D!EntryOf
      <4> HIDE DEF i
      <4>4. QED
        BY <4>1, <4>2, <4>3, Zenon
    <3>2. QED
      BY <2>1, <2>5, <3>1, Zenon DEF RefsReached, R
  <2>14. Unique(s1)
    <3>1. ASSUME NEW i \in 0 + 1 .. M, NEW k \in 0 + 1 .. M, q[i].id = q[k].id PROVE i = k
      <4>1. s.head + i \in s.head + 1 .. L /\ s.head + k \in s.head + 1 .. L
        BY SMTT(40), <2>2, <2>7
      <4>2. s.ring[s.head + i].id = s.ring[s.head + k].id
        BY <2>4, <2>7, <3>1
      <4>3. s.head + i = s.head + k
        BY <2>1, <4>1, <4>2, Zenon DEF Unique, L
      <4>4. QED
        BY <2>2, <2>7, <4>3
    <3>2. QED
      BY <2>5, <3>1, ZenonT(40) DEF Unique, M
  <2>15. M \in s1.head .. M
    BY <2>5, <2>7
  <2>16. Sound(s1, n, Len(s1.ring))
    BY <2>1, <2>5, <2>6, <2>10, <2>11, <2>12, <2>13, <2>14, <2>15, Zenon DEF Sound, M
  <2>17. D!Population(s1) = D!Population(s)
    BY <2>2, <2>4, <2>5 DEF D!Population, L
  <2>18. Roomy(s1, n)
    BY <2>5, <2>17, Zenon DEF Roomy
  <2>19. QED
    BY <2>16, <2>18
<1>3. QED
  BY <1>1, <1>2

(* evict pops what is due, one entry after the other, and compacts. *)
LEMMA EvictedSound ==
    ASSUME D!DecidedConstants, HashOK, NEW n \in Nat, NEW s, Sound(s, n, Len(s.ring)), Roomy(s, n), NEW now,
           NEW s1, s1 = D!Evicted(s, now)
    PROVE  Sound(s1, n, Len(s1.ring)) /\ Roomy(s1, n)
<1> DEFINE m == D!Due(s, now)
           c == CHOOSE g : IsDrained(s, m, g)
           Good(k) == Sound(c[k], n, Len(c[k].ring)) /\ Roomy(c[k], n) /\ c[k].ring = s.ring /\ c[k].head = s.head + k
<1>1. s.head \in Nat /\ Len(s.ring) \in Nat
  BY SetFacts DEF Sound
<1>2. m \in Nat /\ s.head + m <= Len(s.ring)
  BY DueBounded
<1>3. IsDrained(s, m, c)
  BY <1>2, DrainedExists, Zenon
<1>4. s1 = D!Compacted(c[m])
  BY Zenon DEF D!Evicted, IsDrained
<1>5. \A k \in 0 .. m : c[k] = IF k = 0 THEN s ELSE D!Popped(c[k - 1])
  BY <1>3, Zenon DEF IsDrained
<1> HIDE DEF c, m
<1>6. \A k \in 0 .. m : Good(k)
  <2> DEFINE B == {k \in Nat : k \in 0 .. m /\ ~Good(k)}
  <2>1. SUFFICES ASSUME B # {} PROVE FALSE
    <3> HIDE DEF Good
    <3>1. QED
      BY <1>2
  <2>2. PICK b \in B : \A k \in B : b <= k
    <3>1. B \in SUBSET Nat
      OBVIOUS
    <3> HIDE DEF B
    <3>2. QED
      BY <2>1, <3>1, LeastNumber
  <2>3. b \in Nat /\ b \in 0 .. m /\ ~Good(b)
    BY <2>2
  <2>4. CASE b = 0
    <3>1. c[b] = s /\ s.head + b = s.head
      BY <1>1, <1>5, <2>3, <2>4
    <3>2. Good(b)
      BY <3>1, Zenon
    <3>3. QED
      BY <2>3, <3>2
  <2>5. CASE b # 0
    <3> DEFINE p == c[b - 1]
    <3>1. b - 1 \in 0 .. m /\ b - 1 \in Nat /\ b - 1 \notin B
      BY <1>2, <2>2, <2>3, <2>5
    <3>2. Good(b - 1)
      <4> HIDE DEF Good
      <4>1. QED
        BY <3>1
    <3>3. Sound(p, n, Len(p.ring)) /\ Roomy(p, n) /\ p.ring = s.ring /\ p.head = s.head + (b - 1)
      BY <3>2, Zenon
    <3>4. c[b] = D!Popped(p)
      BY <1>5, <2>3, <2>5, Zenon
    <3> HIDE DEF p
    <3>5. p.head < Len(p.ring) /\ p.head + 1 = s.head + b
      <4>1. s.head + (b - 1) < Len(s.ring) /\ s.head + (b - 1) + 1 = s.head + b
        BY <1>1, <1>2, <2>3
      <4>2. QED
        BY <3>3, <4>1
    <3> DEFINE w == c[b]
    <3>6. w = D!Popped(p)
      BY <3>4
    <3> HIDE DEF w
    <3>7. Sound(w, n, Len(w.ring)) /\ Roomy(w, n) /\ w.ring = p.ring /\ w.head = p.head + 1
      BY <3>3, <3>5, <3>6, PoppedSound
    <3>8. Good(b)
      BY <3>3, <3>5, <3>7, Zenon DEF w
    <3>9. QED
      BY <2>3, <3>8
  <2>6. QED
    BY <2>4, <2>5
<1>7. Sound(c[m], n, Len(c[m].ring)) /\ Roomy(c[m], n)
  <2>1. Good(m)
    <3> HIDE DEF Good
    <3>1. QED
      BY <1>2, <1>6
  <2>2. QED
    BY <2>1, Zenon
<1>8. QED
  BY <1>4, <1>7, CompactedSound

-----------------------------------------------------------------------------
(***************************************************************************)
(* The invariant is inductive.                                             *)
(***************************************************************************)
LEMMA InitSound ==
    ASSUME D!DecidedConstants, D!Init
    PROVE  SetInv
<1> DEFINE n == DecidedSlots
<1>1. n \in Nat /\ n >= 4 /\ HashOK
  BY DEF D!DecidedConstants, HashOK, D!Init
<1>2. d = [slots |-> [i \in 0 .. n - 1 |-> D!Empty], ring |-> << >>, head |-> 0, baseSeq |-> 0, tombs |-> 0]
  BY DEF D!Init
<1> HIDE DEF n
<1>3. /\ d.slots = [i \in 0 .. n - 1 |-> D!Empty] /\ d.ring = << >> /\ d.head = 0 /\ d.baseSeq = 0 /\ d.tombs = 0
  BY <1>2
<1>4. d \in SetType(n)
  <2>1. [i \in 0 .. n - 1 |-> D!Empty] \in [0 .. n - 1 -> Nat \cup {D!Tomb}]
    BY DEF D!Empty
  <2>2. << >> \in Seq(Entries)
    OBVIOUS
  <2>3. QED
    BY <1>2, <2>1, <2>2 DEF SetType
<1>5. \A i \in 0 .. n - 1 : d.slots[i] = D!Empty
  BY <1>3, Zenon
<1>6. Len(d.ring) = 0
  BY <1>3
<1>7. Unique(d)
  BY <1>3, <1>6 DEF Unique
<1>8. Sound(d, n, d.head)
  BY <1>1, <1>3, <1>4, <1>5, <1>6, <1>7, EmptySound
<1>9. Roomy(d, n)
  BY <1>1, <1>3, <1>6 DEF Roomy, D!Population
<1>10. Sound(d, n, Len(d.ring))
  BY <1>3, <1>6, <1>8, Zenon
<1>11. QED
  BY <1>1, <1>9, <1>10 DEF SetInv

(* The hash stays, and with it what a probe gets to. *)
LEMMA SameHash ==
    ASSUME HashOK, fibHash' = fibHash, NEW n \in Nat, Sound(d', n, Len(d'.ring)), Roomy(d', n)
    PROVE  SetInv'
<1>1. \A slots, id, j : Reached(slots, n, id, j)' <=> Reached(slots, n, id, j)
  BY DEF Reached, At
<1>2. RefsReached(d, n)'
  <2>1. RefsReached(d', n)
    BY DEF Sound
  <2>2. QED
    BY <1>1, <2>1, Zenon DEF RefsReached
<1>3. Sound(d, n, Len(d.ring))'
  BY <1>2, Zenon DEF Sound
<1>4. HashOK' /\ Roomy(d, n)'
  BY DEF HashOK, Roomy
<1>5. QED
  BY <1>3, <1>4, Zenon DEF SetInv

LEMMA StepSound ==
    ASSUME D!DecidedConstants, SetInv, [D!Next]_(D!vars)
    PROVE  SetInv'
<1>1. HashOK
  BY DEF SetInv
<1>2. PICK n \in Nat : Sound(d, n, Len(d.ring)) /\ Roomy(d, n)
  BY DEF SetInv
<1>3. ASSUME NEW id \in DecidedIds, NEW deadline \in Deadlines, D!Mark(id, deadline) PROVE SetInv'
  <2>1. d' = D!Marked(d, id, deadline) /\ fibHash' = fibHash
    BY <1>3 DEF D!Mark
  <2>2. PICK m \in Nat : Sound(d', m, Len(d'.ring)) /\ Roomy(d', m)
    BY <1>1, <1>2, <2>1, MarkedSound
  <2>3. QED
    BY <1>1, <2>1, <2>2, SameHash
<1>4. ASSUME NEW now \in Deadlines, D!Evict(now) PROVE SetInv'
  <2>1. d' = D!Evicted(d, now) /\ fibHash' = fibHash
    BY <1>4 DEF D!Evict
  <2>2. Sound(d', n, Len(d'.ring)) /\ Roomy(d', n)
    BY <1>1, <1>2, <2>1, EvictedSound
  <2>3. QED
    BY <1>1, <2>1, <2>2, SameHash
<1>5. CASE UNCHANGED D!vars
  <2>1. d' = d /\ fibHash' = fibHash
    BY <1>5 DEF D!vars
  <2>2. Sound(d', n, Len(d'.ring)) /\ Roomy(d', n)
    BY <1>2, <2>1
  <2>3. QED
    BY <1>1, <2>1, <2>2, SameHash
<1>6. QED
  BY <1>3, <1>4, <1>5 DEF D!Next

LEMMA SoundIsFound ==
    ASSUME D!DecidedConstants, SetInv
    PROVE  DecidedFound
<1>1. HashOK
  BY DEF SetInv
<1>2. PICK n \in Nat : Sound(d, n, Len(d.ring)) /\ Roomy(d, n)
  BY DEF SetInv
<1> DEFINE L == Len(d.ring)
           R == RefSlots(d.slots, n)
           I == d.head + 1 .. L
<1>3. /\ d \in SetType(n) /\ RefsLive(d, n, L) /\ RefsAll(d, n, L) /\ d.tombs = Cardinality(TombSlots(d.slots, n))
      /\ Unique(d) /\ d.head <= L
  BY <1>2, SetFacts DEF Sound
<1>4. /\ DOMAIN d.slots = 0 .. n - 1 /\ d.slots \in [0 .. n - 1 -> Nat \cup {D!Tomb}] /\ d.head \in Nat /\ d.baseSeq \in Nat
      /\ L \in Nat /\ DOMAIN d.ring = 1 .. L /\ n \in Nat \ {0}
  BY <1>2, <1>3, SetFacts DEF Roomy
<1>5. D!LiveRing = I
  BY <1>4 DEF D!LiveRing
<1>6. PICK e \in 0 .. n - 1 : d.slots[e] = D!Empty
  BY <1>2, RoomLeft
<1>7. {i \in DOMAIN d.slots : d.slots[i] \notin {D!Empty, D!Tomb}} = R /\ {i \in DOMAIN d.slots : d.slots[i] = D!Tomb} = TombSlots(d.slots, n)
  BY <1>4 DEF RefSlots, TombSlots
<1>8. {d.slots[i] : i \in R} = {d.baseSeq + i : i \in I}
  <2>1. ASSUME NEW j \in R PROVE \E i \in I : d.slots[j] = d.baseSeq + i
    <3>1. d.slots[j] \in Nat
      BY <1>4 DEF RefSlots
    <3>2. d.slots[j] - d.baseSeq \in I
      BY <1>3 DEF RefsLive
    <3>3. d.slots[j] = d.baseSeq + (d.slots[j] - d.baseSeq)
      BY <1>4, <3>1
    <3>4. QED
      BY <3>2, <3>3, Zenon
  <2>2. ASSUME NEW i \in I PROVE \E j \in R : d.slots[j] = d.baseSeq + i
    BY <1>3 DEF RefsAll
  <2> HIDE DEF R, I
  <2>3. \A z : (\E j \in R : z = d.slots[j]) <=> (\E i \in I : z = d.baseSeq + i)
    BY <2>1, <2>2, Zenon
  <2>4. QED
    BY <2>3, Zenon
<1>9. Cardinality(R) = Cardinality(I)
  <2>1. Cardinality(R) = L - d.head
    BY <1>2, RefCount
  <2>2. Cardinality(I) = IF d.head + 1 > L THEN 0 ELSE L - (d.head + 1) + 1
    <3>1. d.head + 1 \in Int /\ L \in Int
      BY <1>4
    <3>2. QED
      BY <3>1, FS_Interval, Zenon
  <2> HIDE DEF R, I, L
  <2>3. QED
    BY <1>3, <1>4, <2>1, <2>2
<1>10. D!TableSound
  <2> HIDE DEF R, I
  <2>1. \E i \in DOMAIN d.slots : d.slots[i] = D!Empty
    BY <1>4, <1>6
  <2>2. QED
    BY <1>3, <1>5, <1>7, <1>8, <1>9, <2>1, SameCardinality, Zenon DEF D!TableSound
<1>11. \A i, j \in D!LiveRing : d.ring[i].id = d.ring[j].id => i = j
  BY <1>3, <1>5, Zenon DEF Unique
<1>12. ASSUME NEW id \in DecidedIds PROVE D!Has(d, id) <=> \E i \in D!LiveRing : d.ring[i].id = id
  <2>1. D!FindSlot(d, id).found <=> \E i \in I : d.ring[i].id = id
    BY <1>1, <1>2, <1>4, <1>6, FindsSlot
  <2>2. QED
    BY <1>5, <2>1, Zenon DEF D!Has
<1>13. QED
  BY <1>10, <1>11, <1>12, Zenon DEF DecidedFound, D!DecidedFound

-----------------------------------------------------------------------------
(* The table's references, its tombstones and the probes behind them are   *)
(* sound after every mark and evict of decided.go, and a slot is left      *)
(* empty: the invariant the answers of has rest on, for every hash         *)
(* function, table size and order of deadlines.                            *)
THEOREM DecidedSound == D!Spec => []SetInv
<1>1. D!Init => SetInv
  BY InitSound, DecidedAssumption
<1>2. SetInv /\ [D!Next]_(D!vars) => SetInv'
  BY StepSound, DecidedAssumption
<1>3. QED
  BY <1>1, <1>2, PTL DEF D!Spec

(* has (decided.go) finds exactly the traces that were marked and not yet  *)
(* evicted, each once, whatever collides, wraps, is rehashed or compacted. *)
THEOREM DecidedIsFound == D!Spec => []DecidedFound
<1>1. SetInv => DecidedFound
  BY SoundIsFound, DecidedAssumption
<1>2. QED
  BY <1>1, DecidedSound, PTL

-----------------------------------------------------------------------------
(***************************************************************************)
(* The trace index (X).  W gives the chain of every trace and, under       *)
(* NoKey, the free list, each as the sequence of its nodes.                *)
(***************************************************************************)
NoKey == {id \in Ids : id \notin id}
Keys  == Ids \cup {NoKey}

Nodes     == [gen : 1 .. MaxGen, off : 1 .. MaxPuts, next : Nat]
Slots     == [id : Ids \cup {X!NoId}, head : Int, tail : Nat]
Tables(n) == [0 .. n - 1 -> Slots]

IndexType(n) == [slots : Tables(n), arena : Seq(Nodes), free : Nat, freeLen : Nat,
                 liveCount : Nat, tombs : Nat, cursor : Nat]

(* The p-th slot that is probed for id, and the slots a probe gets to. *)
XAt(n, id, p) == ((hash[id] * n) \div HashRange + p - 1) % n

Got(slots, n, id, j) ==
    \E p \in 1 .. n : XAt(n, id, p) = j /\ \A q \in 1 .. n : q < p => slots[XAt(n, id, q)].head # 0

LiveSlots(slots, n) == {j \in 0 .. n - 1 : slots[j].head > 0}
DeadSlots(slots, n) == {j \in 0 .. n - 1 : slots[j].head = -1}

(* Every live slot is of a trace of its own and where a probe for it gets. *)
Table(slots, n) ==
    /\ slots \in Tables(n)
    /\ \A j \in 0 .. n - 1 : slots[j].head > 0 \/ (slots[j].head \in {0, -1} /\ slots[j].tail = 0)
    /\ \A j \in LiveSlots(slots, n) : slots[j].id \in Ids /\ Got(slots, n, slots[j].id, j)
    /\ \A j, k \in LiveSlots(slots, n) : slots[j].id = slots[k].id => j = k

(* The lists are linked as W has them, share no node and leave none out. *)
Following(s, p) == IF p < Len(s) THEN s[p + 1] ELSE 0

Linked(arena, W) ==
    \A k \in Keys : \A p \in 1 .. Len(W[k]) : arena[W[k][p]].next = Following(W[k], p)

Apart(W) ==
    \A k, l \in Keys : \A p \in 1 .. Len(W[k]), q \in 1 .. Len(W[l]) : W[k][p] = W[l][q] => k = l /\ p = q

Covered(arena, W) ==
    \A i \in 1 .. Len(arena) : \E k \in Keys : \E p \in 1 .. Len(W[k]) : W[k][p] = i

Laid(arena, W) ==
    /\ arena \in Seq(Nodes)
    /\ W \in [Keys -> Seq(1 .. Len(arena))]
    /\ Linked(arena, W) /\ Apart(W) /\ Covered(arena, W)

(* A live slot points to the ends of its trace's chain, and every chain is *)
(* a live slot's.                                                          *)
Pointed(slots, n, W) ==
    /\ \A j \in LiveSlots(slots, n) : /\ Len(W[slots[j].id]) > 0
                                      /\ slots[j].head = W[slots[j].id][1]
                                      /\ slots[j].tail = W[slots[j].id][Len(W[slots[j].id])]
    /\ \A id \in Ids : Len(W[id]) > 0 => \E j \in LiveSlots(slots, n) : slots[j].id = id

XSound(y, n, W) ==
    /\ y \in IndexType(n)
    /\ Table(y.slots, n) /\ Laid(y.arena, W) /\ Pointed(y.slots, n, W)
    /\ y.free = Following(W[NoKey], 0) /\ y.freeLen = Len(W[NoKey])
    /\ y.liveCount = Cardinality(LiveSlots(y.slots, n))
    /\ y.tombs = Cardinality(DeadSlots(y.slots, n))

XHashOK == hash \in [Ids -> 0 .. HashRange - 1]

-----------------------------------------------------------------------------
(* The instance's operators are those of the library. *)
LEMMA XSameCardinality ==
    ASSUME NEW S
    PROVE  X!Cardinality(S) = Cardinality(S)
BY Zenon DEF X!Cardinality, Cardinality

(* Min of a nonempty set of numbers is its least. *)
LEMMA XLeastOf ==
    ASSUME NEW S \in SUBSET Nat, S # {}
    PROVE  X!Min(S) \in S /\ \A y \in S : X!Min(S) <= y
<1>1. \E m \in S : \A y \in S : m =< y
  BY LeastNumber
<1>2. QED
  BY <1>1, Zenon DEF X!Min

(* A probe stays in the table and gets everywhere. *)
LEMMA XProbesAll ==
    ASSUME X!IndexConstants, XHashOK, NEW n \in Nat \ {0}, NEW id \in Ids
    PROVE  /\ \A p \in 1 .. n : XAt(n, id, p) \in 0 .. n - 1
           /\ \A j \in 0 .. n - 1 : \E p \in 1 .. n : XAt(n, id, p) = j
<1>1. HashRange \in Nat \ {0} /\ hash[id] \in 0 .. HashRange - 1
  <2>1. HashRange \in Nat /\ X!IsPowerOfTwo(HashRange)
    BY DEF X!IndexConstants
  <2>2. QED
    BY <2>1 DEF XHashOK, X!IsPowerOfTwo
<1>2. QED
  BY <1>1, Probed, Zenon DEF XAt

(* The size is n, and the probes are as XAt has them. *)
LEMMA XSizeIs ==
    ASSUME NEW n \in Nat, NEW slots, DOMAIN slots = 0 .. n - 1
    PROVE  /\ X!Size(slots) = n
           /\ \A id : X!Probes(slots, id) = [p \in 1 .. n |-> XAt(n, id, p)]
<1>1. Cardinality(0 .. n - 1) = n
  BY FS_Interval
<1>2. X!Size(slots) = n
  BY <1>1, XSameCardinality DEF X!Size
<1>3. QED
  BY <1>2, Zenon DEF X!Probes, XAt

(* findSlot finds a trace that has a slot; of another one it says so, and  *)
(* names, if there is an empty slot, one that is free and that its probe   *)
(* gets to.                                                                *)
LEMMA XFinds ==
    ASSUME X!IndexConstants, XHashOK, NEW n \in Nat \ {0}, NEW slots, Table(slots, n), NEW id \in Ids
    PROVE  /\ X!FindSlot(slots, id).found <=> \E j \in LiveSlots(slots, n) : slots[j].id = id
           /\ X!FindSlot(slots, id).found => /\ X!FindSlot(slots, id).slot \in LiveSlots(slots, n)
                                             /\ slots[X!FindSlot(slots, id).slot].id = id
           /\ ~X!FindSlot(slots, id).found /\ (\E e \in 0 .. n - 1 : slots[e].head = 0) =>
                 /\ X!FindSlot(slots, id).slot \in 0 .. n - 1
                 /\ slots[X!FindSlot(slots, id).slot].head \in {0, -1}
                 /\ Got(slots, n, id, X!FindSlot(slots, id).slot)
<1> DEFINE f == X!FindSlot(slots, id)
           at == [p \in 1 .. n |-> XAt(n, id, p)]
           ends == {p \in 1 .. n : slots[at[p]].head = 0 \/ X!Holds(slots[at[p]], id)}
           end == IF ends = {} THEN n + 1 ELSE X!Min(ends)
           tombs == {p \in 1 .. end - 1 : slots[at[p]].head = -1}
<1>1. DOMAIN slots = 0 .. n - 1 /\ \A j \in 0 .. n - 1 : slots[j] \in Slots /\ slots[j].head \in Int
  BY DEF Table, Tables, Slots
<1>2. /\ \A p \in 1 .. n : at[p] = XAt(n, id, p) /\ at[p] \in 0 .. n - 1
      /\ \A j \in 0 .. n - 1 : \E p \in 1 .. n : at[p] = j
  BY XProbesAll
<1>3. X!Probes(slots, id) = at /\ Len(at) = n /\ DOMAIN at = 1 .. n
  <2>1. X!Probes(slots, id) = at
    BY <1>1, XSizeIs
  <2>2. QED
    BY <2>1
<1> HIDE DEF at
<1>4. f = IF ends # {} /\ X!Holds(slots[at[end]], id) THEN [slot |-> at[end], found |-> TRUE]
          ELSE IF tombs # {} THEN [slot |-> at[X!Min(tombs)], found |-> FALSE]
          ELSE [slot |-> IF ends = {} THEN X!NoSlot ELSE at[end], found |-> FALSE]
  BY <1>3, Zenon DEF X!FindSlot
<1>5. /\ end \in 1 .. n + 1
      /\ ends # {} => end \in ends
      /\ ends = {} => end = n + 1
      /\ \A p \in 1 .. n : p < end => slots[at[p]].head # 0 /\ ~X!Holds(slots[at[p]], id)
  <2>1. ends \in SUBSET Nat /\ ends \in SUBSET (1 .. n)
    OBVIOUS
  <2>2. CASE ends = {}
    BY <2>2
  <2>3. CASE ends # {}
    <3>1. X!Min(ends) \in ends /\ \A p \in ends : X!Min(ends) <= p
      <4> HIDE DEF ends
      <4>1. QED
        BY <2>1, <2>3, XLeastOf
    <3>2. end = X!Min(ends)
      BY <2>3
    <3> HIDE DEF end
    <3>3. \A p \in 1 .. n : p < end => p \notin ends
      BY <2>1, <3>1, <3>2
    <3>5. end \in ends /\ end \in 1 .. n /\ end \in 1 .. n + 1
      <4> HIDE DEF ends
      <4>1. end \in ends /\ end \in 1 .. n
        BY <2>1, <3>1, <3>2, Zenon
      <4>2. \A p \in 1 .. n : p \in 1 .. n + 1
        OBVIOUS
      <4>3. QED
        BY <4>1, <4>2, Zenon
    <3>6. \A p \in 1 .. n : p \notin ends => slots[at[p]].head # 0 /\ ~X!Holds(slots[at[p]], id)
      BY Zenon
    <3>4. QED
      BY <2>3, <3>3, <3>5, <3>6, Zenon
  <2>4. QED
    BY <2>2, <2>3
<1> HIDE DEF end
<1>6. ends # {} => end \in 1 .. n /\ (slots[at[end]].head = 0 \/ X!Holds(slots[at[end]], id))
  BY <1>5
<1> HIDE DEF ends
<1>7. tombs # {} => X!Min(tombs) \in tombs
  <2>1. tombs \in SUBSET Nat
    BY <1>5
  <2> HIDE DEF tombs
  <2>2. QED
    BY <2>1, XLeastOf
<1>8. ASSUME NEW p \in 1 .. n, p <= end
      PROVE  at[p] \in 0 .. n - 1 /\ Got(slots, n, id, at[p])
  <2>1. ASSUME NEW q \in 1 .. n, q < p PROVE slots[XAt(n, id, q)].head # 0
    <3>1. q < end
      BY <1>5, <1>8, <2>1
    <3>2. QED
      BY <1>2, <1>5, <3>1
  <2>2. QED
    BY <1>2, <2>1, Zenon DEF Got
<1>9. ASSUME NEW j \in LiveSlots(slots, n), slots[j].id = id
      PROVE  ends # {} /\ X!Holds(slots[at[end]], id)
  <2>1. PICK p \in 1 .. n : XAt(n, id, p) = j /\ \A q \in 1 .. n : q < p => slots[XAt(n, id, q)].head # 0
    BY <1>9, Zenon DEF Table, Got
  <2>2. at[p] = j /\ X!Holds(slots[at[p]], id)
    BY <1>2, <1>9, <2>1 DEF LiveSlots, X!Holds
  <2>3. p \in ends
    BY <2>2 DEF ends
  <2>4. end <= p
    BY <1>5, <2>2, <2>3
  <2>5. CASE end = p
    BY <2>2, <2>3, <2>5
  <2>6. CASE end < p
    <3>1. slots[at[end]].head # 0
      <4>1. end \in 1 .. n
        BY <1>6, <2>3
      <4>2. QED
        BY <1>2, <2>1, <2>6, <4>1
    <3>2. QED
      BY <1>6, <2>3, <3>1
  <2>7. QED
    BY <1>5, <2>4, <2>5, <2>6
<1>10. CASE ends # {} /\ X!Holds(slots[at[end]], id)
  <2>1. f.slot = at[end] /\ f.found = TRUE
    <3>1. f = [slot |-> at[end], found |-> TRUE]
      BY <1>4, <1>10, Zenon
    <3> HIDE DEF f
    <3>2. QED
      BY ONLY <3>1
  <2>2. at[end] \in LiveSlots(slots, n) /\ slots[at[end]].id = id
    BY <1>2, <1>6, <1>10 DEF LiveSlots, X!Holds
  <2> HIDE DEF f
  <2>3. QED
    BY <2>1, <2>2, Zenon DEF f
<1>11. CASE ~(ends # {} /\ X!Holds(slots[at[end]], id)) /\ tombs # {}
  <2> DEFINE m == X!Min(tombs)
  <2>1. f.slot = at[m] /\ f.found = FALSE
    <3>1. f = [slot |-> at[m], found |-> FALSE]
      BY <1>4, <1>11, Zenon
    <3> HIDE DEF f
    <3>2. QED
      BY ONLY <3>1
  <2>2. m \in 1 .. end - 1 /\ slots[at[m]].head = -1
    BY <1>7, <1>11
  <2> HIDE DEF m
  <2>3. m \in 1 .. n /\ m <= end
    BY <1>5, <2>2
  <2>4. at[m] \in 0 .. n - 1 /\ Got(slots, n, id, at[m])
    BY <1>8, <2>3
  <2>5. ~\E j \in LiveSlots(slots, n) : slots[j].id = id
    BY <1>9, <1>11, Zenon
  <2>6. slots[at[m]].head \in {0, -1}
    BY <2>2
  <2> HIDE DEF f
  <2>7. QED
    BY <2>1, <2>4, <2>5, <2>6, Zenon DEF f
<1>12. CASE ~(ends # {} /\ X!Holds(slots[at[end]], id)) /\ tombs = {}
  <2>1. f.slot = (IF ends = {} THEN X!NoSlot ELSE at[end]) /\ f.found = FALSE
    <3>1. f = [slot |-> IF ends = {} THEN X!NoSlot ELSE at[end], found |-> FALSE]
      BY <1>4, <1>12, Zenon
    <3> HIDE DEF f
    <3>2. QED
      BY ONLY <3>1
  <2>2. ~\E j \in LiveSlots(slots, n) : slots[j].id = id
    BY <1>9, <1>12, Zenon
  <2>3. ASSUME NEW e \in 0 .. n - 1, slots[e].head = 0
        PROVE  f.slot \in 0 .. n - 1 /\ slots[f.slot].head \in {0, -1} /\ Got(slots, n, id, f.slot)
    <3>1. ends # {}
      BY <1>2, <2>3 DEF ends
    <3>2. f.slot = at[end]
      BY <2>1, <3>1, Zenon
    <3>3. end \in 1 .. n /\ end <= end /\ slots[at[end]].head = 0
      BY <1>6, <1>12, <3>1
    <3> HIDE DEF f
    <3>4. QED
      BY <1>8, <3>2, <3>3
  <2> HIDE DEF f
  <2>4. QED
    BY <2>1, <2>2, <2>3, Zenon DEF f
<1>13. QED
  BY <1>10, <1>11, <1>12, Zenon

-----------------------------------------------------------------------------
(***************************************************************************)
(* Writing the table.                                                      *)
(***************************************************************************)
LEMMA TableFacts ==
    ASSUME NEW n \in Nat, NEW slots, Table(slots, n)
    PROVE  /\ DOMAIN slots = 0 .. n - 1
           /\ \A j \in 0 .. n - 1 : /\ slots[j] \in Slots
                                    /\ slots[j].head \in Int /\ slots[j].tail \in Nat
                                    /\ slots[j].head > 0 \/ (slots[j].head \in {0, -1} /\ slots[j].tail = 0)
BY DEF Table, Tables, Slots

(* The sets of slots are finite. *)
LEMMA XSlotsFinite ==
    ASSUME NEW n \in Nat, NEW slots
    PROVE  /\ IsFiniteSet(0 .. n - 1) /\ Cardinality(0 .. n - 1) = n
           /\ IsFiniteSet(LiveSlots(slots, n)) /\ Cardinality(LiveSlots(slots, n)) \in Nat
           /\ IsFiniteSet(DeadSlots(slots, n)) /\ Cardinality(DeadSlots(slots, n)) \in Nat
<1>1. IsFiniteSet(0 .. n - 1) /\ Cardinality(0 .. n - 1) = n
  BY FS_Interval
<1>2. LiveSlots(slots, n) \in SUBSET (0 .. n - 1) /\ DeadSlots(slots, n) \in SUBSET (0 .. n - 1)
  BY DEF LiveSlots, DeadSlots
<1>3. QED
  BY <1>1, <1>2, FS_Subset, FS_CardinalityType

(* A slot is empty if the others do not fill the table. *)
LEMMA XEmptyLeft ==
    ASSUME NEW n \in Nat, NEW slots, Table(slots, n),
           Cardinality(LiveSlots(slots, n)) + Cardinality(DeadSlots(slots, n)) < n
    PROVE  \E e \in 0 .. n - 1 : slots[e].head = 0
<1> DEFINE R == LiveSlots(slots, n)
           T == DeadSlots(slots, n)
<1>1. SUFFICES ASSUME \A e \in 0 .. n - 1 : slots[e].head # 0 PROVE FALSE
  OBVIOUS
<1>2. R \cup T = 0 .. n - 1 /\ R \cap T = {}
  <2>1. \A e \in 0 .. n - 1 : slots[e].head > 0 \/ slots[e].head = -1
    BY <1>1, TableFacts
  <2>2. QED
    BY <2>1 DEF LiveSlots, DeadSlots
<1>3. IsFiniteSet(R) /\ IsFiniteSet(T) /\ Cardinality(R) \in Nat /\ Cardinality(T) \in Nat /\ Cardinality(0 .. n - 1) = n
  BY XSlotsFinite
<1>4. Cardinality(R) + Cardinality(T) < n
  OBVIOUS
<1> HIDE DEF R, T
<1>5. Cardinality(R \cup T) = Cardinality(R) + Cardinality(T)
  <2>1. Cardinality(R \cup T) = Cardinality(R) + Cardinality(T) - Cardinality(R \cap T)
    BY <1>3, FS_Union, Zenon
  <2>2. Cardinality(R \cap T) = 0
    BY <1>2, FS_EmptySet, Zenon
  <2>3. QED
    BY <1>3, <2>1, <2>2
<1>6. Cardinality(R \cup T) = n
  BY <1>2, <1>3, Zenon
<1>7. QED
  BY <1>3, <1>4, <1>5, <1>6

(* A probe gets as far as before when no slot becomes empty. *)
LEMMA GotStays ==
    ASSUME X!IndexConstants, XHashOK, NEW n \in Nat \ {0}, NEW slots, NEW slots1,
           \A i \in 0 .. n - 1 : slots[i].head # 0 => slots1[i].head # 0,
           NEW id \in Ids, NEW j, Got(slots, n, id, j)
    PROVE  Got(slots1, n, id, j)
<1>1. PICK p \in 1 .. n : XAt(n, id, p) = j /\ \A q \in 1 .. n : q < p => slots[XAt(n, id, q)].head # 0
  BY Zenon DEF Got
<1>2. \A q \in 1 .. n : XAt(n, id, q) \in 0 .. n - 1
  BY XProbesAll
<1>3. \A q \in 1 .. n : q < p => slots1[XAt(n, id, q)].head # 0
  BY <1>1, <1>2, Zenon
<1>4. QED
  BY <1>1, <1>3, Zenon DEF Got

(* A free slot that a probe for id gets to is given to id. *)
LEMMA SlotFilled ==
    ASSUME X!IndexConstants, XHashOK, NEW n \in Nat \ {0}, NEW slots, Table(slots, n),
           NEW id \in Ids, NEW j \in 0 .. n - 1, slots[j].head \in {0, -1}, Got(slots, n, id, j),
           \A k \in LiveSlots(slots, n) : slots[k].id # id,
           NEW slots1 \in Tables(n), slots1[j].id = id, slots1[j].head > 0,
           \A k \in 0 .. n - 1 : k # j => slots1[k] = slots[k]
    PROVE  /\ Table(slots1, n)
           /\ LiveSlots(slots1, n) = LiveSlots(slots, n) \cup {j} /\ j \notin LiveSlots(slots, n)
           /\ DeadSlots(slots1, n) = DeadSlots(slots, n) \ {j}
           /\ slots[j].head = -1 <=> j \in DeadSlots(slots, n)
<1>1. slots \in [0 .. n - 1 -> Slots]
  BY DEF Table, Tables
<1>2. slots1 \in [0 .. n - 1 -> Slots] /\ slots1[j].id = id /\ slots1[j].head > 0 /\ \A k \in 0 .. n - 1 : k # j => slots1[k] = slots[k]
  BY DEF Tables
<1>3. slots1[j].head \in Int
  BY <1>2 DEF Slots
<1>4. LiveSlots(slots1, n) = LiveSlots(slots, n) \cup {j} /\ j \notin LiveSlots(slots, n)
  BY <1>2 DEF LiveSlots
<1>5. DeadSlots(slots1, n) = DeadSlots(slots, n) \ {j}
  BY <1>2, <1>3 DEF DeadSlots
<1>6. slots[j].head = -1 <=> j \in DeadSlots(slots, n)
  BY DEF DeadSlots
<1>7. \A i \in 0 .. n - 1 : slots[i].head # 0 => slots1[i].head # 0
  BY <1>2, <1>3
<1>8. ASSUME NEW k \in LiveSlots(slots1, n)
      PROVE  slots1[k].id \in Ids /\ Got(slots1, n, slots1[k].id, k)
  <2>1. CASE k = j
    <3>1. Got(slots1, n, id, j)
      BY <1>7, GotStays
    <3>2. QED
      BY <1>2, <2>1, <3>1
  <2>2. CASE k # j
    <3>1. k \in LiveSlots(slots, n) /\ slots1[k] = slots[k]
      BY <1>2, <1>4, <2>2 DEF LiveSlots
    <3>2. slots[k].id \in Ids /\ Got(slots, n, slots[k].id, k)
      BY <3>1 DEF Table
    <3>3. QED
      BY <1>7, <3>1, <3>2, GotStays, Zenon
  <2>3. QED
    BY <2>1, <2>2
<1>9. ASSUME NEW k \in LiveSlots(slots1, n), NEW l \in LiveSlots(slots1, n), slots1[k].id = slots1[l].id
      PROVE  k = l
  <2>1. \A i \in LiveSlots(slots1, n) : i # j => i \in LiveSlots(slots, n) /\ slots1[i] = slots[i]
    BY <1>2, <1>4 DEF LiveSlots
  <2>2. QED
    BY <1>2, <1>9, <2>1 DEF Table
<1>10. \A k \in 0 .. n - 1 : slots1[k].head > 0 \/ (slots1[k].head \in {0, -1} /\ slots1[k].tail = 0)
  <2>1. \A k \in 0 .. n - 1 : slots[k].head > 0 \/ (slots[k].head \in {0, -1} /\ slots[k].tail = 0)
    BY DEF Table
  <2>2. QED
    BY <1>2, <2>1, Zenon
<1>11. Table(slots1, n)
  BY <1>2, <1>8, <1>9, <1>10, Zenon DEF Table, Tables
<1>12. QED
  BY <1>2, <1>4, <1>5, <1>6, <1>11, Zenon

(* Slots change without becoming empty or another trace's. *)
LEMMA SlotsKept ==
    ASSUME X!IndexConstants, XHashOK, NEW n \in Nat \ {0}, NEW slots, Table(slots, n), NEW slots1 \in Tables(n),
           \A j \in 0 .. n - 1 :
              /\ slots1[j].id = slots[j].id
              /\ slots1[j].head > 0 \/ (slots1[j].head \in {0, -1} /\ slots1[j].tail = 0)
              /\ slots1[j].head > 0 => slots[j].head > 0
              /\ slots[j].head # 0 => slots1[j].head # 0
    PROVE  Table(slots1, n) /\ LiveSlots(slots1, n) \subseteq LiveSlots(slots, n)
<1>1. LiveSlots(slots1, n) \subseteq LiveSlots(slots, n) /\ \A j \in LiveSlots(slots1, n) : slots1[j].id = slots[j].id
  BY DEF LiveSlots
<1>2. ASSUME NEW j \in LiveSlots(slots1, n)
      PROVE  slots1[j].id \in Ids /\ Got(slots1, n, slots1[j].id, j)
  <2>1. slots[j].id \in Ids /\ Got(slots, n, slots[j].id, j)
    BY <1>1 DEF Table
  <2>2. Got(slots1, n, slots[j].id, j)
    BY <2>1, GotStays, Zenon
  <2>3. QED
    BY <1>1, <2>1, <2>2, Zenon
<1>3. \A j, k \in LiveSlots(slots1, n) : slots1[j].id = slots1[k].id => j = k
  BY <1>1 DEF Table
<1>4. QED
  BY <1>1, <1>2, <1>3, Zenon DEF Table

-----------------------------------------------------------------------------
(***************************************************************************)
(* rehash.                                                                 *)
(***************************************************************************)
(* No more live slots than another table has, if their traces are there. *)
LEMMA LiveAtMost ==
    ASSUME NEW n \in Nat, NEW m \in Nat, NEW slots, NEW tab, Table(tab, m),
           \A j \in LiveSlots(tab, m) : \E k \in LiveSlots(slots, n) : slots[k].id = tab[j].id
    PROVE  Cardinality(LiveSlots(tab, m)) <= Cardinality(LiveSlots(slots, n))
<1> DEFINE L == LiveSlots(slots, n)
           M == LiveSlots(tab, m)
           f == [j \in M |-> CHOOSE k \in L : slots[k].id = tab[j].id]
<1>1. \A j \in M : f[j] \in L /\ slots[f[j]].id = tab[j].id
  BY Zenon
<1>2. f \in [M -> L]
  BY <1>1, Zenon
<1>3. \A i, j \in M : tab[i].id = tab[j].id => i = j
  BY DEF Table
<1>4. IsFiniteSet(L)
  BY XSlotsFinite
<1> HIDE DEF f, L, M
<1>5. \A i, j \in M : f[i] = f[j] => i = j
  <2>1. ASSUME NEW i \in M, NEW j \in M, f[i] = f[j] PROVE i = j
    <3>1. slots[f[i]].id = tab[i].id /\ slots[f[j]].id = tab[j].id
      BY <1>1, Zenon
    <3>2. tab[i].id = tab[j].id
      BY <2>1, <3>1
    <3>3. QED
      BY <1>3, <3>2, Zenon
  <2>2. QED
    BY <2>1
<1>6. f \in Injection(M, L)
  BY <1>2, <1>5 DEF Injection, IsInjective
<1>7. Cardinality(M) <= Cardinality(L)
  BY <1>4, <1>6, FS_Injection DEF ExistsInjection
<1>8. QED
  BY <1>7 DEF L, M

(* A table of empty slots is one. *)
LEMMA EmptyTable ==
    ASSUME NEW m \in Nat
    PROVE  /\ Table([i \in 0 .. m - 1 |-> X!EmptySlot], m)
           /\ LiveSlots([i \in 0 .. m - 1 |-> X!EmptySlot], m) = {}
           /\ DeadSlots([i \in 0 .. m - 1 |-> X!EmptySlot], m) = {}
<1> DEFINE tab == [i \in 0 .. m - 1 |-> X!EmptySlot]
<1>1. X!EmptySlot \in Slots /\ X!EmptySlot.head = 0 /\ X!EmptySlot.tail = 0
  BY DEF X!EmptySlot, Slots
<1>2. tab \in Tables(m) /\ \A i \in 0 .. m - 1 : tab[i].head = 0 /\ tab[i].tail = 0
  BY <1>1 DEF Tables
<1> HIDE DEF tab
<1>3. LiveSlots(tab, m) = {} /\ DeadSlots(tab, m) = {}
  BY <1>2 DEF LiveSlots, DeadSlots
<1>4. Table(tab, m)
  BY <1>2, <1>3 DEF Table
<1>5. QED
  BY <1>3, <1>4 DEF tab

(* The tables of a rehash. *)
IsRehash(first, slots, n, g) == g = [i \in 0 .. n |-> IF i = 0 THEN first ELSE X!Inserted(g[i - 1], slots[i - 1])]

(* The function by which rehash fills the table exists. *)
LEMMA RehashExists ==
    ASSUME NEW first, NEW slots, NEW n \in Nat
    PROVE  \E g : IsRehash(first, slots, n, g)
<1>1. SUFFICES ASSUME ~\E g : IsRehash(first, slots, n, g)
               PROVE  FALSE
  OBVIOUS
<1> DEFINE B == {k \in Nat : ~\E g : IsRehash(first, slots, k, g)}
<1>2. B \in SUBSET Nat /\ n \in B
  BY <1>1
<1>3. PICK m \in B : \A k \in B : m <= k
  <2> HIDE DEF B
  <2>1. QED
    BY <1>2, LeastNumber
<1>4. m \in Nat /\ ~\E g : IsRehash(first, slots, m, g)
  BY <1>3
<1>5. CASE m = 0
  <2> DEFINE g == [i \in 0 .. 0 |-> first]
  <2>1. \A i \in 0 .. 0 : i = 0
    OBVIOUS
  <2>2. g = [i \in 0 .. 0 |-> IF i = 0 THEN first ELSE X!Inserted(g[i - 1], slots[i - 1])]
    BY <2>1, Zenon
  <2>3. QED
    BY <1>4, <1>5, <2>2, Zenon DEF IsRehash
<1>6. CASE m # 0
  <2>1. m - 1 \in Nat /\ m - 1 \notin B
    BY <1>3, <1>4, <1>6
  <2>2. PICK g : IsRehash(first, slots, m - 1, g)
    BY <2>1
  <2> DEFINE h == [i \in 0 .. m |-> IF i = m THEN X!Inserted(g[m - 1], slots[m - 1]) ELSE g[i]]
  <2>3. ASSUME NEW i \in 0 .. m
        PROVE  h[i] = IF i = 0 THEN first ELSE X!Inserted(h[i - 1], slots[i - 1])
    <3>1. CASE i = m
      <4>1. i # 0 /\ i - 1 \in 0 .. m /\ i - 1 # m /\ i - 1 = m - 1
        BY <1>4, <1>6, <3>1
      <4>2. h[i] = X!Inserted(g[m - 1], slots[m - 1])
        BY <3>1, Zenon
      <4>3. h[i - 1] = g[i - 1]
        BY <4>1, Zenon
      <4>4. QED
        BY <3>1, <4>1, <4>2, <4>3, Zenon
    <3>2. CASE i # m
      <4>1. i \in 0 .. m - 1 /\ (i # 0 => i - 1 \in 0 .. m /\ i - 1 # m)
        BY <1>4, <3>2
      <4>2. h[i] = g[i]
        BY <3>2, Zenon
      <4>3. g[i] = IF i = 0 THEN first ELSE X!Inserted(g[i - 1], slots[i - 1])
        BY <2>2, <4>1, Zenon DEF IsRehash
      <4>4. i # 0 => h[i - 1] = g[i - 1]
        BY <4>1, Zenon
      <4>5. QED
        BY <4>2, <4>3, <4>4, Zenon
    <3>3. QED
      BY <3>1, <3>2
  <2>4. h = [i \in 0 .. m |-> h[i]]
    BY Zenon
  <2>5. h = [i \in 0 .. m |-> IF i = 0 THEN first ELSE X!Inserted(h[i - 1], slots[i - 1])]
    <3> HIDE DEF h
    <3>1. QED
      BY <2>3, <2>4, Zenon
  <2>6. IsRehash(first, slots, m, h)
    <3> HIDE DEF h
    <3>1. QED
      BY <2>5, Zenon DEF IsRehash
  <2>7. QED
    BY <1>4, <2>6
<1>7. QED
  BY <1>5, <1>6

(* tab holds the live slots among the first i, and nothing else. *)
Rehashed(tab, m, slots, n, i) ==
    /\ Table(tab, m) /\ DeadSlots(tab, m) = {}
    /\ \A j \in LiveSlots(tab, m) : \E k \in LiveSlots(slots, n) : k < i /\ tab[j] = slots[k]
    /\ \A k \in LiveSlots(slots, n) : k < i => \E j \in LiveSlots(tab, m) : tab[j] = slots[k]

(* A step of rehash inserts one slot and keeps the others. *)
LEMMA InsertedSlot ==
    ASSUME X!IndexConstants, XHashOK, NEW n \in Nat, NEW slots, Table(slots, n),
           NEW m \in Nat, Cardinality(LiveSlots(slots, n)) < m,
           NEW i \in 0 .. n - 1, NEW tab, Rehashed(tab, m, slots, n, i)
    PROVE  Rehashed(X!Inserted(tab, slots[i]), m, slots, n, i + 1)
<1>1. slots[i] \in Slots /\ slots[i].head \in Int
  BY TableFacts
<1>2. Table(tab, m) /\ DeadSlots(tab, m) = {}
  BY DEF Rehashed
<1>3. m \in Nat \ {0}
  BY XSlotsFinite
<1>4. CASE ~(slots[i].head > 0)
  <2>1. X!Inserted(tab, slots[i]) = tab
    BY <1>4, Zenon DEF X!Inserted
  <2>2. \A k \in LiveSlots(slots, n) : k < i + 1 <=> k < i
    BY <1>4 DEF LiveSlots
  <2>3. QED
    BY <2>1, <2>2, Zenon DEF Rehashed
<1>5. CASE slots[i].head > 0
  <2> DEFINE id == slots[i].id
             j == X!FindSlot(tab, id).slot
             tab1 == [tab EXCEPT ![j] = slots[i]]
  <2>1. X!Inserted(tab, slots[i]) = tab1
    BY <1>5, Zenon DEF X!Inserted
  <2>2. i \in LiveSlots(slots, n) /\ id \in Ids
    BY <1>5 DEF LiveSlots, Table
  <2>3. \A k \in LiveSlots(tab, m) : tab[k].id # id
    <3>1. ASSUME NEW k \in LiveSlots(tab, m), tab[k].id = id PROVE FALSE
      <4>1. PICK l \in LiveSlots(slots, n) : l < i /\ tab[k] = slots[l]
        BY Zenon DEF Rehashed
      <4>2. l = i
        BY <2>2, <3>1, <4>1, Zenon DEF Table
      <4>3. QED
        BY <4>1, <4>2
    <3>2. QED
      BY <3>1
  <2>4. \E e \in 0 .. m - 1 : tab[e].head = 0
    <3>1. Cardinality(LiveSlots(tab, m)) <= Cardinality(LiveSlots(slots, n))
      <4>1. \A k \in LiveSlots(tab, m) : \E l \in LiveSlots(slots, n) : slots[l].id = tab[k].id
        BY Zenon DEF Rehashed
      <4>2. QED
        BY <1>2, <4>1, LiveAtMost
    <3>2. Cardinality(DeadSlots(tab, m)) = 0
      BY <1>2, FS_EmptySet, Zenon
    <3>3. Cardinality(LiveSlots(tab, m)) + Cardinality(DeadSlots(tab, m)) < m
      BY <3>1, <3>2, XSlotsFinite
    <3>4. QED
      BY <1>2, <3>3, XEmptyLeft
  <2>5. j \in 0 .. m - 1 /\ tab[j].head \in {0, -1} /\ Got(tab, m, id, j)
    <3> HIDE DEF id
    <3>1. /\ X!FindSlot(tab, id).found <=> \E k \in LiveSlots(tab, m) : tab[k].id = id
          /\ ~X!FindSlot(tab, id).found /\ (\E e \in 0 .. m - 1 : tab[e].head = 0) =>
                /\ j \in 0 .. m - 1 /\ tab[j].head \in {0, -1}
                /\ Got(tab, m, id, j)
      BY <1>2, <1>3, <2>2, XFinds
    <3>2. QED
      BY <2>3, <2>4, <3>1, Zenon
  <2> HIDE DEF j
  <2>12. id = slots[i].id /\ tab1 = [tab EXCEPT ![j] = slots[i]]
    OBVIOUS
  <2> HIDE DEF tab1, id
  <2>6. /\ Table(tab1, m)
        /\ tab1[j] = slots[i] /\ \A k \in 0 .. m - 1 : k # j => tab1[k] = tab[k]
        /\ LiveSlots(tab1, m) = LiveSlots(tab, m) \cup {j} /\ j \notin LiveSlots(tab, m)
        /\ DeadSlots(tab1, m) = DeadSlots(tab, m) \ {j}
    <3>1. tab \in [0 .. m - 1 -> Slots]
      BY <1>2 DEF Table, Tables
    <3>2. tab1 \in Tables(m) /\ tab1[j] = slots[i] /\ \A k \in 0 .. m - 1 : k # j => tab1[k] = tab[k]
      BY <1>1, <2>5, <2>12, <3>1 DEF Tables
    <3>3. tab1[j].id = id /\ tab1[j].head > 0
      BY <1>5, <2>12, <3>2
    <3>4. /\ Table(tab1, m)
          /\ LiveSlots(tab1, m) = LiveSlots(tab, m) \cup {j} /\ j \notin LiveSlots(tab, m)
          /\ DeadSlots(tab1, m) = DeadSlots(tab, m) \ {j}
      BY <1>2, <1>3, <2>2, <2>3, <2>5, <3>2, <3>3, SlotFilled
    <3>5. QED
      BY <3>2, <3>4, Zenon
  <2>7. \A k \in LiveSlots(tab, m) : k \in 0 .. m - 1 /\ k # j
    BY <2>6 DEF LiveSlots
  <2>8. ASSUME NEW k \in LiveSlots(tab1, m)
        PROVE  \E l \in LiveSlots(slots, n) : l < i + 1 /\ tab1[k] = slots[l]
    <3>1. CASE k = j
      <4>1. i < i + 1
        OBVIOUS
      <4>2. QED
        BY <2>2, <2>6, <3>1, <4>1, Zenon
    <3>2. CASE k # j
      <4>1. k \in LiveSlots(tab, m) /\ tab1[k] = tab[k]
        BY <2>6, <2>7, <3>2, Zenon
      <4>2. PICK l \in LiveSlots(slots, n) : l < i /\ tab[k] = slots[l]
        BY <4>1, Zenon DEF Rehashed
      <4>3. l < i + 1
        BY <4>2 DEF LiveSlots
      <4>4. QED
        BY <4>1, <4>2, <4>3, Zenon
    <3>3. QED
      BY <3>1, <3>2
  <2>9. ASSUME NEW l \in LiveSlots(slots, n), l < i + 1
        PROVE  \E k \in LiveSlots(tab1, m) : tab1[k] = slots[l]
    <3>1. CASE l = i
      BY <2>6, <3>1, Zenon
    <3>2. CASE l # i
      <4>1. l < i
        BY <2>9, <3>2 DEF LiveSlots
      <4>2. PICK k \in LiveSlots(tab, m) : tab[k] = slots[l]
        BY <4>1, Zenon DEF Rehashed
      <4>3. QED
        BY <2>6, <2>7, <4>2, Zenon
    <3>3. QED
      BY <3>1, <3>2
  <2>10. DeadSlots(tab1, m) = {}
    BY <1>2, <2>6
  <2>11. QED
    BY <2>1, <2>6, <2>8, <2>9, <2>10, Zenon DEF Rehashed
<1>6. QED
  BY <1>4, <1>5

(* The rehashed index: the same slots in another table. *)
Retabled(y, tab, m) == [y EXCEPT !.slots = tab, !.liveCount = Cardinality(LiveSlots(tab, m)), !.tombs = 0]

(* rehash: the live slots, and no tombstone, in a table of the new size. *)
LEMMA RehashIs ==
    ASSUME X!IndexConstants, XHashOK, NEW n \in Nat, NEW y \in IndexType(n), Table(y.slots, n),
           NEW m \in Nat, Cardinality(LiveSlots(y.slots, n)) < m
    PROVE  \E tab : Rehashed(tab, m, y.slots, n, n) /\ X!Rehash(y, m) = Retabled(y, tab, m)
<1> DEFINE slots == y.slots
           first == [i \in 0 .. m - 1 |-> X!EmptySlot]
           g == CHOOSE h : IsRehash(first, slots, n, h)
<1>1. DOMAIN slots = 0 .. n - 1 /\ X!Size(slots) = n
  BY TableFacts, XSizeIs
<1>2. IsRehash(first, slots, n, g)
  BY RehashExists, Zenon
<1>3. X!Rehash(y, m) = [y EXCEPT !.slots = g[n], !.liveCount = X!Cardinality({i \in 0 .. n - 1 : slots[i].head > 0}), !.tombs = 0]
  BY <1>1, Zenon DEF X!Rehash, IsRehash
<1> HIDE DEF g
<1>4. \A i \in 0 .. n : g[i] = IF i = 0 THEN first ELSE X!Inserted(g[i - 1], slots[i - 1])
  BY <1>2, Zenon DEF IsRehash
<1> DEFINE B == {i \in Nat : i \in 0 .. n /\ ~Rehashed(g[i], m, slots, n, i)}
<1>5. B = {}
  <2>1. SUFFICES ASSUME B # {} PROVE FALSE
    OBVIOUS
  <2>2. PICK k \in B : \A i \in B : k <= i
    <3>1. B \in SUBSET Nat
      OBVIOUS
    <3> HIDE DEF B
    <3>2. QED
      BY <2>1, <3>1, LeastNumber
  <2>3. k \in 0 .. n /\ ~Rehashed(g[k], m, slots, n, k)
    BY <2>2
  <2>4. CASE k = 0
    <3>1. g[k] = first
      BY <1>4, <2>3, <2>4, Zenon
    <3>2. \A l \in LiveSlots(slots, n) : ~(l < k)
      BY <2>4 DEF LiveSlots
    <3>3. Table(first, m) /\ LiveSlots(first, m) = {} /\ DeadSlots(first, m) = {}
      BY EmptyTable
    <3> HIDE DEF first
    <3>4. Rehashed(first, m, slots, n, k)
      BY <3>2, <3>3, Zenon DEF Rehashed
    <3>5. QED
      BY <2>3, <3>1, <3>4
  <2>5. CASE k # 0
    <3>1. k - 1 \in 0 .. n - 1 /\ k - 1 \notin B /\ k - 1 \in Nat /\ k - 1 \in 0 .. n /\ (k - 1) + 1 = k
      BY <2>2, <2>3, <2>5
    <3>2. Rehashed(g[k - 1], m, slots, n, k - 1)
      BY <3>1
    <3>3. g[k] = X!Inserted(g[k - 1], slots[k - 1])
      BY <1>4, <2>3, <2>5, Zenon
    <3> HIDE DEF first
    <3>4. Rehashed(X!Inserted(g[k - 1], slots[k - 1]), m, slots, n, (k - 1) + 1)
      BY <3>1, <3>2, InsertedSlot
    <3>5. QED
      BY <2>3, <3>1, <3>3, <3>4
  <2>6. QED
    BY <2>4, <2>5
<1>6. Rehashed(g[n], m, slots, n, n)
  BY <1>5
<1>7. X!Cardinality({i \in 0 .. n - 1 : slots[i].head > 0}) = Cardinality(LiveSlots(g[n], m))
  <2>1. X!Cardinality({i \in 0 .. n - 1 : slots[i].head > 0}) = Cardinality(LiveSlots(slots, n))
    BY XSameCardinality, Zenon DEF LiveSlots
  <2>2. Cardinality(LiveSlots(g[n], m)) <= Cardinality(LiveSlots(slots, n))
    <3>1. \A j \in LiveSlots(g[n], m) : \E k \in LiveSlots(slots, n) : slots[k].id = g[n][j].id
      BY <1>6, Zenon DEF Rehashed
    <3>2. Table(g[n], m)
      BY <1>6 DEF Rehashed
    <3>3. QED
      BY <3>1, <3>2, LiveAtMost
  <2>3. Cardinality(LiveSlots(slots, n)) <= Cardinality(LiveSlots(g[n], m))
    <3>1. \A k \in LiveSlots(slots, n) : k < n
      BY DEF LiveSlots
    <3>2. \A k \in LiveSlots(slots, n) : \E j \in LiveSlots(g[n], m) : g[n][j].id = slots[k].id
      BY <1>6, <3>1, Zenon DEF Rehashed
    <3>3. QED
      BY <3>2, LiveAtMost
  <2>4. Cardinality(LiveSlots(g[n], m)) \in Nat /\ Cardinality(LiveSlots(slots, n)) \in Nat
    BY XSlotsFinite
  <2>5. QED
    BY <2>1, <2>2, <2>3, <2>4
<1>8. QED
  BY <1>3, <1>6, <1>7, Zenon DEF Retabled

-----------------------------------------------------------------------------
(***************************************************************************)
(* The size that grow picks.                                               *)
(***************************************************************************)
LEMMA ModIs ==
    ASSUME NEW n \in Nat \ {0}, NEW j \in 0 .. n - 1, NEW q \in Int, NEW a \in Int, a = j + q * n
    PROVE  a % n = j
OBVIOUS

(* The remainder and the quotient of a. *)
LEMMA ModOf ==
    ASSUME NEW n \in Nat \ {0}, NEW a \in Int
    PROVE  a % n \in 0 .. n - 1 /\ a \div n \in Int /\ a = (a % n) + (a \div n) * n
OBVIOUS

(* Twice a power of two is one. *)
LEMMA Doubled ==
    ASSUME NEW s \in Nat, X!IsPowerOfTwo(s)
    PROVE  X!IsPowerOfTwo(2 * s)
<1>1. s >= 1 /\ \A m \in 2 .. s : s % m = 0 => m % 2 = 0
  BY DEF X!IsPowerOfTwo
<1>2. ASSUME NEW m \in 2 .. 2 * s, (2 * s) % m = 0, m % 2 # 0 PROVE FALSE
  <2>1. m \in Nat \ {0}
    OBVIOUS
  <2>2. PICK q \in Int : 2 * s = q * m
    <3>1. 2 * s \in Int
      OBVIOUS
    <3>3. (2 * s) \div m \in Int /\ 2 * s = ((2 * s) % m) + ((2 * s) \div m) * m
      BY <2>1, <3>1, ModOf, Zenon
    <3>2. QED
      BY <1>2, <2>1, <3>3
  <2>3. PICK a \in Int : m = 1 + a * 2
    <3>1. m \div 2 \in Int /\ m = (m % 2) + (m \div 2) * 2
      OBVIOUS
    <3>2. m % 2 = 1
      BY <1>2, <2>1
    <3>3. QED
      BY <3>1, <3>2
  <2>4. PICK r \in Int : q = (q % 2) + r * 2
    <3>1. q \div 2 \in Int /\ q = (q % 2) + (q \div 2) * 2
      OBVIOUS
    <3>2. QED
      BY <3>1
  <2>5. q % 2 = 0
    <3>1. SUFFICES ASSUME q % 2 = 1 PROVE FALSE
      OBVIOUS
    <3>2. q * m = 1 + 2 * ((a * 2) * r + r + a)
      BY <2>3, <2>4, <3>1
    <3>3. (a * 2) * r + r + a \in Int
      OBVIOUS
    <3>4. \A z \in Int : 2 * s # 1 + 2 * z
      OBVIOUS
    <3>5. QED
      BY <2>2, <3>2, <3>3, <3>4, Zenon
  <2>6. s = r * m
    <3>1. q = r * 2
      BY <2>4, <2>5
    <3>2. 2 * s = (r * 2) * m
      BY <2>2, <3>1
    <3>3. (r * 2) * m = 2 * (r * m) /\ r * m \in Int
      BY <2>1
    <3>4. QED
      BY <3>2, <3>3
  <2>7. m <= s
    <3>1. r >= 1
      <4>1. SUFFICES ASSUME r <= 0 PROVE FALSE
        OBVIOUS
      <4>2. r * m <= 0
        BY <2>1, <4>1
      <4>3. QED
        BY <1>1, <2>6, <4>2
    <3>2. QED
      BY <2>1, <2>6, <3>1
  <2>8. s % m = 0
    <3>1. 0 \in 0 .. m - 1 /\ s = 0 + r * m /\ s \in Int
      BY <2>1, <2>6
    <3>2. QED
      BY <2>1, <3>1, ModIs, Zenon
  <2>9. m \in 2 .. s
    BY <2>7
  <2>10. QED
    BY <1>1, <1>2, <2>8, <2>9, Zenon
<1>3. 2 * s >= 1
  BY <1>1
<1>4. QED
  BY <1>2, <1>3 DEF X!IsPowerOfTwo

(* grow picks a power of two that the live traces leave room in. *)
LEMMA GrowSizeIs ==
    ASSUME NEW l \in Nat
    PROVE  X!GrowSize(l) \in Nat /\ X!IsPowerOfTwo(X!GrowSize(l)) /\ 4 * l < 3 * X!GrowSize(l)
<1> DEFINE S == {s \in 1 .. 4 * l + 1 : 4 * l < 3 * s /\ X!IsPowerOfTwo(s)}
           T == {t \in Nat : t \in 0 .. 4 * l /\ X!IsPowerOfTwo((4 * l + 1) - t)}
<1>1. 4 * l \in T
  <2>1. (4 * l + 1) - 4 * l = 1
    OBVIOUS
  <2>2. X!IsPowerOfTwo(1)
    BY DEF X!IsPowerOfTwo
  <2>3. 4 * l \in Nat /\ 4 * l \in 0 .. 4 * l
    OBVIOUS
  <2>4. QED
    BY <2>1, <2>2, <2>3
<1>2. PICK t \in T : \A u \in T : t <= u
  <2>1. T \in SUBSET Nat
    OBVIOUS
  <2> HIDE DEF T
  <2>2. QED
    BY <1>1, <2>1, LeastNumber
<1> DEFINE p == (4 * l + 1) - t
<1>3. t \in 0 .. 4 * l /\ X!IsPowerOfTwo(p) /\ p \in 1 .. 4 * l + 1 /\ p \in Nat
  BY <1>2
<1>4. 4 * l < 3 * p
  <2>1. SUFFICES ASSUME 2 * p <= 4 * l + 1 PROVE FALSE
    BY <1>3
  <2> DEFINE u == (4 * l + 1) - 2 * p
  <2>2. u \in Nat /\ u \in 0 .. 4 * l /\ u < t /\ (4 * l + 1) - u = 2 * p
    BY <1>3, <2>1
  <2>3. X!IsPowerOfTwo(2 * p)
    <3> HIDE DEF p
    <3>1. QED
      BY <1>3, Doubled
  <2>4. u \in T
    <3> HIDE DEF u, p
    <3>1. QED
      BY <2>2, <2>3
  <2>5. QED
    BY <1>2, <2>2, <2>4
<1>5. p \in S
  <2> HIDE DEF p
  <2>1. QED
    BY <1>3, <1>4
<1>6. X!Min(S) \in S
  <2>1. S \in SUBSET Nat
    OBVIOUS
  <2> HIDE DEF S
  <2>2. QED
    BY <1>5, <2>1, XLeastOf
<1>7. X!GrowSize(l) = X!Min(S)
  BY Zenon DEF X!GrowSize
<1>8. \A s \in S : s \in Nat /\ X!IsPowerOfTwo(s) /\ 4 * l < 3 * s
  OBVIOUS
<1> HIDE DEF S
<1>9. QED
  BY <1>6, <1>7, <1>8

-----------------------------------------------------------------------------
(***************************************************************************)
(* Chains.                                                                 *)
(***************************************************************************)
LEMMA LaidFacts ==
    ASSUME NEW arena, NEW W, Laid(arena, W)
    PROVE  /\ arena \in Seq(Nodes) /\ Len(arena) \in Nat
           /\ \A i \in 1 .. Len(arena) : /\ arena[i] \in Nodes /\ arena[i].gen \in 1 .. MaxGen
                                         /\ arena[i].off \in 1 .. MaxPuts /\ arena[i].next \in Nat
           /\ W \in [Keys -> Seq(1 .. Len(arena))]
           /\ \A k \in Keys : /\ W[k] \in Seq(1 .. Len(arena)) /\ Len(W[k]) \in Nat
                              /\ \A p \in 1 .. Len(W[k]) : W[k][p] \in 1 .. Len(arena)
<1>1. arena \in Seq(Nodes) /\ W \in [Keys -> Seq(1 .. Len(arena))]
  BY DEF Laid
<1>2. \A i \in 1 .. Len(arena) : arena[i] \in Nodes
  BY <1>1
<1>3. \A v \in Nodes : v.gen \in 1 .. MaxGen /\ v.off \in 1 .. MaxPuts /\ v.next \in Nat
  BY DEF Nodes
<1>4. \A k \in Keys : /\ W[k] \in Seq(1 .. Len(arena)) /\ Len(W[k]) \in Nat
                      /\ \A p \in 1 .. Len(W[k]) : W[k][p] \in 1 .. Len(arena)
  <2>1. ASSUME NEW k \in Keys
        PROVE  /\ W[k] \in Seq(1 .. Len(arena)) /\ Len(W[k]) \in Nat
               /\ \A p \in 1 .. Len(W[k]) : W[k][p] \in 1 .. Len(arena)
    <3>1. W[k] \in Seq(1 .. Len(arena))
      BY <1>1
    <3>2. QED
      BY <3>1
  <2>2. QED
    BY <2>1
<1>5. QED
  BY <1>1, <1>2, <1>3, <1>4

From(s, p) == [i \in 1 .. (Len(s) + 1) - p |-> s[(p - 1) + i]]

(* The rest of a sequence from p on. *)
LEMMA FromIs ==
    ASSUME NEW T, NEW s \in Seq(T)
    PROVE  /\ From(s, 1) = s /\ From(s, Len(s) + 1) = << >>
           /\ \A p \in 1 .. Len(s) : From(s, p) = <<s[p]>> \o From(s, p + 1)
<1> DEFINE n == Len(s)
<1>1. n \in Nat /\ \A i \in 1 .. n : s[i] \in T
  OBVIOUS
<1>2. ASSUME NEW p \in 1 .. n + 1
      PROVE  /\ From(s, p) \in Seq(T) /\ Len(From(s, p)) = (n + 1) - p
             /\ \A i \in 1 .. (n + 1) - p : From(s, p)[i] = s[(p - 1) + i]
  <2>1. (n + 1) - p \in Nat /\ \A i \in 1 .. (n + 1) - p : s[(p - 1) + i] \in T
    BY <1>1
  <2>2. QED
    BY <2>1 DEF From
<1>3. From(s, 1) = s
  <2>1. 1 \in 1 .. n + 1 /\ (n + 1) - 1 = n /\ \A i \in 1 .. n : (1 - 1) + i = i
    BY <1>1
  <2>2. From(s, 1) \in Seq(T) /\ Len(From(s, 1)) = n /\ \A i \in 1 .. n : From(s, 1)[i] = s[i]
    BY <1>2, <2>1, Zenon
  <2>3. QED
    BY <2>2, SeqEqual
<1>4. From(s, n + 1) = << >>
  BY <1>1 DEF From
<1>5. ASSUME NEW p \in 1 .. n PROVE From(s, p) = <<s[p]>> \o From(s, p + 1)
  <2> DEFINE u == From(s, p + 1)
             v == <<s[p]>> \o u
  <2>1. p \in 1 .. n + 1 /\ p + 1 \in 1 .. n + 1 /\ s[p] \in T
    BY <1>1
  <2>2. u \in Seq(T) /\ Len(u) = n - p /\ \A i \in 1 .. n - p : u[i] = s[p + i]
    <3>1. (n + 1) - (p + 1) = n - p /\ \A i \in Int : ((p + 1) - 1) + i = p + i
      BY <1>1
    <3>2. u \in Seq(T) /\ Len(u) = (n + 1) - (p + 1) /\ \A i \in 1 .. (n + 1) - (p + 1) : u[i] = s[((p + 1) - 1) + i]
      BY <1>2, <2>1, Zenon
    <3>3. n - p \in Int /\ \A i \in 1 .. n - p : i \in Int
      BY <1>1
    <3> HIDE DEF u, n
    <3>4. QED
      BY <3>1, <3>2, <3>3, Zenon
  <2>3. From(s, p) \in Seq(T) /\ Len(From(s, p)) = (n + 1) - p /\ \A i \in 1 .. (n + 1) - p : From(s, p)[i] = s[(p - 1) + i]
    BY <1>2, <2>1, Zenon
  <2> HIDE DEF u
  <2>4. v \in Seq(T) /\ Len(v) = 1 + Len(u) /\ v[1] = s[p] /\ \A i \in 2 .. 1 + Len(u) : v[i] = u[i - 1]
    BY <2>1, <2>2
  <2> HIDE DEF v
  <2>5. Len(v) = (n + 1) - p
    BY <1>1, <2>2, <2>4
  <2>6. ASSUME NEW i \in 1 .. (n + 1) - p PROVE From(s, p)[i] = v[i]
    <3>1. CASE i = 1
      <4>1. (p - 1) + 1 = p
        OBVIOUS
      <4>2. QED
        BY <2>3, <2>4, <2>6, <3>1, <4>1
    <3>2. CASE i # 1
      <4>1. i \in 2 .. 1 + Len(u) /\ i - 1 \in 1 .. n - p /\ p + (i - 1) = (p - 1) + i
        BY <1>1, <2>2, <2>6, <3>2
      <4>2. QED
        BY <2>2, <2>3, <2>4, <2>6, <4>1
    <3>3. QED
      BY <3>1, <3>2
  <2>7. QED
    <3>1. From(s, p) = v
      BY <2>3, <2>4, <2>5, <2>6, SeqEqual
    <3>2. QED
      BY <3>1 DEF v, u
<1>6. QED
  BY <1>3, <1>4, <1>5

IsChain(arena, c) == c = [i \in 0 .. Len(arena) |-> IF i = 0 THEN << >> ELSE <<i>> \o c[arena[i].next]]

(* The function that follows a chain exists: lists end. *)
LEMMA ChainExists ==
    ASSUME NEW arena, NEW W, Laid(arena, W)
    PROVE  \E c : IsChain(arena, c)
<1> DEFINE N == Len(arena)
           S == {e \in Keys \X Nat : e[2] \in 1 .. Len(W[e[1]])}
           own(i) == CHOOSE e \in S : W[e[1]][e[2]] = i
           c == [i \in 0 .. N |-> IF i = 0 THEN << >> ELSE From(W[own(i)[1]], own(i)[2])]
<1>1. N \in Nat /\ \A k \in Keys : W[k] \in Seq(1 .. N) /\ Len(W[k]) \in Nat /\ \A p \in 1 .. Len(W[k]) : W[k][p] \in 1 .. N
  BY LaidFacts
<1>2. ASSUME NEW k \in Keys, NEW p \in 1 .. Len(W[k])
      PROVE  own(W[k][p])[1] = k /\ own(W[k][p])[2] = p
  <2> DEFINE i == W[k][p]
  <2>1. <<k, p>> \in S /\ W[<<k, p>>[1]][<<k, p>>[2]] = i
    BY <1>1
  <2>2. own(i) \in S /\ W[own(i)[1]][own(i)[2]] = i
    <3> HIDE DEF S, i
    <3>1. QED
      BY <2>1, Zenon
  <2>3. own(i)[1] \in Keys /\ own(i)[2] \in 1 .. Len(W[own(i)[1]])
    <3> HIDE DEF own
    <3>1. QED
      BY <2>2
  <2> DEFINE l == own(i)[1]
             q == own(i)[2]
  <2>4. l \in Keys /\ q \in 1 .. Len(W[l]) /\ W[k][p] = W[l][q]
    BY <2>2, <2>3, Zenon
  <2> HIDE DEF l, q
  <2>5. k = l /\ p = q
    BY <2>4, Zenon DEF Laid, Apart
  <2>6. QED
    BY <2>5, Zenon DEF l, q
<1>3. ASSUME NEW k \in Keys, NEW p \in 1 .. Len(W[k]) + 1
      PROVE  c[Following(W[k], p - 1)] = From(W[k], p)
  <2>1. CASE p <= Len(W[k])
    <3>1. p \in 1 .. Len(W[k]) /\ p - 1 < Len(W[k]) /\ (p - 1) + 1 = p
      BY <1>1, <2>1
    <3>2. Following(W[k], p - 1) = W[k][p]
      BY <3>1, Zenon DEF Following
    <3>3. W[k][p] \in 0 .. N /\ W[k][p] # 0
      BY <1>1, <3>1
    <3>4. c[W[k][p]] = From(W[own(W[k][p])[1]], own(W[k][p])[2])
      <4> HIDE DEF own
      <4>1. QED
        BY <3>3, Zenon
    <3> HIDE DEF own, c
    <3>5. QED
      BY <1>2, <3>1, <3>2, <3>4, Zenon
  <2>2. CASE ~(p <= Len(W[k]))
    <3>1. p = Len(W[k]) + 1 /\ ~(p - 1 < Len(W[k]))
      <4>1. Len(W[k]) \in Nat
        BY <1>1
      <4> DEFINE n == Len(W[k])
      <4>2. n \in Nat /\ p \in 1 .. n + 1 /\ ~(p <= n)
        BY <2>2, <4>1
      <4> HIDE DEF n
      <4>3. p = n + 1 /\ ~(p - 1 < n)
        BY ONLY <4>2
      <4>4. QED
        BY <4>3 DEF n
    <3>2. Following(W[k], p - 1) = 0
      BY <3>1, Zenon DEF Following
    <3>3. 0 \in 0 .. N
      BY <1>1
    <3>4. c[0] = << >>
      BY <3>3, Zenon
    <3>5. From(W[k], p) = << >>
      BY <1>1, <3>1, FromIs
    <3> HIDE DEF c
    <3>6. QED
      BY <3>2, <3>4, <3>5, Zenon
  <2>3. QED
    BY <2>1, <2>2
<1>4. ASSUME NEW i \in 0 .. N
      PROVE  c[i] = IF i = 0 THEN << >> ELSE <<i>> \o c[arena[i].next]
  <2>1. CASE i = 0
    BY <2>1, Zenon
  <2>2. CASE i # 0
    <3> HIDE DEF c
    <3>1. PICK k \in Keys : \E p \in 1 .. Len(W[k]) : W[k][p] = i
      BY <1>1, <2>2 DEF Laid, Covered
    <3>2. PICK p \in 1 .. Len(W[k]) : W[k][p] = i
      BY <3>1
    <3>3. p \in 1 .. Len(W[k]) + 1 /\ p + 1 \in 1 .. Len(W[k]) + 1 /\ (p + 1) - 1 = p /\ p - 1 < Len(W[k]) /\ (p - 1) + 1 = p
      BY <1>1
    <3>4. Following(W[k], p - 1) = i
      BY <3>2, <3>3, Zenon DEF Following
    <3>5. c[i] = From(W[k], p)
      BY <1>3, <3>3, <3>4, Zenon
    <3>6. c[Following(W[k], p)] = From(W[k], p + 1)
      <4>1. c[Following(W[k], (p + 1) - 1)] = From(W[k], p + 1)
        BY <1>3, <3>3, Zenon
      <4>2. QED
        BY <3>3, <4>1, Zenon
    <3>7. arena[i].next = Following(W[k], p)
      BY <3>2, Zenon DEF Laid, Linked
    <3>8. From(W[k], p) = <<i>> \o From(W[k], p + 1)
      BY <1>1, <3>2, FromIs, Zenon
    <3>9. QED
      BY <2>2, <3>5, <3>6, <3>7, <3>8, Zenon
  <2>3. QED
    BY <2>1, <2>2
<1>5. c = [i \in 0 .. N |-> c[i]]
  <2> HIDE DEF own
  <2>1. QED
    BY Zenon
<1> HIDE DEF c
<1>6. c = [i \in 0 .. N |-> IF i = 0 THEN << >> ELSE <<i>> \o c[arena[i].next]]
  BY <1>4, <1>5, Zenon
<1>7. QED
  BY <1>6, Zenon DEF IsChain

(* What a walk from a list's first node sees is the list. *)
LEMMA ChainIs ==
    ASSUME NEW arena, NEW W, Laid(arena, W)
    PROVE  \A k \in Keys : X!Chain(arena, Following(W[k], 0)) = W[k]
<1> DEFINE N == Len(arena)
           c == CHOOSE f : IsChain(arena, f)
<1>1. IsChain(arena, c)
  BY ChainExists, Zenon
<1>2. \A i : X!Chain(arena, i) = c[i]
  BY Zenon DEF X!Chain, IsChain
<1> HIDE DEF c
<1>3. N \in Nat /\ \A k \in Keys : W[k] \in Seq(1 .. N) /\ Len(W[k]) \in Nat /\ \A p \in 1 .. Len(W[k]) : W[k][p] \in 1 .. N
  BY LaidFacts
<1>4. c[0] = << >> /\ \A i \in 1 .. N : c[i] = <<i>> \o c[arena[i].next]
  <2>1. \A i \in 0 .. N : c[i] = IF i = 0 THEN << >> ELSE <<i>> \o c[arena[i].next]
    BY <1>1, Zenon DEF IsChain
  <2>2. 0 \in 0 .. N /\ \A i \in 1 .. N : i \in 0 .. N /\ i # 0
    BY <1>3
  <2>3. QED
    BY <2>1, <2>2, Zenon
<1>5. ASSUME NEW k \in Keys PROVE c[Following(W[k], 0)] = W[k]
  <2> DEFINE s == W[k]
             n == Len(s)
             B == {t \in Nat : t \in 0 .. n /\ c[Following(s, n - t)] # From(s, (n - t) + 1)}
  <2>1. s \in Seq(1 .. N) /\ n \in Nat /\ \A p \in 1 .. n : s[p] \in 1 .. N
    BY <1>3
  <2>2. B = {}
    <3>1. SUFFICES ASSUME B # {} PROVE FALSE
      OBVIOUS
    <3>2. PICK t \in B : \A u \in B : t <= u
      <4>1. B \in SUBSET Nat
        OBVIOUS
      <4> HIDE DEF B
      <4>2. QED
        BY <3>1, <4>1, LeastNumber
    <3>3. t \in 0 .. n /\ c[Following(s, n - t)] # From(s, (n - t) + 1)
      BY <3>2
    <3>4. CASE t = 0
      <4>1. n - t = n /\ ~(n < n)
        BY <2>1, <3>4
      <4>2. Following(s, n) = 0
        BY <4>1, Zenon DEF Following
      <4>3. From(s, n + 1) = << >>
        BY <2>1, FromIs
      <4>4. QED
        BY <1>4, <3>3, <4>1, <4>2, <4>3, Zenon
    <3>5. CASE t # 0
      <4> DEFINE p == (n - t) + 1
      <4>1. t - 1 \in 0 .. n /\ t - 1 \notin B /\ t - 1 \in Nat /\ n - (t - 1) = p /\ p \in 1 .. n /\ n - t < n
        <5>1. t \in B
          BY <3>2
        <5> HIDE DEF B, n
        <5>2. t \in 0 .. n /\ n \in Nat
          BY <2>1, <3>3
        <5>3. t - 1 < t
          BY <5>2
        <5>4. t - 1 \notin B
          BY <3>2, <5>2, <5>3
        <5>5. QED
          BY ONLY <3>5, <5>2, <5>4
      <4>2. c[Following(s, p)] = From(s, p + 1)
        BY <4>1
      <4>3. Following(s, n - t) = s[p]
        BY <4>1, Zenon DEF Following
      <4>4. arena[s[p]].next = Following(s, p)
        BY <4>1, Zenon DEF Laid, Linked
      <4> HIDE DEF p, B
      <4>5. c[s[p]] = <<s[p]>> \o From(s, p + 1)
        BY <1>4, <2>1, <4>1, <4>2, <4>4, Zenon
      <4>6. From(s, p) = <<s[p]>> \o From(s, p + 1)
        BY <2>1, <4>1, FromIs, Zenon
      <4>7. QED
        BY <3>3, <4>3, <4>5, <4>6, Zenon DEF p
    <3>6. QED
      BY <3>4, <3>5
  <2>3. n \in Nat /\ n \in 0 .. n /\ n \notin B /\ n - n = 0 /\ 0 + 1 = 1
    <3> HIDE DEF B, n
    <3>1. QED
      BY <2>1, <2>2
  <2>4. c[Following(s, n - n)] = From(s, (n - n) + 1)
    BY <2>3
  <2>5. From(s, 1) = s
    BY <2>1, FromIs
  <2> HIDE DEF B, n, s
  <2>6. c[Following(s, 0)] = s
    BY <2>3, <2>4, <2>5
  <2>7. QED
    BY <2>6 DEF s
<1>6. QED
  BY <1>2, <1>5, Zenon

-----------------------------------------------------------------------------
(***************************************************************************)
(* put.                                                                    *)
(***************************************************************************)
LEMMA SeqIs ==
    ASSUME NEW n \in Nat, NEW S, NEW f \in [1 .. n -> S]
    PROVE  f \in Seq(S) /\ Len(f) = n
OBVIOUS

(* The free list's key is no trace. *)
LEMMA NoKeyIs == NoKey \notin Ids /\ NoKey \in Keys /\ Ids \subseteq Keys
BY DEF NoKey, Keys

(* The lists when node i, the first free one or a new one, is added to the *)
(* chain of id.                                                            *)
Extended(W, id, i) ==
    [k \in Keys |-> IF k = NoKey THEN From(W[k], 2) ELSE IF k = id THEN Append(W[k], i) ELSE W[k]]

(* Where i comes from, N nodes becoming N1. *)
Taken(F, N, i, N1) ==
    (Len(F) > 0 /\ i = F[1] /\ N1 = N) \/ (Len(F) = 0 /\ i = N + 1 /\ N1 = N + 1)

Extends(V, W, id, i, N, N1) ==
    /\ V \in [Keys -> Seq(1 .. N1)] /\ N <= N1 /\ i \in 1 .. N1
    /\ Len(V[id]) = Len(W[id]) + 1 /\ V[id][Len(W[id]) + 1] = i
    /\ \A p \in 1 .. Len(W[id]) : V[id][p] = W[id][p]
    /\ \A k \in Keys : k # NoKey /\ k # id => V[k] = W[k]
    /\ Len(V[NoKey]) \in Nat
    /\ Len(W[NoKey]) = 0 => Len(V[NoKey]) = 0
    /\ Len(W[NoKey]) > 0 => Len(V[NoKey]) = Len(W[NoKey]) - 1
    /\ \A p \in 1 .. Len(V[NoKey]) : V[NoKey][p] = W[NoKey][p + 1]
    /\ \A k \in Keys : \A p \in 1 .. Len(W[k]) : W[k][p] = i => k = NoKey /\ p = 1

(* Extended is what Extends says of it. *)
LEMMA ExtendedIs ==
    ASSUME NEW arena, NEW W, Laid(arena, W), NEW id \in Ids, NEW i, NEW N1 \in Nat, Taken(W[NoKey], Len(arena), i, N1)
    PROVE  Extends(Extended(W, id, i), W, id, i, Len(arena), N1)
<1> DEFINE N == Len(arena)
           F == W[NoKey]
           V == Extended(W, id, i)
<1>1. N \in Nat /\ \A k \in Keys : W[k] \in Seq(1 .. N) /\ Len(W[k]) \in Nat /\ \A p \in 1 .. Len(W[k]) : W[k][p] \in 1 .. N
  BY LaidFacts
<1>2. NoKey \in Keys /\ id \in Keys /\ id # NoKey
  BY NoKeyIs
<1>3. V[NoKey] = From(F, 2) /\ V[id] = Append(W[id], i) /\ \A k \in Keys : k # NoKey /\ k # id => V[k] = W[k]
  BY <1>2, Zenon DEF Extended
<1>4. F \in Seq(1 .. N) /\ Len(F) \in Nat /\ \A p \in 1 .. Len(F) : F[p] \in 1 .. N
  BY <1>1, <1>2
<1>5. N <= N1 /\ i \in 1 .. N1
  BY <1>1, <1>4 DEF Taken
<1>6. \A T : T \subseteq 1 .. N1 => \A s \in Seq(T) : s \in Seq(1 .. N1)
  BY SeqMonotonic, Zenon
<1>7. 1 .. N \subseteq 1 .. N1
  BY <1>1, <1>5
<1>8. /\ From(F, 2) \in Seq(1 .. N1)
      /\ Len(From(F, 2)) \in Nat
      /\ Len(F) = 0 => Len(From(F, 2)) = 0
      /\ Len(F) > 0 => Len(From(F, 2)) = Len(F) - 1
      /\ \A p \in 1 .. Len(From(F, 2)) : From(F, 2)[p] = F[p + 1]
  <2> DEFINE n == IF Len(F) > 0 THEN Len(F) - 1 ELSE 0
  <2>1. n \in Nat /\ 1 .. (Len(F) + 1) - 2 = 1 .. n /\ \A p \in 1 .. n : p + 1 \in 1 .. Len(F) /\ (2 - 1) + p = p + 1
    BY <1>4
  <2> HIDE DEF n
  <2>2. From(F, 2) = [p \in 1 .. n |-> F[p + 1]]
    BY <2>1, Zenon DEF From
  <2>3. \A p \in 1 .. n : F[p + 1] \in 1 .. N1
    BY <1>4, <1>7, <2>1
  <2>4. From(F, 2) \in Seq(1 .. N1) /\ Len(From(F, 2)) = n /\ \A p \in 1 .. n : From(F, 2)[p] = F[p + 1]
    <3>1. From(F, 2) \in [1 .. n -> 1 .. N1] /\ \A p \in 1 .. n : From(F, 2)[p] = F[p + 1]
      BY <2>2, <2>3, Zenon
    <3>2. QED
      BY <2>1, <3>1, SeqIs, Zenon
  <2>5. n = IF Len(F) > 0 THEN Len(F) - 1 ELSE 0
    BY DEF n
  <2>6. QED
    BY SMTT(40), <1>4, <2>1, <2>4, <2>5
<1>9. /\ Append(W[id], i) \in Seq(1 .. N1)
      /\ Len(Append(W[id], i)) = Len(W[id]) + 1 /\ Append(W[id], i)[Len(W[id]) + 1] = i
      /\ \A p \in 1 .. Len(W[id]) : Append(W[id], i)[p] = W[id][p]
  <2> DEFINE s == W[id]
  <2>1. s \in Seq(1 .. N1)
    BY <1>1, <1>2, <1>6, <1>7
  <2> HIDE DEF s
  <2>2. /\ Append(s, i) \in Seq(1 .. N1)
        /\ Len(Append(s, i)) = Len(s) + 1 /\ Append(s, i)[Len(s) + 1] = i
        /\ \A p \in 1 .. Len(s) : Append(s, i)[p] = s[p]
    BY <1>5, <2>1
  <2>3. QED
    BY <2>2 DEF s
<1>10. V \in [Keys -> Seq(1 .. N1)]
  <2>1. \A k \in Keys : V[k] \in Seq(1 .. N1)
    BY <1>1, <1>3, <1>6, <1>7, <1>8, <1>9
  <2>2. V = [k \in Keys |-> V[k]]
    BY Zenon DEF Extended
  <2> HIDE DEF V
  <2>3. QED
    BY <2>1, <2>2, Zenon
<1>11. ASSUME NEW k \in Keys, NEW p \in 1 .. Len(W[k]), W[k][p] = i PROVE k = NoKey /\ p = 1
  <2>1. W[k][p] \in 1 .. N
    BY <1>1
  <2>2. Len(F) > 0 /\ i = F[1] /\ 1 \in 1 .. Len(F)
    BY <1>1, <1>4, <1>11, <2>1 DEF Taken
  <2>3. \A q \in 1 .. Len(F) : W[k][p] = F[q] => k = NoKey /\ p = q
    BY <1>2, Zenon DEF Laid, Apart
  <2>4. QED
    BY <1>11, <2>2, <2>3, Zenon
<1>12. QED
  <2> HIDE DEF V, F, N
  <2>1. F = W[NoKey] /\ V = Extended(W, id, i) /\ N = Len(arena)
    BY DEF V, F, N
  <2>2. Extends(V, W, id, i, N, N1)
    BY <1>3, <1>5, <1>8, <1>9, <1>10, <1>11, <2>1, Zenon DEF Extends
  <2>3. QED
    BY <2>1, <2>2, Zenon

(* Linking node i behind the chain of id lays the lists out as Extended. *)
LEMMA LaidExtended ==
    ASSUME NEW arena, NEW W, Laid(arena, W), NEW id \in Ids, NEW i, NEW arena1 \in Seq(Nodes),
           Taken(W[NoKey], Len(arena), i, Len(arena1)),
           arena1[i].next = 0,
           Len(W[id]) > 0 => arena1[W[id][Len(W[id])]].next = i,
           \A j \in 1 .. Len(arena) :
              j # i /\ ~(Len(W[id]) > 0 /\ j = W[id][Len(W[id])]) => arena1[j].next = arena[j].next
    PROVE  Laid(arena1, Extended(W, id, i))
<1> DEFINE N == Len(arena)
           N1 == Len(arena1)
           F == W[NoKey]
           V == Extended(W, id, i)
           n == Len(W[id])
           from(k, p) == IF k = NoKey THEN p + 1 ELSE p
<1>1. N \in Nat /\ \A k \in Keys : W[k] \in Seq(1 .. N) /\ Len(W[k]) \in Nat /\ \A p \in 1 .. Len(W[k]) : W[k][p] \in 1 .. N
  BY LaidFacts
<1>2. NoKey \in Keys /\ id \in Keys /\ id # NoKey /\ N1 \in Nat /\ n \in Nat /\ Len(F) \in Nat
  BY <1>1, NoKeyIs
<1>3. /\ V \in [Keys -> Seq(1 .. N1)] /\ N <= N1 /\ i \in 1 .. N1
      /\ Len(V[id]) = n + 1 /\ V[id][n + 1] = i
      /\ \A p \in 1 .. n : V[id][p] = W[id][p]
      /\ \A k \in Keys : k # NoKey /\ k # id => V[k] = W[k]
      /\ Len(V[NoKey]) \in Nat
      /\ Len(F) = 0 => Len(V[NoKey]) = 0
      /\ Len(F) > 0 => Len(V[NoKey]) = Len(F) - 1
      /\ \A p \in 1 .. Len(V[NoKey]) : V[NoKey][p] = F[p + 1]
      /\ \A k \in Keys : \A p \in 1 .. Len(W[k]) : W[k][p] = i => k = NoKey /\ p = 1
  <2>1. Extends(V, W, id, i, N, N1)
    BY <1>2, ExtendedIs
  <2> HIDE DEF V
  <2>2. QED
    BY <2>1, Zenon DEF Extends
<1>10. /\ n = Len(W[id]) /\ F = W[NoKey] /\ Taken(F, N, i, N1)
       /\ n > 0 => arena1[W[id][n]].next = i
       /\ \A j \in 1 .. N : j # i /\ ~(n > 0 /\ j = W[id][n]) => arena1[j].next = arena[j].next
       /\ \A k, l \in Keys : \A p \in 1 .. Len(W[k]), q \in 1 .. Len(W[l]) : W[k][p] = W[l][q] => k = l /\ p = q
  BY Zenon DEF Laid, Apart
<1>11. \A p \in 1 .. Len(V[NoKey]) : p + 1 \in 1 .. Len(F)
  <2>1. ASSUME NEW p \in 1 .. Len(V[NoKey]) PROVE p + 1 \in 1 .. Len(F)
    <3> DEFINE a == Len(V[NoKey])
               b == Len(F)
    <3>1. a \in Nat /\ b \in Nat /\ (b = 0 => a = 0) /\ (b > 0 => a = b - 1) /\ p \in 1 .. a
      BY <1>2, <1>3, <2>1
    <3> HIDE DEF a, b
    <3>2. p + 1 \in 1 .. b
      BY ONLY <3>1
    <3>3. QED
      BY <3>2 DEF b
  <2>2. QED
    BY <2>1
<1> HIDE DEF V, n, F
<1>4. ASSUME NEW k \in Keys, NEW p \in 1 .. Len(V[k]), ~(k = id /\ p = n + 1)
      PROVE  from(k, p) \in 1 .. Len(W[k]) /\ V[k][p] = W[k][from(k, p)] /\ V[k][p] # i /\ V[k][p] \in 1 .. N
  <2>1. from(k, p) \in 1 .. Len(W[k]) /\ V[k][p] = W[k][from(k, p)]
    <3>1. CASE k = NoKey
      <4>1. p + 1 \in 1 .. Len(F) /\ V[NoKey][p] = F[p + 1]
        BY <1>3, <1>11, <3>1, Zenon
      <4>2. QED
        BY <1>10, <3>1, <4>1
    <3>2. CASE k = id
      <4>1. p \in 1 .. n
        BY <1>2, <1>3, <1>4, <3>2
      <4>2. QED
        BY <1>2, <1>3, <1>10, <3>2, <4>1
    <3>3. CASE k # NoKey /\ k # id
      BY <1>3, <3>3
    <3>4. QED
      BY <3>1, <3>2, <3>3
  <2>2. V[k][p] # i
    <3>1. SUFFICES ASSUME V[k][p] = i PROVE FALSE
      OBVIOUS
    <3>2. k = NoKey /\ from(k, p) = 1
      BY <1>3, <2>1, <3>1
    <3>3. QED
      BY <1>2, <1>3, <3>2
  <2>3. V[k][p] \in 1 .. N
    BY <1>1, <2>1
  <2>4. QED
    BY <2>1, <2>2, <2>3
<1>5. ASSUME NEW k \in Keys, NEW l \in Keys, NEW p \in 1 .. Len(V[k]), NEW q \in 1 .. Len(V[l]), V[k][p] = V[l][q]
      PROVE  k = l /\ p = q
  <2>1. CASE k = id /\ p = n + 1
    <3>1. V[l][q] = i
      BY <1>3, <1>5, <2>1
    <3>2. QED
      BY <1>4, <2>1, <3>1
  <2>2. CASE l = id /\ q = n + 1
    <3>1. V[k][p] = i
      BY <1>3, <1>5, <2>2
    <3>2. QED
      BY <1>4, <2>2, <3>1
  <2>3. CASE ~(k = id /\ p = n + 1) /\ ~(l = id /\ q = n + 1)
    <3>1. /\ from(k, p) \in 1 .. Len(W[k]) /\ V[k][p] = W[k][from(k, p)]
          /\ from(l, q) \in 1 .. Len(W[l]) /\ V[l][q] = W[l][from(l, q)]
      BY <1>4, <2>3
    <3>2. \A a \in 1 .. Len(W[k]), b \in 1 .. Len(W[l]) : W[k][a] = W[l][b] => k = l /\ a = b
      BY <1>10, Zenon
    <3>3. k = l /\ from(k, p) = from(l, q)
      BY <1>5, <3>1, <3>2, Zenon
    <3>4. p \in Int /\ q \in Int
      OBVIOUS
    <3>5. QED
      BY <3>3, <3>4
  <2>4. QED
    BY <2>1, <2>2, <2>3, Zenon
<1>6. ASSUME NEW j \in 1 .. N1
      PROVE  \E k \in Keys : \E p \in 1 .. Len(V[k]) : V[k][p] = j
  <2>1. CASE j = i
    BY SMTT(40), <1>2, <1>3, <2>1
  <2>2. CASE j # i
    <3>1. j \in 1 .. N
      BY <1>1, <1>2, <1>10, <2>2 DEF Taken
    <3>2. PICK k \in Keys : \E p \in 1 .. Len(W[k]) : W[k][p] = j
      BY <3>1, Zenon DEF Laid, Covered
    <3>3. PICK p \in 1 .. Len(W[k]) : W[k][p] = j
      BY <3>2
    <3>4. CASE k = NoKey
      <4>1. p # 1
        <5>1. SUFFICES ASSUME p = 1 PROVE FALSE
          OBVIOUS
        <5>2. F[1] = j /\ Len(F) > 0
          BY <1>2, <1>10, <3>3, <3>4, <5>1
        <5>3. i = F[1]
          BY <1>10, <5>2 DEF Taken
        <5>4. QED
          BY <2>2, <5>2, <5>3
      <4>2. p - 1 \in 1 .. Len(V[NoKey]) /\ (p - 1) + 1 = p
        <5> DEFINE a == Len(V[NoKey])
                   b == Len(F)
        <5>1. a \in Nat /\ b \in Nat /\ (b = 0 => a = 0) /\ (b > 0 => a = b - 1) /\ p \in 1 .. b
          BY <1>2, <1>3, <1>10, <3>4
        <5> HIDE DEF a, b
        <5>2. p - 1 \in 1 .. a /\ (p - 1) + 1 = p
          BY ONLY <4>1, <5>1
        <5>3. QED
          BY <5>2 DEF a
      <4>3. V[NoKey][p - 1] = j
        <5>1. V[NoKey][p - 1] = W[NoKey][(p - 1) + 1]
          BY <1>3, <1>10, <4>2, ZenonT(40)
        <5>2. QED
          BY <3>3, <3>4, <4>2, <5>1, ZenonT(40)
      <4>4. QED
        BY <1>2, <4>2, <4>3
    <3>5. CASE k = id
      <4>1. p \in 1 .. n /\ W[id][p] = j
        BY <1>10, <3>3, <3>5, Zenon
      <4>3. p \in 1 .. n + 1
        BY <1>2, <4>1
      <4>2. QED
        BY <1>2, <1>3, <4>1, <4>3, Zenon
    <3>6. CASE k # NoKey /\ k # id
      BY <1>3, <3>3, <3>6
    <3>7. QED
      BY <3>4, <3>5, <3>6
  <2>3. QED
    BY <2>1, <2>2
<1>7. ASSUME NEW k \in Keys, NEW p \in 1 .. Len(V[k])
      PROVE  arena1[V[k][p]].next = Following(V[k], p)
  <2>1. CASE k = id /\ p = n + 1
    <3>1. V[k][p] = i /\ ~(p < Len(V[k]))
      BY <1>2, <1>3, <2>1
    <3>2. QED
      BY <3>1 DEF Following
  <2>2. CASE ~(k = id /\ p = n + 1)
    <3> DEFINE a == from(k, p)
               j == V[k][p]
    <3>1. a \in 1 .. Len(W[k]) /\ j = W[k][a] /\ j # i /\ j \in 1 .. N
      BY <1>4, <2>2
    <3>2. arena[j].next = Following(W[k], a)
      BY <3>1, Zenon DEF Laid, Linked
    <3>3. CASE n > 0 /\ j = W[id][n]
      <4>1. n \in 1 .. Len(W[id])
        BY <1>2, <1>10, <3>3
      <4>2. k = id /\ a = n
        <5> HIDE DEF a, j
        <5>1. QED
          <6>1. \A b \in 1 .. Len(W[k]), q \in 1 .. Len(W[id]) : W[k][b] = W[id][q] => k = id /\ b = q
            BY <1>2, <1>10, Zenon
          <6>2. W[k][a] = W[id][n]
            BY <3>1, <3>3
          <6>3. QED
            BY <3>1, <4>1, <6>1, <6>2, Zenon
      <4>3. p = n /\ p < Len(V[k]) /\ V[k][p + 1] = i
        <5>1. p = n
          BY <1>2, <4>2
        <5>2. n < n + 1
          BY <1>2
        <5>3. QED
          BY <1>3, <4>2, <5>1, <5>2
      <4>4. QED
        BY <1>10, <3>3, <4>3 DEF Following
    <3>4. CASE ~(n > 0 /\ j = W[id][n])
      <4>1. arena1[j].next = Following(W[k], a)
        BY <1>10, <3>1, <3>2, <3>4
      <4>2. Following(W[k], a) = Following(V[k], p)
        <5>1. CASE k = NoKey
          <6>1. a = p + 1 /\ Len(V[k]) = Len(F) - 1 /\ Len(W[k]) = Len(F)
            <7>1. a = p + 1 /\ Len(W[k]) = Len(F)
              BY <1>10, <5>1
            <7>2. Len(F) > 0
              BY <1>2, <3>1, <7>1
            <7>3. QED
              BY <1>3, <5>1, <7>1, <7>2
          <6>2. p < Len(V[k]) => p + 1 \in 1 .. Len(V[NoKey]) /\ V[k][p + 1] = W[k][a + 1]
            <7>1. ASSUME p < Len(V[k]) PROVE p + 1 \in 1 .. Len(V[NoKey]) /\ V[k][p + 1] = W[k][a + 1]
              <8>1. p + 1 \in 1 .. Len(V[NoKey])
                BY <1>3, <5>1, <7>1
              <8>2. V[NoKey][p + 1] = F[(p + 1) + 1]
                BY <1>3, <8>1, Zenon
              <8>3. QED
                BY <1>10, <5>1, <6>1, <8>1, <8>2, Zenon
            <7>2. QED
              BY <7>1
          <6>3. p < Len(V[k]) <=> a < Len(W[k])
            <7> DEFINE b == Len(F)
            <7>1. b \in Nat /\ a = p + 1 /\ Len(V[k]) = b - 1 /\ Len(W[k]) = b /\ p \in Int
              BY <1>2, <6>1
            <7> HIDE DEF a, b
            <7>2. QED
              BY ONLY <7>1
          <6>4. QED
            BY <6>2, <6>3 DEF Following
        <5>2. CASE k = id
          <6>1. a = p /\ p # n /\ p \in 1 .. n
            BY <1>2, <1>10, <3>1, <3>4, <5>2
          <6>2. p < n /\ p + 1 \in 1 .. n /\ p < Len(V[k])
            <7>1. p < n /\ p + 1 \in 1 .. n /\ p < n + 1
              BY ONLY <1>2, <6>1
            <7>2. QED
              BY <1>3, <5>2, <7>1
          <6>3. V[k][p + 1] = W[k][p + 1]
            BY <1>3, <5>2, <6>2
          <6>4. QED
            BY <1>10, <5>2, <6>1, <6>2, <6>3 DEF Following
        <5>3. CASE k # NoKey /\ k # id
          BY <1>3, <5>3
        <5>4. QED
          BY <5>1, <5>2, <5>3
      <4>3. QED
        BY <4>1, <4>2
    <3>5. QED
      BY <3>3, <3>4
  <2>3. QED
    BY <2>1, <2>2
<1>8. Linked(arena1, V) /\ Apart(V) /\ Covered(arena1, V)
  BY <1>5, <1>6, <1>7 DEF Linked, Apart, Covered
<1>9. QED
  BY <1>3, <1>8 DEF Laid, V

(* The parts and the types of a sound index. *)
LEMMA SoundFacts ==
    ASSUME NEW n \in Nat, NEW y, NEW W, XSound(y, n, W)
    PROVE  /\ y \in IndexType(n)
           /\ Table(y.slots, n) /\ Laid(y.arena, W) /\ Pointed(y.slots, n, W)
           /\ y.free = Following(W[NoKey], 0) /\ y.freeLen = Len(W[NoKey])
           /\ y.liveCount = Cardinality(LiveSlots(y.slots, n))
           /\ y.tombs = Cardinality(DeadSlots(y.slots, n))
           /\ y.slots \in Tables(n) /\ y.arena \in Seq(Nodes) /\ y.free \in Nat /\ y.freeLen \in Nat
           /\ y.liveCount \in Nat /\ y.tombs \in Nat /\ y.cursor \in Nat
<1>1. y \in IndexType(n)
  BY DEF XSound
<1>2. /\ y.slots \in Tables(n) /\ y.arena \in Seq(Nodes) /\ y.free \in Nat /\ y.freeLen \in Nat
      /\ y.liveCount \in Nat /\ y.tombs \in Nat /\ y.cursor \in Nat
  BY <1>1 DEF IndexType
<1>3. QED
  BY <1>1, <1>2, Zenon DEF XSound

(* The index that put inserts into: it has an empty slot. *)
Ready(y) == IF X!Loaded(y) THEN X!Grow(y) ELSE y

(* Rehashed or not, the index stays sound and has an empty slot. *)
LEMMA ReadyIs ==
    ASSUME X!IndexConstants, XHashOK, NEW n \in Nat, NEW y, NEW W, XSound(y, n, W), X!IsPowerOfTwo(n)
    PROVE  \E m \in Nat : /\ X!IsPowerOfTwo(m) /\ XSound(Ready(y), m, W)
                          /\ \E e \in 0 .. m - 1 : Ready(y).slots[e].head = 0
                          /\ Ready(y).arena = y.arena
<1>1. /\ y \in IndexType(n) /\ Table(y.slots, n) /\ Laid(y.arena, W) /\ Pointed(y.slots, n, W)
      /\ y.free = Following(W[NoKey], 0) /\ y.freeLen = Len(W[NoKey])
      /\ y.liveCount = Cardinality(LiveSlots(y.slots, n)) /\ y.tombs = Cardinality(DeadSlots(y.slots, n))
      /\ y.liveCount \in Nat /\ y.tombs \in Nat
  BY SoundFacts
<1>2. X!Size(y.slots) = n
  BY <1>1, TableFacts, XSizeIs
<1>3. CASE ~X!Loaded(y)
  <2>1. Ready(y) = y
    BY <1>3, Zenon DEF Ready
  <2>2. ~((y.liveCount + y.tombs) * 4 >= 3 * n)
    BY <1>2, <1>3, Zenon DEF X!Loaded
  <2>3. y.liveCount + y.tombs < n
    BY <1>1, <2>2
  <2>4. \E e \in 0 .. n - 1 : y.slots[e].head = 0
    BY <1>1, <2>3, XEmptyLeft
  <2>5. QED
    BY <2>1, <2>4, Zenon
<1>4. CASE X!Loaded(y)
  <2> DEFINE m == X!GrowSize(y.liveCount)
  <2>1. m \in Nat /\ X!IsPowerOfTwo(m) /\ 4 * y.liveCount < 3 * m
    BY <1>1, GrowSizeIs
  <2>2. Ready(y) = X!Rehash(y, m)
    BY <1>4, Zenon DEF Ready, X!Grow
  <2> HIDE DEF m
  <2>3. y.liveCount < m
    BY <1>1, <2>1
  <2>4. PICK tab : Rehashed(tab, m, y.slots, n, n) /\ X!Rehash(y, m) = Retabled(y, tab, m)
    <3>1. Cardinality(LiveSlots(y.slots, n)) < m
      BY <1>1, <2>3, Zenon
    <3>2. QED
      BY <1>1, <2>1, <3>1, RehashIs, Zenon
  <2> DEFINE z == Ready(y)
             live == Cardinality(LiveSlots(tab, m))
  <2>5. Table(tab, m) /\ DeadSlots(tab, m) = {}
    BY <2>4 DEF Rehashed
  <2>6. live \in Nat /\ tab \in Tables(m)
    BY <2>1, <2>5, XSlotsFinite DEF Table
  <2>7. z = [y EXCEPT !.slots = tab, !.liveCount = live, !.tombs = 0]
    BY <2>2, <2>4, Zenon DEF Retabled
  <2> HIDE DEF live, z
  <2>8. /\ z \in IndexType(m) /\ z.slots = tab /\ z.arena = y.arena /\ z.free = y.free /\ z.freeLen = y.freeLen
        /\ z.liveCount = live /\ z.tombs = 0
    BY ONLY <1>1, <2>6, <2>7 DEF IndexType
  <2>9. Cardinality(DeadSlots(tab, m)) = 0
    BY <2>5, FS_EmptySet, Zenon
  <2>10. Pointed(tab, m, W)
    <3>1. ASSUME NEW j \in LiveSlots(tab, m)
          PROVE  /\ Len(W[tab[j].id]) > 0 /\ tab[j].head = W[tab[j].id][1]
                 /\ tab[j].tail = W[tab[j].id][Len(W[tab[j].id])]
      <4>1. PICK k \in LiveSlots(y.slots, n) : tab[j] = y.slots[k]
        BY <2>4, Zenon DEF Rehashed
      <4>2. QED
        BY <1>1, <4>1 DEF Pointed
    <3>2. ASSUME NEW id \in Ids, Len(W[id]) > 0
          PROVE  \E j \in LiveSlots(tab, m) : tab[j].id = id
      <4>1. PICK k \in LiveSlots(y.slots, n) : y.slots[k].id = id
        BY <1>1, <3>2 DEF Pointed
      <4>2. k < n
        BY <4>1 DEF LiveSlots
      <4>3. PICK j \in LiveSlots(tab, m) : tab[j] = y.slots[k]
        BY <2>4, <4>2, Zenon DEF Rehashed
      <4>4. QED
        BY <4>1, <4>3, Zenon
    <3>3. QED
      BY <3>1, <3>2, Zenon DEF Pointed
  <2>11. XSound(z, m, W)
    BY <1>1, <2>5, <2>8, <2>9, <2>10, Zenon DEF XSound, live
  <2>12. \E e \in 0 .. m - 1 : tab[e].head = 0
    <3>1. live <= y.liveCount
      <4>1. \A j \in LiveSlots(tab, m) : \E k \in LiveSlots(y.slots, n) : y.slots[k].id = tab[j].id
        BY <2>4, Zenon DEF Rehashed
      <4>2. QED
        BY <1>1, <2>1, <2>5, <4>1, LiveAtMost DEF live
    <3>2. Cardinality(LiveSlots(tab, m)) + Cardinality(DeadSlots(tab, m)) < m
      BY <1>1, <2>1, <2>3, <2>6, <2>9, <3>1 DEF live
    <3>3. QED
      BY <2>1, <2>5, <3>2, XEmptyLeft
  <2>13. QED
    BY <2>1, <2>8, <2>11, <2>12, Zenon DEF z
<1>5. QED
  BY <1>3, <1>4

(* alloc takes the node off the free list, or makes one. *)
LEMMA AllocIs ==
    ASSUME NEW n \in Nat, NEW y, NEW W, XSound(y, n, W), NEW l \in Nodes
    PROVE  /\ X!Alloc(y, l) \in IndexType(n) /\ X!Alloc(y, l).slots = y.slots
           /\ X!Alloc(y, l).liveCount = y.liveCount /\ X!Alloc(y, l).tombs = y.tombs /\ X!Alloc(y, l).cursor = y.cursor
           /\ Taken(W[NoKey], Len(y.arena), X!Allocated(y), Len(X!Alloc(y, l).arena))
           /\ X!Alloc(y, l).arena[X!Allocated(y)] = l
           /\ \A j \in 1 .. Len(y.arena) : j # X!Allocated(y) => X!Alloc(y, l).arena[j] = y.arena[j]
           /\ X!Alloc(y, l).free = Following(From(W[NoKey], 2), 0)
           /\ X!Alloc(y, l).freeLen = Len(From(W[NoKey], 2))
<1> DEFINE a == X!Alloc(y, l)
           i == X!Allocated(y)
           F == W[NoKey]
           N == Len(y.arena)
           G == From(F, 2)
<1>1. /\ y \in IndexType(n) /\ Laid(y.arena, W) /\ y.free = Following(F, 0) /\ y.freeLen = Len(F)
      /\ y.arena \in Seq(Nodes) /\ y.freeLen \in Nat /\ y.free \in Nat
  BY SoundFacts
<1>2. N \in Nat /\ F \in Seq(1 .. N) /\ Len(F) \in Nat /\ \A p \in 1 .. Len(F) : F[p] \in 1 .. N
  BY <1>1, LaidFacts, NoKeyIs
<1>3. CASE Len(F) > 0
  <2>1. y.free = F[1] /\ F[1] \in 1 .. N /\ 1 \in 1 .. Len(F)
    BY <1>1, <1>2, <1>3 DEF Following
  <2>2. y.free # 0 /\ y.free \in 1 .. N
    BY <1>2, <2>1
  <2>3. i = y.free /\ a = [y EXCEPT !.free = y.arena[y.free].next, !.freeLen = @ - 1, !.arena[y.free] = l]
    BY <2>2, Zenon DEF X!Allocated, X!Alloc
  <2> DEFINE b == [y.arena EXCEPT ![y.free] = l]
             nx == y.arena[y.free].next
             fl == y.freeLen - 1
  <2>4. nx = Following(F, 1) /\ nx \in Nat
    <3>1. y.arena[F[1]].next = Following(F, 1)
      BY <1>1, <2>1, NoKeyIs, Zenon DEF Laid, Linked
    <3>2. y.arena[F[1]].next \in Nat
      BY <1>1, <2>1, LaidFacts
    <3>3. QED
      BY <2>1, <3>1, <3>2
  <2>5. b \in Seq(Nodes) /\ Len(b) = N /\ b[y.free] = l /\ \A j \in 1 .. N : j # y.free => b[j] = y.arena[j]
    BY <1>1, <2>2
  <2>6. fl \in Nat /\ fl = Len(F) - 1
    BY <1>1, <1>2, <1>3
  <2>7. a = [y EXCEPT !.free = nx, !.freeLen = fl, !.arena = b]
    BY <2>3, Zenon
  <2> HIDE DEF a, b, nx, fl
  <2>8. /\ a \in IndexType(n) /\ a.slots = y.slots /\ a.liveCount = y.liveCount /\ a.tombs = y.tombs
        /\ a.cursor = y.cursor /\ a.free = nx /\ a.freeLen = fl /\ a.arena = b
    BY ONLY <1>1, <2>4, <2>5, <2>6, <2>7 DEF IndexType
  <2>9. Len(G) = Len(F) - 1 /\ Following(G, 0) = Following(F, 1)
    <3>1. (Len(F) + 1) - 2 = Len(F) - 1 /\ Len(F) - 1 \in Nat
      BY <1>2, <1>3
    <3>2. G = [p \in 1 .. Len(F) - 1 |-> F[(2 - 1) + p]]
      BY <3>1, Zenon DEF From
    <3>3. Len(G) = Len(F) - 1
      BY <3>1, <3>2
    <3>4. 1 < Len(F) => G[1] = F[2]
      BY <1>2, <3>2
    <3> HIDE DEF G
    <3>5. 0 < Len(G) <=> 1 < Len(F)
      BY <1>2, <3>3
    <3>6. QED
      BY <3>3, <3>4, <3>5 DEF Following
  <2>10. Taken(F, N, i, Len(a.arena))
    BY <1>3, <2>1, <2>3, <2>5, <2>8 DEF Taken
  <2> HIDE DEF G, i
  <2>11. QED
    BY <2>3, <2>4, <2>5, <2>6, <2>8, <2>9, <2>10 DEF a, i, G
<1>4. CASE Len(F) = 0
  <2>1. y.free = 0
    BY <1>1, <1>4 DEF Following
  <2>2. i = N + 1 /\ a = [y EXCEPT !.arena = Append(@, l)]
    BY <2>1, Zenon DEF X!Allocated, X!Alloc
  <2> DEFINE b == Append(y.arena, l)
  <2>3. b \in Seq(Nodes) /\ Len(b) = N + 1 /\ b[N + 1] = l /\ \A j \in 1 .. N : b[j] = y.arena[j]
    BY <1>1
  <2>4. a = [y EXCEPT !.arena = b]
    BY <2>2, Zenon
  <2> HIDE DEF a, b
  <2>5. /\ a \in IndexType(n) /\ a.slots = y.slots /\ a.liveCount = y.liveCount /\ a.tombs = y.tombs
        /\ a.cursor = y.cursor /\ a.free = y.free /\ a.freeLen = y.freeLen /\ a.arena = b
    BY ONLY <1>1, <2>3, <2>4 DEF IndexType
  <2>6. Len(G) = 0 /\ Following(G, 0) = 0
    <3>1. G = << >>
      BY <1>4 DEF From
    <3>2. QED
      BY <3>1 DEF Following
  <2>7. Taken(F, N, i, Len(a.arena))
    BY <1>4, <2>2, <2>3, <2>5 DEF Taken
  <2> HIDE DEF G, i
  <2>8. QED
    BY <1>1, <1>4, <2>1, <2>2, <2>3, <2>5, <2>6, <2>7 DEF a, i, G
<1>5. Len(F) > 0 \/ Len(F) = 0
  BY <1>2
<1>6. QED
  BY <1>3, <1>4, <1>5, Zenon

(* put, once there is room. *)
Placing(y, id, l) ==
    LET f == X!FindSlot(y.slots, id)
        s == y.slots[f.slot]
        i == X!Allocated(y)
        z == X!Alloc(y, l)
    IN IF f.found
       THEN [z EXCEPT !.arena[s.tail].next = i, !.slots[f.slot].tail = i]
       ELSE [z EXCEPT !.slots[f.slot] = [id |-> id, head |-> i, tail |-> i],
                      !.tombs = IF s.head = -1 THEN @ - 1 ELSE @,
                      !.liveCount = @ + 1]

(* put is the rehash, if any, and then the insertion. *)
LEMMA PutPlaces ==
    ASSUME NEW y, NEW id, NEW l
    PROVE  X!Put(y, id, l) = Placing(Ready(y), id, l)
BY Zenon DEF X!Put, Placing, Ready

(* Node i of arena1 is loc l, and the other locs are where they were. *)
Took(arena, arena1, i, l) ==
    /\ arena1[i].gen = l.gen /\ arena1[i].off = l.off
    /\ \A j \in 1 .. Len(arena) : j # i => arena1[j].gen = arena[j].gen /\ arena1[j].off = arena[j].off

(* put of a trace that is there: its chain grows. *)
LEMMA PlacedOld ==
    ASSUME X!IndexConstants, XHashOK, NEW n \in Nat \ {0}, NEW y, NEW W, XSound(y, n, W),
           NEW id \in Ids, NEW l \in Nodes, l.next = 0, X!FindSlot(y.slots, id).found
    PROVE  /\ XSound(Placing(y, id, l), n, Extended(W, id, X!Allocated(y)))
           /\ Taken(W[NoKey], Len(y.arena), X!Allocated(y), Len(Placing(y, id, l).arena))
           /\ Took(y.arena, Placing(y, id, l).arena, X!Allocated(y), l)
<1> DEFINE a == X!Alloc(y, l)
           i == X!Allocated(y)
           j == X!FindSlot(y.slots, id).slot
           t == y.slots[j].tail
           N == Len(y.arena)
           V == Extended(W, id, i)
           z == Placing(y, id, l)
           arena1 == [a.arena EXCEPT ![t].next = i]
           slots1 == [a.slots EXCEPT ![j].tail = i]
<1>1. /\ y \in IndexType(n) /\ Table(y.slots, n) /\ Laid(y.arena, W) /\ Pointed(y.slots, n, W)
      /\ y.liveCount = Cardinality(LiveSlots(y.slots, n)) /\ y.tombs = Cardinality(DeadSlots(y.slots, n))
      /\ y.slots \in Tables(n)
  BY SoundFacts
<1>2. j \in LiveSlots(y.slots, n) /\ y.slots[j].id = id
  BY <1>1, XFinds
<1>3. Len(W[id]) > 0 /\ t = W[id][Len(W[id])] /\ y.slots[j].head = W[id][1]
  BY <1>1, <1>2 DEF Pointed
<1>4. N \in Nat /\ Len(W[id]) \in Nat /\ t \in 1 .. N /\ id \in Keys
  BY <1>1, <1>3, LaidFacts, NoKeyIs
<1>5. /\ a \in IndexType(n) /\ a.slots = y.slots
      /\ a.liveCount = y.liveCount /\ a.tombs = y.tombs /\ a.cursor = y.cursor
      /\ Taken(W[NoKey], N, i, Len(a.arena))
      /\ a.arena[i] = l
      /\ \A k \in 1 .. N : k # i => a.arena[k] = y.arena[k]
      /\ a.free = Following(From(W[NoKey], 2), 0)
      /\ a.freeLen = Len(From(W[NoKey], 2))
  BY AllocIs
<1>6. z = [a EXCEPT !.arena[t].next = i, !.slots[j].tail = i]
  BY Zenon DEF Placing
<1> HIDE DEF a, i, j, z
<1>7. a.arena \in Seq(Nodes) /\ Len(a.arena) \in Nat /\ a.slots \in Tables(n)
  BY <1>5 DEF IndexType
<1>8. Extends(V, W, id, i, N, Len(a.arena))
  BY <1>1, <1>5, <1>7, ExtendedIs
<1>9. N <= Len(a.arena) /\ i \in 1 .. Len(a.arena) /\ \A k \in Keys : \A p \in 1 .. Len(W[k]) : W[k][p] = i => k = NoKey /\ p = 1
  BY <1>8, Zenon DEF Extends
<1>10. t # i /\ t \in 1 .. Len(a.arena) /\ id # NoKey
  <2>1. id # NoKey
    BY NoKeyIs
  <2>2. Len(W[id]) \in 1 .. Len(W[id])
    BY <1>3, <1>4
  <2>3. t # i
    BY <1>3, <1>4, <1>9, <2>1, <2>2, Zenon
  <2>4. QED
    BY <1>4, <1>7, <1>9, <2>1, <2>3
<1>11. /\ arena1 \in Seq(Nodes) /\ Len(arena1) = Len(a.arena)
       /\ \A k \in 1 .. Len(a.arena) : k # t => arena1[k] = a.arena[k]
       /\ arena1[t].next = i /\ arena1[t].gen = a.arena[t].gen /\ arena1[t].off = a.arena[t].off
  <2> DEFINE v == [a.arena[t] EXCEPT !.next = i]
             c == a.arena
  <2>1. c[t] \in Nodes /\ i \in Nat
    BY <1>7, <1>9, <1>10
  <2>2. v \in Nodes /\ v.next = i /\ v.gen = c[t].gen /\ v.off = c[t].off
    BY <2>1 DEF Nodes
  <2>3. arena1 = [c EXCEPT ![t] = v]
    BY Zenon
  <2> HIDE DEF v, arena1
  <2>4. c \in Seq(Nodes) /\ t \in 1 .. Len(c)
    BY <1>7, <1>10
  <2>5. arena1 \in Seq(Nodes) /\ Len(arena1) = Len(c) /\ arena1[t] = v /\ \A k \in 1 .. Len(c) : k # t => arena1[k] = c[k]
    <3> HIDE DEF c, t
    <3>1. QED
      BY <2>2, <2>3, <2>4
  <2>6. QED
    BY <2>2, <2>5
<1>12. /\ slots1 \in Tables(n)
       /\ \A k \in 0 .. n - 1 : slots1[k].id = y.slots[k].id /\ slots1[k].head = y.slots[k].head /\ (k # j => slots1[k] = y.slots[k])
       /\ slots1[j].tail = i
  <2> DEFINE v == [y.slots[j] EXCEPT !.tail = i]
  <2>1. j \in 0 .. n - 1 /\ i \in Nat /\ y.slots \in [0 .. n - 1 -> Slots]
    BY <1>1, <1>2, <1>7, <1>9 DEF LiveSlots, Tables
  <2>2. v \in Slots /\ v.id = y.slots[j].id /\ v.head = y.slots[j].head /\ v.tail = i
    BY <2>1 DEF Slots
  <2>3. slots1 = [y.slots EXCEPT ![j] = v]
    BY <1>5, Zenon
  <2> HIDE DEF v, slots1
  <2>4. QED
    BY <2>1, <2>2, <2>3 DEF Tables
<1>13. z = [a EXCEPT !.arena = arena1, !.slots = slots1]
  BY <1>6, Zenon
<1> HIDE DEF arena1, slots1
<1>14. /\ z \in IndexType(n) /\ z.arena = arena1 /\ z.slots = slots1 /\ z.free = a.free /\ z.freeLen = a.freeLen
       /\ z.liveCount = a.liveCount /\ z.tombs = a.tombs /\ z.cursor = a.cursor
  BY ONLY <1>5, <1>11, <1>12, <1>13 DEF IndexType
<1>15. Laid(arena1, V)
  <2>1. arena1[i].next = 0
    BY <1>5, <1>9, <1>10, <1>11
  <2>2. ASSUME NEW k \in 1 .. N, k # i, ~(Len(W[id]) > 0 /\ k = W[id][Len(W[id])])
        PROVE  arena1[k].next = y.arena[k].next
    <3>1. k # t /\ k \in 1 .. Len(a.arena)
      BY <1>3, <1>4, <1>7, <1>9, <2>2
    <3>2. QED
      BY <1>5, <1>11, <2>2, <3>1
  <2>3. Len(W[id]) > 0 => arena1[W[id][Len(W[id])]].next = i
    BY <1>3, <1>11
  <2>4. Taken(W[NoKey], Len(y.arena), i, Len(arena1))
    BY <1>5, <1>11
  <2>5. QED
    BY <1>1, <1>11, <2>1, <2>2, <2>3, <2>4, LaidExtended
<1>16. Table(slots1, n) /\ LiveSlots(slots1, n) = LiveSlots(y.slots, n) /\ DeadSlots(slots1, n) = DeadSlots(y.slots, n)
  <2>1. LiveSlots(slots1, n) = LiveSlots(y.slots, n) /\ DeadSlots(slots1, n) = DeadSlots(y.slots, n)
    BY <1>12 DEF LiveSlots, DeadSlots
  <2>2. \A k \in 0 .. n - 1 :
              /\ slots1[k].id = y.slots[k].id
              /\ slots1[k].head > 0 \/ (slots1[k].head \in {0, -1} /\ slots1[k].tail = 0)
              /\ slots1[k].head > 0 => y.slots[k].head > 0
              /\ y.slots[k].head # 0 => slots1[k].head # 0
    <3>1. \A k \in 0 .. n - 1 : y.slots[k].head > 0 \/ (y.slots[k].head \in {0, -1} /\ y.slots[k].tail = 0)
      BY <1>1 DEF Table
    <3>2. y.slots[j].head > 0
      BY <1>2 DEF LiveSlots
    <3>3. ASSUME NEW k \in 0 .. n - 1
          PROVE  slots1[k].head > 0 \/ (slots1[k].head \in {0, -1} /\ slots1[k].tail = 0)
      <4>1. slots1[k].head = y.slots[k].head /\ (k # j => slots1[k].tail = y.slots[k].tail)
        BY <1>12, Zenon
      <4>2. CASE k = j
        BY <3>2, <4>1, <4>2
      <4>3. CASE k # j
        BY <3>1, <4>1, <4>3, Zenon
      <4>4. QED
        BY <4>2, <4>3
    <3>4. \A k \in 0 .. n - 1 : slots1[k].id = y.slots[k].id /\ slots1[k].head = y.slots[k].head
      BY <1>12, Zenon
    <3>5. QED
      BY <3>3, <3>4, Zenon
  <2>3. Table(slots1, n)
    BY <1>1, <1>12, <2>2, SlotsKept
  <2>4. QED
    BY <2>1, <2>3
<1>17. Pointed(slots1, n, V)
  <2>1. /\ Len(V[id]) = Len(W[id]) + 1 /\ V[id][Len(W[id]) + 1] = i
        /\ \A p \in 1 .. Len(W[id]) : V[id][p] = W[id][p]
        /\ \A k \in Keys : k # NoKey /\ k # id => V[k] = W[k]
    BY <1>8, Zenon DEF Extends
  <2> HIDE DEF V
  <2>2. ASSUME NEW k \in LiveSlots(slots1, n)
        PROVE  /\ Len(V[slots1[k].id]) > 0 /\ slots1[k].head = V[slots1[k].id][1]
               /\ slots1[k].tail = V[slots1[k].id][Len(V[slots1[k].id])]
    <3>1. k \in LiveSlots(y.slots, n) /\ k \in 0 .. n - 1
      BY <1>16 DEF LiveSlots
    <3>2. CASE k = j
      <4>1. slots1[k].id = id /\ slots1[k].head = W[id][1] /\ slots1[k].tail = i
        BY <1>2, <1>3, <1>12, <3>1, <3>2
      <4>2. 1 \in 1 .. Len(W[id]) /\ Len(V[id]) > 0
        BY <1>3, <1>4, <2>1
      <4>3. QED
        BY <2>1, <4>1, <4>2
    <3>3. CASE k # j
      <4>1. slots1[k] = y.slots[k] /\ y.slots[k].id # id /\ y.slots[k].id \in Ids
        BY <1>1, <1>2, <1>12, <3>1, <3>3 DEF Table
      <4>2. V[y.slots[k].id] = W[y.slots[k].id]
        BY <2>1, <4>1, NoKeyIs
      <4>3. QED
        BY <1>1, <3>1, <4>1, <4>2 DEF Pointed
    <3>4. QED
      BY <3>2, <3>3
  <2>3. ASSUME NEW e \in Ids, Len(V[e]) > 0
        PROVE  \E k \in LiveSlots(slots1, n) : slots1[k].id = e
    <3>1. \A k \in LiveSlots(slots1, n) : slots1[k].id = y.slots[k].id
      BY <1>12 DEF LiveSlots
    <3>2. CASE e = id
      BY <1>2, <1>16, <3>1, <3>2, Zenon
    <3>3. CASE e # id
      <4>1. Len(W[e]) > 0
        BY <2>1, <2>3, <3>3, NoKeyIs
      <4>2. PICK k \in LiveSlots(y.slots, n) : y.slots[k].id = e
        BY <1>1, <4>1 DEF Pointed
      <4>3. QED
        BY <1>16, <3>1, <4>2, Zenon
    <3>4. QED
      BY <3>2, <3>3
  <2>4. QED
    BY <2>2, <2>3, Zenon DEF Pointed
<1>18. V[NoKey] = From(W[NoKey], 2)
  BY NoKeyIs, Zenon DEF Extended
<1> HIDE DEF V
<1>19. XSound(z, n, V)
  BY <1>1, <1>5, <1>14, <1>15, <1>16, <1>17, <1>18, Zenon DEF XSound
<1>20. Took(y.arena, arena1, i, l)
  <2>1. arena1[i] = l
    BY <1>5, <1>9, <1>10, <1>11
  <2>2. ASSUME NEW k \in 1 .. N, k # i
        PROVE  arena1[k].gen = y.arena[k].gen /\ arena1[k].off = y.arena[k].off
    <3>1. a.arena[k] = y.arena[k] /\ k \in 1 .. Len(a.arena)
      BY <1>4, <1>5, <1>7, <1>9, <2>2
    <3>2. QED
      BY <1>11, <3>1
  <2>3. QED
    BY <2>1, <2>2 DEF Took
<1>21. QED
  BY <1>5, <1>11, <1>14, <1>19, <1>20, Zenon DEF i, V, z

(* put of a trace that is not: it gets a slot and a chain. *)
LEMMA PlacedNew ==
    ASSUME X!IndexConstants, XHashOK, NEW n \in Nat \ {0}, NEW y, NEW W, XSound(y, n, W),
           NEW id \in Ids, NEW l \in Nodes, l.next = 0, ~X!FindSlot(y.slots, id).found,
           \E e \in 0 .. n - 1 : y.slots[e].head = 0
    PROVE  /\ XSound(Placing(y, id, l), n, Extended(W, id, X!Allocated(y)))
           /\ Taken(W[NoKey], Len(y.arena), X!Allocated(y), Len(Placing(y, id, l).arena))
           /\ Took(y.arena, Placing(y, id, l).arena, X!Allocated(y), l)
<1> DEFINE a == X!Alloc(y, l)
           i == X!Allocated(y)
           j == X!FindSlot(y.slots, id).slot
           N == Len(y.arena)
           V == Extended(W, id, i)
           z == Placing(y, id, l)
           r == [id |-> id, head |-> i, tail |-> i]
           slots1 == [a.slots EXCEPT ![j] = r]
           tombs1 == IF y.slots[j].head = -1 THEN a.tombs - 1 ELSE a.tombs
           live1 == a.liveCount + 1
<1>1. /\ y \in IndexType(n) /\ Table(y.slots, n) /\ Laid(y.arena, W) /\ Pointed(y.slots, n, W)
      /\ y.liveCount = Cardinality(LiveSlots(y.slots, n)) /\ y.tombs = Cardinality(DeadSlots(y.slots, n))
      /\ y.slots \in Tables(n) /\ y.liveCount \in Nat /\ y.tombs \in Nat
  BY SoundFacts
<1>2. /\ j \in 0 .. n - 1 /\ y.slots[j].head \in {0, -1} /\ Got(y.slots, n, id, j)
      /\ \A k \in LiveSlots(y.slots, n) : y.slots[k].id # id
  BY <1>1, XFinds
<1>3. N \in Nat /\ Len(W[id]) = 0 /\ id \in Keys /\ id # NoKey
  <2>1. N \in Nat /\ Len(W[id]) \in Nat /\ id \in Keys /\ id # NoKey
    BY <1>1, LaidFacts, NoKeyIs
  <2>2. ~(Len(W[id]) > 0)
    BY <1>1, <1>2 DEF Pointed
  <2>3. QED
    BY <2>1, <2>2
<1>4. /\ a \in IndexType(n) /\ a.slots = y.slots
      /\ a.liveCount = y.liveCount /\ a.tombs = y.tombs /\ a.cursor = y.cursor
      /\ Taken(W[NoKey], N, i, Len(a.arena))
      /\ a.arena[i] = l
      /\ \A k \in 1 .. N : k # i => a.arena[k] = y.arena[k]
      /\ a.free = Following(From(W[NoKey], 2), 0)
      /\ a.freeLen = Len(From(W[NoKey], 2))
  <2>1. n \in Nat /\ XSound(y, n, W) /\ l \in Nodes
    OBVIOUS
  <2>2. QED
    BY ONLY <2>1, AllocIs
<1>5. z = [a EXCEPT !.slots[j] = r,
                    !.tombs = IF y.slots[j].head = -1 THEN @ - 1 ELSE @,
                    !.liveCount = @ + 1]
  BY Zenon DEF Placing
<1> HIDE DEF a, i, j, z
<1>6. a.arena \in Seq(Nodes) /\ Len(a.arena) \in Nat
  BY <1>4 DEF IndexType
<1>7. Extends(V, W, id, i, N, Len(a.arena))
  BY <1>1, <1>4, <1>6, ExtendedIs
<1>8. /\ i \in 1 .. Len(a.arena) /\ i > 0 /\ i \in Nat
      /\ Len(V[id]) = 1 /\ V[id][1] = i
      /\ \A k \in Keys : k # NoKey /\ k # id => V[k] = W[k]
  <2>1. /\ i \in 1 .. Len(a.arena) /\ Len(V[id]) = Len(W[id]) + 1 /\ V[id][Len(W[id]) + 1] = i
        /\ \A k \in Keys : k # NoKey /\ k # id => V[k] = W[k]
    BY <1>7, Zenon DEF Extends
  <2> HIDE DEF V
  <2>2. QED
    BY <1>3, <1>6, <2>1
<1>9. slots1 \in Tables(n) /\ slots1[j] = r /\ \A k \in 0 .. n - 1 : k # j => slots1[k] = y.slots[k]
  <2>1. r \in Slots
    BY <1>8 DEF Slots
  <2>2. slots1 = [y.slots EXCEPT ![j] = r]
    BY <1>4, Zenon
  <2> HIDE DEF r, slots1
  <2>3. QED
    BY <1>1, <1>2, <2>1, <2>2 DEF Tables
<1>10. r.id = id /\ r.head = i /\ r.tail = i
  OBVIOUS
<1> HIDE DEF r, slots1
<1>11. /\ Table(slots1, n)
       /\ LiveSlots(slots1, n) = LiveSlots(y.slots, n) \cup {j} /\ j \notin LiveSlots(y.slots, n)
       /\ DeadSlots(slots1, n) = DeadSlots(y.slots, n) \ {j}
       /\ y.slots[j].head = -1 <=> j \in DeadSlots(y.slots, n)
  BY <1>1, <1>2, <1>8, <1>9, <1>10, SlotFilled
<1>12. live1 \in Nat /\ live1 = Cardinality(LiveSlots(slots1, n))
  <2>1. Cardinality(LiveSlots(y.slots, n) \cup {j}) = Cardinality(LiveSlots(y.slots, n)) + 1
    BY <1>11, XSlotsFinite, FS_AddElement
  <2>2. QED
    BY <1>1, <1>4, <1>11, <2>1
<1>13. tombs1 \in Nat /\ tombs1 = Cardinality(DeadSlots(slots1, n))
  <2> DEFINE S == DeadSlots(y.slots, n)
             c == Cardinality(S \ {j})
  <2>1. IsFiniteSet(S) /\ IsFiniteSet(S \ {j}) /\ c = IF j \in S THEN Cardinality(S) - 1 ELSE Cardinality(S)
    BY XSlotsFinite, FS_RemoveElement
  <2>2. c \in Nat
    BY <2>1, FS_CardinalityType
  <2>3. Cardinality(DeadSlots(slots1, n)) = c
    BY <1>11
  <2>4. tombs1 = c
    <3>1. a.tombs = Cardinality(S)
      BY <1>1, <1>4
    <3> HIDE DEF c
    <3>2. QED
      BY <1>11, <2>1, <3>1
  <2>5. QED
    BY <2>2, <2>3, <2>4
<1>14. z = [a EXCEPT !.slots = slots1, !.tombs = tombs1, !.liveCount = live1]
  BY <1>5, Zenon DEF slots1
<1> HIDE DEF tombs1, live1
<1>15. /\ z \in IndexType(n) /\ z.arena = a.arena /\ z.slots = slots1 /\ z.free = a.free /\ z.freeLen = a.freeLen
       /\ z.liveCount = live1 /\ z.tombs = tombs1
  BY ONLY <1>4, <1>9, <1>12, <1>13, <1>14 DEF IndexType
<1>16. Laid(a.arena, V)
  <2>1. a.arena[i].next = 0
    BY <1>4
  <2>2. ~(Len(W[id]) > 0)
    BY <1>3
  <2>3. \A k \in 1 .. Len(y.arena) :
            k # i /\ ~(Len(W[id]) > 0 /\ k = W[id][Len(W[id])]) => a.arena[k].next = y.arena[k].next
    BY <1>4
  <2>4. Taken(W[NoKey], Len(y.arena), i, Len(a.arena))
    BY <1>4
  <2>5. QED
    BY <1>1, <1>6, <2>1, <2>2, <2>3, <2>4, LaidExtended
<1>17. Pointed(slots1, n, V)
  <2> HIDE DEF V
  <2>2. ASSUME NEW k \in LiveSlots(slots1, n)
        PROVE  /\ Len(V[slots1[k].id]) > 0 /\ slots1[k].head = V[slots1[k].id][1]
               /\ slots1[k].tail = V[slots1[k].id][Len(V[slots1[k].id])]
    <3>1. CASE k = j
      BY <1>8, <1>9, <1>10, <3>1
    <3>2. CASE k # j
      <4>1. k \in LiveSlots(y.slots, n) /\ k \in 0 .. n - 1
        BY <1>11, <3>2 DEF LiveSlots
      <4>2. slots1[k] = y.slots[k] /\ y.slots[k].id # id /\ y.slots[k].id \in Ids
        BY <1>1, <1>2, <1>9, <3>2, <4>1 DEF Table
      <4>3. V[y.slots[k].id] = W[y.slots[k].id]
        BY <1>8, <4>2, NoKeyIs
      <4>4. QED
        BY <1>1, <4>1, <4>2, <4>3 DEF Pointed
    <3>3. QED
      BY <3>1, <3>2
  <2>3. ASSUME NEW e \in Ids, Len(V[e]) > 0
        PROVE  \E k \in LiveSlots(slots1, n) : slots1[k].id = e
    <3>1. CASE e = id
      BY <1>9, <1>10, <1>11, <3>1
    <3>2. CASE e # id
      <4>1. Len(W[e]) > 0
        BY <1>8, <2>3, <3>2, NoKeyIs
      <4>2. PICK k \in LiveSlots(y.slots, n) : y.slots[k].id = e
        BY <1>1, <4>1 DEF Pointed
      <4>3. k \in LiveSlots(slots1, n) /\ k # j /\ k \in 0 .. n - 1
        BY <1>11, <4>2 DEF LiveSlots
      <4>4. QED
        BY <1>9, <4>2, <4>3, Zenon
    <3>3. QED
      BY <3>1, <3>2
  <2>4. QED
    BY <2>2, <2>3, Zenon DEF Pointed
<1>18. V[NoKey] = From(W[NoKey], 2)
  BY NoKeyIs, Zenon DEF Extended
<1> HIDE DEF V
<1>19. XSound(z, n, V)
  BY <1>4, <1>11, <1>12, <1>13, <1>15, <1>16, <1>17, <1>18, Zenon DEF XSound
<1>20. Took(y.arena, a.arena, i, l)
  BY <1>4 DEF Took
<1>21. QED
  BY <1>4, <1>15, <1>19, <1>20, Zenon DEF i, V, z

(* put: the loc is the last of its trace's chain, all others stay. *)
LEMMA PutSound ==
    ASSUME X!IndexConstants, XHashOK, NEW n \in Nat, NEW y, NEW W, XSound(y, n, W), X!IsPowerOfTwo(n),
           NEW id \in Ids, NEW l \in Nodes, l.next = 0
    PROVE  \E m \in Nat, i \in Nat :
              /\ X!IsPowerOfTwo(m) /\ XSound(X!Put(y, id, l), m, Extended(W, id, i))
              /\ Taken(W[NoKey], Len(y.arena), i, Len(X!Put(y, id, l).arena))
              /\ Took(y.arena, X!Put(y, id, l).arena, i, l)
<1> DEFINE z == Ready(y)
           i == X!Allocated(z)
<1>1. PICK m \in Nat : /\ X!IsPowerOfTwo(m) /\ XSound(z, m, W)
                       /\ \E e \in 0 .. m - 1 : z.slots[e].head = 0
                       /\ z.arena = y.arena
  BY ReadyIs, Zenon
<1> HIDE DEF z
<1>2. m \in Nat \ {0}
  BY <1>1 DEF X!IsPowerOfTwo
<1>3. /\ XSound(Placing(z, id, l), m, Extended(W, id, i))
      /\ Taken(W[NoKey], Len(z.arena), i, Len(Placing(z, id, l).arena))
      /\ Took(z.arena, Placing(z, id, l).arena, i, l)
  BY <1>1, <1>2, PlacedOld, PlacedNew, Zenon
<1>4. X!Put(y, id, l) = Placing(z, id, l)
  BY PutPlaces DEF z
<1>5. i \in Nat
  <2>1. z.free \in Nat /\ Len(z.arena) \in Nat
    BY <1>1, SoundFacts
  <2>2. QED
    BY <2>1 DEF X!Allocated
<1>6. QED
  BY <1>1, <1>3, <1>4, <1>5, Zenon

-----------------------------------------------------------------------------
(* FlattenSeq joins the pieces one after the other. *)
LEMMA XFlattenIsFlat ==
    ASSUME NEW seqs, Len(seqs) \in Nat \ {0}
    PROVE  \E fl : IsFlat(seqs, Len(seqs), fl) /\ X!FlattenSeq(seqs) = fl[Len(seqs)]
<1> DEFINE c == CHOOSE fl : IsFlat(seqs, Len(seqs), fl)
<1>1. IsFlat(seqs, Len(seqs), c)
  BY FlatExists, Zenon
<1>2. Len(seqs) # 0
  OBVIOUS
<1>3. X!FlattenSeq(seqs) = c[Len(seqs)]
  BY <1>2, Zenon DEF X!FlattenSeq, IsFlat
<1>4. QED
  BY <1>1, <1>3, Zenon

(* No pieces join to nothing. *)
LEMMA XFlattenEmpty ==
    ASSUME NEW seqs, seqs = << >>
    PROVE  X!FlattenSeq(seqs) = << >>
<1>1. Len(seqs) = 0
  OBVIOUS
<1>2. QED
  BY <1>1, Zenon DEF X!FlattenSeq

(* s has what the pieces have, each once. *)
Joined(s, T, seqs) ==
    /\ s \in Seq(T)
    /\ \A k \in 1 .. Len(s) : \E i \in 1 .. Len(seqs) : \E j \in 1 .. Len(seqs[i]) : s[k] = seqs[i][j]
    /\ \A i \in 1 .. Len(seqs) : \A j \in 1 .. Len(seqs[i]) : \E k \in 1 .. Len(s) : s[k] = seqs[i][j]
    /\ \A k, l \in 1 .. Len(s) : s[k] = s[l] => k = l

(* Joining pieces that share nothing keeps every element, once. *)
LEMMA FlattenJoins ==
    ASSUME NEW T, NEW seqs \in Seq(Seq(T)),
           \A i, j \in 1 .. Len(seqs) : \A k \in 1 .. Len(seqs[i]), l \in 1 .. Len(seqs[j]) :
              seqs[i][k] = seqs[j][l] => i = j /\ k = l
    PROVE  Joined(X!FlattenSeq(seqs), T, seqs)
<1>1. CASE Len(seqs) = 0
  <2>1. seqs = << >>
    BY <1>1
  <2>2. X!FlattenSeq(seqs) = << >>
    BY <2>1, XFlattenEmpty
  <2>3. QED
    BY <1>1, <2>2 DEF Joined
<1>2. CASE Len(seqs) # 0
  <2> DEFINE R == {e \in T \X T : e[1] # e[2]}
             s == X!FlattenSeq(seqs)
  <2>1. Len(seqs) \in Nat \ {0}
    BY <1>2
  <2>2. PICK fl : IsFlat(seqs, Len(seqs), fl) /\ s = fl[Len(seqs)]
    BY <2>1, XFlattenIsFlat
  <2>3. \A i \in 1 .. Len(seqs) : seqs[i] \in Seq(T) /\ \A k \in 1 .. Len(seqs[i]) : seqs[i][k] \in T
    OBVIOUS
  <2>4. \A i \in 1 .. Len(seqs) : \A k, l \in 1 .. Len(seqs[i]) :
            k < l => <<seqs[i][k], seqs[i][l]>> \in R
    <3>1. ASSUME NEW i \in 1 .. Len(seqs), NEW k \in 1 .. Len(seqs[i]), NEW l \in 1 .. Len(seqs[i]), k < l
          PROVE  <<seqs[i][k], seqs[i][l]>> \in R
      <4>1. k # l
        BY <3>1
      <4>2. seqs[i][k] # seqs[i][l]
        BY <4>1, Zenon
      <4>3. QED
        BY <2>3, <4>2
    <3>2. QED
      BY <3>1
  <2>5. \A i, j \in 1 .. Len(seqs) : i < j =>
            \A k \in 1 .. Len(seqs[i]), l \in 1 .. Len(seqs[j]) : <<seqs[i][k], seqs[j][l]>> \in R
    <3>1. ASSUME NEW i \in 1 .. Len(seqs), NEW j \in 1 .. Len(seqs), i < j,
                 NEW k \in 1 .. Len(seqs[i]), NEW l \in 1 .. Len(seqs[j])
          PROVE  <<seqs[i][k], seqs[j][l]>> \in R
      <4>1. i # j
        BY <3>1
      <4>2. seqs[i][k] # seqs[j][l]
        BY <4>1, Zenon
      <4>3. QED
        BY <2>3, <4>2
    <3>2. QED
      BY <3>1
  <2> HIDE DEF R, s
  <2>6. s \in Seq(T) /\ Made(s, seqs, Len(seqs), R)
    BY <1>2, <2>2, <2>4, <2>5, FlatAscends
  <2>7. \A k, l \in 1 .. Len(s) : s[k] = s[l] => k = l
    <3>1. \A k, l \in 1 .. Len(s) : k < l => <<s[k], s[l]>> \in R
      BY <2>6, Zenon DEF Made
    <3>2. \A k, l \in 1 .. Len(s) : k < l => s[k] # s[l]
      BY <3>1 DEF R
    <3>3. \A k, l \in 1 .. Len(s) : k = l \/ k < l \/ l < k
      BY <2>6
    <3>4. QED
      BY <3>2, <3>3, Zenon
  <2>8. QED
    BY <2>6, <2>7, Zenon DEF Joined, Made, s
<1>3. QED
  BY <1>1, <1>2

(* Less than n steps round n slots come back only if they are none. *)
LEMMA ModApart ==
    ASSUME NEW n \in Nat \ {0}, NEW a \in Int, NEW t \in 0 .. n - 1, (a + t) % n = a % n
    PROVE  t = 0
<1> DEFINE j == a % n
           q == a \div n
<1>1. j \in 0 .. n - 1 /\ q \in Int /\ a = j + q * n
  BY ModOf, Zenon
<1> HIDE DEF j, q
<1>2. CASE j + t < n
  <2>1. j + t \in 0 .. n - 1 /\ a + t \in Int /\ a + t = (j + t) + q * n
    BY <1>1, <1>2
  <2>2. (a + t) % n = j + t
    BY <2>1, <1>1, ModIs
  <2>3. QED
    BY <1>1, <2>2 DEF j
<1>3. CASE j + t >= n
  <2>1. (j + t) - n \in 0 .. n - 1 /\ a + t \in Int /\ q + 1 \in Int
    BY <1>1, <1>3
  <2>2. a + t = ((j + t) - n) + (q + 1) * n
    <3>1. (q + 1) * n = q * n + n /\ q * n \in Int
      BY <1>1
    <3> DEFINE u == q * n
    <3>2. a = j + u /\ (q + 1) * n = u + n /\ u \in Int
      BY <1>1, <3>1
    <3> HIDE DEF u
    <3>3. QED
      BY <1>1, <3>2
  <2>3. (a + t) % n = (j + t) - n
    BY <2>1, <2>2, ModIs, ZenonT(40)
  <2>4. QED
    BY <1>1, <2>3 DEF j
<1>4. QED
  BY <1>1, <1>2, <1>3

-----------------------------------------------------------------------------
(* s backwards, and then t. *)
Behind(s, t) == [p \in 1 .. Len(s) + Len(t) |-> IF p <= Len(s) THEN s[(Len(s) + 1) - p] ELSE t[p - Len(s)]]

IsBehind(u, s, t, T) ==
    /\ u \in Seq(T) /\ Len(u) = Len(s) + Len(t)
    /\ \A p \in 1 .. Len(s) : (Len(s) + 1) - p \in 1 .. Len(s) /\ u[p] = s[(Len(s) + 1) - p]
    /\ \A p \in 1 .. Len(t) : u[Len(s) + p] = t[p]

(* Behind is what IsBehind says of it. *)
LEMMA BehindIs ==
    ASSUME NEW T, NEW s \in Seq(T), NEW t \in Seq(T)
    PROVE  IsBehind(Behind(s, t), s, t, T)
<1> DEFINE a == Len(s)
           b == Len(t)
           u == Behind(s, t)
<1>1. /\ a \in Nat /\ b \in Nat /\ a + b \in Nat
      /\ \A p \in 1 .. a : s[p] \in T
      /\ \A p \in 1 .. b : t[p] \in T
  OBVIOUS
<1>2. u = [p \in 1 .. a + b |-> IF p <= a THEN s[(a + 1) - p] ELSE t[p - a]]
  BY DEF Behind
<1> HIDE DEF a, b, u
<1>3. /\ \A p \in 1 .. a + b : p <= a => (a + 1) - p \in 1 .. a
      /\ \A p \in 1 .. a + b : ~(p <= a) => p - a \in 1 .. b
      /\ \A p \in 1 .. a : p \in 1 .. a + b /\ p <= a
      /\ \A p \in 1 .. b : a + p \in 1 .. a + b /\ ~(a + p <= a) /\ (a + p) - a = p
  BY <1>1
<1>4. u \in [1 .. a + b -> T]
  BY <1>1, <1>2, <1>3, Zenon
<1>5. u \in Seq(T) /\ Len(u) = a + b
  BY <1>1, <1>4, SeqIs
<1>6. \A p \in 1 .. a : (a + 1) - p \in 1 .. a /\ u[p] = s[(a + 1) - p]
  BY <1>2, <1>3, Zenon
<1>7. \A p \in 1 .. b : u[a + p] = t[p]
  <2>1. ASSUME NEW p \in 1 .. b PROVE u[a + p] = t[p]
    <3>1. a + p \in 1 .. a + b /\ ~(a + p <= a) /\ (a + p) - a = p
      BY <1>3
    <3>2. u[a + p] = IF a + p <= a THEN s[(a + 1) - (a + p)] ELSE t[(a + p) - a]
      BY <1>2, <3>1, Zenon
    <3>3. QED
      BY <3>1, <3>2, Zenon
  <2>2. QED
    BY <2>1
<1>8. QED
  BY <1>5, <1>6, <1>7, Zenon DEF a, b, u, IsBehind

(* The lists when the chains of the traces G, nodes, are pushed on the     *)
(* free list.                                                              *)
Freeing(W, G, nodes) ==
    [k \in Keys |-> IF k = NoKey THEN Behind(nodes, W[k]) ELSE IF k \in G THEN << >> ELSE W[k]]

(* Pushing the nodes of the chains in G on the free list empties those. *)
LEMMA LaidFreed ==
    ASSUME NEW arena, NEW W, Laid(arena, W), NEW G \in SUBSET Ids, NEW nodes \in Seq(1 .. Len(arena)),
           \A k, l \in 1 .. Len(nodes) : nodes[k] = nodes[l] => k = l,
           \A k \in 1 .. Len(nodes) : \E id \in G : \E p \in 1 .. Len(W[id]) : nodes[k] = W[id][p],
           \A id \in G : \A p \in 1 .. Len(W[id]) : \E k \in 1 .. Len(nodes) : nodes[k] = W[id][p],
           NEW arena1 \in Seq(Nodes), Len(arena1) = Len(arena),
           \A k \in 1 .. Len(nodes) :
              arena1[nodes[k]].next = IF k = 1 THEN Following(W[NoKey], 0) ELSE nodes[k - 1],
           \A i \in 1 .. Len(arena) :
              (\A k \in 1 .. Len(nodes) : nodes[k] # i) => arena1[i].next = arena[i].next
    PROVE  Laid(arena1, Freeing(W, G, nodes))
<1> DEFINE N == Len(arena)
           m == Len(nodes)
           F == W[NoKey]
           f == Len(F)
           V == Freeing(W, G, nodes)
           B == Behind(nodes, F)
<1>1. N \in Nat /\ \A k \in Keys : W[k] \in Seq(1 .. N) /\ Len(W[k]) \in Nat /\ \A p \in 1 .. Len(W[k]) : W[k][p] \in 1 .. N
  BY LaidFacts
<1>2. NoKey \in Keys /\ NoKey \notin G /\ G \subseteq Keys /\ F \in Seq(1 .. N) /\ f \in Nat /\ m \in Nat
  BY <1>1, NoKeyIs
<1>3. /\ B \in Seq(1 .. N) /\ Len(B) = m + f
      /\ \A p \in 1 .. m : (m + 1) - p \in 1 .. m /\ B[p] = nodes[(m + 1) - p]
      /\ \A p \in 1 .. f : B[m + p] = F[p]
  <2>1. F \in Seq(1 .. N) /\ nodes \in Seq(1 .. N)
    BY <1>2
  <2>2. IsBehind(Behind(nodes, F), nodes, F, 1 .. N)
    BY <2>1, BehindIs, Zenon
  <2>3. QED
    BY <2>2, Zenon DEF IsBehind
<1>4. V[NoKey] = B /\ \A k \in Keys : k # NoKey => V[k] = IF k \in G THEN << >> ELSE W[k]
  BY <1>2, Zenon DEF Freeing
<1>5. /\ \A k, l \in 1 .. m : nodes[k] = nodes[l] => k = l
      /\ \A k \in 1 .. m : \E id \in G : \E p \in 1 .. Len(W[id]) : nodes[k] = W[id][p]
      /\ \A id \in G : \A p \in 1 .. Len(W[id]) : \E k \in 1 .. m : nodes[k] = W[id][p]
      /\ \A k \in 1 .. m : arena1[nodes[k]].next = IF k = 1 THEN Following(F, 0) ELSE nodes[k - 1]
      /\ \A i \in 1 .. N : (\A k \in 1 .. m : nodes[k] # i) => arena1[i].next = arena[i].next
      /\ \A k, l \in Keys : \A p \in 1 .. Len(W[k]), q \in 1 .. Len(W[l]) : W[k][p] = W[l][q] => k = l /\ p = q
      /\ \A k \in Keys : \A p \in 1 .. Len(W[k]) : arena[W[k][p]].next = Following(W[k], p)
      /\ \A i \in 1 .. N : \E k \in Keys : \E p \in 1 .. Len(W[k]) : W[k][p] = i
      /\ f = Len(F) /\ F = W[NoKey]
  BY Zenon DEF Laid, Apart, Linked, Covered
<1>6. V \in [Keys -> Seq(1 .. N)]
  <2>1. \A k \in Keys : V[k] \in Seq(1 .. N)
    <3> HIDE DEF V, B, N
    <3>1. << >> \in Seq(1 .. N)
      OBVIOUS
    <3>2. QED
      BY <1>1, <1>3, <1>4, <3>1, Zenon
  <2>2. V = [k \in Keys |-> V[k]]
    BY Zenon DEF Freeing
  <2> HIDE DEF V
  <2>3. QED
    BY <2>1, <2>2, Zenon
<1> HIDE DEF V, B, F, m, f, N
<1>13. \A k, l \in Keys : \A p \in 1 .. Len(W[k]), q \in 1 .. Len(W[l]) : W[k][p] = W[l][q] => k = l /\ p = q
  BY <1>5
<1>14. \A i \in 1 .. N : (\A k \in 1 .. m : nodes[k] # i) => arena1[i].next = arena[i].next
  BY <1>5
<1>15. \A k \in Keys : \A p \in 1 .. Len(W[k]) : arena[W[k][p]].next = Following(W[k], p)
  BY <1>5
<1>7. ASSUME NEW k \in Keys, k \notin G, NEW p \in 1 .. Len(W[k]), NEW l \in 1 .. m
      PROVE  nodes[l] # W[k][p]
  <2>1. PICK id \in G : \E q \in 1 .. Len(W[id]) : nodes[l] = W[id][q]
    BY <1>5
  <2>2. PICK q \in 1 .. Len(W[id]) : nodes[l] = W[id][q]
    BY <2>1
  <2>3. id \in Keys /\ id # k
    BY <1>2, <1>7
  <2>4. W[id][q] # W[k][p]
    <3>1. \A a \in 1 .. Len(W[id]), b \in 1 .. Len(W[k]) : W[id][a] = W[k][b] => id = k /\ a = b
      BY ONLY <1>7, <1>13, <2>3, Zenon
    <3>2. QED
      BY <2>3, <3>1
  <2>5. QED
    BY <2>2, <2>4
(* Every place of the new lists is one that was pushed or an old one. *)
<1>8. ASSUME NEW k \in Keys, NEW p \in 1 .. Len(V[k])
      PROVE  \/ k = NoKey /\ p \in 1 .. m /\ (m + 1) - p \in 1 .. m /\ V[k][p] = nodes[(m + 1) - p]
             \/ k = NoKey /\ p - m \in 1 .. f /\ V[k][p] = W[k][p - m] /\ ~(p <= m)
             \/ k # NoKey /\ k \notin G /\ p \in 1 .. Len(W[k]) /\ V[k] = W[k]
  <2>1. CASE k = NoKey
    <3>1. p \in 1 .. m + f
      BY <1>3, <1>4, <2>1
    <3>2. CASE p <= m
      <4>1. p \in 1 .. m
        BY <1>2, <3>1, <3>2
      <4>2. QED
        BY <1>3, <1>4, <2>1, <4>1
    <3>3. CASE ~(p <= m)
      <4>1. p - m \in 1 .. f /\ m + (p - m) = p
        BY <1>2, <3>1, <3>3
      <4>2. B[m + (p - m)] = F[p - m]
        BY <1>3, <4>1, Zenon
      <4>3. B[p] = F[p - m]
        BY <4>1, <4>2
      <4>4. QED
        BY <1>4, <1>5, <2>1, <3>3, <4>1, <4>3
    <3>4. QED
      BY <3>2, <3>3
  <2>2. CASE k # NoKey
    <3>1. k \notin G
      <4>1. SUFFICES ASSUME k \in G PROVE FALSE
        OBVIOUS
      <4>2. V[k] = << >>
        BY <1>4, <2>2, <4>1
      <4>3. QED
        BY <4>2
    <3>2. QED
      BY <1>4, <2>2, <3>1
  <2>3. QED
    BY <2>1, <2>2
<1>9. ASSUME NEW k \in Keys, NEW l \in Keys, NEW p \in 1 .. Len(V[k]), NEW q \in 1 .. Len(V[l]), V[k][p] = V[l][q]
      PROVE  k = l /\ p = q
  <2> DEFINE pushed(e, i) == e = NoKey /\ i \in 1 .. m /\ (m + 1) - i \in 1 .. m /\ V[e][i] = nodes[(m + 1) - i]
             old(e, i, a) == e \in Keys /\ e \notin G /\ a \in 1 .. Len(W[e]) /\ V[e][i] = W[e][a]
                               /\ (e = NoKey => a = i - m) /\ (e # NoKey => a = i)
  <2>1. /\ pushed(k, p) \/ \E a \in Int : old(k, p, a)
        /\ pushed(l, q) \/ \E a \in Int : old(l, q, a)
    <3>1. ASSUME NEW e \in Keys, NEW i \in 1 .. Len(V[e]) PROVE pushed(e, i) \/ \E a \in Int : old(e, i, a)
      <4>1. CASE e = NoKey /\ i \in 1 .. m /\ (m + 1) - i \in 1 .. m /\ V[e][i] = nodes[(m + 1) - i]
        BY <4>1
      <4>2. CASE e = NoKey /\ i - m \in 1 .. f /\ V[e][i] = W[e][i - m] /\ ~(i <= m)
        <5>1. i - m \in Int /\ old(e, i, i - m)
          BY <1>2, <1>5, <4>2
        <5>2. QED
          BY <5>1
      <4>3. CASE e # NoKey /\ e \notin G /\ i \in 1 .. Len(W[e]) /\ V[e] = W[e]
        <5>1. i \in Int /\ old(e, i, i)
          BY <4>3
        <5>2. QED
          BY <5>1
      <4>4. QED
        BY <1>8, <4>1, <4>2, <4>3, Zenon
    <3> HIDE DEF pushed, old
    <3>2. QED
      BY <3>1
  <2>2. CASE pushed(k, p) /\ pushed(l, q)
    <3>1. (m + 1) - p = (m + 1) - q /\ p \in Int /\ q \in Int
      BY <1>5, <1>9, <2>2
    <3>2. QED
      BY <1>2, <2>2, <3>1
  <2>3. ASSUME NEW a \in Int, NEW b \in Int, old(k, p, a), old(l, q, b) PROVE k = l /\ p = q
    <3>1. k = l /\ a = b
      <4>1. W[k][a] = W[l][b] /\ a \in 1 .. Len(W[k]) /\ b \in 1 .. Len(W[l])
        BY <1>9, <2>3
      <4>2. QED
        <5>1. \A i \in 1 .. Len(W[k]), j \in 1 .. Len(W[l]) : W[k][i] = W[l][j] => k = l /\ i = j
          BY ONLY <1>9, <1>13, Zenon
        <5>2. QED
          BY ONLY <4>1, <5>1, Zenon
    <3>2. p \in Int /\ q \in Int
      OBVIOUS
    <3>3. QED
      BY <1>2, <2>3, <3>1, <3>2
  <2>4. ASSUME NEW a \in Int, old(k, p, a), pushed(l, q) PROVE FALSE
    <3>1. W[k][a] = nodes[(m + 1) - q] /\ (m + 1) - q \in 1 .. m /\ k \notin G /\ a \in 1 .. Len(W[k])
      BY <1>9, <2>4
    <3>2. \A j \in 1 .. m : nodes[j] # W[k][a]
      BY <1>7, <3>1
    <3>3. QED
      BY ONLY <3>1, <3>2, Zenon
  <2>5. ASSUME NEW a \in Int, old(l, q, a), pushed(k, p) PROVE FALSE
    <3>1. W[l][a] = nodes[(m + 1) - p] /\ (m + 1) - p \in 1 .. m /\ l \notin G /\ a \in 1 .. Len(W[l])
      BY <1>9, <2>5
    <3>2. \A j \in 1 .. m : nodes[j] # W[l][a]
      BY <1>7, <3>1
    <3>3. QED
      BY ONLY <3>1, <3>2, Zenon
  <2> HIDE DEF pushed, old
  <2>6. QED
    BY <2>1, <2>2, <2>3, <2>4, <2>5, Zenon
<1>10. ASSUME NEW i \in 1 .. N
       PROVE  \E k \in Keys : \E p \in 1 .. Len(V[k]) : V[k][p] = i
  <2>1. PICK k \in Keys : \E p \in 1 .. Len(W[k]) : W[k][p] = i
    BY <1>5
  <2>2. PICK p \in 1 .. Len(W[k]) : W[k][p] = i
    BY <2>1
  <2>3. CASE k = NoKey
    <3>1. p \in 1 .. f /\ B[m + p] = i
      BY <1>3, <1>5, <2>2, <2>3
    <3>2. m + p \in 1 .. Len(B)
      BY <1>2, <1>3, <3>1
    <3>3. QED
      BY <1>2, <1>4, <3>1, <3>2
  <2>4. CASE k \in G
    <3>1. PICK l \in 1 .. m : nodes[l] = i
      <4>1. \A a \in 1 .. Len(W[k]) : \E l \in 1 .. m : nodes[l] = W[k][a]
        BY <1>5, <2>4, Zenon
      <4>2. QED
        BY <2>2, <4>1
    <3>2. (m + 1) - l \in 1 .. m /\ (m + 1) - ((m + 1) - l) = l
      BY <1>2
    <3>3. B[(m + 1) - l] = i /\ (m + 1) - l \in 1 .. Len(B)
      <4>1. B[(m + 1) - l] = nodes[(m + 1) - ((m + 1) - l)]
        BY <1>3, <3>2, Zenon
      <4>2. QED
        BY <1>2, <1>3, <3>1, <3>2, <4>1
    <3>4. QED
      BY <1>2, <1>4, <3>3
  <2>5. CASE k # NoKey /\ k \notin G
    BY <1>4, <2>2, <2>5
  <2>6. QED
    BY <2>3, <2>4, <2>5
<1>11. ASSUME NEW k \in Keys, NEW p \in 1 .. Len(V[k])
       PROVE  arena1[V[k][p]].next = Following(V[k], p)
  <2>1. CASE k = NoKey /\ p \in 1 .. m /\ (m + 1) - p \in 1 .. m /\ V[k][p] = nodes[(m + 1) - p]
    <3> DEFINE l == (m + 1) - p
    <3>1. l \in 1 .. m /\ arena1[V[k][p]].next = IF l = 1 THEN Following(F, 0) ELSE nodes[l - 1]
      BY <1>5, <2>1
    <3>2. CASE l = 1
      <4>1. p = m
        BY <1>2, <2>1, <3>2
      <4>2. p < Len(V[k]) <=> 0 < f
        <5>1. Len(V[k]) = m + f
          BY <1>3, <1>4, <2>1
        <5>2. QED
          BY ONLY <1>2, <4>1, <5>1
      <4>3. 0 < f => V[k][p + 1] = F[0 + 1]
        <5>1. 0 < f => 1 \in 1 .. f /\ 0 + 1 = 1
          BY <1>2
        <5>2. QED
          BY <1>3, <1>4, <2>1, <4>1, <5>1, Zenon
      <4>4. QED
        BY <1>5, <3>1, <3>2, <4>2, <4>3, Zenon DEF Following
    <3>3. CASE l # 1
      <4>1. p + 1 \in 1 .. m /\ (m + 1) - (p + 1) = l - 1 /\ p < m + f
        BY <1>2, <2>1, <3>3
      <4>2. V[k][p + 1] = nodes[(m + 1) - (p + 1)]
        BY <1>3, <1>4, <2>1, <4>1, Zenon
      <4>3. p < Len(V[k])
        BY <1>3, <1>4, <2>1, <4>1
      <4> HIDE DEF l
      <4>4. QED
        BY <3>1, <3>3, <4>1, <4>2, <4>3, Zenon DEF Following
    <3>4. QED
      BY <3>2, <3>3
  <2>2. CASE k = NoKey /\ p - m \in 1 .. f /\ V[k][p] = W[k][p - m] /\ ~(p <= m)
    <3> DEFINE a == p - m
    <3>1. a \in 1 .. Len(W[k]) /\ V[k][p] = W[k][a] /\ k \notin G /\ p = m + a /\ a \in 1 .. f
      BY <1>2, <1>5, <2>2
    <3> HIDE DEF a
    <3>2. arena1[W[k][a]].next = Following(W[k], a)
      <4>1. W[k][a] \in 1 .. N /\ \A l \in 1 .. m : nodes[l] # W[k][a]
        BY <1>1, <1>7, <3>1
      <4>2. QED
        BY <1>14, <1>15, <3>1, <4>1, Zenon
    <3>3. p < Len(V[k]) <=> a < Len(W[k])
      BY <1>2, <1>3, <1>4, <1>5, <2>2, <3>1
    <3>4. a < Len(W[k]) => V[k][p + 1] = W[k][a + 1]
      <4>1. a < f => a + 1 \in 1 .. f /\ m + (a + 1) = p + 1
        BY <1>2, <3>1
      <4>2. a < f => B[m + (a + 1)] = F[a + 1]
        BY <1>3, <4>1, Zenon
      <4>3. QED
        BY <1>4, <1>5, <2>2, <4>1, <4>2
    <3>5. QED
      BY <3>1, <3>2, <3>3, <3>4, Zenon DEF Following
  <2>3. CASE k # NoKey /\ k \notin G /\ p \in 1 .. Len(W[k]) /\ V[k] = W[k]
    <3>1. W[k][p] \in 1 .. N /\ \A l \in 1 .. m : nodes[l] # W[k][p]
      BY <1>1, <1>7, <2>3
    <3>2. QED
      <4>1. arena1[W[k][p]].next = arena[W[k][p]].next
        BY <1>14, <3>1, Zenon
      <4>2. arena[W[k][p]].next = Following(W[k], p)
        BY <1>15, <2>3, Zenon
      <4>3. QED
        BY <2>3, <4>1, <4>2
  <2>4. QED
    BY <1>8, <2>1, <2>2, <2>3, Zenon
<1>12. QED
  <2>1. Len(arena1) = N
    BY DEF N
  <2>2. Linked(arena1, V) /\ Apart(V) /\ Covered(arena1, V)
    BY <1>9, <1>10, <1>11, <2>1, Zenon DEF Linked, Apart, Covered
  <2>3. Laid(arena1, V)
    BY <1>6, <2>1, <2>2, Zenon DEF Laid
  <2>4. QED
    BY <2>3, Zenon DEF V

(* The slots a sweep looks at: c of them, from the cursor on, each once. *)
Looked(s, c, cur, n) ==
    /\ DOMAIN s = 1 .. c /\ c <= n /\ c <= SweepChunk /\ (c = n \/ c = SweepChunk)
    /\ \A k \in 1 .. c : s[k] = (cur + (k - 1)) % n /\ s[k] \in 0 .. n - 1
    /\ \A k, l \in 1 .. c : s[k] = s[l] => k = l

(* Swept is what Looked says of it. *)
LEMMA SweptIs ==
    ASSUME X!IndexConstants, NEW n \in Nat \ {0}, NEW y, DOMAIN y.slots = 0 .. n - 1, y.cursor \in Nat
    PROVE  \E c \in Nat : Looked(X!Swept(y), c, y.cursor, n)
<1> DEFINE c == X!Min({SweepChunk, n})
           s == X!Swept(y)
           cur == y.cursor
<1>1. SweepChunk \in Nat \ {0}
  BY DEF X!IndexConstants
<1>2. c \in Nat /\ c <= n /\ c <= SweepChunk /\ (c = n \/ c = SweepChunk)
  <2>1. {SweepChunk, n} \in SUBSET Nat /\ {SweepChunk, n} # {}
    BY <1>1
  <2>2. c \in {SweepChunk, n} /\ \A e \in {SweepChunk, n} : c <= e
    BY <2>1, XLeastOf
  <2> HIDE DEF c
  <2>3. QED
    BY <1>1, <2>2
<1>3. X!Size(y.slots) = n
  BY XSizeIs
<1>4. s = [k \in 1 .. c |-> (cur + k - 1) % n]
  BY <1>3, Zenon DEF X!Swept
<1> HIDE DEF c, s, cur
<1>5. cur \in Nat
  BY DEF cur
<1>6. \A k \in 1 .. c : s[k] = (cur + (k - 1)) % n /\ s[k] \in 0 .. n - 1 /\ cur + (k - 1) \in Int
  <2>1. ASSUME NEW k \in 1 .. c PROVE s[k] = (cur + (k - 1)) % n /\ s[k] \in 0 .. n - 1 /\ cur + (k - 1) \in Int
    <3>1. cur + k - 1 = cur + (k - 1) /\ cur + (k - 1) \in Int
      BY <1>2, <1>5
    <3>2. s[k] = (cur + k - 1) % n
      BY <1>4, Zenon
    <3>3. (cur + (k - 1)) % n \in 0 .. n - 1
      BY <3>1, ModOf, Zenon
    <3>4. QED
      BY <3>1, <3>2, <3>3
  <2>2. QED
    BY <2>1
<1>7. ASSUME NEW k \in 1 .. c, NEW l \in 1 .. c, k <= l, s[k] = s[l] PROVE k = l
  <2> DEFINE t == l - k
             a == cur + (k - 1)
  <2>1. t \in 0 .. n - 1 /\ a \in Int /\ a + t = cur + (l - 1)
    BY <1>2, <1>5, <1>7
  <2>2. (a + t) % n = a % n
    BY <1>6, <1>7, <2>1, Zenon
  <2> HIDE DEF t, a
  <2>3. t = 0
    BY <2>1, <2>2, ModApart
  <2>4. QED
    BY <2>3 DEF t
<1>8. \A k, l \in 1 .. c : s[k] = s[l] => k = l
  <2>1. \A k, l \in 1 .. c : k <= l \/ l <= k
    BY <1>2
  <2>2. QED
    BY <1>7, <2>1, Zenon
<1>9. DOMAIN s = 1 .. c
  BY <1>4
<1>10. QED
  BY <1>2, <1>6, <1>8, <1>9, Zenon DEF Looked, s, cur

(* The nodes are pushed before the one that was first; the locs stay. *)
Pushed(arena, arena1, nodes, first) ==
    /\ arena1 \in Seq(Nodes) /\ Len(arena1) = Len(arena)
    /\ \A k \in 1 .. Len(nodes) : arena1[nodes[k]].next = IF k = 1 THEN first ELSE nodes[k - 1]
    /\ \A i \in 1 .. Len(arena) : /\ arena1[i].gen = arena[i].gen /\ arena1[i].off = arena[i].off
                                  /\ (\A k \in 1 .. Len(nodes) : nodes[k] # i) => arena1[i].next = arena[i].next

Freed(y, arena1, B) == [y EXCEPT !.arena = arena1, !.free = Following(B, 0), !.freeLen = Len(B)]

(* freeChain pushes the nodes and leaves the rest of the index. *)
LEMMA FreeChainIs ==
    ASSUME NEW n \in Nat, NEW y, NEW W, XSound(y, n, W), NEW nodes \in Seq(1 .. Len(y.arena)),
           \A k, l \in 1 .. Len(nodes) : nodes[k] = nodes[l] => k = l
    PROVE  \E arena1 : /\ Pushed(y.arena, arena1, nodes, Following(W[NoKey], 0))
                       /\ X!FreeChain(y, nodes) = Freed(y, arena1, Behind(nodes, W[NoKey]))
<1> DEFINE N == Len(y.arena)
           m == Len(nodes)
           F == W[NoKey]
           B == Behind(nodes, F)
           freed(i) == {k \in 1 .. Len(nodes) : nodes[k] = i}
           arena1 == [i \in DOMAIN y.arena |->
                        IF freed(i) = {} THEN y.arena[i]
                        ELSE [y.arena[i] EXCEPT !.next = X!Below(y, nodes, X!Min(freed(i)))]]
<1>1. /\ Laid(y.arena, W) /\ y.free = Following(F, 0) /\ y.freeLen = Len(F) /\ y.arena \in Seq(Nodes) /\ y.free \in Nat
      /\ y \in IndexType(n)
  BY SoundFacts
<1>2. /\ N \in Nat /\ m \in Nat /\ F \in Seq(1 .. N) /\ Len(F) \in Nat /\ \A p \in 1 .. Len(F) : F[p] \in 1 .. N
      /\ \A k \in 1 .. m : nodes[k] \in 1 .. N
  BY <1>1, LaidFacts, NoKeyIs
<1>3. /\ B \in Seq(1 .. N) /\ Len(B) = m + Len(F)
      /\ \A p \in 1 .. m : (m + 1) - p \in 1 .. m /\ B[p] = nodes[(m + 1) - p]
      /\ \A p \in 1 .. Len(F) : B[m + p] = F[p]
  <2>1. IsBehind(Behind(nodes, F), nodes, F, 1 .. N)
    BY <1>2, BehindIs, Zenon
  <2>2. QED
    BY <2>1, Zenon DEF IsBehind
<1>4. X!FreeChain(y, nodes) =
        [y EXCEPT !.arena = arena1,
                  !.free = IF nodes = << >> THEN @ ELSE X!Last(nodes),
                  !.freeLen = @ + Len(nodes)]
  BY Zenon DEF X!FreeChain
<1>5. (IF nodes = << >> THEN y.free ELSE X!Last(nodes)) = Following(B, 0)
  <2> HIDE DEF B
  <2>1. CASE nodes = << >>
    <3>1. m = 0
      BY <2>1
    <3>2. 0 < Len(F) => B[1] = F[1]
      <4>1. 0 < Len(F) => 1 \in 1 .. Len(F) /\ m + 1 = 1
        BY <1>2, <3>1
      <4>2. QED
        BY <1>3, <4>1, Zenon
    <3>3. 0 < Len(B) <=> 0 < Len(F)
      BY <1>2, <1>3, <3>1
    <3>4. QED
      BY <1>1, <2>1, <3>2, <3>3 DEF Following
  <2>2. CASE nodes # << >>
    <3>1. m # 0
      BY <2>2
    <3>2. 1 \in 1 .. m /\ (m + 1) - 1 = m /\ 0 < m + Len(F)
      BY <1>2, <3>1
    <3>3. B[1] = nodes[m] /\ 0 < Len(B)
      BY <1>3, <3>2
    <3>4. X!Last(nodes) = nodes[m]
      BY Zenon DEF X!Last
    <3>5. QED
      BY <2>2, <3>3, <3>4 DEF Following
  <2>3. QED
    BY <2>1, <2>2, Zenon
<1>6. y.freeLen + Len(nodes) = Len(B)
  BY <1>1, <1>2, <1>3
<1>7. X!FreeChain(y, nodes) = Freed(y, arena1, B)
  <2> HIDE DEF arena1, B
  <2>1. QED
    BY <1>4, <1>5, <1>6, Zenon DEF Freed
<1>8. DOMAIN y.arena = 1 .. N /\ \A i \in 1 .. N : y.arena[i] \in Nodes
  BY <1>1
<1>9. \A k \in 1 .. m : freed(nodes[k]) = {k} /\ X!Min(freed(nodes[k])) = k
  <2>1. ASSUME NEW k \in 1 .. m PROVE freed(nodes[k]) = {k} /\ X!Min(freed(nodes[k])) = k
    <3>1. freed(nodes[k]) = {k}
      BY <2>1
    <3>2. {k} \in SUBSET Nat /\ {k} # {}
      BY <1>2
    <3>3. X!Min({k}) = k
      BY <3>2, XLeastOf
    <3>4. QED
      BY <3>1, <3>3
  <2>2. QED
    BY <2>1
<1>10. ASSUME NEW i \in 1 .. N
       PROVE  /\ (\A k \in 1 .. m : nodes[k] # i) => arena1[i] = y.arena[i]
              /\ \A k \in 1 .. m : nodes[k] = i =>
                    arena1[i] = [y.arena[i] EXCEPT !.next = IF k = 1 THEN Following(F, 0) ELSE nodes[k - 1]]
  <2>1. arena1[i] = IF freed(i) = {} THEN y.arena[i]
                    ELSE [y.arena[i] EXCEPT !.next = X!Below(y, nodes, X!Min(freed(i)))]
    BY <1>8, Zenon
  <2> HIDE DEF arena1
  <2>2. ASSUME \A k \in 1 .. m : nodes[k] # i PROVE arena1[i] = y.arena[i]
    <3>1. freed(i) = {}
      BY <2>2
    <3>2. QED
      BY <2>1, <3>1, Zenon
  <2>3. ASSUME NEW k \in 1 .. m, nodes[k] = i
        PROVE  arena1[i] = [y.arena[i] EXCEPT !.next = IF k = 1 THEN Following(F, 0) ELSE nodes[k - 1]]
    <3>1. freed(i) = {k} /\ X!Min(freed(i)) = k
      BY <1>9, <2>3, Zenon
    <3>2. X!Below(y, nodes, k) = IF k = 1 THEN Following(F, 0) ELSE nodes[k - 1]
      BY <1>1, Zenon DEF X!Below
    <3>3. freed(i) # {}
      BY <3>1, Zenon
    <3> HIDE DEF freed
    <3>4. QED
      BY <2>1, <3>1, <3>2, <3>3, Zenon
  <2>4. QED
    BY <2>2, <2>3
<1>11. ASSUME NEW i \in 1 .. N
       PROVE  /\ arena1[i] \in Nodes /\ arena1[i].gen = y.arena[i].gen /\ arena1[i].off = y.arena[i].off
              /\ (\A k \in 1 .. m : nodes[k] # i) => arena1[i].next = y.arena[i].next
              /\ \A k \in 1 .. m : nodes[k] = i => arena1[i].next = IF k = 1 THEN Following(F, 0) ELSE nodes[k - 1]
  <2>1. y.arena[i] \in Nodes
    BY <1>8
  <2>2. CASE \A k \in 1 .. m : nodes[k] # i
    <3>1. arena1[i] = y.arena[i]
      BY <1>10, <2>2
    <3> HIDE DEF arena1
    <3>2. QED
      BY <2>1, <2>2, <3>1
  <2>3. CASE \E k \in 1 .. m : nodes[k] = i
    <3>1. PICK k \in 1 .. m : nodes[k] = i
      BY <2>3
    <3> DEFINE v == IF k = 1 THEN Following(F, 0) ELSE nodes[k - 1]
    <3>2. v \in Nat
      <4>1. Following(F, 0) \in Nat
        BY <1>1
      <4>2. k # 1 => k - 1 \in 1 .. m
        BY <1>2
      <4>3. k # 1 => nodes[k - 1] \in Nat
        BY <1>2, <4>2
      <4>4. QED
        BY <4>1, <4>3
    <3>3. arena1[i] = [y.arena[i] EXCEPT !.next = v]
      <4> HIDE DEF arena1
      <4>1. \A e \in 1 .. m : nodes[e] = i =>
               arena1[i] = [y.arena[i] EXCEPT !.next = IF e = 1 THEN Following(F, 0) ELSE nodes[e - 1]]
        BY ONLY <1>10
      <4>2. QED
        BY ONLY <3>1, <4>1, Zenon
    <3>4. \A l \in 1 .. m : nodes[l] = i => l = k
      BY <3>1
    <3>6. ASSUME NEW l \in 1 .. m, nodes[l] = i PROVE v = IF l = 1 THEN Following(F, 0) ELSE nodes[l - 1]
      BY <3>4, <3>6, Zenon
    <3> HIDE DEF arena1, v
    <3>5. arena1[i] \in Nodes /\ arena1[i].gen = y.arena[i].gen /\ arena1[i].off = y.arena[i].off /\ arena1[i].next = v
      BY <2>1, <3>2, <3>3 DEF Nodes
    <3>7. QED
      BY <3>1, <3>5, <3>6, Zenon
  <2>4. QED
    BY <2>2, <2>3, Zenon
<1>12. arena1 \in Seq(Nodes) /\ Len(arena1) = N
  <2>1. arena1 = [i \in 1 .. N |-> arena1[i]]
    BY <1>8, Zenon
  <2> HIDE DEF arena1
  <2>2. arena1 \in [1 .. N -> Nodes]
    BY <1>11, <2>1, Zenon
  <2>3. QED
    BY <1>2, <2>2, SeqIs
<1> HIDE DEF arena1
<1>13. \A k \in 1 .. m : arena1[nodes[k]].next = IF k = 1 THEN Following(F, 0) ELSE nodes[k - 1]
  BY <1>2, <1>11, Zenon
<1>14. Pushed(y.arena, arena1, nodes, Following(F, 0))
  BY <1>11, <1>12, <1>13, Zenon DEF Pushed
<1>15. QED
  BY <1>7, <1>14, Zenon

(* The slots that a sweep clears, and the traces they were of. *)
Cleared(y) == {i \in {X!Swept(y)[k] : k \in DOMAIN X!Swept(y)} : X!IsDead(y, i)}
Gone(y)    == {y.slots[i].id : i \in Cleared(y)}

SameLocs(arena, arena1) ==
    /\ Len(arena1) = Len(arena)
    /\ \A i \in 1 .. Len(arena) : arena1[i].gen = arena[i].gen /\ arena1[i].off = arena[i].off

(* A tombstone is not live. *)
LEMMA MinusOne == -1 \in Int /\ ~(-1 > 0)
OBVIOUS

(* The table with tombstones in C. *)
Entombed(slots, C, n) ==
    [i \in 0 .. n - 1 |-> IF i \in C THEN [slots[i] EXCEPT !.head = -1, !.tail = 0] ELSE slots[i]]

AreEntombed(slots1, slots, C, n) ==
    /\ Table(slots1, n)
    /\ LiveSlots(slots1, n) = LiveSlots(slots, n) \ C
    /\ \A j \in 0 .. n - 1 : j \notin C => slots1[j] = slots[j]
    /\ Cardinality(C) \in Nat
    /\ Cardinality(LiveSlots(slots1, n)) = Cardinality(LiveSlots(slots, n)) - Cardinality(C)
    /\ Cardinality(DeadSlots(slots1, n)) = Cardinality(DeadSlots(slots, n)) + Cardinality(C)

(* Tombstones for live slots: every other slot is still found. *)
LEMMA EntombedIs ==
    ASSUME X!IndexConstants, XHashOK, NEW n \in Nat \ {0}, NEW slots, Table(slots, n),
           NEW C \in SUBSET LiveSlots(slots, n)
    PROVE  AreEntombed(Entombed(slots, C, n), slots, C, n)
<1> DEFINE slots1 == Entombed(slots, C, n)
<1>13. slots1 = [i \in 0 .. n - 1 |-> IF i \in C THEN [slots[i] EXCEPT !.head = -1, !.tail = 0] ELSE slots[i]]
  BY DEF Entombed
<1> HIDE DEF slots1
<1>1. /\ DOMAIN slots = 0 .. n - 1
      /\ \A j \in 0 .. n - 1 : /\ slots[j] \in Slots /\ slots[j].head \in Int
                               /\ slots[j].head > 0 \/ (slots[j].head \in {0, -1} /\ slots[j].tail = 0)
  BY TableFacts
<1>2. C \subseteq 0 .. n - 1 /\ \A j \in C : slots[j].head > 0
  BY DEF LiveSlots
<1>3. ASSUME NEW j \in 0 .. n - 1
      PROVE  /\ j \in C => slots1[j] \in Slots /\ slots1[j].id = slots[j].id /\ slots1[j].head = -1 /\ slots1[j].tail = 0
             /\ j \notin C => slots1[j] = slots[j]
  <2>1. CASE j \in C
    <3>1. slots1[j] = [slots[j] EXCEPT !.head = -1, !.tail = 0]
      BY <1>13, <2>1, Zenon
    <3>2. slots[j] \in Slots
      BY <1>1
    <3>3. slots1[j] \in Slots /\ slots1[j].id = slots[j].id /\ slots1[j].head = -1 /\ slots1[j].tail = 0
      <4> DEFINE r == slots[j]
                 v == slots1[j]
      <4>1. r \in Slots /\ v = [r EXCEPT !.head = -1, !.tail = 0] /\ -1 \in Int
        BY ONLY <3>1, <3>2, MinusOne, Zenon
      <4> HIDE DEF r, v
      <4>2. v \in Slots /\ v.id = r.id /\ v.head = -1 /\ v.tail = 0
        BY ONLY <4>1 DEF Slots
      <4>3. QED
        BY ONLY <4>2 DEF r, v
    <3>4. QED
      BY <2>1, <3>3
  <2>2. CASE j \notin C
    BY <1>13, <2>2, Zenon
  <2>3. QED
    BY <2>1, <2>2
<1>4. slots1 \in Tables(n)
  <2>1. slots1 = [j \in 0 .. n - 1 |-> slots1[j]]
    BY <1>13, Zenon
  <2>2. \A j \in 0 .. n - 1 : slots1[j] \in Slots
    <3>1. ASSUME NEW j \in 0 .. n - 1 PROVE slots1[j] \in Slots
      <4>1. CASE j \in C
        BY ONLY <1>3, <3>1, <4>1
      <4>2. CASE j \notin C
        <5>1. slots1[j] = slots[j]
          BY ONLY <1>3, <3>1, <4>2
        <5>2. QED
          BY <1>1, <5>1
      <4>3. QED
        BY <4>1, <4>2
    <3>2. QED
      BY <3>1
  <2>3. QED
    BY ONLY <2>1, <2>2, Zenon DEF Tables
<1>5. ASSUME NEW j \in 0 .. n - 1
      PROVE  /\ slots1[j].id = slots[j].id
             /\ slots1[j].head > 0 \/ (slots1[j].head \in {0, -1} /\ slots1[j].tail = 0)
             /\ slots1[j].head > 0 <=> slots[j].head > 0 /\ j \notin C
             /\ slots[j].head # 0 => slots1[j].head # 0
             /\ slots1[j].head = -1 <=> slots[j].head = -1 \/ j \in C
  <2>1. CASE j \in C
    <3>1. slots1[j].id = slots[j].id /\ slots1[j].head = -1 /\ slots1[j].tail = 0
      BY ONLY <1>3, <1>5, <2>1
    <3>2. QED
      BY ONLY <2>1, <3>1
  <2>2. CASE j \notin C
    <3>1. slots1[j] = slots[j]
      BY ONLY <1>3, <1>5, <2>2
    <3>2. slots[j].head \in Int /\ (slots[j].head > 0 \/ (slots[j].head \in {0, -1} /\ slots[j].tail = 0))
      BY <1>1
    <3>3. QED
      BY ONLY <2>2, <3>1, <3>2
  <2>3. QED
    BY <2>1, <2>2
<1>6. Table(slots1, n)
  <2>1. \A j \in 0 .. n - 1 :
              /\ slots1[j].id = slots[j].id
              /\ slots1[j].head > 0 \/ (slots1[j].head \in {0, -1} /\ slots1[j].tail = 0)
              /\ slots1[j].head > 0 => slots[j].head > 0
              /\ slots[j].head # 0 => slots1[j].head # 0
    BY ONLY <1>5
  <2>2. QED
    BY <1>4, <2>1, SlotsKept
<1>7. LiveSlots(slots1, n) = LiveSlots(slots, n) \ C
  <2>1. \A j \in 0 .. n - 1 : slots1[j].head > 0 <=> slots[j].head > 0 /\ j \notin C
    BY ONLY <1>5
  <2>2. QED
    BY ONLY <2>1, Zenon DEF LiveSlots
<1>8. DeadSlots(slots1, n) = DeadSlots(slots, n) \cup C
  <2>1. \A j \in 0 .. n - 1 : slots1[j].head = -1 <=> slots[j].head = -1 \/ j \in C
    BY ONLY <1>5
  <2>2. QED
    BY ONLY <1>2, <2>1, Zenon DEF DeadSlots
<1>9. /\ IsFiniteSet(LiveSlots(slots, n)) /\ IsFiniteSet(DeadSlots(slots, n)) /\ IsFiniteSet(C)
      /\ Cardinality(C) \in Nat /\ Cardinality(LiveSlots(slots, n)) \in Nat /\ Cardinality(DeadSlots(slots, n)) \in Nat
  <2>1. /\ IsFiniteSet(LiveSlots(slots, n)) /\ IsFiniteSet(DeadSlots(slots, n))
        /\ Cardinality(LiveSlots(slots, n)) \in Nat /\ Cardinality(DeadSlots(slots, n)) \in Nat
    BY XSlotsFinite
  <2>2. IsFiniteSet(C)
    BY <2>1, FS_Subset
  <2>3. QED
    BY <2>1, <2>2, FS_CardinalityType
<1>10. Cardinality(LiveSlots(slots1, n)) = Cardinality(LiveSlots(slots, n)) - Cardinality(C)
  <2> DEFINE S == LiveSlots(slots, n)
  <2>1. Cardinality(S \ C) = Cardinality(S) - Cardinality(S \cap C)
    BY <1>9, FS_Difference
  <2>2. S \cap C = C
    OBVIOUS
  <2>3. QED
    BY <1>7, <2>1, <2>2
<1>11. Cardinality(DeadSlots(slots1, n)) = Cardinality(DeadSlots(slots, n)) + Cardinality(C)
  <2> DEFINE S == DeadSlots(slots, n)
  <2>1. Cardinality(S \cup C) = Cardinality(S) + Cardinality(C) - Cardinality(S \cap C)
    BY <1>9, FS_Union
  <2>2. S \cap C = {}
    <3>1. \A j \in S : slots[j].head = -1
      BY DEF DeadSlots
    <3>2. ~(-1 > 0)
      BY ONLY MinusOne
    <3> HIDE DEF S
    <3>3. \A j \in C : j \notin S
      BY ONLY <1>2, <3>1, <3>2, Zenon
    <3>4. QED
      BY ONLY <3>3, Zenon
  <2>3. Cardinality(S \cap C) = 0
    BY <2>2, FS_EmptySet
  <2>4. Cardinality(S \cup C) = Cardinality(S) + Cardinality(C)
    BY ONLY <1>9, <2>1, <2>3
  <2>5. QED
    BY ONLY <1>8, <2>4, Zenon
<1>12. QED
  <2>1. \A j \in 0 .. n - 1 : j \notin C => slots1[j] = slots[j]
    BY ONLY <1>3
  <2>2. QED
    BY ONLY <1>6, <1>7, <1>9, <1>10, <1>11, <2>1, Zenon DEF AreEntombed, slots1

(* sweep: the chains of the slots it clears are all that goes. *)
SweepDone(z, y, n) ==
    /\ SameLocs(y.arena, z.arena)
    /\ z.cursor = (y.cursor + SweepChunk) % n
    /\ \A j \in LiveSlots(z.slots, n) : j \in LiveSlots(y.slots, n) /\ j \notin Cleared(y) /\ z.slots[j] = y.slots[j]

(* A sweep leaves a sound index. *)
LEMMA SweepSound ==
    ASSUME X!IndexConstants, XHashOK, NEW n \in Nat \ {0}, NEW y, NEW W, XSound(y, n, W)
    PROVE  /\ \E nodes : XSound(X!Sweep(y), n, Freeing(W, Gone(y), nodes))
           /\ SweepDone(X!Sweep(y), y, n)
<1> DEFINE N == Len(y.arena)
           order == X!Swept(y)
           C == Cleared(y)
           G == Gone(y)
           seqs == [k \in DOMAIN order |->
                      IF X!IsDead(y, order[k]) THEN X!Chain(y.arena, y.slots[order[k]].head) ELSE << >>]
           nodes == X!FlattenSeq(seqs)
           slots1 == Entombed(y.slots, C, n)
           z == X!Sweep(y)
           V == Freeing(W, G, nodes)
           B == Behind(nodes, W[NoKey])
<1>1. /\ y \in IndexType(n)
      /\ Table(y.slots, n) /\ Laid(y.arena, W) /\ Pointed(y.slots, n, W)
      /\ y.free = Following(W[NoKey], 0) /\ y.freeLen = Len(W[NoKey])
      /\ y.liveCount = Cardinality(LiveSlots(y.slots, n))
      /\ y.tombs = Cardinality(DeadSlots(y.slots, n))
      /\ y.liveCount \in Nat /\ y.tombs \in Nat /\ y.cursor \in Nat
  BY SoundFacts
<1>2. DOMAIN y.slots = 0 .. n - 1 /\ X!Size(y.slots) = n
  BY <1>1, TableFacts, XSizeIs
<1>3. PICK c \in Nat : Looked(order, c, y.cursor, n)
  BY <1>1, <1>2, SweptIs
<1>4. /\ DOMAIN order = 1 .. c /\ \A k \in 1 .. c : order[k] \in 0 .. n - 1
      /\ \A k, l \in 1 .. c : order[k] = order[l] => k = l
  BY <1>3, Zenon DEF Looked
<1>5. C \subseteq LiveSlots(y.slots, n) /\ \A k \in 1 .. c : X!IsDead(y, order[k]) <=> order[k] \in C
  <2>1. C = {i \in {order[k] : k \in DOMAIN order} : X!IsDead(y, i)}
    BY DEF Cleared
  <2> HIDE DEF C, order
  <2>2. \A i \in C : i \in 0 .. n - 1 /\ X!IsDead(y, i)
    BY <1>4, <2>1, Zenon
  <2>3. \A i \in C : y.slots[i].head > 0
    BY <2>2, Zenon DEF X!IsDead
  <2>4. \A k \in 1 .. c : X!IsDead(y, order[k]) <=> order[k] \in C
    BY <1>4, <2>1, Zenon
  <2>5. QED
    BY <2>2, <2>3, <2>4, Zenon DEF LiveSlots
<1>6. \A i \in C : \E k \in 1 .. c : order[k] = i
  BY <1>4 DEF Cleared
<1>7. G = {y.slots[i].id : i \in C}
  BY DEF Gone
<1>8. N \in Nat /\ \A k \in Keys : W[k] \in Seq(1 .. N) /\ Len(W[k]) \in Nat /\ \A p \in 1 .. Len(W[k]) : W[k][p] \in 1 .. N
  BY <1>1, LaidFacts
<1>9. \A j \in LiveSlots(y.slots, n) :
         /\ y.slots[j].id \in Ids /\ y.slots[j].id \in Keys
         /\ Len(W[y.slots[j].id]) > 0
         /\ X!Chain(y.arena, y.slots[j].head) = W[y.slots[j].id]
  <2>1. ASSUME NEW j \in LiveSlots(y.slots, n)
        PROVE  /\ y.slots[j].id \in Ids /\ y.slots[j].id \in Keys
               /\ Len(W[y.slots[j].id]) > 0
               /\ X!Chain(y.arena, y.slots[j].head) = W[y.slots[j].id]
    <3>1. y.slots[j].id \in Ids
      BY <1>1 DEF Table
    <3>2. Len(W[y.slots[j].id]) > 0 /\ y.slots[j].head = W[y.slots[j].id][1]
      BY <1>1 DEF Pointed
    <3>3. y.slots[j].id \in Keys
      BY <3>1, NoKeyIs
    <3>4. y.slots[j].head = Following(W[y.slots[j].id], 0)
      BY <3>2 DEF Following
    <3>5. \A k \in Keys : X!Chain(y.arena, Following(W[k], 0)) = W[k]
      BY <1>1, ChainIs
    <3>6. X!Chain(y.arena, y.slots[j].head) = W[y.slots[j].id]
      BY ONLY <3>3, <3>4, <3>5, Zenon
    <3>7. QED
      BY <3>1, <3>2, <3>3, <3>6
  <2>2. QED
    BY <2>1
<1>10. \A j, k \in LiveSlots(y.slots, n) : y.slots[j].id = y.slots[k].id => j = k
  BY <1>1 DEF Table
<1>11. /\ DOMAIN seqs = 1 .. c
       /\ \A k \in 1 .. c : seqs[k] = IF order[k] \in C THEN W[y.slots[order[k]].id] ELSE << >>
  <2>1. DOMAIN seqs = 1 .. c
    BY <1>4, Zenon
  <2>2. ASSUME NEW k \in 1 .. c PROVE seqs[k] = IF order[k] \in C THEN W[y.slots[order[k]].id] ELSE << >>
    <3>1. seqs[k] = IF X!IsDead(y, order[k]) THEN X!Chain(y.arena, y.slots[order[k]].head) ELSE << >>
      BY <1>4, Zenon
    <3> HIDE DEF seqs, C, order
    <3>2. CASE order[k] \in C
      BY <1>5, <1>9, <3>1, <3>2, Zenon
    <3>3. CASE order[k] \notin C
      BY <1>5, <3>1, <3>3, Zenon
    <3>4. QED
      BY <3>2, <3>3
  <2>3. QED
    BY <2>1, <2>2
<1>12. seqs = [k \in 1 .. c |-> seqs[k]]
  BY <1>4, Zenon
<1> HIDE DEF seqs, C, order, G
<1>13. seqs \in Seq(Seq(1 .. N)) /\ Len(seqs) = c
  <2>1. \A k \in 1 .. c : seqs[k] \in Seq(1 .. N)
    <3>1. << >> \in Seq(1 .. N)
      OBVIOUS
    <3>2. \A k \in 1 .. c : order[k] \in C => W[y.slots[order[k]].id] \in Seq(1 .. N)
      BY <1>5, <1>8, <1>9, Zenon
    <3>3. QED
      BY <1>11, <3>1, <3>2, Zenon
  <2>2. seqs \in [1 .. c -> Seq(1 .. N)]
    BY <1>12, <2>1, Zenon
  <2>3. QED
    BY <2>2, SeqIs, Zenon
<1>14. ASSUME NEW k \in 1 .. c, NEW p \in 1 .. Len(seqs[k])
       PROVE  /\ order[k] \in C /\ order[k] \in LiveSlots(y.slots, n)
              /\ y.slots[order[k]].id \in Keys /\ seqs[k] = W[y.slots[order[k]].id]
  <2>1. order[k] \in C
    <3>1. SUFFICES ASSUME order[k] \notin C PROVE FALSE
      OBVIOUS
    <3>2. seqs[k] = << >>
      BY <1>11, <3>1
    <3>3. QED
      BY <1>14, <3>2
  <2>2. QED
    BY <1>5, <1>9, <1>11, <2>1, Zenon
<1>15. ASSUME NEW k \in 1 .. c, NEW l \in 1 .. c, NEW p \in 1 .. Len(seqs[k]), NEW q \in 1 .. Len(seqs[l]),
              seqs[k][p] = seqs[l][q]
       PROVE  k = l /\ p = q
  <2> DEFINE a == y.slots[order[k]].id
             b == y.slots[order[l]].id
  <2>1. a \in Keys /\ b \in Keys /\ seqs[k] = W[a] /\ seqs[l] = W[b] /\ order[k] \in LiveSlots(y.slots, n) /\ order[l] \in LiveSlots(y.slots, n)
    BY <1>14
  <2>2. (a = b => order[k] = order[l]) /\ (order[k] = order[l] => k = l)
    BY <1>4, <1>10, <2>1, Zenon
  <2> HIDE DEF a, b
  <2>3. \A i \in 1 .. Len(W[a]), j \in 1 .. Len(W[b]) : W[a][i] = W[b][j] => a = b /\ i = j
    BY <1>1, <2>1, Zenon DEF Laid, Apart
  <2>4. a = b /\ p = q
    BY ONLY <1>15, <2>1, <2>3, Zenon
  <2>5. QED
    BY ONLY <2>2, <2>4, Zenon
<1>16. Joined(nodes, 1 .. N, seqs)
  <2>1. \A i, j \in 1 .. Len(seqs) : \A k \in 1 .. Len(seqs[i]), l \in 1 .. Len(seqs[j]) :
              seqs[i][k] = seqs[j][l] => i = j /\ k = l
    BY ONLY <1>13, <1>15, Zenon
  <2>2. QED
    BY <1>13, <2>1, FlattenJoins, Zenon
<1> HIDE DEF nodes
<1>17. /\ nodes \in Seq(1 .. N)
       /\ \A k, l \in 1 .. Len(nodes) : nodes[k] = nodes[l] => k = l
       /\ \A k \in 1 .. Len(nodes) : \E i \in 1 .. c : \E j \in 1 .. Len(seqs[i]) : nodes[k] = seqs[i][j]
       /\ \A i \in 1 .. c : \A j \in 1 .. Len(seqs[i]) : \E k \in 1 .. Len(nodes) : nodes[k] = seqs[i][j]
  BY <1>13, <1>16, Zenon DEF Joined
<1>18. G \in SUBSET Ids
  BY <1>5, <1>7, <1>9
<1>19. ASSUME NEW k \in 1 .. Len(nodes) PROVE \E id \in G : \E p \in 1 .. Len(W[id]) : nodes[k] = W[id][p]
  <2>1. PICK i \in 1 .. c : \E j \in 1 .. Len(seqs[i]) : nodes[k] = seqs[i][j]
    BY <1>17
  <2>2. PICK j \in 1 .. Len(seqs[i]) : nodes[k] = seqs[i][j]
    BY <2>1
  <2>3. order[i] \in C /\ seqs[i] = W[y.slots[order[i]].id]
    BY <1>14
  <2>4. y.slots[order[i]].id \in G
    BY <1>7, <2>3, Zenon
  <2>5. QED
    BY <2>2, <2>3, <2>4, Zenon
<1>20. ASSUME NEW id \in G, NEW p \in 1 .. Len(W[id]) PROVE \E k \in 1 .. Len(nodes) : nodes[k] = W[id][p]
  <2>1. PICK i \in C : y.slots[i].id = id
    BY <1>7, Zenon
  <2>2. PICK k \in 1 .. c : order[k] = i
    BY <1>6, <2>1
  <2>3. seqs[k] = W[id]
    BY <1>11, <2>1, <2>2, Zenon
  <2>4. \A j \in 1 .. Len(seqs[k]) : \E l \in 1 .. Len(nodes) : nodes[l] = seqs[k][j]
    BY <1>17, Zenon
  <2>5. QED
    BY ONLY <1>20, <2>3, <2>4, Zenon
<1>21. PICK arena1 : /\ Pushed(y.arena, arena1, nodes, Following(W[NoKey], 0))
                     /\ X!FreeChain(y, nodes) = Freed(y, arena1, B)
  <2>1. /\ n \in Nat /\ XSound(y, n, W) /\ nodes \in Seq(1 .. Len(y.arena))
        /\ \A k, l \in 1 .. Len(nodes) : nodes[k] = nodes[l] => k = l
    BY <1>17
  <2>2. QED
    BY ONLY <2>1, FreeChainIs
<1>22. Laid(arena1, V)
  <2>1. /\ arena1 \in Seq(Nodes) /\ Len(arena1) = Len(y.arena)
        /\ \A k \in 1 .. Len(nodes) : arena1[nodes[k]].next = IF k = 1 THEN Following(W[NoKey], 0) ELSE nodes[k - 1]
        /\ \A i \in 1 .. Len(y.arena) :
              (\A k \in 1 .. Len(nodes) : nodes[k] # i) => arena1[i].next = y.arena[i].next
    BY <1>21, Zenon DEF Pushed
  <2>2. QED
    BY <1>1, <1>17, <1>18, <1>19, <1>20, <2>1, LaidFreed
<1>23. /\ Table(slots1, n)
       /\ LiveSlots(slots1, n) = LiveSlots(y.slots, n) \ C
       /\ \A j \in 0 .. n - 1 : j \notin C => slots1[j] = y.slots[j]
       /\ Cardinality(C) \in Nat
       /\ Cardinality(LiveSlots(slots1, n)) = Cardinality(LiveSlots(y.slots, n)) - Cardinality(C)
       /\ Cardinality(DeadSlots(slots1, n)) = Cardinality(DeadSlots(y.slots, n)) + Cardinality(C)
  <2>1. C \in SUBSET LiveSlots(y.slots, n)
    BY <1>5
  <2>2. AreEntombed(slots1, y.slots, C, n)
    BY <1>1, <2>1, EntombedIs, Zenon
  <2>3. QED
    BY <2>2, Zenon DEF AreEntombed
<1>24. z = [Freed(y, arena1, B) EXCEPT
              !.slots = [i \in DOMAIN @ |-> IF i \in C THEN [@[i] EXCEPT !.head = -1, !.tail = 0] ELSE @[i]],
              !.liveCount = @ - Cardinality(C),
              !.tombs = @ + Cardinality(C),
              !.cursor = X!Advanced(y)]
  <2>1. X!Cardinality(C) = Cardinality(C)
    BY XSameCardinality
  <2>2. QED
    BY <1>21, <2>1, Zenon DEF X!Sweep, nodes, seqs, C, order, Cleared
<1> DEFINE live1 == y.liveCount - Cardinality(C)
           tombs1 == y.tombs + Cardinality(C)
           cur1 == (y.cursor + SweepChunk) % n
           f1 == Following(B, 0)
           l1 == Len(B)
           g == Freed(y, arena1, B)
<1>25. live1 \in Nat /\ tombs1 \in Nat /\ cur1 \in Nat
  <2>1. Cardinality(LiveSlots(slots1, n)) \in Nat
    <3> HIDE DEF slots1
    <3>1. QED
      BY XSlotsFinite
  <2>2. SweepChunk \in Nat
    BY DEF X!IndexConstants
  <2>3. y.cursor + SweepChunk \in Int
    BY <1>1, <2>2
  <2>4. cur1 \in 0 .. n - 1
    BY <2>3, ModOf, Zenon
  <2> HIDE DEF slots1, cur1
  <2>5. QED
    BY <1>1, <1>23, <2>1, <2>4
<1>26. f1 \in Nat /\ l1 \in Nat /\ B = V[NoKey] /\ arena1 \in Seq(Nodes)
  <2>1. B = V[NoKey]
    BY NoKeyIs, Zenon DEF Freeing
  <2>2. V[NoKey] \in Seq(1 .. Len(arena1)) /\ Len(V[NoKey]) \in Nat /\ arena1 \in Seq(Nodes) /\ \A p \in 1 .. Len(V[NoKey]) : V[NoKey][p] \in 1 .. Len(arena1)
    <3> HIDE DEF V
    <3>1. QED
      BY <1>22, LaidFacts, NoKeyIs
  <2> HIDE DEF B, V
  <2>3. f1 \in Nat
    BY <2>1, <2>2 DEF Following
  <2>4. QED
    BY <2>1, <2>2, <2>3
<1>27. g = [y EXCEPT !.arena = arena1, !.free = f1, !.freeLen = l1]
  BY Zenon DEF Freed
<1> HIDE DEF g, f1, l1
<1>28. /\ g \in IndexType(n) /\ g.arena = arena1 /\ g.free = f1 /\ g.freeLen = l1 /\ g.slots = y.slots
       /\ g.liveCount = y.liveCount /\ g.tombs = y.tombs
  BY ONLY <1>1, <1>26, <1>27 DEF IndexType
<1>29. z = [g EXCEPT !.slots = slots1, !.liveCount = live1, !.tombs = tombs1, !.cursor = cur1]
  <2>1. X!Advanced(y) = cur1
    BY <1>2, Zenon DEF X!Advanced
  <2>2. slots1 = [i \in DOMAIN g.slots |-> IF i \in C THEN [g.slots[i] EXCEPT !.head = -1, !.tail = 0] ELSE g.slots[i]]
    BY <1>2, <1>28, Zenon DEF Entombed
  <2>3. z = [g EXCEPT
              !.slots = [i \in DOMAIN @ |-> IF i \in C THEN [@[i] EXCEPT !.head = -1, !.tail = 0] ELSE @[i]],
              !.liveCount = @ - Cardinality(C),
              !.tombs = @ + Cardinality(C),
              !.cursor = X!Advanced(y)]
    BY <1>24, Zenon DEF g
  <2> HIDE DEF slots1, z, cur1
  <2>4. QED
    BY <1>28, <2>1, <2>2, <2>3, Zenon
<1> HIDE DEF z, slots1, live1, tombs1, cur1
<1>30. slots1 \in Tables(n)
  BY <1>23 DEF Table
<1>31. /\ z \in IndexType(n) /\ z.arena = arena1 /\ z.free = f1 /\ z.freeLen = l1 /\ z.slots = slots1
       /\ z.liveCount = live1 /\ z.tombs = tombs1 /\ z.cursor = cur1
  BY ONLY <1>25, <1>28, <1>29, <1>30 DEF IndexType
<1>32. \A k \in Ids : V[k] = IF k \in G THEN << >> ELSE W[k]
  BY NoKeyIs, Zenon DEF Freeing
<1> HIDE DEF V, B
<1>33. Pointed(slots1, n, V)
  <2>1. ASSUME NEW j \in LiveSlots(slots1, n)
        PROVE  /\ Len(V[slots1[j].id]) > 0 /\ slots1[j].head = V[slots1[j].id][1]
               /\ slots1[j].tail = V[slots1[j].id][Len(V[slots1[j].id])]
    <3>1. j \in LiveSlots(y.slots, n) /\ j \notin C /\ j \in 0 .. n - 1
      BY <1>23 DEF LiveSlots
    <3>2. slots1[j] = y.slots[j] /\ y.slots[j].id \in Ids
      BY <1>9, <1>23, <3>1
    <3>3. y.slots[j].id \notin G
      <4>1. SUFFICES ASSUME y.slots[j].id \in G PROVE FALSE
        OBVIOUS
      <4>2. PICK i \in C : y.slots[i].id = y.slots[j].id
        BY <1>7, <4>1, Zenon
      <4>3. i = j
        BY <1>5, <1>10, <3>1, <4>2
      <4>4. QED
        BY <3>1, <4>3
    <3>4. V[y.slots[j].id] = W[y.slots[j].id]
      BY <1>32, <3>2, <3>3, Zenon
    <3>5. /\ Len(W[y.slots[j].id]) > 0 /\ y.slots[j].head = W[y.slots[j].id][1]
          /\ y.slots[j].tail = W[y.slots[j].id][Len(W[y.slots[j].id])]
      BY <1>1, <3>1, Zenon DEF Pointed
    <3>6. QED
      BY <3>2, <3>4, <3>5, Zenon
  <2>2. ASSUME NEW id \in Ids, Len(V[id]) > 0
        PROVE  \E j \in LiveSlots(slots1, n) : slots1[j].id = id
    <3>1. id \notin G
      <4>1. SUFFICES ASSUME id \in G PROVE FALSE
        OBVIOUS
      <4>2. V[id] = << >>
        BY <1>32, <4>1, Zenon
      <4>3. QED
        BY <2>2, <4>2
    <3>2. Len(W[id]) > 0
      BY <1>32, <2>2, <3>1
    <3>3. PICK j \in LiveSlots(y.slots, n) : y.slots[j].id = id
      BY <1>1, <3>2, Zenon DEF Pointed
    <3>4. j \notin C
      BY <1>7, <3>1, <3>3, Zenon
    <3>5. j \in 0 .. n - 1
      BY <3>3 DEF LiveSlots
    <3>6. QED
      BY <1>23, <3>3, <3>4, <3>5, Zenon
  <2>3. QED
    BY <2>1, <2>2, Zenon DEF Pointed
<1>34. live1 = Cardinality(LiveSlots(slots1, n)) /\ tombs1 = Cardinality(DeadSlots(slots1, n))
  BY <1>1, <1>23 DEF live1, tombs1
<1>35. XSound(z, n, V)
  BY <1>22, <1>23, <1>26, <1>31, <1>33, <1>34, Zenon DEF XSound, f1, l1
<1>36. SweepDone(z, y, n)
  <2>1. SameLocs(y.arena, arena1)
    BY <1>21, Zenon DEF Pushed, SameLocs
  <2>2. \A j \in LiveSlots(slots1, n) : j \in LiveSlots(y.slots, n) /\ j \notin C /\ slots1[j] = y.slots[j]
    BY <1>23 DEF LiveSlots
  <2>3. QED
    BY <1>31, <2>1, <2>2, Zenon DEF SweepDone, C, cur1
<1>37. QED
  BY <1>35, <1>36, Zenon DEF z, V, G

-----------------------------------------------------------------------------
(* Where compact puts a node, and the lists when only kept is kept. *)
Place(kept, i) == CHOOSE k \in 1 .. Len(kept) : kept[k] = i

Moving(W, kept) ==
    [k \in Keys |-> IF k = NoKey THEN << >> ELSE [p \in 1 .. Len(W[k]) |-> Place(kept, W[k][p])]]

(* The chain of id in V has the locs it has in W. *)
SameChain(arena, W, arena1, V, id) ==
    /\ Len(V[id]) = Len(W[id])
    /\ \A p \in 1 .. Len(W[id]) : arena1[V[id][p]].gen = arena[W[id][p]].gen /\ arena1[V[id][p]].off = arena[W[id][p]].off

(* kept has every node of the chains once, and no other. *)
Keeps(kept, arena, W) ==
    /\ kept \in Seq(1 .. Len(arena))
    /\ \A k, l \in 1 .. Len(kept) : kept[k] = kept[l] => k = l
    /\ \A k \in 1 .. Len(kept) : \E id \in Ids : \E p \in 1 .. Len(W[id]) : kept[k] = W[id][p]
    /\ \A id \in Ids : \A p \in 1 .. Len(W[id]) : \E k \in 1 .. Len(kept) : kept[k] = W[id][p]

Shifts(arena1, arena, kept) ==
    /\ arena1 \in Seq(Nodes) /\ Len(arena1) = Len(kept)
    /\ \A k \in 1 .. Len(kept) : /\ arena1[k].next = X!Moved(kept, arena[kept[k]].next)
                                  /\ arena1[k].gen = arena[kept[k]].gen /\ arena1[k].off = arena[kept[k]].off

MovesAll(V, W, kept) == \A id \in Ids : \A p \in 1 .. Len(W[id]) : X!Moved(kept, W[id][p]) = V[id][p]

(* Moving the kept nodes to the front lays out the same chains. *)
LEMMA LaidMoved ==
    ASSUME NEW arena, NEW W, Laid(arena, W), NEW kept, Keeps(kept, arena, W), NEW arena1, Shifts(arena1, arena, kept)
    PROVE  /\ Laid(arena1, Moving(W, kept)) /\ MovesAll(Moving(W, kept), W, kept)
           /\ \A id \in Ids : SameChain(arena, W, arena1, Moving(W, kept), id)
<1> DEFINE N == Len(arena)
           M == Len(kept)
           V == Moving(W, kept)
<1>18. /\ kept \in Seq(1 .. N)
       /\ \A k, l \in 1 .. M : kept[k] = kept[l] => k = l
       /\ \A k \in 1 .. M : \E id \in Ids : \E p \in 1 .. Len(W[id]) : kept[k] = W[id][p]
       /\ \A id \in Ids : \A p \in 1 .. Len(W[id]) : \E k \in 1 .. M : kept[k] = W[id][p]
       /\ arena1 \in Seq(Nodes) /\ Len(arena1) = M
  BY Zenon DEF Keeps, Shifts
<1>1. N \in Nat /\ M \in Nat /\ \A k \in Keys : W[k] \in Seq(1 .. N) /\ Len(W[k]) \in Nat /\ \A p \in 1 .. Len(W[k]) : W[k][p] \in 1 .. N
  BY <1>18, LaidFacts
<1>2. NoKey \in Keys /\ \A k \in Keys : k = NoKey \/ (k # NoKey /\ k \in Ids)
  BY NoKeyIs DEF Keys
<1>3. Ids \subseteq Keys /\ \A id \in Ids : id # NoKey
  BY NoKeyIs
<1>4. ASSUME NEW id \in Ids, NEW p \in 1 .. Len(W[id])
      PROVE  Place(kept, W[id][p]) \in 1 .. M /\ kept[Place(kept, W[id][p])] = W[id][p]
  <2>1. \E k \in 1 .. M : kept[k] = W[id][p]
    BY <1>18
  <2>2. QED
    BY <2>1, Zenon DEF Place
<1>5. ASSUME NEW id \in Ids
      PROVE  /\ V[id] \in Seq(1 .. M) /\ Len(V[id]) = Len(W[id])
             /\ \A p \in 1 .. Len(W[id]) : /\ V[id][p] = Place(kept, W[id][p])
                                           /\ V[id][p] \in 1 .. M /\ kept[V[id][p]] = W[id][p]
  <2> DEFINE s == V[id]
             m == Len(W[id])
  <2>1. s = [p \in 1 .. m |-> Place(kept, W[id][p])]
    BY <1>3, Zenon DEF Moving
  <2>2. m \in Nat
    BY <1>1, <1>3
  <2> HIDE DEF s, M
  <2>3. \A p \in 1 .. m : s[p] = Place(kept, W[id][p]) /\ s[p] \in 1 .. M /\ kept[s[p]] = W[id][p]
    BY <1>4, <2>1, Zenon
  <2>4. s \in [1 .. m -> 1 .. M]
    BY <2>1, <2>3, Zenon
  <2> HIDE DEF m
  <2>5. s \in Seq(1 .. M) /\ Len(s) = m
    BY <2>2, <2>4, SeqIs
  <2>6. QED
    BY <2>3, <2>5 DEF s, m
<1>6. V[NoKey] = << >>
  BY <1>2, Zenon DEF Moving
<1>7. V \in [Keys -> Seq(1 .. M)]
  <2>1. V = [k \in Keys |-> V[k]]
    BY Zenon DEF Moving
  <2> HIDE DEF V, M
  <2>2. << >> \in Seq(1 .. M)
    OBVIOUS
  <2>3. \A k \in Keys : V[k] \in Seq(1 .. M)
    BY ONLY <1>2, <1>5, <1>6, <2>2, Zenon
  <2>4. QED
    BY <2>1, <2>3, Zenon
<1>8. \A k, l \in Keys : \A p \in 1 .. Len(W[k]), q \in 1 .. Len(W[l]) : W[k][p] = W[l][q] => k = l /\ p = q
  BY Zenon DEF Laid, Apart
<1>9. \A k \in 1 .. M : /\ arena1[k].next = X!Moved(kept, arena[kept[k]].next)
                        /\ arena1[k].gen = arena[kept[k]].gen /\ arena1[k].off = arena[kept[k]].off
  BY Zenon DEF Shifts
<1> HIDE DEF V, M, N
<1>10. ASSUME NEW k \in Keys, NEW p \in 1 .. Len(V[k]) PROVE k \in Ids /\ k # NoKey /\ p \in 1 .. Len(W[k])
  <2>1. k # NoKey
    <3>1. SUFFICES ASSUME k = NoKey PROVE FALSE
      OBVIOUS
    <3>2. V[k] = << >>
      BY <1>6, <3>1
    <3>3. QED
      BY <1>10, <3>2
  <2>2. QED
    BY <1>2, <1>5, <1>10, <2>1
<1>11. Apart(V)
  <2>1. ASSUME NEW k \in Keys, NEW l \in Keys, NEW p \in 1 .. Len(V[k]), NEW q \in 1 .. Len(V[l]), V[k][p] = V[l][q]
        PROVE  k = l /\ p = q
    <3>1. k \in Ids /\ l \in Ids /\ p \in 1 .. Len(W[k]) /\ q \in 1 .. Len(W[l])
      BY <1>10
    <3>2. W[k][p] = W[l][q]
      <4>1. kept[V[k][p]] = W[k][p] /\ kept[V[l][q]] = W[l][q]
        BY <1>5, <3>1, Zenon
      <4>2. QED
        BY ONLY <2>1, <4>1, Zenon
    <3>3. \A i \in 1 .. Len(W[k]), j \in 1 .. Len(W[l]) : W[k][i] = W[l][j] => k = l /\ i = j
      BY <1>8, Zenon
    <3>4. QED
      BY ONLY <3>1, <3>2, <3>3, Zenon
  <2>2. QED
    BY <2>1, Zenon DEF Apart
<1>12. Covered(arena1, V)
  <2>1. ASSUME NEW i \in 1 .. M PROVE \E k \in Keys : \E p \in 1 .. Len(V[k]) : V[k][p] = i
    <3>1. PICK id \in Ids : \E p \in 1 .. Len(W[id]) : kept[i] = W[id][p]
      BY <1>18
    <3>2. PICK p \in 1 .. Len(W[id]) : kept[i] = W[id][p]
      BY <3>1
    <3>3. V[id][p] \in 1 .. M /\ kept[V[id][p]] = kept[i] /\ p \in 1 .. Len(V[id])
      BY <1>5, <3>2
    <3>4. V[id][p] = i
      <4>1. \A k, l \in 1 .. M : kept[k] = kept[l] => k = l
        BY <1>18
      <4>2. QED
        BY ONLY <2>1, <3>3, <4>1, Zenon
    <3>5. QED
      BY <1>3, <3>3, <3>4
  <2>2. Len(arena1) = M
    BY <1>18
  <2>3. QED
    BY <2>1, <2>2, Zenon DEF Covered
<1>13. \A id \in Ids : \A p \in 1 .. Len(W[id]) : X!Moved(kept, W[id][p]) = V[id][p]
  <2>1. ASSUME NEW id \in Ids, NEW p \in 1 .. Len(W[id]) PROVE X!Moved(kept, W[id][p]) = V[id][p]
    <3>1. W[id][p] \in 1 .. N
      BY <1>1, <1>3
    <3>2. ~(W[id][p] <= 0)
      BY <1>1, <3>1
    <3>3. QED
      BY <1>5, <3>2, Zenon DEF X!Moved, Place
  <2>2. QED
    BY <2>1
<1>14. Linked(arena1, V)
  <2>1. ASSUME NEW k \in Keys, NEW p \in 1 .. Len(V[k])
        PROVE  arena1[V[k][p]].next = Following(V[k], p)
    <3>1. k \in Ids /\ p \in 1 .. Len(W[k]) /\ Len(V[k]) = Len(W[k]) /\ Len(W[k]) \in Nat
      BY <1>1, <1>5, <1>10
    <3>2. V[k][p] \in 1 .. M /\ kept[V[k][p]] = W[k][p]
      BY <1>5, <3>1
    <3>3. arena1[V[k][p]].next = X!Moved(kept, arena[W[k][p]].next)
      BY <1>9, <3>2, Zenon
    <3>4. arena[W[k][p]].next = Following(W[k], p)
      BY <3>1, Zenon DEF Laid, Linked
    <3>5. CASE p < Len(W[k])
      <4>1. p + 1 \in 1 .. Len(W[k])
        BY <3>1, <3>5
      <4>2. Following(W[k], p) = W[k][p + 1] /\ Following(V[k], p) = V[k][p + 1]
        BY <3>1, <3>5 DEF Following
      <4>3. QED
        BY ONLY <1>13, <3>1, <3>3, <3>4, <4>1, <4>2, Zenon
    <3>6. CASE ~(p < Len(W[k]))
      <4>1. Following(W[k], p) = 0 /\ Following(V[k], p) = 0
        BY <3>1, <3>6 DEF Following
      <4>2. X!Moved(kept, 0) = 0
        BY DEF X!Moved
      <4>3. QED
        BY ONLY <3>3, <3>4, <4>1, <4>2, Zenon
    <3>7. QED
      BY <3>5, <3>6
  <2>2. QED
    BY <2>1, Zenon DEF Linked
<1>15. \A id \in Ids : SameChain(arena, W, arena1, V, id)
  <2>1. ASSUME NEW id \in Ids PROVE SameChain(arena, W, arena1, V, id)
    <3>1. Len(V[id]) = Len(W[id]) /\ \A p \in 1 .. Len(W[id]) : V[id][p] \in 1 .. M /\ kept[V[id][p]] = W[id][p]
      BY <1>5
    <3>2. \A p \in 1 .. Len(W[id]) : arena1[V[id][p]].gen = arena[W[id][p]].gen /\ arena1[V[id][p]].off = arena[W[id][p]].off
      BY ONLY <1>9, <3>1
    <3>3. QED
      BY ONLY <3>1, <3>2, Zenon DEF SameChain
  <2>2. QED
    BY <2>1
<1>16. Laid(arena1, V)
  <2>1. Len(arena1) = M /\ arena1 \in Seq(Nodes)
    BY <1>18
  <2>2. QED
    BY ONLY <1>7, <1>11, <1>12, <1>14, <2>1, Zenon DEF Laid
<1>17. QED
  BY <1>13, <1>15, <1>16, Zenon DEF V, MovesAll

Shifted(arena, kept) == [k \in 1 .. Len(kept) |-> [arena[kept[k]] EXCEPT !.next = X!Moved(kept, @)]]
Redirected(slots, kept) == [i \in DOMAIN slots |-> [slots[i] EXCEPT !.head = X!Moved(kept, @), !.tail = X!Moved(kept, @)]]

(* The chains of the live slots in table order. *)
KeptSeqs(y, n) ==
    [i \in 1 .. n |-> IF y.slots[i - 1].head > 0 THEN X!Chain(y.arena, y.slots[i - 1].head) ELSE << >>]

(* compact keeps every node of a chain, once. *)
LEMMA KeptIs ==
    ASSUME NEW n \in Nat, NEW y, NEW W, XSound(y, n, W)
    PROVE  Keeps(X!FlattenSeq(KeptSeqs(y, n)), y.arena, W)
<1> DEFINE N == Len(y.arena)
           seqs == KeptSeqs(y, n)
           nodes == X!FlattenSeq(seqs)
<1>1. Table(y.slots, n) /\ Laid(y.arena, W) /\ Pointed(y.slots, n, W)
  BY SoundFacts
<1>2. N \in Nat /\ \A k \in Keys : W[k] \in Seq(1 .. N) /\ Len(W[k]) \in Nat /\ \A p \in 1 .. Len(W[k]) : W[k][p] \in 1 .. N
  BY <1>1, LaidFacts
<1>3. ASSUME NEW j \in LiveSlots(y.slots, n)
      PROVE  y.slots[j].id \in Ids /\ y.slots[j].id \in Keys /\ X!Chain(y.arena, y.slots[j].head) = W[y.slots[j].id]
  <2>1. y.slots[j].id \in Ids
    BY <1>1 DEF Table
  <2>2. Len(W[y.slots[j].id]) > 0 /\ y.slots[j].head = W[y.slots[j].id][1]
    BY <1>1 DEF Pointed
  <2>3. y.slots[j].id \in Keys
    BY <2>1, NoKeyIs
  <2>4. y.slots[j].head = Following(W[y.slots[j].id], 0)
    BY <2>2 DEF Following
  <2>5. \A k \in Keys : X!Chain(y.arena, Following(W[k], 0)) = W[k]
    BY <1>1, ChainIs
  <2>6. X!Chain(y.arena, y.slots[j].head) = W[y.slots[j].id]
    BY ONLY <2>3, <2>4, <2>5, Zenon
  <2>7. QED
    BY <2>1, <2>3, <2>6
<1>4. \A j, k \in LiveSlots(y.slots, n) : y.slots[j].id = y.slots[k].id => j = k
  BY <1>1 DEF Table
<1>5. \A i \in 1 .. n : i - 1 \in 0 .. n - 1 /\ (y.slots[i - 1].head > 0 <=> i - 1 \in LiveSlots(y.slots, n))
  <2>1. \A i \in 1 .. n : i - 1 \in 0 .. n - 1
    OBVIOUS
  <2>2. QED
    BY ONLY <2>1, Zenon DEF LiveSlots
<1>6. \A i \in 1 .. n : seqs[i] = IF i - 1 \in LiveSlots(y.slots, n) THEN W[y.slots[i - 1].id] ELSE << >>
  <2>1. ASSUME NEW i \in 1 .. n
        PROVE  seqs[i] = IF i - 1 \in LiveSlots(y.slots, n) THEN W[y.slots[i - 1].id] ELSE << >>
    <3>1. seqs[i] = IF y.slots[i - 1].head > 0 THEN X!Chain(y.arena, y.slots[i - 1].head) ELSE << >>
      BY Zenon DEF KeptSeqs
    <3>2. y.slots[i - 1].head > 0 <=> i - 1 \in LiveSlots(y.slots, n)
      BY <1>5
    <3>3. i - 1 \in LiveSlots(y.slots, n) => X!Chain(y.arena, y.slots[i - 1].head) = W[y.slots[i - 1].id]
      BY <1>3
    <3>4. QED
      BY ONLY <3>1, <3>2, <3>3, Zenon
  <2>2. QED
    BY <2>1
<1>7. seqs = [i \in 1 .. n |-> seqs[i]]
  BY Zenon DEF KeptSeqs
<1> HIDE DEF seqs
<1>8. seqs \in Seq(Seq(1 .. N)) /\ Len(seqs) = n
  <2>1. << >> \in Seq(1 .. N)
    OBVIOUS
  <2>2. \A i \in 1 .. n : i - 1 \in LiveSlots(y.slots, n) => W[y.slots[i - 1].id] \in Seq(1 .. N)
    BY <1>2, <1>3
  <2>3. \A i \in 1 .. n : seqs[i] \in Seq(1 .. N)
    BY ONLY <1>6, <2>1, <2>2, Zenon
  <2>4. seqs \in [1 .. n -> Seq(1 .. N)]
    BY <1>7, <2>3, Zenon
  <2>5. QED
    BY <2>4, SeqIs, Zenon
<1>9. ASSUME NEW i \in 1 .. n, NEW p \in 1 .. Len(seqs[i])
      PROVE  /\ i - 1 \in LiveSlots(y.slots, n) /\ y.slots[i - 1].id \in Keys /\ y.slots[i - 1].id \in Ids
             /\ seqs[i] = W[y.slots[i - 1].id]
  <2>1. i - 1 \in LiveSlots(y.slots, n)
    <3>1. SUFFICES ASSUME i - 1 \notin LiveSlots(y.slots, n) PROVE FALSE
      OBVIOUS
    <3>2. seqs[i] = << >>
      BY <1>6, <3>1, Zenon
    <3>3. QED
      BY <1>9, <3>2
  <2>2. QED
    BY <1>3, <1>6, <2>1
<1>10. ASSUME NEW k \in 1 .. n, NEW l \in 1 .. n, NEW p \in 1 .. Len(seqs[k]), NEW q \in 1 .. Len(seqs[l]),
              seqs[k][p] = seqs[l][q]
       PROVE  k = l /\ p = q
  <2> DEFINE a == y.slots[k - 1].id
             b == y.slots[l - 1].id
  <2>1. a \in Keys /\ b \in Keys /\ seqs[k] = W[a] /\ seqs[l] = W[b] /\ k - 1 \in LiveSlots(y.slots, n) /\ l - 1 \in LiveSlots(y.slots, n)
    BY <1>9
  <2>2. a = b => k = l
    <3>1. a = b => k - 1 = l - 1
      BY <1>4, <2>1, Zenon
    <3> HIDE DEF a, b
    <3>2. QED
      BY <3>1
  <2> HIDE DEF a, b
  <2>3. \A i \in 1 .. Len(W[a]), j \in 1 .. Len(W[b]) : W[a][i] = W[b][j] => a = b /\ i = j
    BY <1>1, <2>1, Zenon DEF Laid, Apart
  <2>4. a = b /\ p = q
    BY ONLY <1>10, <2>1, <2>3, Zenon
  <2>5. QED
    BY ONLY <2>2, <2>4, Zenon
<1>11. Joined(nodes, 1 .. N, seqs)
  <2>1. \A i, j \in 1 .. Len(seqs) : \A k \in 1 .. Len(seqs[i]), l \in 1 .. Len(seqs[j]) :
              seqs[i][k] = seqs[j][l] => i = j /\ k = l
    BY ONLY <1>8, <1>10, Zenon
  <2>2. QED
    BY <1>8, <2>1, FlattenJoins, Zenon
<1> HIDE DEF nodes
<1>12. /\ nodes \in Seq(1 .. N)
       /\ \A k, l \in 1 .. Len(nodes) : nodes[k] = nodes[l] => k = l
       /\ \A k \in 1 .. Len(nodes) : \E i \in 1 .. n : \E j \in 1 .. Len(seqs[i]) : nodes[k] = seqs[i][j]
       /\ \A i \in 1 .. n : \A j \in 1 .. Len(seqs[i]) : \E k \in 1 .. Len(nodes) : nodes[k] = seqs[i][j]
  BY <1>8, <1>11, Zenon DEF Joined
<1>13. ASSUME NEW k \in 1 .. Len(nodes) PROVE \E id \in Ids : \E p \in 1 .. Len(W[id]) : nodes[k] = W[id][p]
  <2>1. PICK i \in 1 .. n : \E j \in 1 .. Len(seqs[i]) : nodes[k] = seqs[i][j]
    BY <1>12
  <2>2. PICK j \in 1 .. Len(seqs[i]) : nodes[k] = seqs[i][j]
    BY <2>1
  <2>3. y.slots[i - 1].id \in Ids /\ seqs[i] = W[y.slots[i - 1].id]
    BY <1>9
  <2>4. QED
    BY <2>2, <2>3, Zenon
<1>14. ASSUME NEW id \in Ids, NEW p \in 1 .. Len(W[id]) PROVE \E k \in 1 .. Len(nodes) : nodes[k] = W[id][p]
  <2>1. Len(W[id]) > 0
    BY <1>2, NoKeyIs
  <2>2. PICK j \in LiveSlots(y.slots, n) : y.slots[j].id = id
    BY <1>1, <2>1, Zenon DEF Pointed
  <2>3. j + 1 \in 1 .. n /\ (j + 1) - 1 = j
    BY <2>2 DEF LiveSlots
  <2>4. seqs[j + 1] = W[id]
    BY <1>6, <2>2, <2>3, Zenon
  <2>5. \A e \in 1 .. Len(seqs[j + 1]) : \E k \in 1 .. Len(nodes) : nodes[k] = seqs[j + 1][e]
    BY <1>12, <2>3, Zenon
  <2>6. QED
    BY ONLY <1>14, <2>4, <2>5, Zenon
<1>15. QED
  BY <1>12, <1>13, <1>14, Zenon DEF Keeps, nodes, seqs

(* compact: every chain keeps its locs and every slot its trace. *)
CompactDone(z, y, n, V, W) ==
    /\ XSound(z, n, V) /\ z.cursor = y.cursor
    /\ \A id \in Ids : SameChain(y.arena, W, z.arena, V, id)
    /\ \A j \in LiveSlots(z.slots, n) : j \in LiveSlots(y.slots, n) /\ z.slots[j].id = y.slots[j].id

(* compact: a sound index with the same chains and no free list. *)
LEMMA CompactSound ==
    ASSUME X!IndexConstants, XHashOK, NEW n \in Nat \ {0}, NEW y, NEW W, XSound(y, n, W)
    PROVE  \E V : CompactDone(X!Compact(y), y, n, V, W)
<1> DEFINE N == Len(y.arena)
           kept == X!FlattenSeq(KeptSeqs(y, n))
           arena1 == Shifted(y.arena, kept)
           slots1 == Redirected(y.slots, kept)
           V == Moving(W, kept)
           z == X!Compact(y)
<1>1. /\ y \in IndexType(n)
      /\ Table(y.slots, n) /\ Laid(y.arena, W) /\ Pointed(y.slots, n, W)
      /\ y.liveCount = Cardinality(LiveSlots(y.slots, n))
      /\ y.tombs = Cardinality(DeadSlots(y.slots, n))
  BY SoundFacts
<1>2. /\ DOMAIN y.slots = 0 .. n - 1 /\ X!Size(y.slots) = n
      /\ \A j \in 0 .. n - 1 : /\ y.slots[j] \in Slots /\ y.slots[j].head \in Int /\ y.slots[j].tail \in Nat
                               /\ y.slots[j].head > 0 \/ (y.slots[j].head \in {0, -1} /\ y.slots[j].tail = 0)
  <2>1. DOMAIN y.slots = 0 .. n - 1
    BY <1>1, TableFacts
  <2>2. X!Size(y.slots) = n
    BY <2>1, XSizeIs
  <2>3. QED
    BY <1>1, <2>1, <2>2, TableFacts
<1>3. Keeps(kept, y.arena, W)
  BY KeptIs, Zenon
<1>4. z = [y EXCEPT !.arena = arena1, !.slots = slots1, !.free = 0, !.freeLen = 0]
  <2> DEFINE kept0 == X!Kept(y)
  <2>1. z = [y EXCEPT !.arena = Shifted(y.arena, kept0), !.slots = Redirected(y.slots, kept0), !.free = 0, !.freeLen = 0]
    BY Zenon DEF X!Compact, Shifted, Redirected
  <2>2. kept0 = kept
    BY <1>2, Zenon DEF X!Kept, KeptSeqs
  <2> HIDE DEF kept0, kept, z
  <2>3. QED
    BY ONLY <2>1, <2>2, Zenon
<1> HIDE DEF kept, z
<1>5. N \in Nat /\ Len(kept) \in Nat /\ kept \in Seq(1 .. N) /\ \A k \in 1 .. Len(kept) : kept[k] \in 1 .. N
  <2>1. kept \in Seq(1 .. N)
    BY <1>3, Zenon DEF Keeps
  <2>2. N \in Nat
    BY <1>1, LaidFacts
  <2> HIDE DEF N
  <2>3. QED
    BY ONLY <2>1, <2>2
<1>6. \A i \in 1 .. N : /\ y.arena[i] \in Nodes /\ y.arena[i].next \in Nat
                        /\ y.arena[i].gen \in 1 .. MaxGen /\ y.arena[i].off \in 1 .. MaxPuts
  BY <1>1, LaidFacts
<1>7. \A k \in Keys : Len(W[k]) \in Nat /\ \A p \in 1 .. Len(W[k]) : W[k][p] \in 1 .. N
  BY <1>1, LaidFacts
<1>8. \A id \in Ids : \A p \in 1 .. Len(W[id]) : X!Moved(kept, W[id][p]) \in 1 .. Len(kept)
  <2>1. ASSUME NEW id \in Ids, NEW p \in 1 .. Len(W[id]) PROVE X!Moved(kept, W[id][p]) \in 1 .. Len(kept)
    <3>1. \E k \in 1 .. Len(kept) : kept[k] = W[id][p]
      BY <1>3, Zenon DEF Keeps
    <3>2. Place(kept, W[id][p]) \in 1 .. Len(kept)
      BY <3>1, Zenon DEF Place
    <3>3. W[id][p] \in 1 .. N
      BY <1>7, NoKeyIs
    <3>4. ~(W[id][p] <= 0)
      BY ONLY <1>5, <3>3
    <3>5. QED
      BY <3>2, <3>4, Zenon DEF X!Moved, Place
  <2>2. QED
    BY <2>1
<1>9. \A k \in 1 .. Len(kept) : X!Moved(kept, y.arena[kept[k]].next) \in Nat
  <2>1. ASSUME NEW k \in 1 .. Len(kept) PROVE X!Moved(kept, y.arena[kept[k]].next) \in Nat
    <3>1. PICK id \in Ids : \E p \in 1 .. Len(W[id]) : kept[k] = W[id][p]
      BY <1>3, Zenon DEF Keeps
    <3>2. PICK p \in 1 .. Len(W[id]) : kept[k] = W[id][p]
      BY <3>1
    <3>3. id \in Keys /\ Len(W[id]) \in Nat
      BY <1>7, NoKeyIs
    <3>4. y.arena[kept[k]].next = Following(W[id], p)
      BY <1>1, <3>2, <3>3, Zenon DEF Laid, Linked
    <3>5. CASE p < Len(W[id])
      <4>1. p + 1 \in 1 .. Len(W[id]) /\ Following(W[id], p) = W[id][p + 1]
        BY <3>3, <3>5 DEF Following
      <4>2. X!Moved(kept, W[id][p + 1]) \in 1 .. Len(kept)
        BY <1>8, <4>1, Zenon
      <4>3. QED
        BY <1>5, <3>4, <4>1, <4>2
    <3>6. CASE ~(p < Len(W[id]))
      <4>1. Following(W[id], p) = 0
        BY <3>6 DEF Following
      <4>2. X!Moved(kept, 0) = 0
        BY DEF X!Moved
      <4>3. QED
        BY <3>4, <4>1, <4>2
    <3>7. QED
      BY <3>5, <3>6
  <2>2. QED
    BY <2>1
<1>10. ASSUME NEW k \in 1 .. Len(kept)
       PROVE  /\ arena1[k] \in Nodes /\ arena1[k].next = X!Moved(kept, y.arena[kept[k]].next)
              /\ arena1[k].gen = y.arena[kept[k]].gen /\ arena1[k].off = y.arena[kept[k]].off
  <2> DEFINE r == y.arena[kept[k]]
             v == X!Moved(kept, r.next)
             s == arena1[k]
  <2>1. s = [r EXCEPT !.next = v]
    BY Zenon DEF Shifted
  <2>2. r \in Nodes /\ v \in Nat
    BY <1>5, <1>6, <1>9
  <2> HIDE DEF r, v, s
  <2>3. s \in Nodes /\ s.next = v /\ s.gen = r.gen /\ s.off = r.off
    BY ONLY <2>1, <2>2 DEF Nodes
  <2>4. QED
    BY <2>3 DEF r, v, s
<1>11. arena1 \in Seq(Nodes) /\ Len(arena1) = Len(kept)
  <2>1. arena1 = [k \in 1 .. Len(kept) |-> arena1[k]]
    BY Zenon DEF Shifted
  <2> HIDE DEF arena1
  <2>2. arena1 \in [1 .. Len(kept) -> Nodes]
    BY <1>10, <2>1, Zenon
  <2>3. QED
    BY <1>5, <2>2, SeqIs, Zenon
<1> HIDE DEF arena1
<1>12. /\ Laid(arena1, V)
       /\ \A id \in Ids : SameChain(y.arena, W, arena1, V, id)
       /\ \A id \in Ids : \A p \in 1 .. Len(W[id]) : X!Moved(kept, W[id][p]) = V[id][p]
  <2>1. \A k \in 1 .. Len(kept) : /\ arena1[k].next = X!Moved(kept, y.arena[kept[k]].next)
                                  /\ arena1[k].gen = y.arena[kept[k]].gen /\ arena1[k].off = y.arena[kept[k]].off
    BY ONLY <1>10
  <2>2. Shifts(arena1, y.arena, kept)
    BY ONLY <1>11, <2>1, Zenon DEF Shifts
  <2>3. Laid(arena1, V) /\ MovesAll(V, W, kept) /\ \A id \in Ids : SameChain(y.arena, W, arena1, V, id)
    BY <1>1, <1>3, <2>2, LaidMoved, Zenon
  <2> HIDE DEF V
  <2>4. QED
    BY <2>3, Zenon DEF MovesAll
<1>13. V[NoKey] = << >>
  BY NoKeyIs, Zenon DEF Moving
<1> HIDE DEF V
<1>14. ASSUME NEW j \in 0 .. n - 1
       PROVE  /\ slots1[j] \in Slots /\ slots1[j].id = y.slots[j].id
              /\ j \in LiveSlots(y.slots, n) =>
                    /\ slots1[j].head = V[y.slots[j].id][1] /\ slots1[j].head > 0
                    /\ slots1[j].tail = V[y.slots[j].id][Len(V[y.slots[j].id])]
              /\ j \notin LiveSlots(y.slots, n) => slots1[j].head = y.slots[j].head /\ slots1[j].tail = 0
  <2> DEFINE r == y.slots[j]
             v == X!Moved(kept, r.head)
             t == X!Moved(kept, r.tail)
             s == slots1[j]
  <2>1. s = [r EXCEPT !.head = v, !.tail = t]
    BY <1>2, Zenon DEF Redirected
  <2>2. CASE j \in LiveSlots(y.slots, n)
    <3> DEFINE id == r.id
               m == Len(W[id])
    <3>1. id \in Ids
      BY <1>1, <2>2 DEF Table
    <3>2. m > 0 /\ r.head = W[id][1] /\ r.tail = W[id][m]
      BY <1>1, <2>2, Zenon DEF Pointed
    <3>3. m \in Nat
      BY <1>7, <3>1, NoKeyIs
    <3>4. 1 \in 1 .. m /\ m \in 1 .. m
      BY ONLY <3>2, <3>3
    <3>5. v = V[id][1] /\ t = V[id][m] /\ v \in 1 .. Len(kept) /\ t \in 1 .. Len(kept)
      BY <1>8, <1>12, <3>1, <3>2, <3>4
    <3>6. Len(V[id]) = m
      BY <1>12, <3>1, Zenon DEF SameChain
    <3>7. r \in Slots
      BY <1>2
    <3> HIDE DEF r, v, t, s
    <3>8. v \in Int /\ t \in Nat /\ v > 0
      BY ONLY <1>5, <3>5
    <3>9. s \in Slots /\ s.id = r.id /\ s.head = v /\ s.tail = t
      BY ONLY <2>1, <3>7, <3>8 DEF Slots
    <3>10. QED
      BY <2>2, <3>5, <3>6, <3>8, <3>9 DEF r, s
  <2>3. CASE j \notin LiveSlots(y.slots, n)
    <3>1. ~(r.head > 0) /\ r.head \in Int /\ r.tail = 0 /\ r \in Slots
      BY <1>2, <2>3 DEF LiveSlots
    <3> HIDE DEF s
    <3>2. v = r.head /\ t = 0
      <4> DEFINE h == r.head
                 e == r.tail
      <4>1. ~(h > 0) /\ h \in Int /\ e = 0
        BY <3>1
      <4> HIDE DEF h, e
      <4>2. X!Moved(kept, h) = h /\ X!Moved(kept, e) = 0
        BY ONLY <4>1 DEF X!Moved
      <4>3. QED
        BY <4>2 DEF h, e
    <3> HIDE DEF r, v, t
    <3>3. s \in Slots /\ s.id = r.id /\ s.head = r.head /\ s.tail = 0
      BY ONLY <2>1, <3>1, <3>2 DEF Slots
    <3>4. QED
      BY <2>3, <3>3 DEF r, s
  <2>4. QED
    BY <2>2, <2>3
<1>15. slots1 \in Tables(n)
  <2>1. slots1 = [j \in 0 .. n - 1 |-> slots1[j]]
    BY <1>2, Zenon DEF Redirected
  <2> HIDE DEF slots1
  <2>2. QED
    BY <1>14, <2>1, Zenon DEF Tables
<1> HIDE DEF slots1
<1>16. ASSUME NEW j \in 0 .. n - 1
       PROVE  /\ slots1[j].id = y.slots[j].id
              /\ slots1[j].head > 0 \/ (slots1[j].head \in {0, -1} /\ slots1[j].tail = 0)
              /\ slots1[j].head > 0 <=> y.slots[j].head > 0
              /\ y.slots[j].head # 0 => slots1[j].head # 0
              /\ slots1[j].head = -1 <=> y.slots[j].head = -1
  <2>1. CASE j \in LiveSlots(y.slots, n)
    <3>1. slots1[j].head > 0 /\ slots1[j].id = y.slots[j].id /\ slots1[j].head \in Int
      BY <1>14, <2>1 DEF Slots
    <3>2. y.slots[j].head > 0 /\ y.slots[j].head \in Int
      BY <1>2, <2>1 DEF LiveSlots
    <3>3. QED
      BY ONLY <3>1, <3>2
  <2>2. CASE j \notin LiveSlots(y.slots, n)
    <3>1. slots1[j].head = y.slots[j].head /\ slots1[j].tail = 0 /\ slots1[j].id = y.slots[j].id
      BY <1>14, <2>2
    <3>2. ~(y.slots[j].head > 0)
      BY <2>2 DEF LiveSlots
    <3>3. y.slots[j].head \in {0, -1}
      BY <1>2, <3>2
    <3>4. QED
      BY ONLY <3>1, <3>2, <3>3
  <2>3. QED
    BY <2>1, <2>2
<1>17. LiveSlots(slots1, n) = LiveSlots(y.slots, n) /\ DeadSlots(slots1, n) = DeadSlots(y.slots, n)
  <2>1. \A j \in 0 .. n - 1 : (slots1[j].head > 0 <=> y.slots[j].head > 0) /\ (slots1[j].head = -1 <=> y.slots[j].head = -1)
    BY ONLY <1>16
  <2>2. QED
    BY ONLY <2>1, Zenon DEF LiveSlots, DeadSlots
<1>18. Table(slots1, n)
  <2>1. \A j \in 0 .. n - 1 :
              /\ slots1[j].id = y.slots[j].id
              /\ slots1[j].head > 0 \/ (slots1[j].head \in {0, -1} /\ slots1[j].tail = 0)
              /\ slots1[j].head > 0 => y.slots[j].head > 0
              /\ y.slots[j].head # 0 => slots1[j].head # 0
    BY ONLY <1>16
  <2>2. QED
    BY <1>1, <1>15, <2>1, SlotsKept
<1>19. \A j \in LiveSlots(slots1, n) : j \in LiveSlots(y.slots, n) /\ j \in 0 .. n - 1 /\ slots1[j].id = y.slots[j].id /\ y.slots[j].id \in Ids
  <2>1. \A j \in LiveSlots(y.slots, n) : j \in 0 .. n - 1 /\ y.slots[j].id \in Ids
    BY <1>1 DEF LiveSlots, Table
  <2>2. QED
    BY ONLY <1>16, <1>17, <2>1
<1>20. Pointed(slots1, n, V)
  <2>1. ASSUME NEW j \in LiveSlots(slots1, n)
        PROVE  /\ Len(V[slots1[j].id]) > 0 /\ slots1[j].head = V[slots1[j].id][1]
               /\ slots1[j].tail = V[slots1[j].id][Len(V[slots1[j].id])]
    <3>1. j \in LiveSlots(y.slots, n) /\ j \in 0 .. n - 1 /\ slots1[j].id = y.slots[j].id /\ y.slots[j].id \in Ids
      BY <1>19
    <3>2. Len(W[y.slots[j].id]) > 0
      BY <1>1, <3>1, Zenon DEF Pointed
    <3>3. Len(V[y.slots[j].id]) = Len(W[y.slots[j].id])
      BY <1>12, <3>1, Zenon DEF SameChain
    <3>4. QED
      BY <1>14, <3>1, <3>2, <3>3
  <2>2. ASSUME NEW id \in Ids, Len(V[id]) > 0
        PROVE  \E j \in LiveSlots(slots1, n) : slots1[j].id = id
    <3>1. Len(V[id]) = Len(W[id])
      BY <1>12, Zenon DEF SameChain
    <3>2. PICK j \in LiveSlots(y.slots, n) : y.slots[j].id = id
      BY <1>1, <2>2, <3>1, Zenon DEF Pointed
    <3>3. QED
      BY <1>17, <1>19, <3>2, Zenon
  <2>3. QED
    BY <2>1, <2>2, Zenon DEF Pointed
<1>21. /\ z \in IndexType(n) /\ z.arena = arena1 /\ z.slots = slots1 /\ z.free = 0 /\ z.freeLen = 0
       /\ z.liveCount = y.liveCount /\ z.tombs = y.tombs /\ z.cursor = y.cursor
  BY ONLY <1>1, <1>4, <1>11, <1>15 DEF IndexType
<1>22. Following(V[NoKey], 0) = 0 /\ Len(V[NoKey]) = 0
  <2>1. Len(V[NoKey]) = 0
    BY <1>13
  <2>2. QED
    BY ONLY <2>1 DEF Following
<1>23. XSound(z, n, V)
  BY <1>1, <1>12, <1>17, <1>18, <1>20, <1>21, <1>22, Zenon DEF XSound
<1>24. CompactDone(z, y, n, V, W)
  BY <1>12, <1>19, <1>21, <1>23, Zenon DEF CompactDone
<1>25. QED
  BY <1>24, Zenon DEF z

-----------------------------------------------------------------------------
(***************************************************************************)
(* What Collect passes over.                                               *)
(***************************************************************************)
Locs == [gen : Int, off : Int]

SincePieces(L, g) == [k \in 1 .. Len(L) |-> IF L[k].gen >= g THEN <<L[k]>> ELSE << >>]

(* What is joined first does not depend on what comes after it. *)
LEMMA FlatAgrees ==
    ASSUME NEW seqs, NEW n \in Nat, NEW fl, IsFlat(seqs, n, fl),
           NEW seqs1, NEW m \in Nat, NEW gl, IsFlat(seqs1, m, gl),
           n <= m, \A i \in 1 .. n : seqs1[i] = seqs[i]
    PROVE  \A k \in 1 .. n : gl[k] = fl[k]
<1> DEFINE B == {k \in Nat : k \in 1 .. n /\ gl[k] # fl[k]}
<1>1. SUFFICES ASSUME B # {} PROVE FALSE
  OBVIOUS
<1>2. PICK k \in B : \A l \in B : k <= l
  <2>1. B \in SUBSET Nat
    OBVIOUS
  <2> HIDE DEF B
  <2>2. QED
    BY <1>1, <2>1, LeastNumber
<1>3. k \in 1 .. n /\ k \in 1 .. m /\ gl[k] # fl[k] /\ seqs1[k] = seqs[k]
  BY <1>2
<1>4. /\ fl[k] = IF k = 1 THEN seqs[k] ELSE fl[k - 1] \o seqs[k]
      /\ gl[k] = IF k = 1 THEN seqs1[k] ELSE gl[k - 1] \o seqs1[k]
  BY <1>3, Zenon DEF IsFlat
<1>5. k # 1 => gl[k - 1] = fl[k - 1]
  <2>1. k # 1 => k - 1 \in 1 .. n /\ k - 1 \notin B
    BY <1>2, <1>3
  <2>2. QED
    BY <2>1
<1>6. QED
  BY <1>3, <1>4, <1>5, Zenon

(* A piece more comes behind the others. *)
LEMMA FlattenAppends ==
    ASSUME NEW T, NEW seqs \in Seq(Seq(T)), NEW seqs1 \in Seq(Seq(T)), Len(seqs1) = Len(seqs) + 1,
           \A i \in 1 .. Len(seqs) : seqs1[i] = seqs[i]
    PROVE  X!FlattenSeq(seqs1) = X!FlattenSeq(seqs) \o seqs1[Len(seqs) + 1]
<1> DEFINE n == Len(seqs)
<1>1. n \in Nat /\ Len(seqs1) = n + 1 /\ n + 1 \in Nat \ {0} /\ seqs1[n + 1] \in Seq(T)
  OBVIOUS
<1>2. PICK gl : IsFlat(seqs1, n + 1, gl) /\ X!FlattenSeq(seqs1) = gl[n + 1]
  <2>1. Len(seqs1) \in Nat \ {0}
    BY <1>1
  <2>2. QED
    BY <1>1, <2>1, XFlattenIsFlat, Zenon
<1>3. n + 1 \in 1 .. n + 1
  BY <1>1
<1>4. gl[n + 1] = IF n + 1 = 1 THEN seqs1[n + 1] ELSE gl[(n + 1) - 1] \o seqs1[n + 1]
  BY <1>2, <1>3, Zenon DEF IsFlat
<1>5. CASE n = 0
  <2>1. seqs = << >>
    BY <1>5
  <2>2. X!FlattenSeq(seqs) = << >>
    BY <2>1, XFlattenEmpty, Zenon
  <2>3. << >> \o seqs1[n + 1] = seqs1[n + 1]
    BY <1>1
  <2>4. n + 1 = 1
    BY <1>5
  <2>5. QED
    BY <1>2, <1>4, <2>2, <2>3, <2>4, Zenon
<1>6. CASE n # 0
  <2>1. n \in Nat \ {0} /\ n + 1 # 1 /\ (n + 1) - 1 = n /\ n \in 1 .. n /\ n <= n + 1
    BY <1>1, <1>6
  <2>2. PICK fl : IsFlat(seqs, n, fl) /\ X!FlattenSeq(seqs) = fl[n]
    BY <2>1, XFlattenIsFlat
  <2>3. \A k \in 1 .. n : gl[k] = fl[k]
    <3>1. \A i \in 1 .. n : seqs1[i] = seqs[i]
      OBVIOUS
    <3> DEFINE m == n + 1
    <3>2. IsFlat(seqs, n, fl) /\ IsFlat(seqs1, m, gl)
      BY <1>2, <2>2, Zenon
    <3>4. n \in Nat /\ m \in Nat /\ n <= m
      BY <1>1
    <3> HIDE DEF n, m
    <3>3. QED
      BY ONLY SMTT(40), <3>1, <3>2, <3>4, FlatAgrees
  <2>4. gl[n] = fl[n]
    BY <2>1, <2>3
  <2>5. QED
    BY <1>2, <1>4, <2>1, <2>2, <2>4, Zenon
<1>7. QED
  BY <1>5, <1>6

(* Since joins what it keeps of every loc. *)
LEMMA SincePiecesIs ==
    ASSUME NEW L \in Seq(Locs), NEW g
    PROVE  /\ SincePieces(L, g) \in Seq(Seq(Locs)) /\ Len(SincePieces(L, g)) = Len(L)
           /\ \A k \in 1 .. Len(L) : SincePieces(L, g)[k] = IF L[k].gen >= g THEN <<L[k]>> ELSE << >>
           /\ X!Since(L, g) = X!FlattenSeq(SincePieces(L, g))
<1> DEFINE n == Len(L)
           s == SincePieces(L, g)
<1>1. n \in Nat /\ \A k \in 1 .. n : L[k] \in Locs
  OBVIOUS
<1>2. s = [k \in 1 .. n |-> IF L[k].gen >= g THEN <<L[k]>> ELSE << >>]
  BY DEF SincePieces
<1>3. X!Since(L, g) = X!FlattenSeq(s)
  BY Zenon DEF X!Since, SincePieces
<1> HIDE DEF n, s
<1>4. \A k \in 1 .. n : s[k] = IF L[k].gen >= g THEN <<L[k]>> ELSE << >>
  BY <1>2, Zenon
<1>5. \A k \in 1 .. n : s[k] \in Seq(Locs)
  <2>1. \A k \in 1 .. n : <<L[k]>> \in Seq(Locs)
    BY <1>1
  <2>2. << >> \in Seq(Locs)
    OBVIOUS
  <2>3. QED
    BY <1>4, <2>1, <2>2, Zenon
<1>6. s \in [1 .. n -> Seq(Locs)]
  BY <1>2, <1>5, <1>4, Zenon
<1>7. s \in Seq(Seq(Locs)) /\ Len(s) = n
  BY <1>1, <1>6, SeqIs, Zenon
<1>8. QED
  BY <1>3, <1>4, <1>7, Zenon DEF n, s

(* Since gives locs, and none of none. *)
LEMMA SinceType ==
    ASSUME NEW L \in Seq(Locs), NEW g
    PROVE  X!Since(L, g) \in Seq(Locs) /\ (L = << >> => X!Since(L, g) = << >>)
<1> DEFINE s == SincePieces(L, g)
<1>1. s \in Seq(Seq(Locs)) /\ Len(s) = Len(L) /\ X!Since(L, g) = X!FlattenSeq(s)
  BY SincePiecesIs, Zenon
<1> HIDE DEF s
<1>2. CASE Len(s) = 0
  <2>1. s = << >>
    BY <1>1, <1>2
  <2>2. X!FlattenSeq(s) = << >>
    BY <2>1, XFlattenEmpty, Zenon
  <2>3. << >> \in Seq(Locs)
    OBVIOUS
  <2>4. QED
    BY <1>1, <2>2, <2>3, Zenon
<1>3. CASE Len(s) # 0
  <2> DEFINE R == Locs \X Locs
  <2>1. Len(s) \in Nat \ {0}
    BY <1>1, <1>3
  <2>2. PICK fl : IsFlat(s, Len(s), fl) /\ X!FlattenSeq(s) = fl[Len(s)]
    BY <2>1, XFlattenIsFlat
  <2>3. \A i \in 1 .. Len(s) : \A k \in 1 .. Len(s[i]) : s[i][k] \in Locs
    BY <1>1
  <2>4. /\ \A i \in 1 .. Len(s) : \A k, l \in 1 .. Len(s[i]) : k < l => <<s[i][k], s[i][l]>> \in R
        /\ \A i, j \in 1 .. Len(s) : i < j =>
              \A k \in 1 .. Len(s[i]), l \in 1 .. Len(s[j]) : <<s[i][k], s[j][l]>> \in R
    BY <2>3
  <2> HIDE DEF R
  <2>5. fl[Len(s)] \in Seq(Locs)
    BY <1>1, <1>3, <2>2, <2>4, FlatAscends
  <2>6. L # << >>
    BY <1>1, <1>3
  <2>7. QED
    BY <1>1, <2>2, <2>5, <2>6, Zenon
<1>4. QED
  BY <1>2, <1>3

(* Since keeps or drops the last loc, whatever comes before. *)
LEMMA SinceStep ==
    ASSUME NEW L \in Seq(Locs), NEW L1 \in Seq(Locs), Len(L1) = Len(L) + 1,
           \A k \in 1 .. Len(L) : L1[k] = L[k], NEW g
    PROVE  X!Since(L1, g) = IF L1[Len(L) + 1].gen >= g THEN Append(X!Since(L, g), L1[Len(L) + 1]) ELSE X!Since(L, g)
<1> DEFINE n == Len(L)
           s == SincePieces(L, g)
           s1 == SincePieces(L1, g)
           l == L1[n + 1]
           A == X!Since(L, g)
<1>1. /\ s \in Seq(Seq(Locs)) /\ Len(s) = n /\ X!Since(L, g) = X!FlattenSeq(s)
      /\ \A k \in 1 .. n : s[k] = IF L[k].gen >= g THEN <<L[k]>> ELSE << >>
  BY SincePiecesIs, Zenon
<1>2. /\ s1 \in Seq(Seq(Locs)) /\ Len(s1) = n + 1 /\ X!Since(L1, g) = X!FlattenSeq(s1)
      /\ \A k \in 1 .. n + 1 : s1[k] = IF L1[k].gen >= g THEN <<L1[k]>> ELSE << >>
  BY SincePiecesIs, Zenon
<1>3. n \in Nat /\ n + 1 \in 1 .. n + 1 /\ l \in Locs /\ \A k \in 1 .. n : k \in 1 .. n + 1 /\ L1[k] = L[k]
  OBVIOUS
<1>4. A \in Seq(Locs)
  BY SinceType
<1> HIDE DEF s, s1
<1>5. \A k \in 1 .. n : s1[k] = s[k]
  BY <1>1, <1>2, <1>3, Zenon
<1>6. X!FlattenSeq(s1) = X!FlattenSeq(s) \o s1[n + 1]
  <2> HIDE DEF n
  <2>1. Len(s1) = Len(s) + 1 /\ \A k \in 1 .. Len(s) : s1[k] = s[k]
    BY <1>1, <1>2, <1>5, Zenon
  <2>2. X!FlattenSeq(s1) = X!FlattenSeq(s) \o s1[Len(s) + 1]
    BY <1>1, <1>2, <2>1, FlattenAppends, Zenon
  <2>3. QED
    BY <1>1, <2>2, Zenon
<1>7. X!Since(L1, g) = A \o (IF l.gen >= g THEN <<l>> ELSE << >>)
  BY <1>1, <1>2, <1>3, <1>6, Zenon
<1> HIDE DEF A, l, n
<1>8. A \o <<l>> = Append(A, l) /\ A \o << >> = A
  BY <1>3, <1>4
<1>9. X!Since(L1, g) = IF l.gen >= g THEN Append(A, l) ELSE A
  BY ONLY <1>7, <1>8, Zenon
<1>10. QED
  BY <1>9, Zenon DEF A, l, n

Front(L, k) == [i \in 1 .. k |-> L[i]]

(* The first k locs. *)
LEMMA FrontIs ==
    ASSUME NEW L \in Seq(Locs)
    PROVE  /\ \A k \in 0 .. Len(L) : Front(L, k) \in Seq(Locs) /\ Len(Front(L, k)) = k /\ \A i \in 1 .. k : Front(L, k)[i] = L[i]
           /\ Front(L, 0) = << >> /\ Front(L, Len(L)) = L
<1>1. ASSUME NEW k \in 0 .. Len(L)
      PROVE  Front(L, k) \in Seq(Locs) /\ Len(Front(L, k)) = k /\ \A i \in 1 .. k : Front(L, k)[i] = L[i]
  <2> DEFINE f == Front(L, k)
  <2>1. k \in Nat /\ \A i \in 1 .. k : L[i] \in Locs
    OBVIOUS
  <2>2. f = [i \in 1 .. k |-> L[i]]
    BY DEF Front
  <2> HIDE DEF f
  <2>3. f \in [1 .. k -> Locs] /\ \A i \in 1 .. k : f[i] = L[i]
    BY ONLY <2>1, <2>2, Zenon
  <2>4. f \in Seq(Locs) /\ Len(f) = k
    BY <2>1, <2>3, SeqIs, Zenon
  <2>5. QED
    BY <2>3, <2>4, Zenon DEF f
<1>2. Front(L, 0) = << >>
  BY DEF Front
<1>3. Front(L, Len(L)) = L
  BY DEF Front
<1>4. QED
  BY <1>1, <1>2, <1>3

(* Since, loc by loc. *)
LEMMA SinceFront ==
    ASSUME NEW L \in Seq(Locs), NEW k \in 1 .. Len(L), NEW g
    PROVE  X!Since(Front(L, k), g) = IF L[k].gen >= g THEN Append(X!Since(Front(L, k - 1), g), L[k])
                                     ELSE X!Since(Front(L, k - 1), g)
<1> DEFINE a == Front(L, k - 1)
           b == Front(L, k)
<1>1. k - 1 \in 0 .. Len(L) /\ k \in 0 .. Len(L) /\ (k - 1) + 1 = k /\ k \in 1 .. k /\ \A i \in 1 .. k - 1 : i \in 1 .. k
  OBVIOUS
<1>2. /\ a \in Seq(Locs) /\ Len(a) = k - 1 /\ \A i \in 1 .. k - 1 : a[i] = L[i]
      /\ b \in Seq(Locs) /\ Len(b) = k /\ \A i \in 1 .. k : b[i] = L[i]
  BY <1>1, FrontIs
<1> HIDE DEF a, b
<1>3. Len(b) = Len(a) + 1 /\ Len(a) + 1 = k /\ \A i \in 1 .. Len(a) : b[i] = a[i]
  BY <1>1, <1>2
<1>4. b[k] = L[k]
  BY <1>1, <1>2
<1>5. X!Since(b, g) = IF b[Len(a) + 1].gen >= g THEN Append(X!Since(a, g), b[Len(a) + 1]) ELSE X!Since(a, g)
  BY <1>2, <1>3, SinceStep, Zenon
<1>6. QED
  BY ONLY <1>3, <1>4, <1>5, Zenon DEF a, b

(* Locs dropped before are dropped again. *)
LEMMA SinceTwice ==
    ASSUME NEW L \in Seq(Locs), NEW g \in Int
    PROVE  X!Since(X!Since(L, g), g + 1) = X!Since(L, g + 1)
<1> DEFINE P(k) == X!Since(X!Since(Front(L, k), g), g + 1) = X!Since(Front(L, k), g + 1)
           B == {k \in Nat : k \in 0 .. Len(L) /\ ~P(k)}
<1>1. SUFFICES ASSUME B # {} PROVE FALSE
  <2>1. P(Len(L)) => X!Since(X!Since(L, g), g + 1) = X!Since(L, g + 1)
    BY FrontIs, Zenon
  <2>2. Len(L) \in Nat /\ Len(L) \in 0 .. Len(L)
    OBVIOUS
  <2> HIDE DEF P
  <2>3. QED
    BY <2>1, <2>2
<1>2. PICK k \in B : \A l \in B : k <= l
  <2>1. B \in SUBSET Nat
    OBVIOUS
  <2> HIDE DEF B
  <2>2. QED
    BY <1>1, <2>1, LeastNumber
<1>3. k \in 0 .. Len(L) /\ ~P(k)
  BY <1>2
<1>4. k # 0
  <2>1. Front(L, 0) = << >> /\ << >> \in Seq(Locs)
    BY FrontIs
  <2>2. \A h : X!Since(<< >>, h) = << >>
    BY <2>1, SinceType, Zenon
  <2>3. P(0)
    BY <2>1, <2>2, Zenon
  <2>4. QED
    BY <1>3, <2>3
<1>5. k \in 1 .. Len(L) /\ k - 1 \in 0 .. Len(L) /\ k - 1 \notin B
  <2>1. k \in 1 .. Len(L) /\ k - 1 \in 0 .. Len(L) /\ ~(k <= k - 1)
    BY <1>3, <1>4
  <2> HIDE DEF B
  <2>2. QED
    BY <1>2, <2>1
<1>6. P(k - 1)
  <2>1. k - 1 \in Nat
    BY <1>5
  <2>2. QED
    BY <1>5, <2>1
<1> DEFINE a == Front(L, k - 1)
           b == Front(L, k)
           l == L[k]
           A == X!Since(a, g)
<1>7. /\ X!Since(b, g) = IF l.gen >= g THEN Append(A, l) ELSE A
      /\ X!Since(b, g + 1) = IF l.gen >= g + 1 THEN Append(X!Since(a, g + 1), l) ELSE X!Since(a, g + 1)
  BY <1>5, SinceFront, Zenon
<1>8. a \in Seq(Locs) /\ l \in Locs /\ l.gen \in Int
  <2>1. a \in Seq(Locs)
    BY <1>5, FrontIs
  <2>2. l \in Locs
    BY <1>5
  <2>3. QED
    BY <2>1, <2>2 DEF Locs
<1>9. A \in Seq(Locs)
  BY <1>8, SinceType, Zenon
<1>10. X!Since(A, g + 1) = X!Since(a, g + 1) /\ X!Since(X!Since(b, g), g + 1) # X!Since(b, g + 1)
  BY <1>3, <1>6
<1> HIDE DEF A, a, b, l
<1>11. X!Since(Append(A, l), g + 1) = IF l.gen >= g + 1 THEN Append(X!Since(A, g + 1), l) ELSE X!Since(A, g + 1)
  <2> DEFINE A1 == Append(A, l)
  <2>1. A1 \in Seq(Locs) /\ Len(A1) = Len(A) + 1 /\ A1[Len(A) + 1] = l /\ \A i \in 1 .. Len(A) : A1[i] = A[i]
    BY <1>8, <1>9
  <2> HIDE DEF A1
  <2>2. X!Since(A1, g + 1) = IF A1[Len(A) + 1].gen >= g + 1 THEN Append(X!Since(A, g + 1), A1[Len(A) + 1]) ELSE X!Since(A, g + 1)
    BY <1>9, <2>1, SinceStep, Zenon
  <2>3. QED
    BY ONLY <2>1, <2>2, Zenon DEF A1
<1>12. CASE l.gen >= g
  BY ONLY <1>7, <1>10, <1>11, <1>12, Zenon
<1>13. CASE ~(l.gen >= g)
  <2>1. ~(l.gen >= g + 1)
    BY ONLY <1>8, <1>13, g \in Int
  <2>2. QED
    BY ONLY <1>7, <1>10, <1>13, <2>1, Zenon
<1>14. QED
  BY <1>12, <1>13

(* If all locs are of segments that are gone, none is left. *)
LEMMA SinceNone ==
    ASSUME NEW L \in Seq(Locs), NEW g, \A k \in 1 .. Len(L) : ~(L[k].gen >= g)
    PROVE  X!Since(L, g) = << >>
<1> DEFINE P(k) == X!Since(Front(L, k), g) = << >>
           B == {k \in Nat : k \in 0 .. Len(L) /\ ~P(k)}
<1>1. SUFFICES ASSUME B # {} PROVE FALSE
  <2>1. P(Len(L)) => X!Since(L, g) = << >>
    BY FrontIs, Zenon
  <2>2. Len(L) \in Nat /\ Len(L) \in 0 .. Len(L)
    OBVIOUS
  <2> HIDE DEF P
  <2>3. QED
    BY <2>1, <2>2
<1>2. PICK k \in B : \A l \in B : k <= l
  <2>1. B \in SUBSET Nat
    OBVIOUS
  <2> HIDE DEF B
  <2>2. QED
    BY <1>1, <2>1, LeastNumber
<1>3. k \in 0 .. Len(L) /\ ~P(k)
  BY <1>2
<1>4. k # 0
  <2>1. Front(L, 0) = << >> /\ << >> \in Seq(Locs)
    BY FrontIs
  <2>2. P(0)
    BY <2>1, SinceType, Zenon
  <2>3. QED
    BY <1>3, <2>2
<1>5. k \in 1 .. Len(L) /\ k - 1 \in 0 .. Len(L) /\ k - 1 \notin B
  <2>1. k \in 1 .. Len(L) /\ k - 1 \in 0 .. Len(L) /\ ~(k <= k - 1)
    BY <1>3, <1>4
  <2> HIDE DEF B
  <2>2. QED
    BY <1>2, <2>1
<1>6. P(k - 1)
  <2>1. k - 1 \in Nat
    BY <1>5
  <2>2. QED
    BY <1>5, <2>1
<1>7. X!Since(Front(L, k), g) = IF L[k].gen >= g THEN Append(X!Since(Front(L, k - 1), g), L[k])
                                ELSE X!Since(Front(L, k - 1), g)
  BY <1>5, SinceFront, Zenon
<1>8. ~(L[k].gen >= g)
  BY <1>5
<1>9. QED
  BY ONLY <1>3, <1>6, <1>7, <1>8, Zenon

-----------------------------------------------------------------------------
(***************************************************************************)
(* The chains against what was put.                                        *)
(***************************************************************************)
LocsOf(arena, s) == [k \in 1 .. Len(s) |-> [gen |-> arena[s[k]].gen, off |-> arena[s[k]].off]]

(* Of the locs in the chain of id those that are left are what st has; the *)
(* newest comes last, and none is of a generation after h.                 *)
RecordedOf(id, arena, W, st, g, h) ==
    /\ st[id] = X!Since(LocsOf(arena, W[id]), g)
    /\ \A p \in 1 .. Len(W[id]) : /\ arena[W[id][p]].gen <= arena[W[id][Len(W[id])]].gen
                                  /\ arena[W[id][p]].gen <= h

Recorded(arena, W, st, g, h) == \A id \in Ids : RecordedOf(id, arena, W, st, g, h)

AreLocs(L, arena, s) ==
    /\ L \in Seq(Locs) /\ Len(L) = Len(s)
    /\ \A k \in 1 .. Len(s) : /\ L[k] = [gen |-> arena[s[k]].gen, off |-> arena[s[k]].off]
                              /\ L[k].gen = arena[s[k]].gen

(* The locs of a chain are its nodes without their links. *)
LEMMA LocsOfIs ==
    ASSUME NEW arena, NEW W, Laid(arena, W), NEW id \in Ids
    PROVE  AreLocs(LocsOf(arena, W[id]), arena, W[id])
<1> DEFINE n == Len(W[id])
           f == LocsOf(arena, W[id])
           v(k) == [gen |-> arena[W[id][k]].gen, off |-> arena[W[id][k]].off]
<1>1. id \in Keys
  BY NoKeyIs
<1>2. n \in Nat /\ \A k \in 1 .. n : /\ arena[W[id][k]].gen \in 1 .. MaxGen
                                     /\ arena[W[id][k]].off \in 1 .. MaxPuts
  <2>1. n \in Nat /\ \A k \in 1 .. n : W[id][k] \in 1 .. Len(arena)
    BY <1>1, LaidFacts, Zenon
  <2>2. \A i \in 1 .. Len(arena) : arena[i].gen \in 1 .. MaxGen /\ arena[i].off \in 1 .. MaxPuts
    BY LaidFacts, Zenon
  <2>3. QED
    BY <2>1, <2>2, Zenon
<1>3. f = [k \in 1 .. n |-> v(k)]
  BY DEF LocsOf
<1>4. \A k \in 1 .. n : v(k) \in Locs /\ v(k).gen = arena[W[id][k]].gen
  BY <1>2 DEF Locs
<1> HIDE DEF f, v, n
<1>5. f \in [1 .. n -> Locs] /\ \A k \in 1 .. n : f[k] = v(k)
  BY ONLY <1>3, <1>4, Zenon
<1>6. f \in Seq(Locs) /\ Len(f) = n
  BY <1>2, <1>5, SeqIs, Zenon
<1>7. \A k \in 1 .. n : f[k].gen = arena[W[id][k]].gen
  BY <1>4, <1>5, Zenon
<1>8. QED
  BY <1>5, <1>6, <1>7, Zenon DEF AreLocs, f, v, n

(* Chains with the same locs are recorded alike. *)
LEMMA RecordedSame ==
    ASSUME NEW arena, NEW W, Laid(arena, W), NEW arena1, NEW V, Laid(arena1, V), NEW id \in Ids,
           SameChain(arena, W, arena1, V, id), NEW st, NEW st1, st1[id] = st[id], NEW g, NEW h,
           RecordedOf(id, arena, W, st, g, h)
    PROVE  RecordedOf(id, arena1, V, st1, g, h)
<1> DEFINE n == Len(W[id])
           v(k) == [gen |-> arena[W[id][k]].gen, off |-> arena[W[id][k]].off]
           v1(k) == [gen |-> arena1[V[id][k]].gen, off |-> arena1[V[id][k]].off]
<1>1. Len(V[id]) = n /\ \A p \in 1 .. n : arena1[V[id][p]].gen = arena[W[id][p]].gen /\ arena1[V[id][p]].off = arena[W[id][p]].off
  BY Zenon DEF SameChain
<1>2. LocsOf(arena1, V[id]) = LocsOf(arena, W[id])
  <2>1. LocsOf(arena1, V[id]) = [k \in 1 .. n |-> v1(k)]
    BY <1>1, Zenon DEF LocsOf
  <2>2. LocsOf(arena, W[id]) = [k \in 1 .. n |-> v(k)]
    BY DEF LocsOf
  <2>3. \A k \in 1 .. n : v(k) = v1(k)
    BY <1>1, Zenon
  <2> HIDE DEF v, v1, n
  <2>4. [k \in 1 .. n |-> v(k)] = [k \in 1 .. n |-> v1(k)]
    BY ONLY <2>3, Zenon
  <2>5. QED
    BY <2>1, <2>2, <2>4, Zenon
<1>3. \A p \in 1 .. n : n \in 1 .. n
  <2>1. n \in Nat
    BY NoKeyIs, LaidFacts
  <2>2. QED
    BY <2>1
<1>4. \A p \in 1 .. n : arena1[V[id][p]].gen <= arena1[V[id][n]].gen /\ arena1[V[id][p]].gen <= h
  BY <1>1, <1>3, Zenon DEF RecordedOf
<1>5. QED
  BY <1>1, <1>2, <1>4, Zenon DEF RecordedOf

(* A put records the loc, of the newest generation, behind the others. *)
LEMMA PutRecorded ==
    ASSUME NEW arena, NEW W, Laid(arena, W), NEW id \in Ids, NEW i, NEW arena1, Laid(arena1, Extended(W, id, i)),
           Taken(W[NoKey], Len(arena), i, Len(arena1)), NEW l, Took(arena, arena1, i, l),
           NEW g \in Int, NEW h \in Int, l.gen = h, g <= h, NEW st, NEW st1,
           st1[id] = Append(st[id], [gen |-> l.gen, off |-> l.off]),
           \A k \in Ids : k # id => st1[k] = st[k],
           Recorded(arena, W, st, g, h)
    PROVE  Recorded(arena1, Extended(W, id, i), st1, g, h)
<1> DEFINE N == Len(arena)
           N1 == Len(arena1)
           V == Extended(W, id, i)
           n == Len(W[id])
<1>1. N \in Nat /\ N1 \in Nat /\ \A k \in Keys : Len(W[k]) \in Nat /\ \A p \in 1 .. Len(W[k]) : W[k][p] \in 1 .. N
  BY LaidFacts
<1>2. Extends(V, W, id, i, N, N1)
  BY <1>1, ExtendedIs
<1>3. /\ Len(V[id]) = n + 1 /\ V[id][n + 1] = i
      /\ \A p \in 1 .. n : V[id][p] = W[id][p]
      /\ \A k \in Keys : k # NoKey /\ k # id => V[k] = W[k]
      /\ \A k \in Keys : \A p \in 1 .. Len(W[k]) : W[k][p] = i => k = NoKey /\ p = 1
  BY <1>2, Zenon DEF Extends
<1> HIDE DEF V
<1>4. /\ arena1[i].gen = l.gen /\ arena1[i].off = l.off
      /\ \A j \in 1 .. N : j # i => arena1[j].gen = arena[j].gen /\ arena1[j].off = arena[j].off
  BY Zenon DEF Took
<1>5. \A k \in Ids : k \in Keys /\ k # NoKey
  BY NoKeyIs
<1>6. \A k \in Ids : \A p \in 1 .. Len(W[k]) :
         arena1[W[k][p]].gen = arena[W[k][p]].gen /\ arena1[W[k][p]].off = arena[W[k][p]].off
  BY <1>1, <1>3, <1>4, <1>5, Zenon
<1>7. ASSUME NEW k \in Ids, k # id
      PROVE  RecordedOf(k, arena1, V, st1, g, h)
  <2>1. V[k] = W[k]
    BY <1>3, <1>5, <1>7, Zenon
  <2>2. SameChain(arena, W, arena1, V, k)
    BY <1>6, <2>1, Zenon DEF SameChain
  <2>3. Laid(arena1, V) /\ RecordedOf(k, arena, W, st, g, h) /\ st1[k] = st[k]
    BY <1>7, Zenon DEF V, Recorded
  <2>4. QED
    BY <2>2, <2>3, RecordedSame, Zenon
<1>8. RecordedOf(id, arena1, V, st1, g, h)
  <2> DEFINE L == LocsOf(arena, W[id])
             L1 == LocsOf(arena1, V[id])
             v == [gen |-> l.gen, off |-> l.off]
  <2>1. Laid(arena1, V) /\ RecordedOf(id, arena, W, st, g, h)
    BY Zenon DEF V, Recorded
  <2>2. /\ L \in Seq(Locs) /\ Len(L) = n
        /\ \A k \in 1 .. n : L[k] = [gen |-> arena[W[id][k]].gen, off |-> arena[W[id][k]].off]
    <3>1. AreLocs(L, arena, W[id])
      BY LocsOfIs, Zenon
    <3>2. QED
      BY <3>1, Zenon DEF AreLocs
  <2>3. /\ L1 \in Seq(Locs) /\ Len(L1) = n + 1
        /\ \A k \in 1 .. n + 1 : L1[k] = [gen |-> arena1[V[id][k]].gen, off |-> arena1[V[id][k]].off]
    <3>1. AreLocs(L1, arena1, V[id])
      BY <2>1, LocsOfIs, Zenon
    <3>2. QED
      BY <1>3, <3>1, Zenon DEF AreLocs
  <2>4. n \in Nat
    BY <1>1, <1>5
  <2> HIDE DEF n, L, L1
  <2>5. n + 1 \in 1 .. n + 1 /\ \A k \in 1 .. n : k \in 1 .. n + 1
    BY <2>4
  <2>6. \A k \in 1 .. n : L1[k] = L[k]
    <3>1. \A k \in 1 .. n : V[id][k] = W[id][k] /\ arena1[W[id][k]].gen = arena[W[id][k]].gen /\ arena1[W[id][k]].off = arena[W[id][k]].off
      BY <1>3, <1>6, Zenon DEF n
    <3>2. QED
      <4> TAKE k \in 1 .. n
      <4>1. L[k] = [gen |-> arena[W[id][k]].gen, off |-> arena[W[id][k]].off]
        BY <2>2, Zenon
      <4>2. L1[k] = [gen |-> arena1[V[id][k]].gen, off |-> arena1[V[id][k]].off]
        BY <2>3, <2>5, Zenon
      <4>3. V[id][k] = W[id][k] /\ arena1[W[id][k]].gen = arena[W[id][k]].gen /\ arena1[W[id][k]].off = arena[W[id][k]].off
        BY <3>1, Zenon
      <4>4. QED
        BY ONLY <4>1, <4>2, <4>3, Zenon
  <2>7. L1[n + 1] = v
    BY <1>3, <1>4, <2>3, <2>5, Zenon
  <2>8. v.gen = h
    OBVIOUS
  <2> HIDE DEF v
  <2>9. X!Since(L1, g) = IF L1[Len(L) + 1].gen >= g THEN Append(X!Since(L, g), L1[Len(L) + 1]) ELSE X!Since(L, g)
    <3>1. /\ L \in Seq(Locs) /\ L1 \in Seq(Locs)
          /\ Len(L1) = Len(L) + 1 /\ \A k \in 1 .. Len(L) : L1[k] = L[k]
      BY <2>2, <2>3, <2>6, Zenon
    <3>2. QED
      BY ONLY <3>1, SinceStep, Zenon
  <2>10. h >= g
    OBVIOUS
  <2>11. X!Since(L1, g) = Append(X!Since(L, g), v)
    BY ONLY <2>2, <2>7, <2>8, <2>9, <2>10, Zenon
  <2>12. st[id] = X!Since(L, g) /\ \A p \in 1 .. n : arena[W[id][p]].gen <= h
    BY <2>1, Zenon DEF RecordedOf, L, n
  <2>13. st1[id] = X!Since(L1, g)
    BY <2>11, <2>12, Zenon DEF v
  <2>14. \A p \in 1 .. n + 1 : arena1[V[id][p]].gen <= arena1[V[id][n + 1]].gen /\ arena1[V[id][p]].gen <= h
    <3>1. arena1[V[id][n + 1]].gen = h
      BY <1>3, <1>4, Zenon DEF n
    <3>2. \A p \in 1 .. n : arena1[V[id][p]].gen <= h
      <4> TAKE p \in 1 .. n
      <4>1. V[id][p] = W[id][p] /\ arena1[W[id][p]].gen = arena[W[id][p]].gen
        BY <1>3, <1>6, Zenon DEF n
      <4>2. arena[W[id][p]].gen <= h
        BY <2>12, Zenon
      <4>3. QED
        BY ONLY <4>1, <4>2, Zenon
    <3>3. h <= h /\ \A p \in 1 .. n + 1 : p \in 1 .. n \/ p = n + 1
      BY <2>4
    <3>4. QED
      BY ONLY <3>1, <3>2, <3>3, Zenon
  <2>15. QED
    BY <1>3, <2>13, <2>14, Zenon DEF RecordedOf, L1, n
<1>9. QED
  BY <1>7, <1>8, Zenon DEF Recorded, V

(* What a sweep frees was all of segments that are gone. *)
LEMMA SweepRecorded ==
    ASSUME NEW n \in Nat \ {0}, NEW y, NEW W, XSound(y, n, W), NEW nodes, NEW z, SweepDone(z, y, n),
           XSound(z, n, Freeing(W, Gone(y), nodes)), Cleared(y) \subseteq LiveSlots(y.slots, n),
           NEW st, NEW h, minGen \in Int, Recorded(y.arena, W, st, minGen, h)
    PROVE  Recorded(z.arena, Freeing(W, Gone(y), nodes), st, minGen, h)
<1> DEFINE V == Freeing(W, Gone(y), nodes)
<1>1. Laid(y.arena, W) /\ Pointed(y.slots, n, W) /\ Laid(z.arena, V)
  BY SoundFacts
<1>2. \A k \in Ids : k \in Keys /\ k # NoKey
  BY NoKeyIs
<1>3. \A k \in Ids : V[k] = IF k \in Gone(y) THEN << >> ELSE W[k]
  BY <1>2, Zenon DEF Freeing
<1> HIDE DEF V
<1>4. /\ \A k \in Ids : Len(W[k]) \in Nat /\ \A p \in 1 .. Len(W[k]) : W[k][p] \in 1 .. Len(y.arena)
      /\ \A i \in 1 .. Len(y.arena) : y.arena[i].gen \in 1 .. MaxGen
  BY <1>1, <1>2, LaidFacts, Zenon
<1>5. ASSUME NEW k \in Ids, k \notin Gone(y)
      PROVE  RecordedOf(k, z.arena, V, st, minGen, h)
  <2>1. V[k] = W[k]
    BY <1>3, <1>5, Zenon
  <2>2. SameChain(y.arena, W, z.arena, V, k)
    BY <1>4, <2>1, Zenon DEF SweepDone, SameLocs, SameChain
  <2>3. RecordedOf(k, y.arena, W, st, minGen, h)
    BY Zenon DEF Recorded
  <2>4. QED
    BY <1>1, <2>2, <2>3, RecordedSame, Zenon
<1>6. ASSUME NEW k \in Ids, k \in Gone(y)
      PROVE  RecordedOf(k, z.arena, V, st, minGen, h)
  <2> DEFINE L == LocsOf(y.arena, W[k])
             end == W[k][Len(W[k])]
  <2>1. V[k] = << >>
    BY <1>3, <1>6, Zenon
  <2>2. PICK j \in Cleared(y) : k = y.slots[j].id
    BY <1>6, Zenon DEF Gone
  <2>3. j \in LiveSlots(y.slots, n) /\ X!IsDead(y, j)
    BY <2>2, Zenon DEF Cleared
  <2>4. Len(W[k]) > 0 /\ y.slots[j].tail = end
    BY <1>1, <2>2, <2>3, Zenon DEF Pointed
  <2>5. y.arena[end].gen < minGen
    BY <2>3, <2>4, Zenon DEF X!IsDead
  <2>6. Len(W[k]) \in 1 .. Len(W[k])
    BY <1>4, <2>4
  <2>7. RecordedOf(k, y.arena, W, st, minGen, h)
    BY Zenon DEF Recorded
  <2>8. \A p \in 1 .. Len(W[k]) : y.arena[W[k][p]].gen <= y.arena[end].gen /\ y.arena[W[k][p]].gen \in Int
    <3>1. \A p \in 1 .. Len(W[k]) : y.arena[W[k][p]].gen \in 1 .. MaxGen
      BY <1>4, Zenon
    <3>2. \A w \in 1 .. MaxGen : w \in Int
      OBVIOUS
    <3>3. QED
      BY <2>7, <3>1, <3>2, Zenon DEF RecordedOf
  <2>9. /\ L \in Seq(Locs) /\ Len(L) = Len(W[k])
        /\ \A p \in 1 .. Len(W[k]) : L[p].gen = y.arena[W[k][p]].gen
    <3>1. AreLocs(L, y.arena, W[k])
      BY <1>1, LocsOfIs, Zenon
    <3>2. QED
      BY <3>1, Zenon DEF AreLocs
  <2> HIDE DEF L
  <2>10. \A p \in 1 .. Len(L) : ~(L[p].gen >= minGen)
    <3>1. y.arena[end].gen \in Int
      BY <2>6, <2>8, Zenon
    <3> HIDE DEF end
    <3>2. \A w \in Int : w <= y.arena[end].gen => ~(w >= minGen)
      BY ONLY <2>5, <3>1, minGen \in Int
    <3>3. QED
      BY ONLY <2>8, <2>9, <3>2, Zenon
  <2>11. X!Since(L, minGen) = << >>
    BY <2>9, <2>10, SinceNone, Zenon
  <2>12. LocsOf(z.arena, << >>) = << >> /\ << >> \in Seq(Locs) /\ \A p \in 1 .. Len(<< >>) : FALSE
    BY DEF LocsOf
  <2>13. X!Since(<< >>, minGen) = << >>
    BY <2>12, SinceType, Zenon
  <2>14. st[k] = << >>
    BY <2>7, <2>11, Zenon DEF RecordedOf, L
  <2>15. QED
    BY <2>1, <2>12, <2>13, <2>14, Zenon DEF RecordedOf
<1>7. QED
  BY <1>5, <1>6, Zenon DEF Recorded, V

-----------------------------------------------------------------------------
(***************************************************************************)
(* The sweeps' turn of the table.                                          *)
(***************************************************************************)
(* Slot j of n is k slots behind cur, going round or not. *)
Back(j, k, n, cur) == \E q \in Int : j + k + q * n = cur

(* A sweep of c slots from cur on passes over it, or it is behind cur. *)
Passes(j, k, n, cur, c) ==
    /\ k > c => Back(j, k - c, n, cur)
    /\ k <= c => \E i \in 0 .. n - 1 : i < c /\ (cur + i) % n = j

(* A slot k behind where the cursor gets was passed or was behind it. *)
LEMMA Passed ==
    ASSUME NEW n \in Nat \ {0}, NEW c \in Nat, NEW cur \in Nat, NEW j \in 0 .. n - 1, NEW k \in Nat \ {0},
           Back(j, k, n, (cur + c) % n)
    PROVE  Passes(j, k, n, cur, c)
<1>7. PICK q \in Int : j + k + q * n = (cur + c) % n
  BY DEF Back
<1> DEFINE a == cur + c
           u == a \div n
           m == a % n
<1>1. a \in Int
  OBVIOUS
<1>2. m \in 0 .. n - 1 /\ u \in Int /\ a = m + u * n
  BY <1>1, ModOf, Zenon
<1> HIDE DEF u, m
<1>3. j + k + (q + u) * n = cur + c
  <2> DEFINE qn == q * n
             un == u * n
  <2>1. (q + u) * n = qn + un /\ qn \in Int /\ un \in Int
    BY <1>2
  <2>2. j + k + qn = m /\ cur + c = m + un
    BY <1>2, <1>7 DEF m
  <2> HIDE DEF qn, un
  <2>3. QED
    BY <1>2, <2>1, <2>2
<1>4. CASE k > c
  <2> DEFINE r == q + u
             rn == r * n
  <2>1. r \in Int /\ rn \in Int /\ j + k + rn = cur + c
    BY <1>2, <1>3
  <2> HIDE DEF r
  <2>2. j + (k - c) + r * n = cur
    <3> HIDE DEF rn
    <3>1. j + (k - c) + rn = cur
      BY <2>1
    <3>2. QED
      BY <3>1 DEF rn
  <2>3. ~(k <= c)
    BY <1>4
  <2>4. QED
    BY <2>1, <2>2, <2>3, Zenon DEF Passes, Back
<1>5. CASE k <= c
  <2> DEFINE t == c - k
             i == t % n
             v == t \div n
             w == (q + u) - v
  <2>1. t \in Nat /\ t \in Int /\ t < c
    BY <1>5
  <2>2. i \in 0 .. n - 1 /\ v \in Int /\ t = i + v * n
    BY <2>1, ModOf, Zenon
  <2>3. c - k = t
    OBVIOUS
  <2> HIDE DEF t, i, v
  <2>4. v >= 0
    <3>1. SUFFICES ASSUME v <= -1 PROVE FALSE
      BY <2>2
    <3>2. v * n <= -n
      BY <2>2, <3>1
    <3> DEFINE vn == v * n
    <3>3. vn \in Int /\ vn <= -n /\ t = i + vn
      BY <2>2, <3>2
    <3> HIDE DEF vn
    <3>4. QED
      BY <2>1, <2>2, <3>3
  <2>5. i < c
    <3> DEFINE vn == v * n
    <3>1. vn >= 0 /\ vn \in Int /\ t = i + vn
      BY <2>2, <2>4
    <3> HIDE DEF vn
    <3>2. QED
      BY <2>1, <2>2, <3>1
  <2>6. w \in Int /\ cur + i \in Int /\ cur + i = j + w * n
    <3> DEFINE r == q + u
               rn == r * n
               vn == v * n
    <3>1. w * n = rn - vn /\ rn \in Int /\ vn \in Int
      BY <1>2, <2>2
    <3>2. j + k + rn = cur + c /\ t = i + vn
      BY <1>3, <2>2
    <3>3. w \in Int
      BY <1>2, <2>2
    <3> HIDE DEF rn, vn, r, w
    <3>4. QED
      BY <2>1, <2>2, <2>3, <3>1, <3>2, <3>3
  <2> HIDE DEF w
  <2>7. (cur + i) % n = j
    <3> DEFINE b == cur + i
    <3>1. b \in Int /\ b = j + w * n /\ w \in Int
      BY <2>6, Zenon
    <3> HIDE DEF b
    <3>2. b % n = j
      BY ONLY <3>1, n \in Nat \ {0}, j \in 0 .. n - 1, ModIs
    <3>3. QED
      BY <3>2, Zenon DEF b
  <2>8. ~(k > c)
    BY <1>5
  <2>9. QED
    BY <2>2, <2>5, <2>7, <2>8, Zenon DEF Passes
<1>6. QED
  BY <1>4, <1>5

(* No trace is dead in the m slots behind the cursor. *)
Turned(y, n, m) ==
    \A j \in 0 .. n - 1 : \A k \in 1 .. m : Back(j, k, n, y.cursor) => ~X!IsDead(y, j)

(* Of no slots nothing is said. *)
LEMMA TurnedNone ==
    ASSUME NEW y, NEW n
    PROVE  Turned(y, n, 0)
BY DEF Turned

(* m slots are all of them if there are no more. *)
LEMMA TurnedAll ==
    ASSUME NEW n \in Nat \ {0}, NEW m \in Nat, m >= n, NEW y, y.cursor \in Nat, Turned(y, n, m)
    PROVE  \A j \in 0 .. n - 1 : ~X!IsDead(y, j)
<1> TAKE j \in 0 .. n - 1
<1> DEFINE cur == y.cursor
           a == (cur - j) - 1
           k == (a % n) + 1
           q == a \div n
<1>1. a \in Int /\ cur \in Nat /\ a = (cur - j) - 1
  OBVIOUS
<1> HIDE DEF a
<1>2. a % n \in 0 .. n - 1 /\ q \in Int /\ a = (a % n) + q * n
  BY <1>1, ModOf, Zenon
<1>3. k \in 1 .. m /\ j + k + q * n = cur
  <2> DEFINE qn == q * n
             b == a % n
  <2>1. qn \in Int /\ b \in 0 .. n - 1 /\ a = b + qn /\ k = b + 1
    BY <1>2
  <2> HIDE DEF qn, b, k, q, cur
  <2>2. k \in 1 .. m /\ j + k + qn = cur
    BY <1>1, <2>1
  <2>3. QED
    BY <2>2 DEF qn
<1> HIDE DEF k, q
<1>4. QED
  BY <1>2, <1>3, Zenon DEF Turned, Back

(* Slots that are dead were dead before. *)
LEMMA SweepDead ==
    ASSUME NEW n \in Nat \ {0}, NEW y, NEW W, XSound(y, n, W), NEW z, NEW V, XSound(z, n, V), SweepDone(z, y, n),
           NEW j \in 0 .. n - 1, X!IsDead(z, j)
    PROVE  X!IsDead(y, j) /\ j \notin Cleared(y)
<1>1. j \in LiveSlots(z.slots, n)
  BY Zenon DEF LiveSlots, X!IsDead
<1>2. j \in LiveSlots(y.slots, n) /\ j \notin Cleared(y) /\ z.slots[j] = y.slots[j]
  BY <1>1, Zenon DEF SweepDone
<1>3. y.slots[j].head > 0
  BY <1>2 DEF LiveSlots
<1>4. y.slots[j].tail \in 1 .. Len(y.arena)
  <2> DEFINE id == y.slots[j].id
  <2>1. Table(y.slots, n) /\ Laid(y.arena, W) /\ Pointed(y.slots, n, W)
    BY SoundFacts
  <2>2. id \in Ids
    BY <1>2, <2>1, Zenon DEF Table
  <2>3. Len(W[id]) > 0 /\ y.slots[j].tail = W[id][Len(W[id])]
    BY <1>2, <2>1, Zenon DEF Pointed
  <2>4. Len(W[id]) \in Nat /\ \A p \in 1 .. Len(W[id]) : W[id][p] \in 1 .. Len(y.arena)
    BY <2>1, <2>2, NoKeyIs, LaidFacts
  <2> HIDE DEF id
  <2>5. Len(W[id]) \in 1 .. Len(W[id])
    BY <2>3, <2>4
  <2>6. QED
    BY <2>3, <2>4, <2>5, Zenon
<1>5. z.arena[y.slots[j].tail].gen = y.arena[y.slots[j].tail].gen
  BY <1>4, Zenon DEF SweepDone, SameLocs
<1>6. z.arena[z.slots[j].tail].gen < minGen
  BY Zenon DEF X!IsDead
<1>7. y.arena[y.slots[j].tail].gen < minGen
  BY ONLY <1>2, <1>5, <1>6, Zenon
<1>8. QED
  BY ONLY <1>2, <1>3, <1>7, Zenon DEF X!IsDead

(* A slot that is dead after compact was dead before. *)
LEMMA CompactDead ==
    ASSUME NEW n \in Nat \ {0}, NEW y, NEW W, XSound(y, n, W), NEW z, NEW V, CompactDone(z, y, n, V, W),
           NEW j \in 0 .. n - 1, X!IsDead(z, j)
    PROVE  X!IsDead(y, j)
<1> DEFINE id == y.slots[j].id
<1>1. /\ XSound(z, n, V) /\ \A k \in Ids : SameChain(y.arena, W, z.arena, V, k)
      /\ \A i \in LiveSlots(z.slots, n) : i \in LiveSlots(y.slots, n) /\ z.slots[i].id = y.slots[i].id
  BY Zenon DEF CompactDone
<1>2. /\ Table(y.slots, n) /\ Laid(y.arena, W) /\ Pointed(y.slots, n, W) /\ Pointed(z.slots, n, V)
  BY <1>1, SoundFacts, Zenon
<1>3. j \in LiveSlots(z.slots, n)
  BY Zenon DEF LiveSlots, X!IsDead
<1>4. j \in LiveSlots(y.slots, n) /\ z.slots[j].id = id
  BY <1>1, <1>3, Zenon
<1>5. y.slots[j].head > 0
  BY <1>4 DEF LiveSlots
<1>6. id \in Ids /\ Len(W[id]) > 0 /\ y.slots[j].tail = W[id][Len(W[id])] /\ z.slots[j].tail = V[id][Len(V[id])]
  BY <1>2, <1>3, <1>4, Zenon DEF Table, Pointed
<1>7. /\ Len(V[id]) = Len(W[id])
      /\ \A p \in 1 .. Len(W[id]) : z.arena[V[id][p]].gen = y.arena[W[id][p]].gen
  BY <1>1, <1>6, Zenon DEF SameChain
<1>8. Len(W[id]) \in 1 .. Len(W[id])
  <2>1. Len(W[id]) \in Nat
    BY <1>2, <1>6, NoKeyIs, LaidFacts
  <2>2. QED
    BY <1>6, <2>1
<1>9. z.arena[z.slots[j].tail].gen < minGen
  BY Zenon DEF X!IsDead
<1> HIDE DEF id
<1>10. y.arena[y.slots[j].tail].gen < minGen
  BY ONLY <1>6, <1>7, <1>8, <1>9, Zenon
<1>11. QED
  BY ONLY <1>5, <1>10, Zenon DEF X!IsDead

(* A sweep adds the slots it looks at to those behind the cursor. *)
LEMMA SweepTurns ==
    ASSUME X!IndexConstants, NEW n \in Nat \ {0}, NEW y, NEW W, XSound(y, n, W), NEW z, NEW V, XSound(z, n, V),
           SweepDone(z, y, n), NEW m \in Nat, Turned(y, n, m)
    PROVE  Turned(z, n, m + SweepChunk)
<1>1. SweepChunk \in Nat \ {0} /\ y.cursor \in Nat /\ z.cursor = (y.cursor + SweepChunk) % n
  <2>1. z.cursor = (y.cursor + SweepChunk) % n
    BY Zenon DEF SweepDone
  <2>2. QED
    BY <2>1, SoundFacts DEF X!IndexConstants
<1>2. DOMAIN y.slots = 0 .. n - 1
  BY SoundFacts, TableFacts
<1>3. PICK c \in Nat : Looked(X!Swept(y), c, y.cursor, n)
  BY <1>1, <1>2, SweptIs
<1>4. /\ DOMAIN X!Swept(y) = 1 .. c /\ (c = n \/ c = SweepChunk)
      /\ \A k \in 1 .. c : X!Swept(y)[k] = (y.cursor + (k - 1)) % n
  BY <1>3, Zenon DEF Looked
<1>5. ASSUME NEW j \in 0 .. n - 1, NEW k \in 1 .. m + SweepChunk, Back(j, k, n, z.cursor),
             X!IsDead(z, j)
      PROVE  FALSE
  <2>1. X!IsDead(y, j) /\ j \notin Cleared(y)
    BY <1>5, SweepDead, Zenon
  <2>2. k \in Nat \ {0} /\ SweepChunk \in Nat /\ Back(j, k, n, (y.cursor + SweepChunk) % n)
    BY <1>1, <1>5
  <2>3. Passes(j, k, n, y.cursor, SweepChunk)
    BY <1>1, <2>2, Passed, Zenon
  <2>4. CASE k > SweepChunk
    <3>1. k - SweepChunk \in 1 .. m
      BY <1>1, <2>4
    <3>2. QED
      BY <2>1, <2>3, <2>4, <3>1, Zenon DEF Turned, Passes
  <2>5. CASE k <= SweepChunk
    <3>1. PICK i \in 0 .. n - 1 : i < SweepChunk /\ (y.cursor + i) % n = j
      BY <2>3, <2>5, Zenon DEF Passes
    <3>2. i + 1 \in 1 .. c /\ (i + 1) - 1 = i
      BY <1>1, <1>4, <3>1
    <3>3. X!Swept(y)[i + 1] = j
      BY <1>4, <3>1, <3>2, Zenon
    <3>4. j \in Cleared(y)
      BY <1>4, <2>1, <3>2, <3>3, Zenon DEF Cleared
    <3>5. QED
      BY <2>1, <3>4
  <2>6. QED
    BY <1>1, <2>4, <2>5
<1>6. QED
  BY <1>5, Zenon DEF Turned

(* Fewer slots behind the cursor. *)
LEMMA TurnedLess ==
    ASSUME NEW n, NEW m \in Nat, NEW l \in Nat, l <= m, NEW y, Turned(y, n, m)
    PROVE  Turned(y, n, l)
<1>1. \A k \in 1 .. l : k \in 1 .. m
  OBVIOUS
<1>2. QED
  BY <1>1, Zenon DEF Turned

(* compact leaves the slots behind the cursor as they were. *)
LEMMA CompactTurned ==
    ASSUME NEW n \in Nat \ {0}, NEW y, NEW W, XSound(y, n, W), NEW z, NEW V, CompactDone(z, y, n, V, W),
           NEW m, Turned(y, n, m)
    PROVE  Turned(z, n, m)
<1>1. z.cursor = y.cursor
  BY Zenon DEF CompactDone
<1>2. \A j \in 0 .. n - 1 : X!IsDead(z, j) => X!IsDead(y, j)
  BY CompactDead, Zenon
<1>3. QED
  BY <1>1, <1>2, Zenon DEF Turned

-----------------------------------------------------------------------------
(***************************************************************************)
(* The inductive invariant of the index.                                   *)
(***************************************************************************)
XTypes ==
    /\ hash \in Hashes
    /\ gen \in 1 .. MaxGen /\ minGen \in 1 .. gen /\ puts \in 0 .. MaxPuts
    /\ DOMAIN stored = Ids

XInv ==
    /\ XTypes
    /\ \E n \in Nat : \E W :
          /\ X!IsPowerOfTwo(n) /\ XSound(x, n, W)
          /\ Recorded(x.arena, W, stored, minGen, gen)
          /\ sweeps \in 0 .. n /\ Turned(x, n, sweeps * SweepChunk)

(* What the constants are. *)
LEMMA XConstants ==
    ASSUME X!IndexConstants
    PROVE  /\ InitialSlots \in Nat /\ X!IsPowerOfTwo(InitialSlots)
           /\ HashRange \in Nat /\ Hashes \subseteq [Ids -> 0 .. HashRange - 1]
           /\ SweepChunk \in Nat \ {0} /\ MaxPuts \in Nat /\ MaxGen \in Nat \ {0}
           /\ hash \in Hashes => XHashOK
BY DEF X!IndexConstants, XHashOK

(* newIndex. *)
LEMMA InitIndex ==
    ASSUME X!IndexConstants, X!Init
    PROVE  XInv
<1> DEFINE n == InitialSlots
           tab == [i \in 0 .. n - 1 |-> X!EmptySlot]
           W == [k \in Keys |-> << >>]
<1>1. n \in Nat /\ n \in Nat \ {0} /\ X!IsPowerOfTwo(n)
  BY XConstants DEF X!IsPowerOfTwo
<1>2. /\ x = [slots |-> tab, arena |-> << >>, free |-> 0, freeLen |-> 0, liveCount |-> 0, tombs |-> 0, cursor |-> 0]
      /\ hash \in Hashes /\ gen = 1 /\ minGen = 1 /\ puts = 0
      /\ stored = [id \in Ids |-> << >>] /\ sweeps = 0
  BY Zenon DEF X!Init
<1>3. XTypes
  BY <1>2, XConstants DEF XTypes
<1>4. Table(tab, n) /\ LiveSlots(tab, n) = {} /\ DeadSlots(tab, n) = {}
  BY <1>1, EmptyTable
<1> HIDE DEF tab, n
<1>5. /\ x.slots = tab /\ x.arena = << >> /\ x.free = 0 /\ x.freeLen = 0
      /\ x.liveCount = 0 /\ x.tombs = 0 /\ x.cursor = 0
  BY ONLY <1>2
<1>6. \A k \in Keys : W[k] = << >>
  OBVIOUS
<1>7. W \in [Keys -> Seq(1 .. Len(<< >>))] /\ << >> \in Seq(Nodes) /\ Len(<< >>) = 0
  OBVIOUS
<1> HIDE DEF W
<1>8. \A k \in Keys : Len(W[k]) = 0
  BY <1>6, <1>7, Zenon
<1>9. \A p \in 1 .. 0 : FALSE
  OBVIOUS
<1>10. Laid(<< >>, W)
  BY <1>7, <1>8, <1>9, Zenon DEF Laid, Linked, Apart, Covered
<1>11. Pointed(tab, n, W)
  <2>1. \A id \in Ids : ~(Len(W[id]) > 0)
    BY <1>8, NoKeyIs
  <2>2. QED
    BY <1>4, <2>1, Zenon DEF Pointed
<1>12. x \in IndexType(n)
  <2>1. tab \in Tables(n)
    BY <1>4, Zenon DEF Table
  <2>2. << >> \in Seq(Nodes)
    OBVIOUS
  <2>3. QED
    BY ONLY <1>2, <2>1, <2>2 DEF IndexType
<1>13. XSound(x, n, W)
  <2>1. Cardinality({}) = 0
    BY FS_EmptySet
  <2>2. Following(W[NoKey], 0) = 0 /\ Len(W[NoKey]) = 0
    <3>1. Len(W[NoKey]) = 0
      BY <1>8, NoKeyIs
    <3>2. QED
      BY <3>1 DEF Following
  <2>3. QED
    BY ONLY <1>4, <1>5, <1>10, <1>11, <1>12, <2>1, <2>2, Zenon DEF XSound
<1>14. Recorded(x.arena, W, stored, minGen, gen)
  <2>1. LocsOf(<< >>, << >>) = << >> /\ << >> \in Seq(Locs)
    BY DEF LocsOf
  <2>2. X!Since(<< >>, minGen) = << >>
    BY <2>1, SinceType, Zenon
  <2>3. ASSUME NEW id \in Ids PROVE RecordedOf(id, x.arena, W, stored, minGen, gen)
    <3>1. W[id] = << >> /\ stored[id] = << >> /\ Len(W[id]) = 0
      BY <1>2, <1>6, <1>8, NoKeyIs, Zenon
    <3>2. QED
      BY <1>5, <1>9, <2>1, <2>2, <3>1, Zenon DEF RecordedOf
  <2>4. QED
    BY <2>3, Zenon DEF Recorded
<1>15. sweeps \in 0 .. n /\ sweeps * SweepChunk = 0
  BY <1>1, <1>2, XConstants
<1>16. Turned(x, n, sweeps * SweepChunk)
  BY <1>15, TurnedNone, Zenon
<1>17. QED
  BY <1>1, <1>3, <1>13, <1>14, <1>15, <1>16, Zenon DEF XInv

(* The hash stays, and with it what a probe gets to. *)
LEMMA XSameHash ==
    ASSUME hash' = hash, XTypes', NEW n \in Nat, NEW W, X!IsPowerOfTwo(n), XSound(x', n, W),
           Recorded(x'.arena, W, stored', minGen', gen'), sweeps' \in 0 .. n, Turned(x, n, sweeps * SweepChunk)'
    PROVE  XInv'
<1>1. \A slots, id, j : Got(slots, n, id, j)' <=> Got(slots, n, id, j)
  BY DEF Got, XAt
<1>2. Table(x.slots, n)'
  <2>1. Table(x'.slots, n)
    BY Zenon DEF XSound
  <2>2. QED
    BY <1>1, <2>1, Zenon DEF Table
<1>3. XSound(x, n, W)'
  BY <1>2, Zenon DEF XSound
<1>4. Recorded(x.arena, W, stored, minGen, gen)'
  OBVIOUS
<1>5. QED
  BY <1>3, <1>4, Zenon DEF XInv

(* put. *)
LEMMA PutStep ==
    ASSUME X!IndexConstants, XInv, NEW id \in Ids, X!PutLoc(id)
    PROVE  XInv'
<1> DEFINE l == [gen |-> gen, off |-> puts + 1, next |-> 0]
           v == [gen |-> gen, off |-> puts + 1]
<1>1. XTypes /\ XHashOK
  BY XConstants DEF XInv, XTypes
<1>2. PICK n \in Nat : \E W : /\ X!IsPowerOfTwo(n) /\ XSound(x, n, W)
                              /\ Recorded(x.arena, W, stored, minGen, gen)
  BY Zenon DEF XInv
<1>3. PICK W : /\ X!IsPowerOfTwo(n) /\ XSound(x, n, W) /\ Recorded(x.arena, W, stored, minGen, gen)
  BY <1>2
<1>4. /\ puts < MaxPuts /\ x' = X!Put(x, id, l) /\ puts' = puts + 1
      /\ stored' = [stored EXCEPT ![id] = Append(@, v)] /\ sweeps' = 0
      /\ hash' = hash /\ gen' = gen /\ minGen' = minGen
  BY Zenon DEF X!PutLoc
<1>5. gen \in Int /\ minGen \in Int /\ minGen <= gen /\ DOMAIN stored = Ids
  BY <1>1, XConstants DEF XTypes
<1>6. l \in Nodes /\ l.next = 0 /\ l.gen = gen /\ l.off = puts + 1
  <2>1. gen \in 1 .. MaxGen /\ puts + 1 \in 1 .. MaxPuts
    BY <1>1, <1>4, XConstants DEF XTypes
  <2>2. QED
    BY ONLY <2>1 DEF Nodes
<1>7. /\ stored'[id] = Append(stored[id], [gen |-> l.gen, off |-> l.off])
      /\ \A k \in Ids : k # id => stored'[k] = stored[k]
      /\ DOMAIN stored' = Ids
  BY ONLY <1>4, <1>5, <1>6, id \in Ids, Zenon
<1> HIDE DEF l, v
<1>8. PICK m \in Nat, i \in Nat :
         /\ X!IsPowerOfTwo(m) /\ XSound(x', m, Extended(W, id, i))
         /\ Taken(W[NoKey], Len(x.arena), i, Len(x'.arena))
         /\ Took(x.arena, x'.arena, i, l)
  <2>1. \E m \in Nat, i \in Nat :
           /\ X!IsPowerOfTwo(m) /\ XSound(X!Put(x, id, l), m, Extended(W, id, i))
           /\ Taken(W[NoKey], Len(x.arena), i, Len(X!Put(x, id, l).arena))
           /\ Took(x.arena, X!Put(x, id, l).arena, i, l)
    BY <1>1, <1>3, <1>6, PutSound, Zenon
  <2>2. QED
    BY <1>4, <2>1, Zenon
<1>9. Recorded(x'.arena, Extended(W, id, i), stored', minGen, gen)
  <2>1. Laid(x.arena, W) /\ Laid(x'.arena, Extended(W, id, i))
    BY <1>3, <1>8, SoundFacts, Zenon
  <2> DEFINE a == x.arena
             a1 == x'.arena
             s == stored
             s1 == stored'
  <2>2. /\ Laid(a, W) /\ Laid(a1, Extended(W, id, i)) /\ Taken(W[NoKey], Len(a), i, Len(a1)) /\ Took(a, a1, i, l)
        /\ s1[id] = Append(s[id], [gen |-> l.gen, off |-> l.off]) /\ \A k \in Ids : k # id => s1[k] = s[k]
        /\ Recorded(a, W, s, minGen, gen) /\ id \in Ids /\ gen \in Int /\ minGen \in Int /\ minGen <= gen /\ l.gen = gen
    BY <1>3, <1>5, <1>6, <1>7, <1>8, <2>1, Zenon
  <2> HIDE DEF a, a1, s, s1
  <2>3. Recorded(a1, Extended(W, id, i), s1, minGen, gen)
    BY ONLY <2>2, PutRecorded, Zenon
  <2>4. QED
    BY <2>3, Zenon DEF a1, s1
<1>10. XTypes'
  BY <1>1, <1>4, <1>7, XConstants DEF XTypes
<1>11. sweeps' \in 0 .. m /\ (sweeps * SweepChunk)' = 0
  BY <1>4, XConstants
<1>12. Turned(x, m, sweeps * SweepChunk)'
  BY <1>11 DEF Turned
<1>13. Recorded(x'.arena, Extended(W, id, i), stored', minGen', gen')
  BY <1>4, <1>9, Zenon
<1>14. QED
  BY <1>4, <1>8, <1>10, <1>11, <1>12, <1>13, XSameHash, Zenon

(* A sweep clears live slots only. *)
LEMMA ClearedLive ==
    ASSUME X!IndexConstants, NEW n \in Nat \ {0}, NEW y, NEW W, XSound(y, n, W)
    PROVE  Cleared(y) \subseteq LiveSlots(y.slots, n)
<1>1. DOMAIN y.slots = 0 .. n - 1 /\ y.cursor \in Nat
  BY SoundFacts, TableFacts
<1>2. PICK c \in Nat : Looked(X!Swept(y), c, y.cursor, n)
  BY <1>1, SweptIs
<1>3. \A k \in DOMAIN X!Swept(y) : X!Swept(y)[k] \in 0 .. n - 1
  BY <1>2, Zenon DEF Looked
<1>4. QED
  BY <1>3, Zenon DEF Cleared, LiveSlots, X!IsDead

(* sweep, with or without a compaction. *)
LEMMA SweepStep ==
    ASSUME X!IndexConstants, XInv, X!SweepSome
    PROVE  XInv'
<1> DEFINE y == X!Sweep(x)
           m == sweeps * SweepChunk
<1>1. XTypes /\ XHashOK /\ minGen \in Int
  BY XConstants DEF XInv, XTypes
<1>2. PICK n \in Nat : \E W : /\ X!IsPowerOfTwo(n) /\ XSound(x, n, W)
                              /\ Recorded(x.arena, W, stored, minGen, gen)
                              /\ sweeps \in 0 .. n /\ Turned(x, n, m)
  BY Zenon DEF XInv
<1>3. PICK W : /\ X!IsPowerOfTwo(n) /\ XSound(x, n, W) /\ Recorded(x.arena, W, stored, minGen, gen)
               /\ sweeps \in 0 .. n /\ Turned(x, n, m)
  BY <1>2
<1>4. n \in Nat \ {0}
  BY <1>3 DEF X!IsPowerOfTwo
<1>5. /\ x' = X!Compact(y) \/ x' = y
      /\ sweeps' = IF m < X!Size(x.slots) THEN sweeps + 1 ELSE sweeps
      /\ hash' = hash /\ gen' = gen /\ minGen' = minGen /\ puts' = puts /\ stored' = stored
  BY Zenon DEF X!SweepSome
<1>6. X!Size(x.slots) = n
  BY <1>3, SoundFacts, TableFacts, XSizeIs
<1>7. (\E nodes : XSound(y, n, Freeing(W, Gone(x), nodes))) /\ SweepDone(y, x, n)
  BY <1>1, <1>3, <1>4, SweepSound, Zenon
<1> HIDE DEF y
<1>8. PICK nodes : XSound(y, n, Freeing(W, Gone(x), nodes))
  BY <1>7
<1>9. Recorded(y.arena, Freeing(W, Gone(x), nodes), stored, minGen, gen)
  <2>1. Cleared(x) \subseteq LiveSlots(x.slots, n)
    BY <1>3, <1>4, ClearedLive
  <2>2. QED
    BY <1>1, <1>3, <1>4, <1>7, <1>8, <2>1, SweepRecorded, Zenon
<1> DEFINE V == Freeing(W, Gone(x), nodes)
<1>10. m \in Nat /\ sweeps' \in 0 .. n /\ (sweeps * SweepChunk)' \in Nat /\ (sweeps * SweepChunk)' <= m + SweepChunk
  <2>1. SweepChunk \in Nat \ {0} /\ sweeps \in 0 .. n
    BY <1>3, XConstants
  <2>2. m \in Nat /\ m >= sweeps /\ (sweeps + 1) * SweepChunk = m + SweepChunk
    BY <2>1
  <2> HIDE DEF m
  <2>3. CASE m < n
    <3>1. sweeps' = sweeps + 1 /\ sweeps' * SweepChunk = m + SweepChunk
      BY <1>5, <1>6, <2>2, <2>3, Zenon
    <3>2. sweeps + 1 \in 0 .. n
      BY ONLY <2>1, <2>2, <2>3, n \in Nat
    <3>3. m + SweepChunk \in Nat /\ m + SweepChunk <= m + SweepChunk
      BY ONLY <2>1, <2>2
    <3>4. QED
      BY ONLY <2>2, <3>1, <3>2, <3>3, Zenon
  <2>4. CASE ~(m < n)
    <3>1. sweeps' = sweeps /\ sweeps' * SweepChunk = m
      BY <1>5, <1>6, <2>4, Zenon DEF m
    <3>2. m <= m + SweepChunk
      BY ONLY <2>1, <2>2
    <3>3. QED
      BY ONLY <2>1, <2>2, <3>1, <3>2, Zenon
  <2>5. QED
    BY <2>3, <2>4
<1>11. Turned(y, n, m + SweepChunk)
  BY <1>3, <1>4, <1>7, <1>8, <1>10, SweepTurns, Zenon
<1>12. \E U : XSound(x', n, U) /\ Recorded(x'.arena, U, stored, minGen, gen) /\ Turned(x', n, m + SweepChunk)
  <2>1. CASE x' = y
    BY <1>8, <1>9, <1>11, <2>1, Zenon
  <2>2. CASE x' = X!Compact(y)
    <3> HIDE DEF V
    <3>1. XSound(y, n, V) /\ Recorded(y.arena, V, stored, minGen, gen)
      BY <1>8, <1>9, Zenon DEF V
    <3>2. PICK U : CompactDone(x', y, n, U, V)
      BY <1>1, <1>4, <2>2, <3>1, CompactSound, Zenon
    <3>3. XSound(x', n, U) /\ \A id \in Ids : SameChain(y.arena, V, x'.arena, U, id)
      BY <3>2, Zenon DEF CompactDone
    <3>4. Turned(x', n, m + SweepChunk)
      BY <1>4, <1>11, <3>1, <3>2, CompactTurned, Zenon
    <3>5. Laid(y.arena, V) /\ Laid(x'.arena, U)
      BY <3>1, <3>3, SoundFacts, Zenon
    <3>6. ASSUME NEW id \in Ids PROVE RecordedOf(id, x'.arena, U, stored, minGen, gen)
      <4>1. RecordedOf(id, y.arena, V, stored, minGen, gen)
        BY <3>1, Zenon DEF Recorded
      <4>2. QED
        BY <3>3, <3>5, <4>1, RecordedSame, Zenon
    <3>7. Recorded(x'.arena, U, stored, minGen, gen)
      BY <3>6, Zenon DEF Recorded
    <3>8. QED
      BY <3>3, <3>4, <3>7, Zenon
  <2>3. QED
    BY <1>5, <2>1, <2>2
<1>13. PICK U : XSound(x', n, U) /\ Recorded(x'.arena, U, stored, minGen, gen) /\ Turned(x', n, m + SweepChunk)
  BY <1>12
<1>14. Turned(x', n, (sweeps * SweepChunk)')
  <2> DEFINE k == (sweeps * SweepChunk)'
  <2>1. m + SweepChunk \in Nat /\ k \in Nat /\ k <= m + SweepChunk
    BY <1>10, XConstants
  <2> HIDE DEF k
  <2>2. Turned(x', n, k)
    BY <1>13, <2>1, TurnedLess, Zenon
  <2>3. QED
    BY <2>2, Zenon DEF k
<1>15. Turned(x, n, sweeps * SweepChunk)'
  <2>1. \A j : X!IsDead(x, j)' <=> X!IsDead(x', j)
    BY <1>5, Zenon DEF X!IsDead
  <2>2. QED
    BY <1>14, <2>1, Zenon DEF Turned, Back
<1>16. XTypes'
  BY <1>1, <1>5, Zenon DEF XTypes
<1>17. Recorded(x'.arena, U, stored', minGen', gen')
  BY <1>5, <1>13, Zenon
<1>18. QED
  BY <1>3, <1>5, <1>10, <1>13, <1>15, <1>16, <1>17, XSameHash, Zenon

(* A new active segment. *)
LEMMA RollStep ==
    ASSUME X!IndexConstants, XInv, X!Roll
    PROVE  XInv'
<1>1. XTypes
  BY DEF XInv
<1>2. PICK n \in Nat : \E W : /\ X!IsPowerOfTwo(n) /\ XSound(x, n, W)
                              /\ Recorded(x.arena, W, stored, minGen, gen)
                              /\ sweeps \in 0 .. n /\ Turned(x, n, sweeps * SweepChunk)
  BY Zenon DEF XInv
<1>3. PICK W : /\ X!IsPowerOfTwo(n) /\ XSound(x, n, W) /\ Recorded(x.arena, W, stored, minGen, gen)
               /\ sweeps \in 0 .. n /\ Turned(x, n, sweeps * SweepChunk)
  BY <1>2
<1>4. /\ gen < MaxGen /\ gen' = gen + 1 /\ x' = x /\ hash' = hash /\ minGen' = minGen /\ puts' = puts
      /\ stored' = stored /\ sweeps' = sweeps
  BY Zenon DEF X!Roll
<1>5. XTypes'
  BY <1>1, <1>4, XConstants DEF XTypes
<1>6. Recorded(x.arena, W, stored, minGen, gen + 1)
  <2>1. Laid(x.arena, W)
    BY <1>3, SoundFacts, Zenon
  <2>2. \A i \in 1 .. MaxGen : i <= gen => i <= gen + 1
    BY <1>1, XConstants DEF XTypes
  <2>3. \A id \in Ids : \A p \in 1 .. Len(W[id]) : x.arena[W[id][p]].gen \in 1 .. MaxGen
    <3>1. \A i \in 1 .. Len(x.arena) : x.arena[i].gen \in 1 .. MaxGen
      BY <2>1, LaidFacts, Zenon
    <3>2. \A k \in Keys : \A p \in 1 .. Len(W[k]) : W[k][p] \in 1 .. Len(x.arena)
      BY <2>1, LaidFacts, Zenon
    <3>3. \A id \in Ids : id \in Keys
      BY NoKeyIs
    <3>4. QED
      BY <3>1, <3>2, <3>3, Zenon
  <2>4. QED
    BY <1>3, <2>2, <2>3, Zenon DEF Recorded, RecordedOf
<1>7. Turned(x, n, sweeps * SweepChunk)'
  BY <1>3, <1>4, Zenon DEF Turned, X!IsDead
<1>8. /\ XSound(x', n, W) /\ Recorded(x'.arena, W, stored', minGen', gen') /\ sweeps' \in 0 .. n
  BY <1>3, <1>4, <1>6, Zenon
<1>9. QED
  BY <1>3, <1>4, <1>5, <1>7, <1>8, XSameHash, Zenon

(* removeSegment: its locs are passed over from now on. *)
LEMMA RemoveStep ==
    ASSUME X!IndexConstants, XInv, X!RemoveSegment
    PROVE  XInv'
<1>1. XTypes
  BY DEF XInv
<1>2. PICK n \in Nat : \E W : /\ X!IsPowerOfTwo(n) /\ XSound(x, n, W)
                              /\ Recorded(x.arena, W, stored, minGen, gen)
  BY Zenon DEF XInv
<1>3. PICK W : X!IsPowerOfTwo(n) /\ XSound(x, n, W) /\ Recorded(x.arena, W, stored, minGen, gen)
  BY <1>2
<1>4. /\ minGen < gen /\ minGen' = minGen + 1 /\ stored' = [id \in Ids |-> X!Since(stored[id], minGen + 1)]
      /\ sweeps' = 0 /\ x' = x /\ hash' = hash /\ gen' = gen /\ puts' = puts
  BY Zenon DEF X!RemoveSegment
<1>5. XTypes'
  BY <1>1, <1>4, XConstants DEF XTypes
<1>6. ASSUME NEW id \in Ids PROVE RecordedOf(id, x.arena, W, stored', minGen + 1, gen)
  <2> DEFINE L == LocsOf(x.arena, W[id])
  <2>1. RecordedOf(id, x.arena, W, stored, minGen, gen)
    BY <1>3, Zenon DEF Recorded
  <2>2. Laid(x.arena, W)
    BY <1>3, SoundFacts, Zenon
  <2>3. L \in Seq(Locs)
    BY <2>2, LocsOfIs, Zenon DEF AreLocs
  <2>4. minGen \in Int
    BY <1>1, XConstants DEF XTypes
  <2>5. X!Since(X!Since(L, minGen), minGen + 1) = X!Since(L, minGen + 1)
    BY <2>3, <2>4, SinceTwice, Zenon
  <2>6. stored[id] = X!Since(L, minGen)
    BY <2>1, Zenon DEF RecordedOf
  <2>7. stored'[id] = X!Since(stored[id], minGen + 1)
    BY <1>4, Zenon
  <2>8. QED
    BY <2>1, <2>5, <2>6, <2>7, Zenon DEF RecordedOf
<1>7. Recorded(x.arena, W, stored', minGen + 1, gen)
  BY <1>6, Zenon DEF Recorded
<1>8. (sweeps * SweepChunk)' = 0 /\ sweeps' \in 0 .. n
  BY <1>4, XConstants
<1>9. Turned(x, n, sweeps * SweepChunk)'
  BY <1>8 DEF Turned
<1>10. XSound(x', n, W) /\ Recorded(x'.arena, W, stored', minGen', gen')
  BY <1>3, <1>4, <1>7, Zenon
<1>11. QED
  BY <1>3, <1>4, <1>5, <1>8, <1>9, <1>10, XSameHash, Zenon

(* Every step. *)
LEMMA IndexStep ==
    ASSUME X!IndexConstants, XInv, [X!Next]_(X!vars)
    PROVE  XInv'
<1>1. CASE UNCHANGED X!vars
  <2>1. /\ x' = x /\ hash' = hash /\ gen' = gen /\ minGen' = minGen /\ puts' = puts
        /\ stored' = stored /\ sweeps' = sweeps
    BY <1>1, Zenon DEF X!vars
  <2>2. XTypes'
    BY <2>1, Zenon DEF XInv, XTypes
  <2>3. PICK n \in Nat : \E W : /\ X!IsPowerOfTwo(n) /\ XSound(x, n, W)
                                /\ Recorded(x.arena, W, stored, minGen, gen)
                                /\ sweeps \in 0 .. n /\ Turned(x, n, sweeps * SweepChunk)
    BY Zenon DEF XInv
  <2>4. PICK W : /\ X!IsPowerOfTwo(n) /\ XSound(x, n, W) /\ Recorded(x.arena, W, stored, minGen, gen)
                 /\ sweeps \in 0 .. n /\ Turned(x, n, sweeps * SweepChunk)
    BY <2>3
  <2>5. Turned(x, n, sweeps * SweepChunk)'
    BY <2>1, <2>4, Zenon DEF Turned, X!IsDead
  <2>6. XSound(x', n, W) /\ Recorded(x'.arena, W, stored', minGen', gen') /\ sweeps' \in 0 .. n
    BY <2>1, <2>4, Zenon
  <2>7. QED
    BY <2>1, <2>2, <2>4, <2>5, <2>6, XSameHash, Zenon
<1>2. QED
  BY <1>1, PutStep, SweepStep, RollStep, RemoveStep, Zenon DEF X!Next

-----------------------------------------------------------------------------
(***************************************************************************)
(* What the invariant says of the index.                                   *)
(***************************************************************************)
(* A list of nodes is no longer than the arena, and as long if it has all. *)
LEMMA Counted ==
    ASSUME NEW N \in Nat, NEW s \in Seq(1 .. N), \A p, q \in 1 .. Len(s) : s[p] = s[q] => p = q
    PROVE  /\ Len(s) <= N
           /\ (\A i \in 1 .. N : \E p \in 1 .. Len(s) : s[p] = i) => Len(s) = N
<1> DEFINE S == 1 .. Len(s)
           T == 1 .. N
<1>1. Len(s) \in Nat /\ s \in [S -> T]
  OBVIOUS
<1>2. IsFiniteSet(T) /\ Cardinality(T) = N /\ Cardinality(S) = Len(s)
  <2>1. \A k \in Nat : IsFiniteSet(1 .. k) /\ Cardinality(1 .. k) = k
    BY FS_Interval
  <2>2. QED
    BY <1>1, <2>1, Zenon
<1> HIDE DEF T
<1>3. s \in Injection(S, T)
  BY <1>1 DEF Injection, IsInjective
<1>4. Cardinality(S) <= Cardinality(T) /\ (s \in Surjection(S, T) => Cardinality(S) = Cardinality(T))
  BY <1>2, <1>3, FS_Injection
<1>5. (\A i \in T : \E p \in S : s[p] = i) => s \in Surjection(S, T)
  BY <1>1, Zenon DEF Surjection
<1>6. QED
  BY <1>2, <1>4, <1>5 DEF T

(* The free list followed by the chains has every node once. *)
LEMMA Partitioned ==
    ASSUME NEW n \in Nat, NEW y, NEW W, XSound(y, n, W), NEW kept, Keeps(kept, y.arena, W)
    PROVE  /\ Len(W[NoKey] \o kept) = Len(y.arena)
           /\ X!ToSet(W[NoKey] \o kept) = DOMAIN y.arena
           /\ Len(W[NoKey]) <= Len(y.arena)
<1> DEFINE N == Len(y.arena)
           F == W[NoKey]
           A == F \o kept
           f == Len(F)
           m == Len(kept)
<1>1. Laid(y.arena, W)
  BY SoundFacts
<1>2. N \in Nat /\ DOMAIN y.arena = 1 .. N /\ F \in Seq(1 .. N) /\ f \in Nat
  BY <1>1, LaidFacts, NoKeyIs
<1>3. kept \in Seq(1 .. N) /\ m \in Nat
  <2>1. kept \in Seq(1 .. N)
    BY Zenon DEF Keeps
  <2>2. QED
    BY <2>1
<1>4. \A p, q \in 1 .. f : F[p] = F[q] => p = q
  BY <1>1, NoKeyIs, Zenon DEF Laid, Apart
<1>5. \A p, q \in 1 .. m : kept[p] = kept[q] => p = q
  BY Zenon DEF Keeps
<1>6. \A p \in 1 .. f, q \in 1 .. m : F[p] # kept[q]
  <2>1. ASSUME NEW p \in 1 .. f, NEW q \in 1 .. m, F[p] = kept[q] PROVE FALSE
    <3>1. PICK id \in Ids : \E r \in 1 .. Len(W[id]) : kept[q] = W[id][r]
      BY Zenon DEF Keeps
    <3>2. PICK r \in 1 .. Len(W[id]) : kept[q] = W[id][r]
      BY <3>1
    <3>3. id \in Keys /\ NoKey \in Keys /\ id # NoKey
      BY NoKeyIs
    <3>4. QED
      BY <1>1, <2>1, <3>2, <3>3, Zenon DEF Laid, Apart
  <2>2. QED
    BY <2>1, Zenon
<1>7. \A i \in 1 .. N : (\E p \in 1 .. f : F[p] = i) \/ (\E q \in 1 .. m : kept[q] = i)
  <2> TAKE i \in 1 .. N
  <2>1. PICK k \in Keys : \E p \in 1 .. Len(W[k]) : W[k][p] = i
    BY <1>1, Zenon DEF Laid, Covered
  <2>2. CASE k = NoKey
    BY <2>1, <2>2, Zenon
  <2>3. CASE k # NoKey
    <3>1. k \in Ids
      BY <2>3 DEF Keys
    <3>2. PICK p \in 1 .. Len(W[k]) : W[k][p] = i
      BY <2>1
    <3>3. \E q \in 1 .. m : kept[q] = W[k][p]
      BY <3>1, Zenon DEF Keeps
    <3>4. QED
      BY <3>2, <3>3, Zenon
  <2>4. QED
    BY <2>2, <2>3
<1> HIDE DEF N, F
<1>8. /\ A \in Seq(1 .. N) /\ Len(A) = f + m /\ DOMAIN A = 1 .. f + m
      /\ \A p \in 1 .. f + m : A[p] = IF p <= f THEN F[p] ELSE kept[p - f]
  BY <1>2, <1>3
<1> HIDE DEF A, f, m
<1>9. \A p \in 1 .. f + m : IF p <= f THEN p \in 1 .. f ELSE p - f \in 1 .. m
  BY <1>2, <1>3
<1>10. \A p, q \in 1 .. Len(A) : A[p] = A[q] => p = q
  <2> SUFFICES ASSUME NEW p \in 1 .. f + m, NEW q \in 1 .. f + m, A[p] = A[q] PROVE p = q
    BY <1>8, Zenon
  <2>1. CASE p <= f /\ q <= f
    BY <1>4, <1>8, <1>9, <2>1, Zenon
  <2>2. CASE p <= f /\ ~(q <= f)
    BY <1>6, <1>8, <1>9, <2>2, Zenon
  <2>3. CASE ~(p <= f) /\ q <= f
    <3>1. F[q] = kept[p - f] /\ q \in 1 .. f /\ p - f \in 1 .. m
      BY <1>8, <1>9, <2>3, Zenon
    <3>2. QED
      BY <1>6, <3>1, Zenon
  <2>4. CASE ~(p <= f) /\ ~(q <= f)
    <3>1. p - f = q - f
      BY <1>5, <1>8, <1>9, <2>4, Zenon
    <3>2. QED
      BY ONLY <1>2, <1>3, <3>1, p \in 1 .. f + m, q \in 1 .. f + m
  <2>5. QED
    BY <2>1, <2>2, <2>3, <2>4
<1>11. \A i \in 1 .. N : \E p \in 1 .. Len(A) : A[p] = i
  <2> TAKE i \in 1 .. N
  <2>1. CASE \E p \in 1 .. f : F[p] = i
    <3>1. PICK p \in 1 .. f : F[p] = i
      BY <2>1
    <3>2. p \in 1 .. f + m /\ p <= f
      BY ONLY <1>2, <1>3, p \in 1 .. f
    <3>3. QED
      BY <1>8, <3>1, <3>2, Zenon
  <2>2. CASE \E q \in 1 .. m : kept[q] = i
    <3>1. PICK q \in 1 .. m : kept[q] = i
      BY <2>2
    <3>2. f + q \in 1 .. f + m /\ ~(f + q <= f) /\ (f + q) - f = q
      BY ONLY <1>2, <1>3, q \in 1 .. m
    <3>3. A[f + q] = kept[(f + q) - f]
      BY <1>8, <3>2, Zenon
    <3>4. QED
      BY <1>8, <3>1, <3>2, <3>3, Zenon
  <2>3. QED
    BY <1>7, <2>1, <2>2
<1>12. Len(A) = N
  BY <1>2, <1>8, <1>10, <1>11, Counted, ZenonT(40)
<1>13. f <= N
  BY <1>2, <1>4, Counted DEF f
<1>14. X!ToSet(A) = 1 .. N
  <2>1. X!ToSet(A) = {A[i] : i \in 1 .. Len(A)}
    BY <1>8, Zenon DEF X!ToSet
  <2>2. \A i \in 1 .. Len(A) : A[i] \in 1 .. N
    <3>1. A \in Seq(1 .. N)
      BY <1>8, Zenon
    <3>2. QED
      BY ONLY <1>2, <3>1
  <2>3. QED
    BY <1>11, <2>1, <2>2, Zenon
<1>15. QED
  BY <1>2, <1>12, <1>13, <1>14, Zenon DEF A, f, F, N

(* The types. *)
LEMMA IndexTyped ==
    ASSUME X!IndexConstants, XInv
    PROVE  X!TypeOK
<1>1. PICK n \in Nat : \E W : X!IsPowerOfTwo(n) /\ XSound(x, n, W) /\ sweeps \in 0 .. n
  BY Zenon DEF XInv
<1>2. PICK W : X!IsPowerOfTwo(n) /\ XSound(x, n, W) /\ sweeps \in 0 .. n
  BY <1>1
<1> DEFINE N == Len(x.arena)
           T == [gen : 1 .. MaxGen, off : 1 .. MaxPuts, next : 0 .. N]
<1>3. /\ Table(x.slots, n) /\ Laid(x.arena, W) /\ Pointed(x.slots, n, W)
      /\ x.free = Following(W[NoKey], 0) /\ x.freeLen = Len(W[NoKey])
      /\ x.liveCount \in Nat /\ x.tombs \in Nat /\ x.cursor \in Nat
  BY <1>2, SoundFacts, ZenonT(40)
<1>4. /\ DOMAIN x.slots = 0 .. n - 1
      /\ \A j \in 0 .. n - 1 : /\ x.slots[j] \in Slots /\ x.slots[j].head \in Int /\ x.slots[j].tail \in Nat
                               /\ x.slots[j].head > 0 \/ (x.slots[j].head \in {0, -1} /\ x.slots[j].tail = 0)
  BY <1>3, TableFacts, Zenon
<1>5. X!Size(x.slots) = n
  BY <1>4, XSizeIs
<1>6. /\ N \in Nat /\ x.arena \in Seq(Nodes)
      /\ \A i \in 1 .. N : /\ x.arena[i] \in Nodes /\ x.arena[i].gen \in 1 .. MaxGen /\ x.arena[i].off \in 1 .. MaxPuts
      /\ \A k \in Keys : Len(W[k]) \in Nat /\ \A p \in 1 .. Len(W[k]) : W[k][p] \in 1 .. N
  BY <1>3, LaidFacts, Zenon
<1> HIDE DEF N
<1>7. \A k \in Keys : \A p \in 0 .. Len(W[k]) : Following(W[k], p) \in 0 .. N
  <2>1. ASSUME NEW k \in Keys, NEW p \in 0 .. Len(W[k]) PROVE Following(W[k], p) \in 0 .. N
    <3>1. Len(W[k]) \in Nat /\ \A q \in 1 .. Len(W[k]) : W[k][q] \in 1 .. N
      BY <1>6, Zenon
    <3>2. p < Len(W[k]) => p + 1 \in 1 .. Len(W[k])
      BY <3>1
    <3>3. p < Len(W[k]) => W[k][p + 1] \in 1 .. N
      BY <3>1, <3>2, Zenon
    <3>4. QED
      BY <1>6, <3>3 DEF Following
  <2>2. QED
    BY <2>1
<1>8. x.arena \in Seq(T)
  <2>1. ASSUME NEW i \in 1 .. N PROVE x.arena[i] \in T
    <3>1. PICK k \in Keys : \E p \in 1 .. Len(W[k]) : W[k][p] = i
      BY <1>3, Zenon DEF Laid, Covered, N
    <3>2. PICK p \in 1 .. Len(W[k]) : W[k][p] = i
      BY <3>1
    <3>3. x.arena[i].next = Following(W[k], p)
      BY <1>3, <3>2, Zenon DEF Laid, Linked
    <3>4. p \in 0 .. Len(W[k])
      OBVIOUS
    <3>5. x.arena[i].next \in 0 .. N
      BY <1>7, <3>3, <3>4, Zenon
    <3> DEFINE v == x.arena[i]
    <3>6. v \in Nodes /\ v.gen \in 1 .. MaxGen /\ v.off \in 1 .. MaxPuts /\ v.next \in 0 .. N
      BY <1>6, <3>5, Zenon
    <3> HIDE DEF v
    <3>7. v \in T
      BY ONLY <3>6 DEF Nodes
    <3>8. QED
      BY <3>7, Zenon DEF v
  <2> DEFINE a == x.arena
  <2>2. a \in Seq(Nodes) /\ N = Len(a) /\ \A i \in 1 .. N : a[i] \in T
    BY <1>6, <2>1, Zenon DEF N
  <2> HIDE DEF a, T
  <2>3. a \in Seq(T)
    BY ONLY <2>2
  <2>4. QED
    BY <2>3, Zenon DEF a
<1>9. x.free \in 0 .. N
  <2>1. 0 \in 0 .. Len(W[NoKey]) /\ NoKey \in Keys
    BY <1>6, NoKeyIs
  <2>2. QED
    BY <1>3, <1>7, <2>1, Zenon
<1>10. x.freeLen \in 0 .. N
  <2>1. Len(W[NoKey]) <= N
    BY <1>2, KeptIs, Partitioned, Zenon DEF N
  <2>2. Len(W[NoKey]) \in Nat
    BY <1>6, NoKeyIs
  <2> DEFINE f == Len(W[NoKey])
  <2> HIDE DEF f
  <2>3. f \in 0 .. N
    BY ONLY <1>6, <2>1, <2>2 DEF f
  <2>4. QED
    BY <1>3, <2>3, Zenon DEF f
<1>11. ASSUME NEW j \in DOMAIN x.slots
       PROVE  x.slots[j] \in [id : Ids \cup {X!NoId}, head : -1 .. N, tail : 0 .. N]
  <2> DEFINE s == x.slots[j]
  <2>1. j \in 0 .. n - 1
    BY <1>4, Zenon
  <2>2. /\ s \in Slots /\ s.head \in Int /\ s.tail \in Nat
        /\ s.head > 0 \/ (s.head \in {0, -1} /\ s.tail = 0)
    BY <1>4, <2>1, Zenon
  <2>3. s.head > 0 => s.head \in 1 .. N /\ s.tail \in 1 .. N
    <3> SUFFICES ASSUME s.head > 0 PROVE s.head \in 1 .. N /\ s.tail \in 1 .. N
      OBVIOUS
    <3>1. j \in LiveSlots(x.slots, n)
      BY <2>1, Zenon DEF LiveSlots
    <3>2. s.id \in Keys
      BY <1>3, <3>1, NoKeyIs DEF Table
    <3>3. Len(W[s.id]) > 0 /\ s.head = W[s.id][1] /\ s.tail = W[s.id][Len(W[s.id])]
      BY <1>3, <3>1, Zenon DEF Pointed
    <3>4. Len(W[s.id]) \in Nat
      BY <1>6, <3>2, Zenon
    <3>5. 1 \in 1 .. Len(W[s.id]) /\ Len(W[s.id]) \in 1 .. Len(W[s.id])
      BY ONLY <3>3, <3>4
    <3>6. QED
      BY <1>6, <3>2, <3>3, <3>5, Zenon
  <2> HIDE DEF s
  <2>4. s.head \in -1 .. N /\ s.tail \in 0 .. N
    BY ONLY <1>6, <2>2, <2>3
  <2>5. s \in [id : Ids \cup {X!NoId}, head : -1 .. N, tail : 0 .. N]
    BY ONLY <2>2, <2>4 DEF Slots
  <2>6. QED
    BY <2>5, Zenon DEF s
<1>12. XTypes
  BY DEF XInv
<1>13. QED
  BY <1>2, <1>3, <1>4, <1>5, <1>8, <1>9, <1>10, <1>11, <1>12, Zenon DEF X!TypeOK, XTypes, N

(* No node is lost or shared. *)
LEMMA IndexPartitioned ==
    ASSUME X!IndexConstants, XInv
    PROVE  X!ArenaPartitioned
<1>1. PICK n \in Nat : \E W : XSound(x, n, W)
  BY Zenon DEF XInv
<1>2. PICK W : XSound(x, n, W)
  BY <1>1
<1> DEFINE kept == X!FlattenSeq(KeptSeqs(x, n))
           c(k) == X!Chain(x.arena, x.slots[k - 1].head)
<1>3. Table(x.slots, n) /\ Laid(x.arena, W) /\ x.free = Following(W[NoKey], 0) /\ x.freeLen = Len(W[NoKey])
  BY <1>2, SoundFacts, ZenonT(40)
<1>4. DOMAIN x.slots = 0 .. n - 1 /\ X!Size(x.slots) = n
  BY <1>3, TableFacts, XSizeIs
<1>5. X!Chain(x.arena, x.free) = W[NoKey]
  BY <1>3, ChainIs, NoKeyIs, Zenon
<1>6. [k \in 1 .. n |-> IF k - 1 \in X!Live THEN c(k) ELSE << >>] = KeptSeqs(x, n)
  <2>1. \A k \in 1 .. n : k - 1 \in DOMAIN x.slots
    BY <1>4
  <2>2. \A k \in 1 .. n : k - 1 \in X!Live <=> x.slots[k - 1].head > 0
    BY <2>1, Zenon DEF X!Live
  <2>3. KeptSeqs(x, n) = [k \in 1 .. n |-> IF x.slots[k - 1].head > 0 THEN c(k) ELSE << >>]
    BY Zenon DEF KeptSeqs
  <2> HIDE DEF c
  <2>4. [k \in 1 .. n |-> IF k - 1 \in X!Live THEN c(k) ELSE << >>]
          = [k \in 1 .. n |-> IF x.slots[k - 1].head > 0 THEN c(k) ELSE << >>]
    BY ONLY <2>2, Zenon
  <2>5. QED
    BY <2>3, <2>4, Zenon
<1>7. Keeps(kept, x.arena, W)
  BY <1>2, KeptIs, Zenon
<1> HIDE DEF kept
<1>8. Len(W[NoKey] \o kept) = Len(x.arena) /\ X!ToSet(W[NoKey] \o kept) = DOMAIN x.arena
  BY <1>2, <1>7, Partitioned, Zenon
<1>9. QED
  BY <1>3, <1>4, <1>5, <1>6, <1>8, Zenon DEF X!ArenaPartitioned, kept

(* The counters. *)
LEMMA IndexCounted ==
    ASSUME X!IndexConstants, XInv
    PROVE  X!CountsExact
<1>1. PICK n \in Nat : \E W : XSound(x, n, W)
  BY Zenon DEF XInv
<1>2. PICK W : XSound(x, n, W)
  BY <1>1
<1>3. /\ Table(x.slots, n) /\ x.liveCount = Cardinality(LiveSlots(x.slots, n))
      /\ x.tombs = Cardinality(DeadSlots(x.slots, n))
  BY <1>2, SoundFacts, Zenon
<1>4. DOMAIN x.slots = 0 .. n - 1
  BY <1>3, TableFacts
<1>5. X!Live = LiveSlots(x.slots, n) /\ {i \in DOMAIN x.slots : x.slots[i].head = -1} = DeadSlots(x.slots, n)
  BY <1>4, Zenon DEF X!Live, LiveSlots, DeadSlots
<1>6. \A i, j \in X!Live : x.slots[i].id = x.slots[j].id => i = j
  BY <1>3, <1>5, Zenon DEF Table
<1>7. QED
  BY <1>3, <1>5, <1>6, XSameCardinality, Zenon DEF X!CountsExact

(* A slot is left empty for a probe to end at. *)
LEMMA IndexProbes ==
    ASSUME X!IndexConstants, XInv
    PROVE  X!ProbeEnds
<1>1. PICK n \in Nat : \E W : X!IsPowerOfTwo(n) /\ XSound(x, n, W)
  BY Zenon DEF XInv
<1>2. PICK W : X!IsPowerOfTwo(n) /\ XSound(x, n, W)
  BY <1>1
<1>3. XHashOK
  BY XConstants DEF XInv, XTypes
<1>4. PICK m \in Nat : XSound(Ready(x), m, W) /\ \E e \in 0 .. m - 1 : Ready(x).slots[e].head = 0
  <2>1. \E m \in Nat : /\ X!IsPowerOfTwo(m) /\ XSound(Ready(x), m, W)
                        /\ \E e \in 0 .. m - 1 : Ready(x).slots[e].head = 0
                        /\ Ready(x).arena = x.arena
    BY <1>2, <1>3, ReadyIs, Zenon
  <2>2. QED
    BY <2>1, Zenon
<1>5. DOMAIN Ready(x).slots = 0 .. m - 1
  BY <1>4, SoundFacts, TableFacts
<1>6. QED
  BY <1>4, <1>5, Zenon DEF X!ProbeEnds, Ready

(* The slot that is found points to the chain, and it has what was put. *)
LEMMA IndexFinds ==
    ASSUME X!IndexConstants, XInv, NEW id \in Ids
    PROVE  X!Found(id) = stored[id]
<1>1. PICK n \in Nat : \E W : /\ X!IsPowerOfTwo(n) /\ XSound(x, n, W)
                              /\ Recorded(x.arena, W, stored, minGen, gen)
  BY Zenon DEF XInv
<1>2. PICK W : X!IsPowerOfTwo(n) /\ XSound(x, n, W) /\ Recorded(x.arena, W, stored, minGen, gen)
  BY <1>1
<1>3. XHashOK /\ n \in Nat \ {0}
  BY <1>2, XConstants DEF XInv, XTypes, X!IsPowerOfTwo
<1>4. Table(x.slots, n) /\ Laid(x.arena, W) /\ Pointed(x.slots, n, W)
  BY <1>2, SoundFacts, Zenon
<1> DEFINE f == X!FindSlot(x.slots, id)
           c == IF f.found THEN X!Chain(x.arena, x.slots[f.slot].head) ELSE << >>
<1>5. /\ f.found <=> \E j \in LiveSlots(x.slots, n) : x.slots[j].id = id
      /\ f.found => f.slot \in LiveSlots(x.slots, n) /\ x.slots[f.slot].id = id
  BY <1>3, <1>4, XFinds
<1>6. W[id] \in Seq(1 .. Len(x.arena)) /\ Len(W[id]) \in Nat /\ id \in Keys
  BY <1>4, NoKeyIs, LaidFacts
<1> HIDE DEF f
<1>7. c = W[id]
  <2>1. CASE f.found
    <3>1. Len(W[id]) > 0 /\ x.slots[f.slot].head = W[id][1]
      BY <1>4, <1>5, <2>1, Zenon DEF Pointed
    <3>2. Following(W[id], 0) = W[id][1]
      BY <1>6, <3>1 DEF Following
    <3>3. X!Chain(x.arena, Following(W[id], 0)) = W[id]
      BY <1>4, <1>6, ChainIs, Zenon
    <3>4. QED
      BY <2>1, <3>1, <3>2, <3>3, Zenon
  <2>2. CASE ~f.found
    <3>1. ~(Len(W[id]) > 0)
      BY <1>4, <1>5, <2>2, Zenon DEF Pointed
    <3>2. W[id] = << >>
      BY <1>6, <3>1
    <3>3. QED
      BY <2>2, <3>2, Zenon
  <2>3. QED
    BY <2>1, <2>2
<1>8. X!Found(id) = X!Since(LocsOf(x.arena, c), minGen)
  BY Zenon DEF X!Found, LocsOf, f
<1>9. stored[id] = X!Since(LocsOf(x.arena, W[id]), minGen)
  BY <1>2, Zenon DEF Recorded, RecordedOf
<1> HIDE DEF c
<1>10. QED
  BY <1>7, <1>8, <1>9, Zenon

(* As many slots behind the cursor as there are: no slot is dead. *)
LEMMA IndexReclaims ==
    ASSUME X!IndexConstants, XInv
    PROVE  FullTurnReclaims
<1>1. PICK n \in Nat : \E W : /\ X!IsPowerOfTwo(n) /\ XSound(x, n, W)
                              /\ sweeps \in 0 .. n /\ Turned(x, n, sweeps * SweepChunk)
  BY Zenon DEF XInv
<1>2. PICK W : /\ X!IsPowerOfTwo(n) /\ XSound(x, n, W)
               /\ sweeps \in 0 .. n /\ Turned(x, n, sweeps * SweepChunk)
  BY <1>1
<1>3. n \in Nat \ {0} /\ sweeps * SweepChunk \in Nat
  BY <1>2, XConstants DEF X!IsPowerOfTwo
<1>4. DOMAIN x.slots = 0 .. n - 1 /\ X!Size(x.slots) = n /\ x.cursor \in Nat
  BY <1>2, SoundFacts, TableFacts, XSizeIs
<1>5. sweeps * SweepChunk >= n => \A j \in 0 .. n - 1 : ~X!IsDead(x, j)
  BY <1>2, <1>3, <1>4, TurnedAll, Zenon
<1>6. QED
  BY <1>4, <1>5, Zenon DEF FullTurnReclaims, X!FullTurnReclaims

-----------------------------------------------------------------------------
(* After every put, sweep, rehash and compaction of index.go the table and *)
(* the arena are sound, the chains hold what was put in the order it was   *)
(* put, and no trace behind the cursor is dead: the invariant the two      *)
(* theorems below rest on, for every hash function, size and sweep chunk.  *)
THEOREM IndexSound == X!Spec => []XInv
<1>1. X!Init => XInv
  BY InitIndex, IndexAssumption
<1>2. XInv /\ [X!Next]_(X!vars) => XInv'
  BY IndexStep, IndexAssumption
<1>3. QED
  BY <1>1, <1>2, PTL DEF X!Spec

(* Collect's walk of the index (buffer.go, index.go) finds of a trace the  *)
(* locs put for it whose segments exist, in order, and no other; no node   *)
(* of the arena is lost or shared, the counters put decides by are exact,  *)
(* and a probe always ends.                                                *)
THEOREM IndexFindsWhatWasPut == X!Spec => []FindsWhatWasPut
<1>1. XInv => FindsWhatWasPut
  <2>1. XInv => X!StructureOK
    BY IndexTyped, IndexPartitioned, IndexCounted, IndexProbes, IndexAssumption, Zenon DEF X!StructureOK
  <2>2. QED
    BY <2>1, IndexFinds, IndexAssumption, Zenon DEF FindsWhatWasPut, X!FindsWhatWasPut
<1>2. QED
  BY <1>1, IndexSound, PTL

(* Sweeps that have gone round the table (index.go's cursor) leave no      *)
(* trace in it of which no segment exists, whatever size the table was     *)
(* rehashed to and however many slots a sweep looks at.                    *)
THEOREM IndexReclaimed == X!Spec => []FullTurnReclaims
<1>1. XInv => FullTurnReclaims
  BY IndexReclaims, IndexAssumption
<1>2. QED
  BY <1>1, IndexSound, PTL

(* Each part is the specification of its own module, whichever one a       *)
(* behaviour exercises, so what is proved of the index and of the decided  *)
(* set holds in what the run explores.                                     *)
THEOREM PartsHold == PartsSpec => [](FindsWhatWasPut /\ FullTurnReclaims /\ DecidedFound)
<1>1. PartsSpec => X!Spec
  <2>1. PartsInit => X!Init
    BY DEF PartsInit
  <2>2. [PartsNext]_<<part, vars, indexVars, decidedVars>> => [X!Next]_(X!vars)
    BY DEF PartsNext, indexVars, X!vars
  <2>3. QED
    BY <2>1, <2>2, PTL DEF PartsSpec, X!Spec
<1>2. PartsSpec => D!Spec
  <2>1. PartsInit => D!Init
    BY DEF PartsInit
  <2>2. [PartsNext]_<<part, vars, indexVars, decidedVars>> => [D!Next]_(D!vars)
    BY DEF PartsNext, decidedVars, D!vars
  <2>3. QED
    BY <2>1, <2>2, PTL DEF PartsSpec, D!Spec
<1>3. QED
  BY <1>1, <1>2, IndexFindsWhatWasPut, IndexReclaimed, DecidedIsFound, PTL
=============================================================================
