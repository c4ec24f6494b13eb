---------------------------- MODULE BufferProofs ----------------------------
(***************************************************************************)
(* Proofs about Buffer: what a crash leaves can be opened, Collect yields  *)
(* records in order and, while no fsync fails, none of another trace, the  *)
(* disk is accounted for, and the whole implements SpanBuffer.             *)
(***************************************************************************)
EXTENDS Buffer, SumTheorems

-----------------------------------------------------------------------------
(***************************************************************************)
(* The inductive invariant, in parts.  The ones under a condition on the   *)
(* constants hold for every value of the others.                           *)
(***************************************************************************)

(* A directory that sees one crash, kills only, or power losses only.  A   *)
(* killed roll can leave a footer that is not durable; Open takes the      *)
(* segment for finalized, and a power loss after that may tear it or take  *)
(* its file.                                                               *)
UnmixedCrashes == {"kill", "power"} \subseteq CrashKinds => MaxCrashes <= 1

(* The roll is the one of an append that was not counted yet, or Expire's. *)
OpInv ==
    /\ pc \in {"finalize", "sync", "create"} => todo.op \in {"append", "expire"}
    /\ pc = "append" => todo.op = "append"
    /\ pc \in {"down", "idle", "expire", "sweep"} => todo = NoWork
    /\ todo.op = "append" => appended < MaxAppends
    /\ pc \in {"sync", "append"} => ~w.closed
    /\ pc = "create" => w.closed /\ w.gen \in DOMAIN metas

(* Which files there are. *)
GenInv ==
    /\ IsFiniteSet(DOMAIN files)
    /\ pc = "down" => idx = << >> /\ metas = NoMap
    /\ pc # "down" =>
          /\ w.gen >= 1
          /\ DOMAIN files \subseteq 1 .. w.gen
          /\ DOMAIN metas \subseteq DOMAIN files
          /\ DOMAIN files \subseteq DOMAIN metas \cup {w.gen}
          /\ ~w.closed => w.gen \in DOMAIN files \ DOMAIN metas
          /\ minGen <= IF w.closed THEN w.gen + 1 ELSE w.gen
    /\ UnmixedCrashes =>
          /\ GensContiguous
          /\ pc = "down" => \A g, h \in DOMAIN files : \A k \in g .. h : k \in DOMAIN files

Durable(f) == f.synced = Len(f.items)

(* What is finalized is durable, and so is all that is there after a power *)
(* loss, as long as another can come.                                      *)
DurableInv ==
    /\ w.closed /\ w.gen \in DOMAIN files => Durable(files[w.gen])
    /\ \A g \in DOMAIN metas : files[g].items # << >>
    /\ UnmixedCrashes /\ "power" \in CrashKinds /\ crashes < MaxCrashes =>
          \A g \in DOMAIN files : pc = "down" \/ g \in DOMAIN metas => Durable(files[g])

(* A directory lists the first records of a file. *)
Lists(dir, items) ==
    \A k \in 1 .. Len(dir) : k <= Len(items) /\ items[k].kind = "record" /\ items[k].id = dir[k].id

InOrder(dir) == \A k \in 1 .. Len(dir) : dir[k].off = k - 1

(* A footer where it says to be lists the records ahead of it. *)
FooterFits(items, i) ==
    items[i].kind = "footer" =>
        /\ items[i].off = Len(items[i].dir)
        /\ InOrder(items[i].dir)
        /\ items[i].off + 1 = i => Lists(items[i].dir, items)

FileInv == \A g \in DOMAIN files : \A i \in 1 .. Len(files[g].items) : FooterFits(files[g].items, i)

(* Records are numbered in append order across generations. *)
NumberInv ==
    /\ \A g \in DOMAIN files : \A i \in 1 .. Len(files[g].items) :
          files[g].items[i].kind = "record" => files[g].items[i].n <= appended
    /\ \A g, h \in DOMAIN files :
       \A i \in 1 .. Len(files[g].items), j \in 1 .. Len(files[h].items) :
          /\ files[g].items[i].kind = "record"
          /\ files[h].items[j].kind = "record"
          /\ g < h \/ (g = h /\ i < j)
          => files[g].items[i].n < files[h].items[j].n

(* The active file holds the records of the writer's directory alone, or a *)
(* footer ahead of the next record's place.                                *)
Clean(f, dir) == Len(f.items) = Len(dir) /\ Lists(dir, f.items)

Spoilt(f, dir) == \E i \in 1 .. Len(f.items) : i <= Len(dir) + 1 /\ f.items[i].kind # "record"

ActiveInv ==
    /\ InOrder(w.dir)
    /\ pc # "down" /\ w.gen \in DOMAIN files =>
          \/ ~w.closed /\ Clean(files[w.gen], w.dir)
          \/ Spoilt(files[w.gen], w.dir) /\ (~w.closed => Len(w.dir) < Len(files[w.gen].items))
    /\ pc = "sync" => Spoilt(files[w.gen], w.dir)

(* The index is in the order of generations and offsets, does not run      *)
(* ahead of the writer, and what is in place is of the loc's trace.        *)
Before(k, l) == k.gen < l.gen \/ (k.gen = l.gen /\ k.off < l.off)

IdxInv ==
    /\ \A i, j \in 1 .. Len(idx) : i < j => Before(idx[i], idx[j])
    /\ \A i \in 1 .. Len(idx) :
          /\ idx[i].gen <= w.gen
          /\ idx[i].gen = w.gen => idx[i].off < Len(w.dir)
          /\ InPlace(idx[i]) => Item(idx[i]).id = idx[i].id

(* As long as no fsync fails, what is finalized has its footer. *)
FooterInv ==
    "sync" \notin Faults =>
        /\ pc \notin {"down", "sync"} /\ ~w.closed => Clean(files[w.gen], w.dir)
        /\ pc = "sync" => HasFooter(files[w.gen])
        /\ \A g \in DOMAIN metas : HasFooter(files[g])
        /\ UnmixedCrashes => Openable

(* The sizes are those of the files, and unless a roll fails half-way the  *)
(* active segment is open.                                                 *)
BytesInv ==
    /\ \A g \in DOMAIN metas : metas[g].size = Len(files[g].items)
    /\ bytes = SumFunction([g \in DOMAIN metas |-> metas[g].size])
    /\ Faults \subseteq {"remove", "write"} => (w.closed <=> pc = "create")

BufferInv == /\ TypeOK /\ OpInv /\ GenInv /\ DurableInv /\ FileInv /\ NumberInv
             /\ ActiveInv /\ IdxInv /\ FooterInv /\ BytesInv

(* What refinement needs on top of it, where only removals fail: a footer  *)
(* ends its file, the clock of a segment is not behind its records, every  *)
(* record has its loc, and the writer is sound.                            *)
Dated(items, t) == \A i \in 1 .. Len(items) : items[i].kind = "record" => items[i].at <= t

Ended(items) ==
    \A i \in 1 .. Len(items) :
        items[i].kind = "footer" => /\ i = Len(items) /\ items[i].off + 1 = i
                                    /\ Dated(items, items[i].tMax)

EndInv == \A g \in DOMAIN files : Ended(files[g].items)

StampInv ==
    /\ pc # "down" /\ w.gen \in DOMAIN files => Dated(files[w.gen].items, w.tMax)
    /\ \A g \in DOMAIN metas : Dated(files[g].items, metas[g].tMax)

LocatedInv ==
    pc # "down" =>
        \A g \in DOMAIN files : \A i \in 1 .. Len(files[g].items) :
            files[g].items[i].kind = "record" =>
                \E k \in 1 .. Len(idx) : idx[k].gen = g /\ idx[k].off = i - 1

SoundInv == ~w.err /\ ~w.dirty

SpanInv == EndInv /\ StampInv /\ LocatedInv /\ SoundInv

-----------------------------------------------------------------------------
(***************************************************************************)
(* Least and greatest elements.                                            *)
(***************************************************************************)

(* A finite nonempty set of integers has a greatest element. *)
LEMMA GreatestNumber ==
    ASSUME NEW S \in SUBSET Int, IsFiniteSet(S), S # {}
    PROVE  \E x \in S : \A y \in S : x >= y
<1>1. SUFFICES ASSUME \A x \in S : \E y \in S : y > x
               PROVE  FALSE
  OBVIOUS
<1> DEFINE Up(x) == {y \in S : y > x}
<1> DEFINE B == {n \in Nat : \E x \in S : Cardinality(Up(x)) = n}
<1>2. \A x \in S : IsFiniteSet(Up(x)) /\ Cardinality(Up(x)) \in Nat
  BY FS_Subset, FS_CardinalityType
<1>3. PICK x0 : x0 \in S
  OBVIOUS
<1>4. B # {}
  BY <1>2, <1>3
<1>5. PICK n \in B : \A m \in B : n <= m
  <2>1. B \in SUBSET Nat
    OBVIOUS
  <2> HIDE DEF B
  <2>2. QED
    BY <1>4, <2>1, LeastNumber
<1>6. PICK x \in S : Cardinality(Up(x)) = n
  BY <1>5
<1>7. PICK y \in S : y > x
  BY <1>1
<1>8. Up(y) \subseteq Up(x) /\ Up(y) # Up(x)
  <2>1. x \in Int /\ y \in Int /\ \A z \in S : z \in Int
    OBVIOUS
  <2>2. y \in Up(x) /\ y \notin Up(y)
    BY <1>7, <2>1
  <2>3. \A z \in S : z > y => z > x
    BY <1>7, <2>1
  <2>4. QED
    BY <2>2, <2>3
<1>9. IsFiniteSet(Up(x)) /\ Cardinality(Up(y)) \in B
  BY <1>2
<1>10. Cardinality(Up(y)) < Cardinality(Up(x))
  <2> HIDE DEF Up
  <2>1. Cardinality(Up(y)) <= Cardinality(Up(x)) /\ (Cardinality(Up(y)) = Cardinality(Up(x)) => Up(y) = Up(x))
    BY <1>8, <1>9, FS_Subset
  <2>2. Cardinality(Up(y)) \in Nat /\ Cardinality(Up(x)) \in Nat
    BY <1>2
  <2>3. QED
    BY <1>8, <2>1, <2>2
<1>11. n <= Cardinality(Up(y)) /\ n \in Nat /\ Cardinality(Up(y)) \in Nat
  BY <1>5, <1>9
<1>12. QED
  BY <1>6, <1>10, <1>11

(* Max and Min pick them. *)
LEMMA MaxIsGreatest ==
    ASSUME NEW S \in SUBSET Int, IsFiniteSet(S), S # {}
    PROVE  Max(S) \in S /\ \A y \in S : y <= Max(S)
<1>1. \E x \in S : \A y \in S : x >= y
  BY GreatestNumber
<1>2. Max(S) \in S /\ \A y \in S : Max(S) >= y
  BY <1>1, Zenon DEF Max
<1>3. QED
  BY <1>2

LEMMA MinIsLeast ==
    ASSUME NEW S \in SUBSET Nat, S # {}
    PROVE  Min(S) \in S /\ \A y \in S : Min(S) <= y
<1>1. \E x \in S : \A y \in S : x =< y
  BY LeastNumber
<1>2. QED
  BY <1>1, Zenon DEF Min

LEMMA MaxOfTwo ==
    ASSUME NEW a \in Int, NEW b \in Int
    PROVE  Max({a, b}) \in {a, b} /\ a <= Max({a, b}) /\ b <= Max({a, b})
<1>1. IsFiniteSet({a, b})
  <2>1. IsFiniteSet({a})
    BY FS_Singleton
  <2>2. IsFiniteSet({a} \cup {b})
    BY <2>1, FS_AddElement
  <2>3. {a, b} = {a} \cup {b}
    OBVIOUS
  <2>4. QED
    BY <2>2, <2>3
<1>2. {a, b} \in SUBSET Int /\ {a, b} # {}
  OBVIOUS
<1>3. QED
  BY <1>1, <1>2, MaxIsGreatest

LEMMA MinOfTwo ==
    ASSUME NEW a \in Nat, NEW b \in Nat
    PROVE  Min({a, b}) \in {a, b} /\ Min({a, b}) <= a /\ Min({a, b}) <= b
<1>1. {a, b} \in SUBSET Nat /\ {a, b} # {}
  OBVIOUS
<1>2. QED
  BY <1>1, MinIsLeast

(* A scan ends behind records only, as far as there are any. *)
LEMMA ScanEnds ==
    ASSUME NEW f, f.items \in Seq(Items)
    PROVE  /\ ValidEnd(f) \in 0 .. Len(f.items)
           /\ \A i \in 1 .. ValidEnd(f) : f.items[i].kind = "record"
           /\ ValidEnd(f) < Len(f.items) => f.items[ValidEnd(f) + 1].kind # "record"
<1> DEFINE n == Len(f.items)
<1> DEFINE S == {k \in 0 .. n : \A i \in 1 .. k : f.items[i].kind = "record"}
<1>1. n \in Nat
  OBVIOUS
<1> HIDE DEF n
<1>2. IsFiniteSet(0 .. n)
  BY <1>1, FS_Interval
<1>3. 0 \in S /\ S \in SUBSET Int /\ S \subseteq 0 .. n
  BY <1>1
<1>4. IsFiniteSet(S)
  BY <1>2, <1>3, FS_Subset
<1>5. ValidEnd(f) = Max(S)
  BY DEF ValidEnd, n
<1>6. ValidEnd(f) \in S /\ \A y \in S : y <= ValidEnd(f)
  <2> HIDE DEF S
  <2>1. QED
    BY <1>3, <1>4, <1>5, MaxIsGreatest
<1>7. ASSUME ValidEnd(f) < n, f.items[ValidEnd(f) + 1].kind = "record"
      PROVE  FALSE
  <2>1. ValidEnd(f) + 1 \in S
    BY <1>1, <1>6, <1>7
  <2>2. QED
    BY <1>1, <1>6, <2>1
<1>8. QED
  BY <1>6, <1>7 DEF n

-----------------------------------------------------------------------------
(***************************************************************************)
(* FlattenSeq: the pieces one behind the other.                            *)
(***************************************************************************)
(* FlattenSeq is its last value. *)
LEMMA FlattenIsFlat ==
    ASSUME NEW seqs, Len(seqs) \in Nat \ {0}
    PROVE  \E fl : IsFlat(seqs, Len(seqs), fl) /\ FlattenSeq(seqs) = fl[Len(seqs)]
<1> DEFINE c == CHOOSE fl : IsFlat(seqs, Len(seqs), fl)
<1>1. IsFlat(seqs, Len(seqs), c)
  BY FlatExists, Zenon
<1>2. Len(seqs) # 0
  OBVIOUS
<1>3. FlattenSeq(seqs) = c[Len(seqs)]
  BY <1>2, Zenon DEF FlattenSeq, IsFlat
<1>4. QED
  BY <1>1, <1>3, Zenon

(* If the pieces ascend, and from one to the next, so does the whole. *)
LEMMA FlattenAscends ==
    ASSUME NEW T, NEW R, NEW seqs \in Seq(Seq(T)),
           \A i \in 1 .. Len(seqs) : \A k, l \in 1 .. Len(seqs[i]) :
              k < l => <<seqs[i][k], seqs[i][l]>> \in R,
           \A i, j \in 1 .. Len(seqs) : i < j =>
              \A k \in 1 .. Len(seqs[i]), l \in 1 .. Len(seqs[j]) : <<seqs[i][k], seqs[j][l]>> \in R
    PROVE  FlattenSeq(seqs) \in Seq(T) /\ Made(FlattenSeq(seqs), seqs, Len(seqs), R)
<1>1. CASE Len(seqs) = 0
  <2>1. FlattenSeq(seqs) = seqs
    BY <1>1, Zenon DEF FlattenSeq
  <2>2. seqs = << >>
    BY <1>1
  <2>3. QED
    BY <1>1, <2>1, <2>2 DEF Made
<1>2. CASE Len(seqs) # 0
  <2>1. Len(seqs) \in Nat \ {0}
    BY <1>2
  <2>2. PICK fl : IsFlat(seqs, Len(seqs), fl) /\ FlattenSeq(seqs) = fl[Len(seqs)]
    BY <2>1, FlattenIsFlat
  <2>3. fl[Len(seqs)] \in Seq(T) /\ Made(fl[Len(seqs)], seqs, Len(seqs), R)
    BY <1>2, <2>2, FlatAscends
  <2>4. QED
    BY <2>2, <2>3, Zenon
<1>3. QED
  BY <1>1, <1>2

-----------------------------------------------------------------------------
(***************************************************************************)
(* Directories.                                                            *)
(***************************************************************************)
FileType(I) == [items : Seq(I), synced : Nat]

IsDirectory(fs, I) ==
    /\ DOMAIN fs \subseteq Nat \ {0}
    /\ fs \in [DOMAIN fs -> FileType(I)]
    /\ \A g \in DOMAIN fs : fs[g].synced <= Len(fs[g].items)

(* One file changes. *)
Changes(fs, fs1, g, f) ==
    /\ g \in DOMAIN fs
    /\ DOMAIN fs1 = DOMAIN fs
    /\ fs1[g] = f
    /\ \A h \in DOMAIN fs : h # g => fs1[h] = fs[h]

LEMMA DirectoryExcept ==
    ASSUME NEW I, NEW fs, IsDirectory(fs, I), NEW g \in DOMAIN fs,
           NEW f \in FileType(I), f.synced <= Len(f.items)
    PROVE  /\ IsDirectory([fs EXCEPT ![g] = f], I)
           /\ Changes(fs, [fs EXCEPT ![g] = f], g, f)
BY DEF IsDirectory, Changes, FileType

LEMMA DirectoryWith ==
    ASSUME NEW I, NEW fs, IsDirectory(fs, I), NEW g \in Nat \ {0}
    PROVE  /\ IsDirectory(With(fs, g, EmptyFile), I)
           /\ DOMAIN With(fs, g, EmptyFile) = DOMAIN fs \cup {g}
           /\ With(fs, g, EmptyFile)[g] = EmptyFile
           /\ \A h \in DOMAIN fs : h # g => With(fs, g, EmptyFile)[h] = fs[h]
<1> DEFINE fs1 == With(fs, g, EmptyFile)
<1>1. EmptyFile \in FileType(I) /\ EmptyFile.synced <= Len(EmptyFile.items)
  BY DEF EmptyFile, FileType
<1>2. /\ DOMAIN fs1 = DOMAIN fs \cup {g} /\ fs1[g] = EmptyFile
      /\ \A h \in DOMAIN fs : h # g => fs1[h] = fs[h]
      /\ fs1 = [h \in DOMAIN fs1 |-> fs1[h]]
  BY DEF With
<1> HIDE DEF fs1
<1>3. \A h \in DOMAIN fs1 : fs1[h] \in FileType(I) /\ fs1[h].synced <= Len(fs1[h].items)
  BY <1>1, <1>2 DEF IsDirectory
<1>4. IsDirectory(fs1, I)
  BY <1>2, <1>3 DEF IsDirectory
<1>5. QED
  BY <1>2, <1>4 DEF fs1

LEMMA DirectoryWithout ==
    ASSUME NEW I, NEW fs, IsDirectory(fs, I), NEW g
    PROVE  /\ IsDirectory(Without(fs, g), I)
           /\ DOMAIN Without(fs, g) = DOMAIN fs \ {g}
           /\ \A h \in DOMAIN Without(fs, g) : Without(fs, g)[h] = fs[h]
BY DEF IsDirectory, Without, FileType

(* A sequence begins another; a directory holds beginnings of the files of *)
(* another, and empty files; one file grows by an item.                    *)
Begins(s, t) == Len(s) <= Len(t) /\ \A i \in 1 .. Len(s) : s[i] = t[i]

Shrinks(fs, fs1) ==
    \A g \in DOMAIN fs1 : \/ fs1[g].items = << >>
                          \/ g \in DOMAIN fs /\ Begins(fs1[g].items, fs[g].items)

Grown(f, x) == [f EXCEPT !.items = Append(@, x)]

LEMMA GrownFile ==
    ASSUME NEW I, NEW f \in FileType(I), f.synced <= Len(f.items), NEW x \in I
    PROVE  /\ Grown(f, x) \in FileType(I)
           /\ Grown(f, x).synced = f.synced
           /\ Grown(f, x).synced <= Len(Grown(f, x).items)
           /\ Grown(f, x).items = Append(f.items, x)
           /\ Len(Grown(f, x).items) = Len(f.items) + 1
           /\ Grown(f, x).items[Len(f.items) + 1] = x
           /\ \A i \in 1 .. Len(f.items) : Grown(f, x).items[i] = f.items[i]
<1> DEFINE s == f.items
<1>1. s \in Seq(I) /\ f.synced \in Nat
  BY DEF FileType
<1>2. Grown(f, x).items = Append(s, x) /\ Grown(f, x).synced = f.synced
  BY DEF FileType, Grown
<1>3. Append(s, x) \in Seq(I) => Grown(f, x) \in FileType(I)
  BY DEF FileType, Grown
<1> HIDE DEF s
<1>4. /\ Append(s, x) \in Seq(I) /\ Len(Append(s, x)) = Len(s) + 1 /\ Len(s) \in Nat
      /\ Append(s, x)[Len(s) + 1] = x
      /\ \A i \in 1 .. Len(s) : Append(s, x)[i] = s[i]
  BY <1>1
<1>5. QED
  BY <1>1, <1>2, <1>3, <1>4 DEF s

LEMMA SyncedFile ==
    ASSUME NEW I, NEW f \in FileType(I)
    PROVE  /\ Synced(f) \in FileType(I)
           /\ Synced(f).items = f.items
           /\ Synced(f).synced = Len(f.items)
BY DEF FileType, Synced

(* What is left of a file cut behind its k-th item. *)
LEMMA CutFile ==
    ASSUME NEW I, NEW f \in FileType(I), NEW k \in 0 .. Len(f.items)
    PROVE  /\ SubSeq(f.items, 1, k) \in Seq(I)
           /\ Len(SubSeq(f.items, 1, k)) = k
           /\ Begins(SubSeq(f.items, 1, k), f.items)
           /\ k = Len(f.items) => SubSeq(f.items, 1, k) = f.items
<1>1. f.items \in Seq(I) /\ k \in Nat /\ Len(f.items) \in Nat
  BY DEF FileType
<1>2. SubSeq(f.items, 1, k) \in Seq(I) /\ Len(SubSeq(f.items, 1, k)) = k
  BY <1>1
<1>3. \A i \in 1 .. k : SubSeq(f.items, 1, k)[i] = f.items[i]
  BY <1>1
<1>4. k = Len(f.items) => SubSeq(f.items, 1, k) = f.items
  BY <1>1, SubSeqFull
<1>5. QED
  BY <1>1, <1>2, <1>3, <1>4 DEF Begins

-----------------------------------------------------------------------------
(***************************************************************************)
(* What each step does to the directory.                                   *)
(***************************************************************************)
LEMMA TypedDirectory ==
    TypeOK => IsDirectory(files, Items)
BY DEF TypeOK, IsDirectory, FileType

LEMMA PutFiles ==
    ASSUME TypeOK, GenInv, pc # "down", appended < MaxAppends,
           NEW id \in Ids, NEW at \in 0 .. now, Put(id, at), now' = now
    PROVE  /\ IsDirectory(files', Items)
           /\ w.closed => files' = files
           /\ ~w.closed => Changes(files, files', w.gen, Grown(files[w.gen], Record(id, appended + 1, at)))
<1> DEFINE r == Record(id, appended + 1, at)
<1>1. r \in Items
  <2>1. appended \in 0 .. MaxAppends
    BY DEF TypeOK
  <2>2. appended + 1 \in 1 .. MaxAppends
    BY <2>1, BufferBounds
  <2>3. QED
    BY <2>2 DEF Items, Record
<1>2. IsDirectory(files, Items)
  BY TypedDirectory
<1>3. w.closed => files' = files
  BY DEF Put
<1>4. ASSUME ~w.closed
      PROVE  IsDirectory(files', Items) /\ Changes(files, files', w.gen, Grown(files[w.gen], r))
  <2>1. w.gen \in DOMAIN files
    BY <1>4 DEF GenInv
  <2>2. files' = [files EXCEPT ![w.gen] = Grown(files[w.gen], r)]
    BY <1>4, <2>1 DEF Put, Grown
  <2>3. files[w.gen] \in FileType(Items) /\ files[w.gen].synced <= Len(files[w.gen].items)
    BY <1>2, <2>1 DEF IsDirectory
  <2> HIDE DEF r
  <2>4. Grown(files[w.gen], r) \in FileType(Items)
        /\ Grown(files[w.gen], r).synced <= Len(Grown(files[w.gen], r).items)
    BY <1>1, <2>3, GrownFile
  <2>5. QED
    BY <1>2, <2>1, <2>2, <2>4, DirectoryExcept
<1>5. QED
  BY <1>2, <1>3, <1>4

LEMMA FooterFiles ==
    ASSUME TypeOK, GenInv, RollFooter
    PROVE  /\ IsDirectory(files', Items)
           /\ Changes(files, files', w.gen, Grown(files[w.gen], Footer(w.dir, w.tMax)))
<1> DEFINE r == Footer(w.dir, w.tMax)
<1>1. r \in Items
  BY DEF TypeOK, Items, Footer
<1>2. IsDirectory(files, Items)
  BY TypedDirectory
<1>3. w.gen \in DOMAIN files
  BY DEF GenInv, RollFooter
<1>4. files' = [files EXCEPT ![w.gen] = Grown(files[w.gen], r)]
  BY <1>3 DEF RollFooter, WithFooter, Grown
<1>5. files[w.gen] \in FileType(Items) /\ files[w.gen].synced <= Len(files[w.gen].items)
  BY <1>2, <1>3 DEF IsDirectory
<1> HIDE DEF r
<1>6. Grown(files[w.gen], r) \in FileType(Items)
      /\ Grown(files[w.gen], r).synced <= Len(Grown(files[w.gen], r).items)
  BY <1>1, <1>5, GrownFile
<1>7. IsDirectory(files', Items) /\ Changes(files, files', w.gen, Grown(files[w.gen], r))
  BY <1>2, <1>3, <1>4, <1>6, DirectoryExcept
<1>8. QED
  BY <1>7 DEF r

(* A file is fsynced. *)
LEMMA SyncFiles ==
    ASSUME TypeOK, w.gen \in DOMAIN files, files' = [files EXCEPT ![w.gen] = Synced(@)]
    PROVE  /\ IsDirectory(files', Items)
           /\ Changes(files, files', w.gen, Synced(files[w.gen]))
           /\ Shrinks(files, files')
           /\ \A g \in DOMAIN files : files'[g].items = files[g].items
<1>1. IsDirectory(files, Items)
  BY TypedDirectory
<1>2. files' = [files EXCEPT ![w.gen] = Synced(files[w.gen])]
  OBVIOUS
<1>3. \A g \in DOMAIN files : files[g] \in FileType(Items) /\ Len(files[g].items) \in Nat
  BY <1>1 DEF IsDirectory, FileType
<1>4. /\ Synced(files[w.gen]) \in FileType(Items)
      /\ Synced(files[w.gen]).items = files[w.gen].items
      /\ Synced(files[w.gen]).synced = Len(files[w.gen].items)
  BY <1>3, SyncedFile
<1>5. Synced(files[w.gen]).synced <= Len(Synced(files[w.gen]).items)
  BY <1>3, <1>4
<1>6. IsDirectory(files', Items) /\ Changes(files, files', w.gen, Synced(files[w.gen]))
  <2> DEFINE fs1 == [files EXCEPT ![w.gen] = Synced(files[w.gen])]
  <2>1. IsDirectory(fs1, Items) /\ Changes(files, fs1, w.gen, Synced(files[w.gen]))
    BY <1>1, <1>4, <1>5, DirectoryExcept
  <2>2. QED
    BY <1>2, <2>1, Zenon
<1>7. DOMAIN files' = DOMAIN files /\ \A g \in DOMAIN files : files'[g].items = files[g].items
  BY <1>4, <1>6 DEF Changes
<1>8. Shrinks(files, files')
  BY <1>3, <1>7 DEF Shrinks, Begins
<1>9. QED
  BY <1>6, <1>7, <1>8

(* The next file is created. *)
LEMMA CreateFiles ==
    ASSUME TypeOK, NEW gen \in Nat \ {0}, gen \notin DOMAIN files, files' = With(files, gen, EmptyFile)
    PROVE  /\ IsDirectory(files', Items)
           /\ DOMAIN files' = DOMAIN files \cup {gen}
           /\ files'[gen].items = << >> /\ files'[gen].synced = 0
           /\ \A g \in DOMAIN files : files'[g] = files[g]
           /\ Shrinks(files, files')
<1>1. IsDirectory(files, Items)
  BY TypedDirectory
<1>2. /\ IsDirectory(files', Items)
      /\ DOMAIN files' = DOMAIN files \cup {gen}
      /\ files'[gen] = EmptyFile
      /\ \A g \in DOMAIN files : files'[g] = files[g]
  <2>1. /\ IsDirectory(With(files, gen, EmptyFile), Items)
        /\ DOMAIN With(files, gen, EmptyFile) = DOMAIN files \cup {gen}
        /\ With(files, gen, EmptyFile)[gen] = EmptyFile
    BY ONLY <1>1, gen \in Nat \ {0}, DirectoryWith
  <2>2. \A g \in DOMAIN files : With(files, gen, EmptyFile)[g] = files[g]
    BY DEF With
  <2>3. QED
    BY <2>1, <2>2, Zenon
<1>3. \A g \in DOMAIN files : Len(files[g].items) \in Nat
  BY <1>1 DEF IsDirectory, FileType
<1>4. files'[gen].items = << >> /\ files'[gen].synced = 0
  BY <1>2 DEF EmptyFile
<1>5. Shrinks(files, files')
  BY <1>2, <1>3, <1>4 DEF Shrinks, Begins
<1>6. QED
  BY <1>2, <1>4, <1>5

(* The oldest segment is removed. *)
LEMMA RemoveFiles ==
    ASSUME TypeOK, RemoveOldest
    PROVE  /\ IsDirectory(files', Items)
           /\ Oldest \in DOMAIN metas /\ \A g \in DOMAIN metas : Oldest <= g
           /\ DOMAIN files' = DOMAIN files \ {Oldest}
           /\ \A g \in DOMAIN files' : files'[g] = files[g]
           /\ DOMAIN metas' = DOMAIN metas \ {Oldest}
           /\ \A g \in DOMAIN metas' : metas'[g] = metas[g]
           /\ metas' \in [DOMAIN metas' -> [tMax : 0 .. now, size : Nat]]
           /\ Shrinks(files, files')
<1>1. IsDirectory(files, Items)
  BY TypedDirectory
<1>2. /\ IsDirectory(files', Items)
      /\ DOMAIN files' = DOMAIN files \ {Oldest}
      /\ \A g \in DOMAIN files' : files'[g] = files[g]
  <2> DEFINE fs1 == Without(files, Oldest)
  <2>1. /\ IsDirectory(fs1, Items)
        /\ DOMAIN fs1 = DOMAIN files \ {Oldest}
        /\ \A g \in DOMAIN fs1 : fs1[g] = files[g]
    BY <1>1, DirectoryWithout
  <2>2. files' = fs1
    BY DEF RemoveOldest
  <2>3. QED
    BY <2>1, <2>2, Zenon
<1>3. \A g \in DOMAIN files : Len(files[g].items) \in Nat
  BY <1>1 DEF IsDirectory, FileType
<1>4. Shrinks(files, files')
  BY <1>2, <1>3 DEF Shrinks, Begins
<1>5. DOMAIN metas \in SUBSET Nat /\ DOMAIN metas # {}
  BY DEF TypeOK, RemoveOldest
<1>6. Oldest \in DOMAIN metas /\ \A g \in DOMAIN metas : Oldest <= g
  BY <1>5, MinIsLeast DEF Oldest
<1>7. /\ DOMAIN metas' = DOMAIN metas \ {Oldest}
      /\ \A g \in DOMAIN metas' : metas'[g] = metas[g]
      /\ metas' \in [DOMAIN metas' -> [tMax : 0 .. now, size : Nat]]
  BY DEF RemoveOldest, Without, TypeOK
<1>8. QED
  BY <1>2, <1>4, <1>6, <1>7

(* A killed process leaves the active file cut, and the others as they     *)
(* were.                                                                   *)
LEMMA KillFiles ==
    ASSUME TypeOK, Kill
    PROVE  /\ IsDirectory(files', Items)
           /\ DOMAIN files' = DOMAIN files
           /\ \A g \in DOMAIN files : g # w.gen => files'[g] = files[g]
           /\ w.gen \in DOMAIN files /\ Durable(files[w.gen]) => files' = files
           /\ Shrinks(files, files')
<1>1. IsDirectory(files, Items)
  BY TypedDirectory
<1>2. \A g \in DOMAIN files : /\ files[g] \in FileType(Items) /\ Len(files[g].items) \in Nat
                              /\ files[g].synced \in 0 .. Len(files[g].items)
  BY <1>1 DEF IsDirectory, FileType
<1>3. CASE w.gen \notin DOMAIN files
  <2>1. files' = files
    BY <1>3 DEF Kill
  <2>2. Shrinks(files, files)
    BY <1>2 DEF Shrinks, Begins
  <2>3. QED
    BY <1>1, <1>3, <2>1, <2>2, Zenon
<1>4. CASE w.gen \in DOMAIN files
  <2> DEFINE f == files[w.gen]
  <2>1. PICK k \in f.synced .. Len(f.items) : files' = [files EXCEPT ![w.gen].items = SubSeq(@, 1, k)]
    BY <1>4 DEF Kill
  <2>2. k \in 0 .. Len(f.items) /\ f.synced \in Nat /\ f.synced <= k
    BY <1>2, <1>4
  <2>3. f \in FileType(Items)
    BY <1>2, <1>4
  <2> DEFINE c == [items |-> SubSeq(f.items, 1, k), synced |-> f.synced]
  <2>4. files' = [files EXCEPT ![w.gen] = c]
    <3>1. \A e : [f EXCEPT !.items = e] = [items |-> e, synced |-> f.synced]
      BY <2>3 DEF FileType
    <3>2. files' = [files EXCEPT ![w.gen] = [f EXCEPT !.items = SubSeq(f.items, 1, k)]]
      BY <2>1
    <3>3. QED
      BY <3>1, <3>2, Zenon
  <2>5. /\ SubSeq(f.items, 1, k) \in Seq(Items)
        /\ Len(SubSeq(f.items, 1, k)) = k
        /\ Begins(SubSeq(f.items, 1, k), f.items)
        /\ k = Len(f.items) => SubSeq(f.items, 1, k) = f.items
    <3> HIDE DEF f
    <3>1. QED
      BY <2>2, <2>3, CutFile
  <2>6. c \in FileType(Items) /\ c.synced <= Len(c.items) /\ Begins(c.items, f.items)
    BY <2>2, <2>5 DEF FileType
  <2>7. Durable(f) => c = f
    <3>1. ASSUME Durable(f) PROVE c = f
      <4>1. k = f.synced /\ k = Len(f.items)
        BY <1>2, <1>4, <2>2, <3>1 DEF Durable
      <4>2. SubSeq(f.items, 1, k) = f.items
        BY <2>5, <4>1
      <4>3. f = [items |-> f.items, synced |-> f.synced]
        BY <2>3 DEF FileType
      <4>4. QED
        BY <4>2, <4>3
    <3>2. QED
      BY <3>1
  <2> HIDE DEF c
  <2>8. IsDirectory(files', Items) /\ Changes(files, files', w.gen, c)
    <3>1. IsDirectory([files EXCEPT ![w.gen] = c], Items) /\ Changes(files, [files EXCEPT ![w.gen] = c], w.gen, c)
      BY <1>1, <1>4, <2>6, DirectoryExcept
    <3>2. QED
      BY <2>4, <3>1, Zenon
  <2>9. Shrinks(files, files')
    BY <1>2, <2>6, <2>8 DEF Shrinks, Changes, Begins
  <2>10. Durable(f) => files' = files
    BY <1>1, <1>4, <2>4, <2>7 DEF IsDirectory
  <2>11. QED
    BY <2>8, <2>9, <2>10 DEF Changes
<1>5. QED
  BY <1>3, <1>4

(* A power loss may take what is not durable. *)
LEMMA PowerFiles ==
    ASSUME TypeOK, PowerLoss
    PROVE  /\ IsDirectory(files', Items)
           /\ DOMAIN files' \subseteq DOMAIN files
           /\ \A g \in DOMAIN files : files[g].synced # 0 => g \in DOMAIN files'
           /\ \A g \in DOMAIN files' : Durable(files'[g]) /\ (Durable(files[g]) => files'[g].items = files[g].items)
           /\ Shrinks(files, files')
<1>1. IsDirectory(files, Items)
  BY TypedDirectory
<1>2. \A g \in DOMAIN files : /\ files[g] \in FileType(Items) /\ Len(files[g].items) \in Nat
                              /\ files[g].synced \in 0 .. Len(files[g].items)
  BY <1>1 DEF IsDirectory, FileType
<1>3. PICK gone \in SUBSET {g \in DOMAIN files : files[g].synced = 0} :
         \E rest \in [DOMAIN files \ gone -> UNION {Survivors(files[g]) : g \in DOMAIN files}] :
            /\ \A g \in DOMAIN rest : rest[g] \in Survivors(files[g])
            /\ files' = rest
  BY Zenon DEF PowerLoss
<1>4. PICK rest \in [DOMAIN files \ gone -> UNION {Survivors(files[g]) : g \in DOMAIN files}] :
            /\ \A g \in DOMAIN rest : rest[g] \in Survivors(files[g])
            /\ files' = rest
  BY <1>3, Zenon
<1>5. /\ DOMAIN files' = DOMAIN files \ gone
      /\ \A g \in DOMAIN files' : files'[g] \in Survivors(files[g])
      /\ files' = [g \in DOMAIN files' |-> files'[g]]
  BY <1>4
<1>6. ASSUME NEW g \in DOMAIN files'
      PROVE  /\ files'[g] \in FileType(Items) /\ files'[g].synced <= Len(files'[g].items)
             /\ Durable(files'[g])
             /\ Durable(files[g]) => files'[g].items = files[g].items
             /\ Begins(files'[g].items, files[g].items)
  <2> DEFINE f == files[g]
  <2>1. g \in DOMAIN files
    BY <1>5
  <2>2. f \in FileType(Items) /\ Len(f.items) \in Nat /\ f.synced \in 0 .. Len(f.items)
    BY <1>2, <2>1
  <2>3. PICK k \in f.synced .. Len(f.items) : files'[g] = [items |-> SubSeq(f.items, 1, k), synced |-> k]
    BY <1>5 DEF Survivors
  <2> HIDE DEF f
  <2>4. k \in 0 .. Len(f.items) /\ f.synced <= k
    BY <2>2
  <2>5. /\ SubSeq(f.items, 1, k) \in Seq(Items)
        /\ Len(SubSeq(f.items, 1, k)) = k
        /\ Begins(SubSeq(f.items, 1, k), f.items)
        /\ k = Len(f.items) => SubSeq(f.items, 1, k) = f.items
    BY <2>2, <2>4, CutFile
  <2>6. files'[g].items = SubSeq(f.items, 1, k) /\ files'[g].synced = k /\ files'[g] \in FileType(Items)
    BY <2>3, <2>4, <2>5 DEF FileType
  <2>7. Durable(f) => k = Len(f.items)
    BY <2>2, <2>4 DEF Durable
  <2>8. QED
    BY <2>4, <2>5, <2>6, <2>7 DEF Durable, f
<1>7. DOMAIN files' \subseteq DOMAIN files /\ \A g \in DOMAIN files : files[g].synced # 0 => g \in DOMAIN files'
  BY <1>5
<1>8. IsDirectory(files', Items)
  BY <1>1, <1>5, <1>6, <1>7 DEF IsDirectory
<1>9. Shrinks(files, files')
  BY <1>6, <1>7 DEF Shrinks
<1>10. QED
  BY <1>6, <1>7, <1>8, <1>9

(* Open resumes the newest file if it has no footer, or begins the next. *)
LEMMA OpenFiles ==
    ASSUME TypeOK, GenInv, Open
    PROVE  /\ IsDirectory(files', Items)
           /\ w'.gen \in Nat \ {0}
           /\ DOMAIN files' = DOMAIN files \cup {w'.gen}
           /\ \A g \in DOMAIN files : g <= w'.gen
           /\ \A g \in DOMAIN files : g # w'.gen => HasFooter(files[g]) /\ files'[g] = files[g]
           /\ \/ /\ w'.gen \in DOMAIN files /\ ~HasFooter(files[w'.gen])
                 /\ w'.gen = Newest
                 /\ files'[w'.gen].items = SubSeq(files[w'.gen].items, 1, ValidEnd(files[w'.gen]))
                 /\ w' = [NewWriter(w'.gen) EXCEPT !.dir = ScannedDir(files[w'.gen]), !.tMax = now]
              \/ /\ w'.gen \notin DOMAIN files
                 /\ \A g \in DOMAIN files : HasFooter(files[g])
                 /\ w'.gen = IF DOMAIN files = {} THEN 1 ELSE Newest + 1
                 /\ files'[w'.gen].items = << >> /\ w' = NewWriter(w'.gen)
           /\ Shrinks(files, files')
<1> DEFINE footered == {g \in DOMAIN files : HasFooter(files[g])}
<1> DEFINE torn == DOMAIN files \ footered
<1>1. IsDirectory(files, Items)
  BY TypedDirectory
<1>2. \A g \in DOMAIN files : /\ files[g] \in FileType(Items) /\ files[g].items \in Seq(Items)
                              /\ files[g].synced \in Nat
  BY <1>1 DEF IsDirectory, FileType
<1>3. DOMAIN files \in SUBSET Int /\ DOMAIN files \in SUBSET (Nat \ {0}) /\ IsFiniteSet(DOMAIN files)
  BY <1>1 DEF IsDirectory, GenInv
<1>4. DOMAIN files # {} => Newest \in DOMAIN files /\ \A g \in DOMAIN files : g <= Newest
  BY <1>3, MaxIsGreatest DEF Newest
<1>5. \A g \in DOMAIN files : HasFooter(files[g]) \/ g = Newest
  BY DEF Open, Recoverable
<1>6. CASE torn # {}
  <2> DEFINE f == files[Newest]
  <2> DEFINE c == [items  |-> SubSeq(f.items, 1, ValidEnd(f)), synced |-> Min({f.synced, ValidEnd(f)})]
  <2>1. files' = [files EXCEPT ![Newest] = c] /\ w' = [NewWriter(Newest) EXCEPT !.dir = ScannedDir(f), !.tMax = now]
    BY <1>6 DEF Open, RecoveredTMax
  <2>2. w'.gen = Newest
    BY <2>1 DEF NewWriter
  <2>3. Newest \in DOMAIN files /\ ~HasFooter(f)
    BY <1>4, <1>5, <1>6
  <2>4. f \in FileType(Items) /\ f.items \in Seq(Items) /\ f.synced \in Nat
    BY <1>2, <2>3
  <2> HIDE DEF f
  <2>5. ValidEnd(f) \in 0 .. Len(f.items)
    BY <2>4, ScanEnds
  <2>6. /\ SubSeq(f.items, 1, ValidEnd(f)) \in Seq(Items)
        /\ Len(SubSeq(f.items, 1, ValidEnd(f))) = ValidEnd(f)
        /\ Begins(SubSeq(f.items, 1, ValidEnd(f)), f.items)
    BY <2>4, <2>5, CutFile
  <2>7. Min({f.synced, ValidEnd(f)}) \in Nat /\ Min({f.synced, ValidEnd(f)}) <= ValidEnd(f)
    BY <2>4, <2>5, MinOfTwo
  <2>8. c \in FileType(Items) /\ c.synced <= Len(c.items) /\ Begins(c.items, f.items)
        /\ c.items = SubSeq(f.items, 1, ValidEnd(f))
    BY <2>6, <2>7 DEF FileType
  <2> HIDE DEF c
  <2>9. IsDirectory(files', Items) /\ Changes(files, files', Newest, c)
    <3>1. IsDirectory([files EXCEPT ![Newest] = c], Items) /\ Changes(files, [files EXCEPT ![Newest] = c], Newest, c)
      BY <1>1, <2>3, <2>8, DirectoryExcept
    <3>2. QED
      BY <2>1, <3>1, Zenon
  <2>10. Shrinks(files, files')
    <3>1. \A g \in DOMAIN files : Begins(files[g].items, files[g].items)
      BY <1>2 DEF Begins
    <3>2. QED
      BY <2>8, <2>9, <3>1 DEF Shrinks, Changes, f
  <2>11. files'[Newest].items = SubSeq(f.items, 1, ValidEnd(f)) /\ DOMAIN files' = DOMAIN files
         /\ \A g \in DOMAIN files : g # Newest => files'[g] = files[g]
    BY <2>8, <2>9 DEF Changes
  <2>12. Newest \in Nat \ {0} /\ DOMAIN files = DOMAIN files \cup {Newest} /\ \A g \in DOMAIN files : g <= Newest
    BY <1>3, <1>4, <2>3
  <2>13. QED
    BY <1>5, <2>1, <2>2, <2>3, <2>9, <2>10, <2>11, <2>12, Zenon DEF f
<1>7. CASE torn = {}
  <2> DEFINE gen == IF footered = {} THEN 1 ELSE Newest + 1
  <2>1. files' = With(files, gen, EmptyFile) /\ w' = NewWriter(gen)
    BY <1>7 DEF Open
  <2>2. footered = DOMAIN files /\ \A g \in DOMAIN files : HasFooter(files[g])
    BY <1>7
  <2>3. gen = IF DOMAIN files = {} THEN 1 ELSE Newest + 1
    BY <2>2, Zenon
  <2> HIDE DEF gen
  <2>4. gen \in Nat \ {0} /\ gen \notin DOMAIN files /\ \A g \in DOMAIN files : g <= gen
    <3>1. CASE DOMAIN files = {}
      BY <2>3, <3>1
    <3>2. CASE DOMAIN files # {}
      <4>1. gen = Newest + 1
        BY <2>3, <3>2
      <4>2. Newest \in Nat \ {0} /\ \A g \in DOMAIN files : g \in Nat /\ g <= Newest
        BY <1>3, <1>4, <3>2
      <4>3. QED
        BY <4>1, <4>2
    <3>3. QED
      BY <3>1, <3>2
  <2>5. w'.gen = gen
    BY <2>1 DEF NewWriter
  <2>6. /\ IsDirectory(files', Items)
        /\ DOMAIN files' = DOMAIN files \cup {gen}
        /\ files'[gen].items = << >> /\ files'[gen].synced = 0
        /\ \A g \in DOMAIN files : files'[g] = files[g]
        /\ Shrinks(files, files')
    BY <2>1, <2>4, CreateFiles
  <2>7. QED
    BY <2>1, <2>2, <2>3, <2>4, <2>5, <2>6, Zenon
<1>8. QED
  BY <1>6, <1>7

(* The active segment of the reopened buffer. *)
LEMMA OpenWriter ==
    ASSUME TypeOK, GenInv, Open
    PROVE  /\ w'.closed = FALSE
           /\ w'.gen \in DOMAIN files => /\ ~HasFooter(files[w'.gen])
                                        /\ w'.dir = ScannedDir(files[w'.gen])
                                        /\ files'[w'.gen].items = SubSeq(files[w'.gen].items, 1, ValidEnd(files[w'.gen]))
           /\ w'.gen \notin DOMAIN files => /\ w'.gen = IF DOMAIN files = {} THEN 1 ELSE Newest + 1
                                           /\ w'.dir = << >>
                                           /\ files'[w'.gen].items = << >>
<1>1. CASE /\ w'.gen \in DOMAIN files /\ ~HasFooter(files[w'.gen])
           /\ files'[w'.gen].items = SubSeq(files[w'.gen].items, 1, ValidEnd(files[w'.gen]))
           /\ w' = [NewWriter(w'.gen) EXCEPT !.dir = ScannedDir(files[w'.gen]), !.tMax = now]
  <2>1. w'.closed = FALSE /\ w'.dir = ScannedDir(files[w'.gen])
    <3> DEFINE g == w'.gen
               d == ScannedDir(files[w'.gen])
    <3>1. w' = [NewWriter(g) EXCEPT !.dir = d, !.tMax = now]
      BY <1>1
    <3> HIDE DEF g, d
    <3>2. w'.closed = FALSE /\ w'.dir = d
      BY <3>1 DEF NewWriter
    <3>3. QED
      BY <3>2 DEF d
  <2>2. QED
    BY <1>1, <2>1, Zenon
<1>2. CASE /\ w'.gen \notin DOMAIN files
           /\ w'.gen = IF DOMAIN files = {} THEN 1 ELSE Newest + 1
           /\ files'[w'.gen].items = << >> /\ w' = NewWriter(w'.gen)
  <2>1. \A x, g : x = NewWriter(g) => x.closed = FALSE /\ x.dir = << >>
    BY DEF NewWriter
  <2>2. w'.closed = FALSE /\ w'.dir = << >>
    BY <1>2, <2>1, Zenon
  <2>3. QED
    BY <1>2, <2>2, Zenon
<1>3. QED
  BY <1>1, <1>2, OpenFiles, Zenon

-----------------------------------------------------------------------------
(***************************************************************************)
(* The kinds of steps.                                                     *)
(***************************************************************************)

(* Put, by an append that fits or behind a roll. *)
Stores(id, at) ==
    /\ pc \in {"idle", "append"} /\ appended < MaxAppends
    /\ Put(id, at)
    /\ pc' = "idle" /\ todo' = NoWork
    /\ UNCHANGED <<now, early, crashes>>

(* The steps that leave the directory, the segments and the index alone. *)
Keeps ==
    /\ UNCHANGED <<files, metas, bytes, minGen, idx>>
    /\ now' \in {now, now + 1} /\ now' \in 0 .. MaxTime
    /\ UNCHANGED <<early, crashes>>
    /\ w' \in {w, [w EXCEPT !.err = TRUE]}
    /\ appended' = appended \/ (appended < MaxAppends /\ appended' = appended + 1)
    /\ \/ pc' = pc /\ todo' = todo
       \/ pc \notin {"down", "append"} /\ pc' = "finalize" /\ todo' = [op |-> "expire"] /\ appended' = appended
       \/ /\ pc = "idle" /\ pc' = "finalize" /\ appended < MaxAppends /\ appended' = appended
          /\ \E id \in Ids, at \in 0 .. now : todo' = [op |-> "append", id |-> id, at |-> at]
       \/ pc # "down" /\ pc' \in {"idle", "expire", "sweep"} /\ todo' = NoWork
    /\ pc = "sync" /\ pc' # "sync" => "sync" \in Faults
    /\ pc = "create" /\ pc' # "create" => "create" \in Faults
    /\ pc' = pc /\ todo.op = "append" => appended' = appended

LEMMA RollFailed ==
    ASSUME BufferInv, pc \in {"finalize", "sync", "create"}, RollFails
    PROVE  /\ appended' = appended \/ (appended < MaxAppends /\ appended' = appended + 1)
           /\ pc' \in {"idle", "sweep"} /\ todo' = NoWork
           /\ UNCHANGED <<now, early, crashes, minGen, idx>>
<1>1. todo.op \in {"append", "expire"} /\ (todo.op = "append" => appended < MaxAppends)
  BY DEF BufferInv, OpInv
<1>2. QED
  BY <1>1 DEF RollFails

(* Every step is of one of these kinds. *)
LEMMA StepKinds ==
    ASSUME BufferInv, [Next]_vars
    PROVE  \/ Keeps
           \/ \E id \in Ids, at \in 0 .. now : Stores(id, at)
           \/ RollFooter \/ RollSync \/ RollReopenFails \/ RollCreate
           \/ ExpireRemove \/ ExpireOldest \/ ExpireSweep
           \/ Close \/ Kill \/ PowerLoss \/ Open
<1>1. TypeOK /\ OpInv
  BY DEF BufferInv
<1>2. now \in Nat /\ now \in 0 .. MaxTime /\ appended \in 0 .. MaxAppends
  BY <1>1, BufferBounds DEF TypeOK
<1>3. ASSUME UNCHANGED vars PROVE Keeps
  BY <1>2, <1>3 DEF vars, Keeps
<1>4. ASSUME Advance PROVE Keeps
  BY <1>2, <1>4, BufferBounds DEF Advance, Keeps, opVars, memVars
<1>5. ASSUME NEW id \in Ids, NEW at \in Stamps, AppendFragment(id, at)
      PROVE  Keeps \/ \E i \in Ids, t \in 0 .. now : Stores(i, t)
  <2>1. at \in 0 .. now
    BY <1>2, BufferBounds DEF Stamps
  <2>2. pc = "idle" /\ todo = NoWork /\ appended < MaxAppends
    BY <1>1, <1>5 DEF AppendFragment, OpInv
  <2>3. CASE ~Fits
    BY <1>2, <1>5, <2>1, <2>2, <2>3 DEF AppendFragment, Keeps, memVars
  <2>4. CASE Fits /\ Put(id, at)
    <3>1. Stores(id, at)
      BY <1>5, <2>2, <2>4 DEF AppendFragment, Stores, opVars
    <3>2. QED
      BY <2>1, <3>1
  <2>5. CASE Fits /\ PutFails
    BY <1>2, <1>5, <2>2, <2>5 DEF AppendFragment, PutFails, Keeps, opVars, NoWork
  <2>6. QED
    BY <1>5, <2>3, <2>4, <2>5 DEF AppendFragment
<1>6. ASSUME NEW id \in Ids, CollectFlushFails(id)
      PROVE  Keeps
  BY <1>2, <1>6 DEF CollectFlushFails, Keeps, countVars, opVars
<1>7. ASSUME AppendAfterRoll
      PROVE  Keeps \/ \E i \in Ids, t \in 0 .. now : Stores(i, t)
  <2>1. pc = "append" /\ todo.op = "append" /\ appended < MaxAppends
    BY <1>1, <1>7 DEF AppendAfterRoll, OpInv
  <2>2. todo.id \in Ids /\ todo.at \in 0 .. now
    BY <1>1, <2>1 DEF TypeOK, NoWork
  <2>3. CASE Put(todo.id, todo.at)
    <3>1. Stores(todo.id, todo.at)
      BY <1>7, <2>1, <2>3 DEF AppendAfterRoll, Stores
    <3>2. QED
      BY <2>2, <3>1
  <2>4. CASE PutFails
    BY <1>2, <1>7, <2>1, <2>4 DEF AppendAfterRoll, PutFails, Keeps, NoWork
  <2>5. QED
    BY <1>7, <2>3, <2>4 DEF AppendAfterRoll
<1>8. ASSUME RollSyncFails PROVE Keeps
  <2>1. pc = "sync"
    BY <1>8 DEF RollSyncFails
  <2>2. /\ appended' = appended \/ (appended < MaxAppends /\ appended' = appended + 1)
        /\ pc' \in {"idle", "sweep"} /\ todo' = NoWork
        /\ UNCHANGED <<now, early, crashes, minGen, idx>>
    BY <1>8, <2>1, RollFailed DEF RollSyncFails
  <2>3. QED
    BY <1>2, <1>8, <2>1, <2>2 DEF RollSyncFails, Keeps
<1>9. ASSUME RollWriteFails PROVE Keeps
  <2>1. pc = "finalize"
    BY <1>9 DEF RollWriteFails
  <2>2. /\ appended' = appended \/ (appended < MaxAppends /\ appended' = appended + 1)
        /\ pc' \in {"idle", "sweep"} /\ todo' = NoWork
        /\ UNCHANGED <<now, early, crashes, minGen, idx>>
    BY <1>9, <2>1, RollFailed DEF RollWriteFails
  <2>3. QED
    BY <1>2, <1>9, <2>1, <2>2 DEF RollWriteFails, Keeps
<1>10. ASSUME RollCreateFails PROVE Keeps
  <2>1. pc = "create"
    BY <1>10 DEF RollCreateFails
  <2>2. /\ appended' = appended \/ (appended < MaxAppends /\ appended' = appended + 1)
        /\ pc' \in {"idle", "sweep"} /\ todo' = NoWork
        /\ UNCHANGED <<now, early, crashes, minGen, idx>>
    BY <1>10, <2>1, RollFailed DEF RollCreateFails
  <2>3. QED
    BY <1>2, <1>10, <2>1, <2>2 DEF RollCreateFails, Keeps
<1>11. ASSUME ExpireBegin PROVE Keeps
  <2>1. todo = NoWork
    BY <1>1, <1>11 DEF ExpireBegin, OpInv
  <2>2. QED
    BY <1>2, <1>11, <2>1 DEF ExpireBegin, Keeps, countVars, memVars
<1>12. ASSUME ExpireDeleted PROVE Keeps
  <2>1. pc = "expire" /\ todo = NoWork
    BY <1>1, <1>12 DEF ExpireDeleted, OpInv
  <2>2. QED
    BY <1>2, <1>12, <2>1 DEF ExpireDeleted, Keeps, countVars, memVars
<1>13. QED
  BY <1>3, <1>4, <1>5, <1>6, <1>7, <1>8, <1>9, <1>10, <1>11, <1>12 DEF Next, Roll, Expire

(* The directory of the next state, and how the numbers of records go on. *)
LEMMA NextFiles ==
    ASSUME BufferInv, [Next]_vars
    PROVE  /\ IsDirectory(files', Items)
           /\ appended' \in Nat /\ appended <= appended'
           /\ \/ Shrinks(files, files')
              \/ /\ appended' = appended + 1 /\ pc # "down" /\ pc # "sync" /\ ~w.closed
                 /\ \E id \in Ids, at \in 0 .. now :
                       /\ Record(id, appended + 1, at) \in Items
                       /\ Changes(files, files', w.gen, Grown(files[w.gen], Record(id, appended + 1, at)))
              \/ RollFooter
<1>1. TypeOK /\ GenInv /\ IsDirectory(files, Items) /\ appended \in Nat
  BY SMTT(40), TypedDirectory DEF BufferInv, TypeOK
<1>2. Shrinks(files, files)
  <2>1. \A g \in DOMAIN files : Len(files[g].items) \in Nat
    BY <1>1 DEF IsDirectory, FileType
  <2>2. QED
    BY <2>1 DEF Shrinks, Begins
<1>3. CASE Keeps
  BY <1>1, <1>2, <1>3 DEF Keeps
<1>4. ASSUME NEW id \in Ids, NEW at \in 0 .. now, Stores(id, at)
      PROVE  /\ IsDirectory(files', Items) /\ appended' = appended + 1
             /\ \/ files' = files
                \/ /\ pc # "down" /\ pc # "sync" /\ ~w.closed
                   /\ Record(id, appended + 1, at) \in Items
                   /\ Changes(files, files', w.gen, Grown(files[w.gen], Record(id, appended + 1, at)))
  <2>1. pc # "down" /\ pc # "sync" /\ appended < MaxAppends /\ Put(id, at) /\ now' = now
    BY <1>4 DEF Stores
  <2>2. /\ IsDirectory(files', Items)
        /\ w.closed => files' = files
        /\ ~w.closed => Changes(files, files', w.gen, Grown(files[w.gen], Record(id, appended + 1, at)))
    BY <1>1, <2>1, PutFiles
  <2>3. Record(id, appended + 1, at) \in Items
    <3>1. appended \in 0 .. MaxAppends
      BY <1>1 DEF TypeOK
    <3>2. appended + 1 \in 1 .. MaxAppends
      BY <2>1, <3>1, BufferBounds
    <3>3. QED
      BY <3>2 DEF Items, Record
  <2>4. appended' = appended + 1
    BY <2>1 DEF Put
  <2>5. QED
    BY <2>1, <2>2, <2>3, <2>4, Zenon
<1>5. CASE RollFooter
  <2>1. IsDirectory(files', Items)
    BY <1>1, <1>5, FooterFiles
  <2>2. QED
    BY <1>1, <1>5, <2>1 DEF RollFooter, countVars
<1>6. CASE RollSync \/ RollReopenFails
  <2>1. w.gen \in DOMAIN files /\ files' = [files EXCEPT ![w.gen] = Synced(@)]
    BY <1>1, <1>6 DEF BufferInv, OpInv, GenInv, RollSync, RollReopenFails
  <2>2. appended' \in {appended, appended + 1}
    BY <1>6, RollFailed DEF RollSync, RollReopenFails, countVars
  <2>3. QED
    BY <1>1, <2>1, <2>2, SyncFiles
<1>7. CASE RollCreate
  <2>1. w.gen + 1 \in Nat \ {0}
    BY <1>1 DEF TypeOK
  <2>2. w.gen + 1 \notin DOMAIN files /\ files' = With(files, w.gen + 1, EmptyFile) /\ appended' = appended
    BY <1>7 DEF RollCreate, countVars
  <2>3. IsDirectory(files', Items) /\ Shrinks(files, files')
    BY <1>1, <2>1, <2>2, CreateFiles
  <2>4. QED
    BY <1>1, <2>2, <2>3
<1>8. CASE ExpireRemove \/ ExpireOldest
  <2>1. RemoveOldest /\ appended' = appended
    BY <1>8 DEF ExpireRemove, ExpireOldest, countVars
  <2>2. QED
    BY <1>1, <2>1, RemoveFiles
<1>9. CASE ExpireSweep
  BY <1>1, <1>2, <1>9 DEF ExpireSweep, countVars
<1>10. CASE Close
  <2>1. w.gen \in DOMAIN files /\ files' = [files EXCEPT ![w.gen] = Synced(@)] /\ appended' = appended
    BY <1>1, <1>10 DEF GenInv, Close, GoDown
  <2>2. QED
    BY <1>1, <2>1, SyncFiles
<1>11. CASE Kill
  <2>1. appended' = appended
    BY <1>11 DEF Kill, GoDown
  <2>2. QED
    BY <1>1, <1>11, <2>1, KillFiles
<1>12. CASE PowerLoss
  <2>1. appended' = appended
    BY <1>12 DEF PowerLoss, GoDown
  <2>2. QED
    BY <1>1, <1>12, <2>1, PowerFiles
<1>13. CASE Open
  <2>1. appended' = appended
    BY <1>13 DEF Open, countVars
  <2>2. QED
    BY <1>1, <1>13, <2>1, OpenFiles
<1>14. QED
  BY <1>1, <1>2, <1>3, <1>4, <1>5, <1>6, <1>7, <1>8, <1>9, <1>10, <1>11, <1>12, <1>13, StepKinds

-----------------------------------------------------------------------------
(***************************************************************************)
(* Footers and record numbers.                                             *)
(***************************************************************************)
Fitting(fs) == \A g \in DOMAIN fs : \A i \in 1 .. Len(fs[g].items) : FooterFits(fs[g].items, i)

Numbered(fs, n) ==
    /\ \A g \in DOMAIN fs : \A i \in 1 .. Len(fs[g].items) :
          fs[g].items[i].kind = "record" => fs[g].items[i].n <= n
    /\ \A g, h \in DOMAIN fs : \A i \in 1 .. Len(fs[g].items), j \in 1 .. Len(fs[h].items) :
          /\ fs[g].items[i].kind = "record"
          /\ fs[h].items[j].kind = "record"
          /\ g < h \/ (g = h /\ i < j)
          => fs[g].items[i].n < fs[h].items[j].n

(* A footer fits a file as far as the file begins another. *)
LEMMA FitsBeginning ==
    ASSUME NEW I, NEW s \in Seq(I), NEW t \in Seq(I), Begins(s, t), NEW i \in 1 .. Len(s),
           FooterFits(t, i), t[i].kind = "footer" => t[i].off \in Nat
    PROVE  FooterFits(s, i)
<1>1. s[i] = t[i] /\ i <= Len(s) /\ Len(s) <= Len(t) /\ i \in Nat /\ Len(s) \in Nat
  BY DEF Begins
<1>2. ASSUME s[i].kind = "footer" PROVE FooterFits(s, i)
  <2> DEFINE d == s[i].dir
  <2> DEFINE o == s[i].off
  <2>1. o \in Nat /\ o = Len(d) /\ InOrder(d) /\ (o + 1 = i => Lists(d, t))
    BY <1>1, <1>2 DEF FooterFits
  <2> HIDE DEF d, o
  <2>2. ASSUME o + 1 = i PROVE Lists(d, s)
    <3>1. ASSUME NEW k \in 1 .. Len(d)
          PROVE  k <= Len(s) /\ s[k].kind = "record" /\ s[k].id = d[k].id
      <4>1. k \in 1 .. Len(s)
        BY <1>1, <2>1, <2>2
      <4>2. s[k] = t[k]
        BY <4>1 DEF Begins
      <4>3. t[k].kind = "record" /\ t[k].id = d[k].id
        BY <2>1, <2>2 DEF Lists
      <4>4. QED
        BY <4>1, <4>2, <4>3
    <3>2. QED
      BY <3>1 DEF Lists
  <2>3. QED
    BY <1>2, <2>1, <2>2 DEF FooterFits, d, o
<1>3. QED
  BY <1>2 DEF FooterFits

LEMMA FittingShrinks ==
    ASSUME NEW I, NEW fs, NEW fs1, IsDirectory(fs, I), IsDirectory(fs1, I), Shrinks(fs, fs1),
           \A x \in I : x.kind = "footer" => x.off \in Nat, Fitting(fs)
    PROVE  Fitting(fs1)
<1>1. SUFFICES ASSUME NEW g \in DOMAIN fs1, NEW i \in 1 .. Len(fs1[g].items)
               PROVE  FooterFits(fs1[g].items, i)
  BY DEF Fitting
<1>2. fs1[g].items \in Seq(I)
  BY DEF IsDirectory, FileType
<1>3. fs1[g].items # << >>
  BY <1>2
<1>4. g \in DOMAIN fs /\ Begins(fs1[g].items, fs[g].items)
  BY <1>3 DEF Shrinks
<1>5. fs[g].items \in Seq(I)
  BY <1>4 DEF IsDirectory, FileType
<1>6. i \in 1 .. Len(fs[g].items)
  BY <1>2, <1>4, <1>5 DEF Begins
<1>7. fs[g].items[i] \in I
  BY <1>5, <1>6
<1>8. FooterFits(fs[g].items, i)
  BY <1>4, <1>6 DEF Fitting
<1>9. QED
  BY <1>2, <1>4, <1>5, <1>7, <1>8, FitsBeginning

LEMMA NumberedShrinks ==
    ASSUME NEW I, NEW fs, NEW fs1, IsDirectory(fs, I), IsDirectory(fs1, I), Shrinks(fs, fs1),
           NEW n \in Nat, NEW m \in Nat, n <= m,
           \A x \in I : x.kind = "record" => x.n \in Nat, Numbered(fs, n)
    PROVE  Numbered(fs1, m)
<1>1. ASSUME NEW g \in DOMAIN fs1, NEW i \in 1 .. Len(fs1[g].items)
      PROVE  /\ g \in DOMAIN fs /\ i \in 1 .. Len(fs[g].items)
             /\ fs1[g].items[i] = fs[g].items[i] /\ fs[g].items[i] \in I
  <2>1. fs1[g].items \in Seq(I)
    BY DEF IsDirectory, FileType
  <2>2. fs1[g].items # << >>
    BY <2>1
  <2>3. g \in DOMAIN fs /\ Begins(fs1[g].items, fs[g].items)
    BY <2>2 DEF Shrinks
  <2>4. fs[g].items \in Seq(I)
    BY <2>3 DEF IsDirectory, FileType
  <2>5. i \in 1 .. Len(fs[g].items) /\ fs1[g].items[i] = fs[g].items[i]
    BY <2>1, <2>3, <2>4 DEF Begins
  <2>6. QED
    BY <2>3, <2>4, <2>5
<1>2. ASSUME NEW g \in DOMAIN fs1, NEW i \in 1 .. Len(fs1[g].items), fs1[g].items[i].kind = "record"
      PROVE  fs1[g].items[i].n <= m
  BY <1>1, <1>2 DEF Numbered
<1>3. ASSUME NEW g \in DOMAIN fs1, NEW h \in DOMAIN fs1,
             NEW i \in 1 .. Len(fs1[g].items), NEW j \in 1 .. Len(fs1[h].items),
             fs1[g].items[i].kind = "record", fs1[h].items[j].kind = "record",
             g < h \/ (g = h /\ i < j)
      PROVE  fs1[g].items[i].n < fs1[h].items[j].n
  <2>1. g \in DOMAIN fs /\ i \in 1 .. Len(fs[g].items) /\ fs1[g].items[i] = fs[g].items[i]
    BY <1>1
  <2>2. h \in DOMAIN fs /\ j \in 1 .. Len(fs[h].items) /\ fs1[h].items[j] = fs[h].items[j]
    BY <1>1
  <2>3. QED
    BY <1>3, <2>1, <2>2 DEF Numbered
<1>4. QED
  BY <1>2, <1>3 DEF Numbered

LEMMA FittingGrows ==
    ASSUME NEW I, NEW fs, NEW fs1, NEW g, NEW x \in I, IsDirectory(fs, I),
           Changes(fs, fs1, g, Grown(fs[g], x)), Fitting(fs),
           FooterFits(Append(fs[g].items, x), Len(fs[g].items) + 1)
    PROVE  Fitting(fs1)
<1> DEFINE s == fs[g].items
<1> DEFINE t == Append(s, x)
<1>1. fs[g] \in FileType(I) /\ fs[g].synced <= Len(fs[g].items) /\ g \in DOMAIN fs
  BY DEF IsDirectory, Changes
<1>2. s \in Seq(I) /\ fs1[g].items = t
  <2>1. fs1[g] = Grown(fs[g], x)
    BY DEF Changes
  <2>2. Grown(fs[g], x).items = t
    BY <1>1, GrownFile
  <2>3. s \in Seq(I)
    BY <1>1 DEF FileType
  <2>4. QED
    BY <2>1, <2>2, <2>3, Zenon
<1>3. \A i \in 1 .. Len(s) : FooterFits(s, i)
  BY <1>1 DEF Fitting
<1>4. FooterFits(t, Len(s) + 1)
  OBVIOUS
<1> HIDE DEF s
<1>5. Len(t) = Len(s) + 1 /\ Len(s) \in Nat /\ \A i \in 1 .. Len(s) : t[i] = s[i]
  BY <1>2
<1> HIDE DEF t
<1>6. ASSUME NEW i \in 1 .. Len(s) PROVE FooterFits(t, i)
  <2>1. t[i] = s[i]
    BY <1>5
  <2>2. ASSUME NEW d, Lists(d, s) PROVE Lists(d, t)
    <3>1. ASSUME NEW k \in 1 .. Len(d)
          PROVE  k <= Len(t) /\ t[k].kind = "record" /\ t[k].id = d[k].id
      <4>1. k <= Len(s) /\ s[k].kind = "record" /\ s[k].id = d[k].id
        BY <2>2 DEF Lists
      <4>2. k \in 1 .. Len(s)
        BY <1>5, <4>1
      <4>3. QED
        BY <1>5, <4>1, <4>2
    <3>2. QED
      BY <3>1 DEF Lists
  <2>3. FooterFits(s, i)
    BY <1>3
  <2>4. QED
    BY <2>1, <2>2, <2>3 DEF FooterFits
<1>7. \A i \in 1 .. Len(t) : FooterFits(t, i)
  <2>1. \A i \in 1 .. Len(t) : i \in 1 .. Len(s) \/ i = Len(s) + 1
    BY <1>5
  <2>2. QED
    BY <1>4, <1>6, <2>1
<1>8. ASSUME NEW h \in DOMAIN fs1, NEW i \in 1 .. Len(fs1[h].items)
      PROVE  FooterFits(fs1[h].items, i)
  <2>1. CASE h = g
    BY <1>2, <1>7, <2>1
  <2>2. CASE h # g
    BY <2>2 DEF Changes, Fitting
  <2>3. QED
    BY <2>1, <2>2
<1>9. QED
  BY <1>8 DEF Fitting

LEMMA NumberedGrows ==
    ASSUME NEW I, NEW fs, NEW fs1, NEW g, NEW x \in I, IsDirectory(fs, I),
           Changes(fs, fs1, g, Grown(fs[g], x)),
           \A y \in I : y.kind = "record" => y.n \in Nat,
           \A h \in DOMAIN fs : h <= g,
           NEW n \in Nat, NEW m \in Nat, n <= m, Numbered(fs, n),
           x.kind = "record" => n < x.n /\ x.n <= m
    PROVE  Numbered(fs1, m)
<1>1. fs[g] \in FileType(I) /\ fs[g].synced <= Len(fs[g].items) /\ g \in DOMAIN fs
  BY DEF IsDirectory, Changes
<1>2. \A h \in DOMAIN fs : h \in Nat /\ fs[h].items \in Seq(I) /\ Len(fs[h].items) \in Nat
  BY DEF IsDirectory, FileType
<1>3. /\ Len(fs1[g].items) = Len(fs[g].items) + 1 /\ fs1[g].items[Len(fs[g].items) + 1] = x
      /\ \A i \in 1 .. Len(fs[g].items) : fs1[g].items[i] = fs[g].items[i]
  BY <1>1, GrownFile DEF Changes
<1>4. ASSUME NEW h \in DOMAIN fs1, NEW i \in 1 .. Len(fs1[h].items)
      PROVE  \/ /\ h \in DOMAIN fs /\ i \in 1 .. Len(fs[h].items)
                /\ fs1[h].items[i] = fs[h].items[i] /\ fs[h].items[i] \in I
             \/ h = g /\ i = Len(fs[g].items) + 1 /\ fs1[h].items[i] = x
  <2>1. h \in DOMAIN fs
    BY DEF Changes
  <2>2. CASE h = g
    <3>1. i \in 1 .. Len(fs[g].items) \/ i = Len(fs[g].items) + 1
      BY <1>2, <1>3, <2>1, <2>2
    <3>2. QED
      BY <1>2, <1>3, <2>1, <2>2, <3>1
  <2>3. CASE h # g
    <3>1. fs1[h] = fs[h]
      BY <2>1, <2>3 DEF Changes
    <3>2. QED
      BY <1>2, <2>1, <3>1
  <2>4. QED
    BY <2>2, <2>3
<1>5. ASSUME NEW h \in DOMAIN fs1, NEW i \in 1 .. Len(fs1[h].items), fs1[h].items[i].kind = "record"
      PROVE  fs1[h].items[i].n <= m
  <2>1. CASE /\ h \in DOMAIN fs /\ i \in 1 .. Len(fs[h].items)
             /\ fs1[h].items[i] = fs[h].items[i] /\ fs[h].items[i] \in I
    <3>1. fs[h].items[i].n <= n /\ fs[h].items[i].n \in Nat
      BY <1>5, <2>1 DEF Numbered
    <3>2. QED
      BY <2>1, <3>1
  <2>2. CASE fs1[h].items[i] = x
    BY <1>5, <2>2
  <2>3. QED
    BY <1>4, <2>1, <2>2
<1>6. ASSUME NEW k \in DOMAIN fs1, NEW h \in DOMAIN fs1,
             NEW i \in 1 .. Len(fs1[k].items), NEW j \in 1 .. Len(fs1[h].items),
             fs1[k].items[i].kind = "record", fs1[h].items[j].kind = "record",
             k < h \/ (k = h /\ i < j)
      PROVE  fs1[k].items[i].n < fs1[h].items[j].n
  <2>1. k \in DOMAIN fs /\ h \in DOMAIN fs /\ k \in Nat /\ h \in Nat /\ k <= g /\ h <= g /\ g \in Nat
    BY <1>1, <1>2 DEF Changes
  <2>2. CASE /\ k \in DOMAIN fs /\ i \in 1 .. Len(fs[k].items)
             /\ fs1[k].items[i] = fs[k].items[i] /\ fs[k].items[i] \in I
    <3>1. CASE /\ h \in DOMAIN fs /\ j \in 1 .. Len(fs[h].items)
               /\ fs1[h].items[j] = fs[h].items[j] /\ fs[h].items[j] \in I
      <4>1. fs[k].items[i].n < fs[h].items[j].n
        BY <1>6, <2>2, <3>1 DEF Numbered
      <4>2. QED
        BY <2>2, <3>1, <4>1
    <3>2. CASE fs1[h].items[j] = x
      <4>1. fs[k].items[i].n <= n /\ fs[k].items[i].n \in Nat /\ n < x.n /\ x.n \in Nat
        BY <1>6, <2>2, <3>2 DEF Numbered
      <4>2. QED
        BY <2>2, <3>2, <4>1
    <3>3. QED
      BY <1>4, <3>1, <3>2
  <2>3. CASE k = g /\ i = Len(fs[g].items) + 1
    <3>1. h = g /\ i < j
      BY <1>6, <2>1, <2>3
    <3>2. j \in 1 .. Len(fs[g].items) + 1 /\ Len(fs[g].items) \in Nat
      BY <1>1, <1>2, <1>3, <3>1
    <3>3. QED
      BY <2>3, <3>1, <3>2
  <2>4. QED
    BY <1>4, <2>2, <2>3
<1>7. QED
  BY <1>5, <1>6, Zenon DEF Numbered

(* Items are records and footers. *)
LEMMA ItemFacts ==
    /\ \A x \in Items : x.kind = "footer" => x.off \in Nat /\ x.dir \in Seq(DirEntries) /\ x.tMax \in 0 .. now
    /\ \A x \in Items : x.kind = "record" => x.n \in Nat /\ x.id \in Ids
    /\ \A x \in Items : x.kind \in {"record", "footer"}
BY DEF Items

(* A record is no footer; the footer of a roll fits if it is in place. *)
LEMMA NewItemFits ==
    ASSUME BufferInv, ~w.closed, pc # "down"
    PROVE  /\ \A id, n, at : FooterFits(Append(files[w.gen].items, Record(id, n, at)), Len(files[w.gen].items) + 1)
           /\ FooterFits(Append(files[w.gen].items, Footer(w.dir, w.tMax)), Len(files[w.gen].items) + 1)
<1> DEFINE s == files[w.gen].items
<1>1. TypeOK /\ GenInv /\ ActiveInv /\ IsDirectory(files, Items)
  BY TypedDirectory DEF BufferInv
<1>2. w.gen \in DOMAIN files /\ s \in Seq(Items) /\ w.dir \in Seq(DirEntries)
  BY <1>1 DEF GenInv, IsDirectory, FileType, TypeOK
<1>3. /\ InOrder(w.dir)
      /\ \/ Len(s) = Len(w.dir) /\ Lists(w.dir, s)
         \/ Len(w.dir) < Len(s)
  BY <1>1, <1>2 DEF ActiveInv, Clean
<1> HIDE DEF s
<1>4. \A y : /\ Append(s, y)[Len(s) + 1] = y /\ Len(Append(s, y)) = Len(s) + 1 /\ Len(s) \in Nat
             /\ \A i \in 1 .. Len(s) : Append(s, y)[i] = s[i]
  BY <1>2
<1>5. \A id, n, at : FooterFits(Append(s, Record(id, n, at)), Len(s) + 1)
  BY <1>4 DEF FooterFits, Record
<1> DEFINE r == Footer(w.dir, w.tMax)
<1> DEFINE t == Append(s, r)
<1>6. t[Len(s) + 1] = r /\ Len(t) = Len(s) + 1 /\ \A i \in 1 .. Len(s) : t[i] = s[i]
  BY <1>4
<1>7. r.kind = "footer" /\ r.off = Len(w.dir) /\ r.dir = w.dir
  BY DEF Footer
<1> HIDE DEF t, r
<1>8. Len(w.dir) \in Nat /\ Len(s) \in Nat
  BY <1>2
<1>9. ASSUME Len(w.dir) + 1 = Len(s) + 1 PROVE Lists(w.dir, t)
  <2>1. Len(s) = Len(w.dir) /\ Lists(w.dir, s)
    BY <1>3, <1>8, <1>9
  <2>2. QED
    BY <1>6, <1>8, <2>1 DEF Lists
<1>10. FooterFits(t, Len(s) + 1)
  BY <1>3, <1>6, <1>7, <1>9 DEF FooterFits
<1>11. QED
  BY <1>5, <1>10 DEF s, t, r

LEMMA FileStep ==
    ASSUME BufferInv, [Next]_vars
    PROVE  FileInv'
<1>1. TypeOK /\ GenInv /\ IsDirectory(files, Items) /\ Fitting(files)
  BY TypedDirectory DEF BufferInv, FileInv, Fitting
<1>2. SUFFICES Fitting(files')
  BY DEF FileInv, Fitting
<1>3. CASE Shrinks(files, files')
  BY <1>1, <1>3, NextFiles, FittingShrinks, ItemFacts
<1>4. ASSUME NEW x \in Items, Changes(files, files', w.gen, Grown(files[w.gen], x)),
             FooterFits(Append(files[w.gen].items, x), Len(files[w.gen].items) + 1)
      PROVE  Fitting(files')
  BY <1>1, <1>4, FittingGrows, Zenon
<1>5. CASE /\ pc # "down" /\ ~w.closed
           /\ \E id \in Ids, at \in 0 .. now :
                 /\ Record(id, appended + 1, at) \in Items
                 /\ Changes(files, files', w.gen, Grown(files[w.gen], Record(id, appended + 1, at)))
  BY <1>4, <1>5, NewItemFits, Zenon
<1>6. CASE RollFooter
  <2>1. ~w.closed /\ pc # "down"
    BY <1>6 DEF RollFooter
  <2>2. Changes(files, files', w.gen, Grown(files[w.gen], Footer(w.dir, w.tMax)))
    BY <1>1, <1>6, FooterFiles
  <2>3. Footer(w.dir, w.tMax) \in Items
    BY <1>1 DEF TypeOK, Items, Footer
  <2>4. QED
    BY <1>4, <2>1, <2>2, <2>3, NewItemFits
<1>7. QED
  BY <1>3, <1>5, <1>6, NextFiles

LEMMA NumberStep ==
    ASSUME BufferInv, [Next]_vars
    PROVE  NumberInv'
<1>1. TypeOK /\ GenInv /\ IsDirectory(files, Items) /\ Numbered(files, appended) /\ appended \in Nat
  BY SMTT(40), TypedDirectory DEF BufferInv, NumberInv, Numbered, TypeOK
<1>2. SUFFICES Numbered(files', appended')
  BY DEF NumberInv, Numbered
<1>3. IsDirectory(files', Items) /\ appended' \in Nat /\ appended <= appended'
  BY NextFiles
<1>4. \A x \in Items : x.kind = "record" => x.n \in Nat
  BY ItemFacts
<1>5. pc # "down" => \A h \in DOMAIN files : h <= w.gen
  BY <1>1 DEF GenInv, TypeOK
<1>6. CASE Shrinks(files, files')
  BY <1>1, <1>3, <1>4, <1>6, NumberedShrinks
<1>7. ASSUME pc # "down", NEW x \in Items, Changes(files, files', w.gen, Grown(files[w.gen], x)),
             x.kind = "record" => appended < x.n /\ x.n <= appended'
      PROVE  Numbered(files', appended')
  BY <1>1, <1>3, <1>4, <1>5, <1>7, NumberedGrows, Zenon
<1>8. CASE /\ appended' = appended + 1 /\ pc # "down"
           /\ \E id \in Ids, at \in 0 .. now :
                 /\ Record(id, appended + 1, at) \in Items
                 /\ Changes(files, files', w.gen, Grown(files[w.gen], Record(id, appended + 1, at)))
  <2>1. PICK id \in Ids, at \in 0 .. now :
                 /\ Record(id, appended + 1, at) \in Items
                 /\ Changes(files, files', w.gen, Grown(files[w.gen], Record(id, appended + 1, at)))
    BY <1>8
  <2>2. appended < Record(id, appended + 1, at).n /\ Record(id, appended + 1, at).n <= appended'
    BY <1>1, <1>8 DEF Record
  <2>3. QED
    BY <1>7, <1>8, <2>1, <2>2
<1>9. CASE RollFooter
  <2>1. pc # "down"
    BY <1>9 DEF RollFooter
  <2>2. Changes(files, files', w.gen, Grown(files[w.gen], Footer(w.dir, w.tMax)))
    BY <1>1, <1>9, FooterFiles
  <2>3. Footer(w.dir, w.tMax) \in Items /\ Footer(w.dir, w.tMax).kind # "record"
    BY <1>1 DEF TypeOK, Items, Footer
  <2>4. QED
    BY <1>7, <2>1, <2>2, <2>3
<1>10. QED
  BY <1>6, <1>8, <1>9, NextFiles

-----------------------------------------------------------------------------
(***************************************************************************)
(* The index: a sweep thins it out, recovery rebuilds it in order.         *)
(***************************************************************************)
LocType == [id : Ids, gen : Nat, off : Nat]

InFront == {p \in LocType \X LocType : Before(p[1], p[2])}

Ascending(s) == \A i, j \in 1 .. Len(s) : i < j => Before(s[i], s[j])

(* The locs at some positions of the index. *)
LocsAt(P) == FlattenSeq([i \in 1 .. Len(idx) |-> IF i \in P THEN <<idx[i]>> ELSE << >>])

LEMMA ThinnedIndex ==
    ASSUME idx \in Seq(LocType), Ascending(idx), NEW P
    PROVE  /\ LocsAt(P) \in Seq(LocType)
           /\ Ascending(LocsAt(P))
           /\ \A k \in 1 .. Len(LocsAt(P)) : \E i \in 1 .. Len(idx) : i \in P /\ LocsAt(P)[k] = idx[i]
           /\ \A i \in 1 .. Len(idx) : i \in P => \E k \in 1 .. Len(LocsAt(P)) : LocsAt(P)[k] = idx[i]
<1> DEFINE n == Len(idx)
<1> DEFINE seqs == [i \in 1 .. n |-> IF i \in P THEN <<idx[i]>> ELSE << >>]
<1>1. n \in Nat /\ \A i \in 1 .. n : idx[i] \in LocType
  OBVIOUS
<1>2. ASSUME NEW i \in 1 .. n
      PROVE  /\ seqs[i] \in Seq(LocType) /\ Len(seqs[i]) \in {0, 1}
             /\ i \in P => Len(seqs[i]) = 1
             /\ \A k \in 1 .. Len(seqs[i]) : k = 1 /\ seqs[i][k] = idx[i] /\ i \in P
  <2>1. CASE i \notin P
    <3>1. seqs[i] = << >>
      BY <2>1, Zenon
    <3> HIDE DEF seqs
    <3>2. QED
      BY <2>1, <3>1
  <2>2. CASE i \in P
    <3>1. seqs[i] = <<idx[i]>>
      BY <2>2, Zenon
    <3> HIDE DEF seqs
    <3>2. QED
      BY <1>1, <2>2, <3>1
  <2>3. QED
    BY <2>1, <2>2
<1>3. seqs \in Seq(Seq(LocType)) /\ Len(seqs) = n
  <2>1. seqs \in [1 .. n -> Seq(LocType)]
    <3>1. \A i \in 1 .. n : seqs[i] \in Seq(LocType)
      BY <1>2
    <3>2. QED
      BY <3>1
  <2> HIDE DEF seqs
  <2>2. QED
    BY <1>1, <2>1
<1>4. \A i \in 1 .. Len(seqs) : \A k, l \in 1 .. Len(seqs[i]) : k < l => <<seqs[i][k], seqs[i][l]>> \in InFront
  <2> HIDE DEF seqs
  <2>1. QED
    BY <1>2, <1>3
<1>5. \A i, j \in 1 .. Len(seqs) : i < j =>
        \A k \in 1 .. Len(seqs[i]), l \in 1 .. Len(seqs[j]) : <<seqs[i][k], seqs[j][l]>> \in InFront
  <2> HIDE DEF seqs
  <2>1. \A i, j \in 1 .. n : i < j => <<idx[i], idx[j]>> \in InFront
    BY <1>1 DEF Ascending, InFront
  <2>2. ASSUME NEW i \in 1 .. n, NEW j \in 1 .. n, i < j,
               NEW k \in 1 .. Len(seqs[i]), NEW l \in 1 .. Len(seqs[j])
        PROVE  <<seqs[i][k], seqs[j][l]>> \in InFront
    <3>1. seqs[i][k] = idx[i] /\ seqs[j][l] = idx[j]
      BY <1>2
    <3>2. QED
      BY <2>1, <2>2, <3>1
  <2>3. QED
    BY <1>3, <2>2
<1>6. LocsAt(P) = FlattenSeq(seqs)
  BY DEF LocsAt
<1> HIDE DEF seqs
<1>7. FlattenSeq(seqs) \in Seq(LocType) /\ Made(FlattenSeq(seqs), seqs, Len(seqs), InFront)
  BY <1>3, <1>4, <1>5, FlattenAscends
<1> DEFINE s == FlattenSeq(seqs)
<1>8. \A k, l \in 1 .. Len(s) : k < l => Before(s[k], s[l])
  BY <1>7 DEF Made, InFront
<1>9. ASSUME NEW k \in 1 .. Len(s) PROVE \E i \in 1 .. n : i \in P /\ s[k] = idx[i]
  <2>1. PICK i \in 1 .. n : \E j \in 1 .. Len(seqs[i]) : s[k] = seqs[i][j]
    BY <1>3, <1>7, Zenon DEF Made
  <2>2. QED
    BY <1>2, <2>1, Zenon
<1>10. ASSUME NEW i \in 1 .. n, i \in P PROVE \E k \in 1 .. Len(s) : s[k] = idx[i]
  <2>1. 1 \in 1 .. Len(seqs[i])
    <3>1. Len(seqs[i]) = 1
      BY <1>2, <1>10, Zenon
    <3>2. QED
      BY <3>1
  <2>2. seqs[i][1] = idx[i]
    BY <1>2, <2>1, Zenon
  <2>3. \E k \in 1 .. Len(s) : s[k] = seqs[i][1]
    BY <1>3, <1>7, <2>1, Zenon DEF Made
  <2>4. QED
    BY <2>2, <2>3, Zenon
<1>11. QED
  BY <1>6, <1>7, <1>8, <1>9, <1>10 DEF Ascending

LEMMA SweptIndex ==
    ASSUME idx \in Seq(LocType), Ascending(idx), NEW S
    PROVE  /\ Freed(S) \in Seq(LocType)
           /\ Ascending(Freed(S))
           /\ \A k \in 1 .. Len(Freed(S)) : \E i \in 1 .. Len(idx) : Freed(S)[k] = idx[i]
           /\ \A i \in 1 .. Len(idx) :
                 idx[i].id \notin S => \E k \in 1 .. Len(Freed(S)) : Freed(S)[k] = idx[i]
<1> DEFINE P == {i \in 1 .. Len(idx) : idx[i].id \notin S}
<1>1. Freed(S) = LocsAt(P)
  <2>1. ASSUME NEW i \in 1 .. Len(idx)
        PROVE  (IF idx[i].id \in S THEN << >> ELSE <<idx[i]>>) = (IF i \in P THEN <<idx[i]>> ELSE << >>)
    <3>1. i \in P <=> idx[i].id \notin S
      OBVIOUS
    <3> HIDE DEF P
    <3>2. QED
      BY <3>1, Zenon
  <2> HIDE DEF P
  <2>2. [i \in 1 .. Len(idx) |-> IF idx[i].id \in S THEN << >> ELSE <<idx[i]>>]
          = [i \in 1 .. Len(idx) |-> IF i \in P THEN <<idx[i]>> ELSE << >>]
    BY <2>1, Zenon
  <2>3. QED
    BY <2>2, Zenon DEF Freed, LocsAt
<1>2. \A i \in 1 .. Len(idx) : idx[i].id \notin S => i \in P
  OBVIOUS
<1> HIDE DEF P
<1>3. /\ LocsAt(P) \in Seq(LocType) /\ Ascending(LocsAt(P))
      /\ \A k \in 1 .. Len(LocsAt(P)) : \E i \in 1 .. Len(idx) : i \in P /\ LocsAt(P)[k] = idx[i]
      /\ \A i \in 1 .. Len(idx) : i \in P => \E k \in 1 .. Len(LocsAt(P)) : LocsAt(P)[k] = idx[i]
  BY ThinnedIndex
<1> DEFINE s == LocsAt(P)
<1>4. Freed(S) = s
  BY <1>1
<1> HIDE DEF s
<1>5. QED
  BY <1>2, <1>3, <1>4, Zenon DEF s

(* What Collect reaches: the locs whose records it can read. *)
LEMMA ReachedIndex ==
    ASSUME idx \in Seq(LocType), Ascending(idx)
    PROVE  /\ Reachable \in Seq(LocType)
           /\ Ascending(Reachable)
           /\ \A k \in 1 .. Len(Reachable) : Yields(Reachable[k])
           /\ \A i \in 1 .. Len(idx) :
                 Yields(idx[i]) => \E k \in 1 .. Len(Reachable) : Reachable[k] = idx[i]
<1> DEFINE P == {i \in 1 .. Len(idx) : Yields(idx[i])}
<1>1. Reachable = LocsAt(P)
  <2>1. ASSUME NEW i \in 1 .. Len(idx)
        PROVE  (IF Yields(idx[i]) THEN <<idx[i]>> ELSE << >>) = (IF i \in P THEN <<idx[i]>> ELSE << >>)
    <3>1. i \in P <=> Yields(idx[i])
      OBVIOUS
    <3> HIDE DEF P
    <3>2. QED
      BY <3>1, Zenon
  <2> HIDE DEF P
  <2>2. [i \in 1 .. Len(idx) |-> IF Yields(idx[i]) THEN <<idx[i]>> ELSE << >>]
          = [i \in 1 .. Len(idx) |-> IF i \in P THEN <<idx[i]>> ELSE << >>]
    BY <2>1, Zenon
  <2>3. QED
    BY <2>2, Zenon DEF Reachable, LocsAt
<1>2. \A i \in 1 .. Len(idx) : Yields(idx[i]) <=> i \in P
  BY Zenon
<1> HIDE DEF P
<1>3. ASSUME NEW k \in 1 .. Len(Reachable) PROVE Yields(Reachable[k])
  <2>1. PICK i \in 1 .. Len(idx) : i \in P /\ LocsAt(P)[k] = idx[i]
    BY <1>1, ThinnedIndex, Zenon
  <2>2. QED
    BY <1>1, <1>2, <2>1, Zenon
<1>4. QED
  BY <1>1, <1>2, <1>3, ThinnedIndex, Zenon

(* What recovery reads of a segment lists its records. *)
LEMMA EntriesFit ==
    ASSUME NEW f \in FileType(Items), \A i \in 1 .. Len(f.items) : FooterFits(f.items, i)
    PROVE  /\ Entries(f) \in Seq(DirEntries)
           /\ InOrder(Entries(f))
           /\ Lists(Entries(f), f.items)
           /\ ScannedDir(f) \in Seq(DirEntries) /\ InOrder(ScannedDir(f)) /\ Len(ScannedDir(f)) = ValidEnd(f)
           /\ Lists(ScannedDir(f), f.items)
<1> DEFINE s == f.items
<1>1. s \in Seq(Items) /\ Len(s) \in Nat /\ \A i \in 1 .. Len(s) : s[i] \in Items
  BY DEF FileType
<1>2. /\ ValidEnd(f) \in 0 .. Len(s)
      /\ \A i \in 1 .. ValidEnd(f) : s[i].kind = "record"
  BY <1>1, ScanEnds
<1> DEFINE n == ValidEnd(f)
<1> DEFINE d == [i \in 1 .. n |-> [id |-> s[i].id, off |-> i - 1]]
<1>3. ScannedDir(f) = d
  BY DEF ScannedDir
<1> HIDE DEF s, n
<1>4. n \in Nat /\ n <= Len(s) /\ \A i \in 1 .. n : s[i] \in Items /\ s[i].kind = "record"
  BY <1>1, <1>2 DEF n
<1>5. \A i \in 1 .. n : d[i] = [id |-> s[i].id, off |-> i - 1]
  BY Zenon
<1>6. \A i \in 1 .. n : s[i].id \in Ids
  BY <1>4, ItemFacts
<1>7. d \in [1 .. n -> DirEntries]
  BY <1>4, <1>6 DEF DirEntries
<1> HIDE DEF d
<1>8. d \in Seq(DirEntries) /\ Len(d) = n
  BY <1>4, <1>7
<1>9. InOrder(d) /\ Lists(d, s)
  BY <1>4, <1>5, <1>8 DEF InOrder, Lists
<1>10. CASE HasFooter(f)
  <2> DEFINE x == s[Len(s)]
  <2>1. s # << >> /\ x.kind = "footer" /\ x.off + 1 = Len(s)
    BY <1>10 DEF HasFooter, Last, s
  <2>2. Len(s) \in 1 .. Len(s)
    BY <1>1, <2>1
  <2>3. x \in Items /\ x.dir \in Seq(DirEntries)
    BY <1>1, <2>1, <2>2, ItemFacts
  <2>4. FooterFits(s, Len(s))
    BY <2>2 DEF s
  <2>5. InOrder(x.dir) /\ Lists(x.dir, s)
    BY <2>1, <2>4 DEF FooterFits
  <2>6. Entries(f) = x.dir
    BY <1>10 DEF Entries, Last, s
  <2>7. QED
    BY <1>3, <1>8, <1>9, <2>3, <2>5, <2>6 DEF s, n
<1>11. CASE ~HasFooter(f)
  <2>1. Entries(f) = d
    BY <1>3, <1>11 DEF Entries
  <2>2. QED
    BY <1>3, <1>8, <1>9, <2>1 DEF s, n
<1>12. QED
  BY <1>10, <1>11

LEMMA RecoveredIndex ==
    ASSUME TypeOK, GenInv, FileInv
    PROVE  /\ RecoveredLocs \in Seq(LocType)
           /\ Ascending(RecoveredLocs)
           /\ \A k \in 1 .. Len(RecoveredLocs) :
                LET l == RecoveredLocs[k] IN
                /\ l.gen \in DOMAIN files
                /\ l.off < Len(Entries(files[l.gen]))
                /\ l.id = Entries(files[l.gen])[l.off + 1].id
           /\ \A g \in DOMAIN files : \A i \in 1 .. Len(Entries(files[g])) :
                \E k \in 1 .. Len(RecoveredLocs) : RecoveredLocs[k].gen = g /\ RecoveredLocs[k].off = i - 1
<1>1. IsDirectory(files, Items)
  BY TypedDirectory
<1>2. DOMAIN files \in SUBSET Int /\ DOMAIN files \in SUBSET (Nat \ {0}) /\ IsFiniteSet(DOMAIN files)
  BY <1>1 DEF IsDirectory, GenInv
<1>3. CASE DOMAIN files = {}
  <2>1. RecoveredLocs = << >>
    BY <1>3 DEF RecoveredLocs
  <2>2. QED
    BY <1>3, <2>1 DEF Ascending
<1>4. CASE DOMAIN files # {}
  <2>1. Newest \in DOMAIN files
    BY <1>2, <1>4, MaxIsGreatest DEF Newest
  <2>2. Newest \in Nat
    BY <1>2, <2>1
  <2> DEFINE n == Newest
  <2> DEFINE seqs == [g \in 1 .. n |-> IF g \in DOMAIN files THEN Locs(g) ELSE << >>]
  <2>3. RecoveredLocs = FlattenSeq(seqs)
    BY <1>4 DEF RecoveredLocs
  <2> HIDE DEF n
  <2>4. ASSUME NEW g \in DOMAIN files
        PROVE  /\ Locs(g) \in Seq(LocType)
               /\ Len(Locs(g)) = Len(Entries(files[g])) /\ Len(Locs(g)) \in Nat
               /\ \A k \in 1 .. Len(Locs(g)) :
                     Locs(g)[k].gen = g /\ Locs(g)[k].off = k - 1 /\ Locs(g)[k].id = Entries(files[g])[k].id
    <3> DEFINE e == Entries(files[g])
    <3>1. files[g] \in FileType(Items) /\ \A i \in 1 .. Len(files[g].items) : FooterFits(files[g].items, i)
      BY <1>1 DEF IsDirectory, FileInv
    <3>2. e \in Seq(DirEntries) /\ InOrder(e)
      BY <3>1, EntriesFit
    <3> DEFINE d == [i \in 1 .. Len(e) |-> [id |-> e[i].id, gen |-> g, off |-> e[i].off]]
    <3>3. Locs(g) = d
      BY DEF Locs
    <3> HIDE DEF e
    <3>4. Len(e) \in Nat /\ \A i \in 1 .. Len(e) : e[i].id \in Ids /\ e[i].off \in Nat /\ e[i].off = i - 1
      <4>1. Len(e) \in Nat /\ \A i \in 1 .. Len(e) : e[i] \in DirEntries
        BY <3>2
      <4>2. \A i \in 1 .. Len(e) : e[i].off = i - 1
        BY <3>2 DEF InOrder
      <4>3. QED
        BY <4>1, <4>2 DEF DirEntries
    <3>5. g \in Nat
      BY <1>2
    <3>6. \A i \in 1 .. Len(e) : d[i] = [id |-> e[i].id, gen |-> g, off |-> e[i].off]
      BY Zenon
    <3>7. d \in [1 .. Len(e) -> LocType]
      BY <3>4, <3>5 DEF LocType
    <3> HIDE DEF d
    <3>8. d \in Seq(LocType) /\ Len(d) = Len(e)
      BY <3>4, <3>7
    <3>9. \A k \in 1 .. Len(d) : d[k].gen = g /\ d[k].off = k - 1 /\ d[k].id = e[k].id
      <4>1. ASSUME NEW k \in 1 .. Len(e)
            PROVE  d[k].gen = g /\ d[k].off = e[k].off /\ d[k].id = e[k].id
        <5>1. d[k] = [id |-> e[k].id, gen |-> g, off |-> e[k].off]
          BY <3>6
        <5>2. QED
          BY <5>1
      <4>2. QED
        BY <3>4, <3>8, <4>1, Zenon
    <3>10. QED
      BY <3>3, <3>4, <3>8, <3>9 DEF e
  <2>5. ASSUME NEW g \in 1 .. n
        PROVE  /\ seqs[g] \in Seq(LocType)
               /\ g \in DOMAIN files => Len(seqs[g]) = Len(Entries(files[g]))
               /\ \A k \in 1 .. Len(seqs[g]) :
                     /\ seqs[g][k] \in LocType
                     /\ seqs[g][k].gen = g /\ seqs[g][k].off = k - 1
                     /\ g \in DOMAIN files /\ k - 1 < Len(Entries(files[g]))
                     /\ seqs[g][k].id = Entries(files[g])[k].id
    <3>1. CASE g \in DOMAIN files
      <4>1. seqs[g] = Locs(g)
        BY <3>1, Zenon
      <4> HIDE DEF seqs
      <4>2. \A k \in 1 .. Len(Locs(g)) : k - 1 < Len(Entries(files[g])) /\ Locs(g)[k] \in LocType
        BY <2>4, <3>1
      <4>3. QED
        BY <2>4, <3>1, <4>1, <4>2
    <3>2. CASE g \notin DOMAIN files
      <4>1. seqs[g] = << >>
        BY <3>2, Zenon
      <4> HIDE DEF seqs
      <4>2. QED
        BY <3>2, <4>1
    <3>3. QED
      BY <3>1, <3>2
  <2>6. seqs \in Seq(Seq(LocType)) /\ Len(seqs) = n
    <3>1. seqs \in [1 .. n -> Seq(LocType)]
      <4>1. \A g \in 1 .. n : seqs[g] \in Seq(LocType)
        BY <2>5
      <4>2. QED
        BY <4>1
    <3> HIDE DEF seqs
    <3>2. QED
      BY <2>2, <3>1 DEF n
  <2> HIDE DEF seqs
  <2>7. ASSUME NEW i \in 1 .. n, NEW k \in 1 .. Len(seqs[i]), NEW l \in 1 .. Len(seqs[i]), k < l
        PROVE  <<seqs[i][k], seqs[i][l]>> \in InFront
    BY <2>5, <2>7 DEF InFront, Before
  <2>8. ASSUME NEW i \in 1 .. n, NEW j \in 1 .. n, i < j,
               NEW k \in 1 .. Len(seqs[i]), NEW l \in 1 .. Len(seqs[j])
        PROVE  <<seqs[i][k], seqs[j][l]>> \in InFront
    BY <2>5, <2>8 DEF InFront, Before
  <2>9. FlattenSeq(seqs) \in Seq(LocType) /\ Made(FlattenSeq(seqs), seqs, Len(seqs), InFront)
    BY <2>6, <2>7, <2>8, FlattenAscends
  <2> DEFINE s == FlattenSeq(seqs)
  <2>10. \A k, l \in 1 .. Len(s) : k < l => Before(s[k], s[l])
    BY <2>9 DEF Made, InFront
  <2>11. ASSUME NEW k \in 1 .. Len(s)
         PROVE  /\ s[k].gen \in DOMAIN files
                /\ s[k].off < Len(Entries(files[s[k].gen]))
                /\ s[k].id = Entries(files[s[k].gen])[s[k].off + 1].id
    <3>1. PICK g \in 1 .. n : \E j \in 1 .. Len(seqs[g]) : s[k] = seqs[g][j]
      BY <2>6, <2>9, Zenon DEF Made
    <3>2. PICK j \in 1 .. Len(seqs[g]) : s[k] = seqs[g][j]
      BY <3>1
    <3>3. s[k].gen = g /\ s[k].off = j - 1 /\ g \in DOMAIN files /\ j - 1 < Len(Entries(files[g]))
          /\ s[k].id = Entries(files[g])[j].id
      BY <2>5, <3>2
    <3>4. (j - 1) + 1 = j
      BY <2>5
    <3>5. QED
      BY <3>3, <3>4
  <2>12. ASSUME NEW g \in DOMAIN files, NEW i \in 1 .. Len(Entries(files[g]))
         PROVE  \E k \in 1 .. Len(s) : s[k].gen = g /\ s[k].off = i - 1
    <3>1. g \in 1 .. n
      <4>1. g \in Nat \ {0} /\ g <= Newest
        BY <1>2, <1>4, MaxIsGreatest DEF Newest
      <4>2. QED
        BY <2>2, <4>1 DEF n
    <3>2. i \in 1 .. Len(seqs[g])
      BY <2>5, <3>1
    <3>3. PICK k \in 1 .. Len(s) : s[k] = seqs[g][i]
      BY <2>6, <2>9, <3>1, <3>2, Zenon DEF Made
    <3>4. seqs[g][i].gen = g /\ seqs[g][i].off = i - 1
      BY <2>5, <3>1, <3>2, Zenon
    <3>5. QED
      BY <3>3, <3>4, Zenon
  <2>13. QED
    BY <2>3, <2>9, <2>10, <2>11, <2>12 DEF Ascending
<1>5. QED
  BY <1>3, <1>4

-----------------------------------------------------------------------------
(***************************************************************************)
(* Types.                                                                  *)
(***************************************************************************)
WriterType(n) ==
    [gen : Nat, dir : Seq(DirEntries), tMax : 0 .. n, closed : BOOLEAN, err : BOOLEAN, dirty : BOOLEAN]

MetaType(n) == [tMax : 0 .. n, size : Nat]

TodoType(n) == {NoWork} \cup [op : {"expire"}] \cup [op : {"append"}, id : Ids, at : 0 .. n]

LEMMA DirectoryMonotone ==
    ASSUME NEW I, NEW J, I \subseteq J, NEW fs, IsDirectory(fs, I)
    PROVE  IsDirectory(fs, J)
<1>1. ASSUME NEW g \in DOMAIN fs
      PROVE  fs[g] \in FileType(J)
  <2>1. fs[g] \in FileType(I) /\ fs[g].items \in Seq(I)
    BY DEF IsDirectory, FileType
  <2>2. fs[g].items \in Seq(J)
    BY <2>1, SeqMonotonic
  <2>3. QED
    BY <2>1, <2>2 DEF FileType
<1>2. QED
  BY <1>1 DEF IsDirectory

LEMMA WriterTypes ==
    ASSUME NEW n \in Nat
    PROVE  /\ \A g \in Nat : NewWriter(g) \in WriterType(n)
           /\ \A g \in Nat, d \in Seq(DirEntries), t \in 0 .. n :
                 [NewWriter(g) EXCEPT !.dir = d, !.tMax = t] \in WriterType(n)
           /\ \A x \in WriterType(n) :
                 /\ [x EXCEPT !.err = TRUE] \in WriterType(n)
                 /\ \A m \in Nat : n <= m => x \in WriterType(m)
<1>1. ASSUME NEW g \in Nat PROVE NewWriter(g) \in WriterType(n)
  BY DEF NewWriter, WriterType
<1>2. ASSUME NEW g \in Nat, NEW d \in Seq(DirEntries), NEW t \in 0 .. n
      PROVE  [NewWriter(g) EXCEPT !.dir = d, !.tMax = t] \in WriterType(n)
  BY DEF NewWriter, WriterType
<1>3. ASSUME NEW x \in WriterType(n)
      PROVE  [x EXCEPT !.err = TRUE] \in WriterType(n)
  BY DEF WriterType
<1>4. ASSUME NEW x \in WriterType(n), NEW m \in Nat, n <= m
      PROVE  x \in WriterType(m)
  <2>1. 0 .. n \subseteq 0 .. m
    BY <1>4
  <2>2. QED
    BY <2>1 DEF WriterType
<1>5. QED
  BY <1>1, <1>2, <1>3, <1>4

(* The new writer's and the new index's types, by the kind of the step. *)
LEMMA MemoryTypes ==
    ASSUME BufferInv, [Next]_vars
    PROVE  /\ now' \in 0 .. MaxTime /\ now <= now'
           /\ w' \in WriterType(now')
           /\ DOMAIN metas' \subseteq Nat \ {0} /\ metas' \in [DOMAIN metas' -> MetaType(now')]
           /\ idx' \in Seq(LocType)
           /\ bytes' \in Int /\ minGen' \in Nat
           /\ IsFiniteSet(DOMAIN files')
<1>1. TypeOK /\ GenInv /\ IsDirectory(files, Items)
  BY TypedDirectory DEF BufferInv
<1>2. /\ now \in 0 .. MaxTime /\ now \in Nat /\ w \in WriterType(now)
      /\ DOMAIN metas \subseteq Nat \ {0} /\ metas \in [DOMAIN metas -> MetaType(now)]
      /\ idx \in Seq(LocType) /\ bytes \in Int /\ minGen \in Nat
      /\ IsFiniteSet(DOMAIN files)
  BY SMTT(40), <1>1, BufferBounds DEF TypeOK, WriterType, MetaType, LocType, GenInv
<1>3. CASE Keeps
  <2>1. now' \in 0 .. MaxTime /\ now <= now' /\ now' \in Nat
    BY <1>2, <1>3, BufferBounds DEF Keeps
  <2>2. w' \in WriterType(now')
    <3>1. w' = w \/ w' = [w EXCEPT !.err = TRUE]
      BY <1>3 DEF Keeps
    <3>2. w' \in WriterType(now)
      BY <1>2, <3>1, WriterTypes
    <3>3. QED
      BY <1>2, <2>1, <3>2, WriterTypes
  <2>3. metas' \in [DOMAIN metas' -> MetaType(now')] /\ metas' = metas
    BY <1>2, <1>3, <2>1 DEF Keeps, MetaType
  <2>4. QED
    BY <1>2, <1>3, <2>1, <2>2, <2>3 DEF Keeps
<1>4. ASSUME NEW id \in Ids, NEW at \in 0 .. now, Stores(id, at)
      PROVE  /\ now' = now /\ w' \in WriterType(now) /\ idx' \in Seq(LocType)
             /\ metas' = metas /\ bytes' = bytes /\ minGen' = minGen /\ DOMAIN files' = DOMAIN files
  <2>1. pc # "down" /\ appended < MaxAppends /\ Put(id, at) /\ now' = now
    BY <1>4 DEF Stores
  <2>2. Len(w.dir) \in Nat /\ w.gen \in Nat /\ w.dir \in Seq(DirEntries) /\ w.tMax \in 0 .. now
    BY <1>2 DEF WriterType
  <2>3. Append(w.dir, [id |-> id, off |-> Len(w.dir)]) \in Seq(DirEntries)
    BY <2>2 DEF DirEntries
  <2>4. Max({w.tMax, at}) \in 0 .. now
    <3>1. w.tMax \in Int /\ at \in Int
      BY <2>2
    <3>2. Max({w.tMax, at}) \in {w.tMax, at}
      BY <3>1, MaxOfTwo
    <3>3. QED
      BY <2>2, <3>2
  <2>5. w' = [w EXCEPT !.dir = Append(w.dir, [id |-> id, off |-> Len(w.dir)]),
                       !.tMax = Max({w.tMax, at}), !.dirty = w.closed]
    BY <2>1 DEF Put
  <2>6. w' \in WriterType(now)
    BY <1>2, <2>3, <2>4, <2>5 DEF WriterType
  <2>7. idx' = Append(idx, [id |-> id, gen |-> w.gen, off |-> Len(w.dir)])
    BY <2>1 DEF Put
  <2>8. idx' \in Seq(LocType)
    BY <1>2, <2>2, <2>7 DEF LocType
  <2>9. DOMAIN files' = DOMAIN files
    BY <1>1, <2>1, PutFiles DEF Changes
  <2>10. QED
    BY <2>1, <2>6, <2>8, <2>9 DEF Put
<1>5. CASE RollFooter
  <2>1. DOMAIN files' = DOMAIN files
    BY <1>1, <1>5, FooterFiles DEF Changes
  <2>2. QED
    BY <1>2, <1>5, <2>1 DEF RollFooter, countVars, memVars
<1>6. CASE RollSync \/ RollReopenFails
  <2>1. w.gen \in DOMAIN files /\ files' = [files EXCEPT ![w.gen] = Synced(@)]
    BY <1>1, <1>6 DEF BufferInv, OpInv, GenInv, RollSync, RollReopenFails
  <2>2. DOMAIN files' = DOMAIN files
    BY <1>1, <2>1, SyncFiles DEF Changes
  <2>3. now' = now /\ idx' = idx /\ minGen' = minGen /\ w' = [w EXCEPT !.closed = TRUE]
    BY <1>6 DEF RollSync, RollReopenFails, RollFails, countVars
  <2>4. w' \in WriterType(now)
    BY <1>2, <2>3 DEF WriterType
  <2> DEFINE size == Len(files[w.gen].items)
  <2>5. size \in Nat /\ w.gen \in Nat \ {0}
    BY <1>1, <2>1 DEF IsDirectory, FileType
  <2>6. CASE RollReopenFails
    BY <1>2, <2>2, <2>3, <2>4, <2>6 DEF RollReopenFails
  <2>7. CASE RollSync
    <3>1. metas' = With(metas, w.gen, [tMax |-> w.tMax, size |-> size]) /\ bytes' = bytes + size
      BY <2>7 DEF RollSync
    <3> HIDE DEF size
    <3>2. [tMax |-> w.tMax, size |-> size] \in MetaType(now)
      BY <1>2, <2>5 DEF WriterType, MetaType
    <3>3. DOMAIN metas' = DOMAIN metas \cup {w.gen} /\ metas' \in [DOMAIN metas' -> MetaType(now)]
      BY <1>2, <3>1, <3>2 DEF With
    <3>4. QED
      BY <1>2, <2>2, <2>3, <2>4, <2>5, <3>1, <3>3
  <2>8. QED
    BY <1>6, <2>6, <2>7
<1>7. CASE RollCreate
  <2>1. w.gen + 1 \in Nat \ {0}
    BY <1>2 DEF WriterType
  <2>2. w.gen + 1 \notin DOMAIN files /\ files' = With(files, w.gen + 1, EmptyFile) /\ w' = NewWriter(w.gen + 1)
    BY <1>7 DEF RollCreate
  <2>3. DOMAIN files' = DOMAIN files \cup {w.gen + 1}
    BY <1>1, <2>1, <2>2, CreateFiles
  <2>4. IsFiniteSet(DOMAIN files')
    <3>1. IsFiniteSet(DOMAIN files \cup {w.gen + 1})
      BY <1>2, FS_AddElement
    <3>2. QED
      BY <2>3, <3>1
  <2>5. w' \in WriterType(now)
    BY <1>2, <2>1, <2>2 DEF NewWriter, WriterType
  <2>6. QED
    BY <1>2, <1>7, <2>4, <2>5 DEF RollCreate, countVars
<1>8. CASE ExpireRemove \/ ExpireOldest
  <2>1. RemoveOldest /\ now' = now /\ w' = w /\ idx' = idx
    BY <1>8 DEF ExpireRemove, ExpireOldest, countVars
  <2>2. /\ Oldest \in DOMAIN metas
        /\ DOMAIN files' = DOMAIN files \ {Oldest}
        /\ DOMAIN metas' = DOMAIN metas \ {Oldest}
        /\ metas' \in [DOMAIN metas' -> [tMax : 0 .. now, size : Nat]]
    BY <1>1, <2>1, RemoveFiles
  <2>3. IsFiniteSet(DOMAIN files')
    BY <1>2, <2>2, FS_Subset
  <2>4. minGen' = Oldest + 1 /\ bytes' = bytes - metas[Oldest].size
    BY <2>1 DEF RemoveOldest
  <2>5. minGen' \in Nat /\ bytes' \in Int
    BY <1>2, <2>2, <2>4 DEF MetaType
  <2>6. QED
    BY <1>2, <2>1, <2>2, <2>3, <2>5 DEF MetaType
<1>9. CASE ExpireSweep
  <2>1. PICK S : idx' = Freed(S)
    BY <1>9 DEF ExpireSweep
  <2>2. Ascending(idx)
    BY DEF BufferInv, IdxInv, Ascending
  <2>3. idx' \in Seq(LocType)
    BY <1>2, <2>1, <2>2, SweptIndex
  <2>4. QED
    BY <1>2, <1>9, <2>3 DEF ExpireSweep, countVars
<1>10. CASE Close \/ Kill \/ PowerLoss
  <2>1. /\ now' = now /\ w' = NewWriter(0) /\ metas' = NoMap /\ bytes' = 0 /\ minGen' = 1 /\ idx' = << >>
    BY <1>10 DEF Close, Kill, PowerLoss, GoDown
  <2>2. DOMAIN files' \subseteq DOMAIN files
    <3>1. CASE Close
      <4>1. w.gen \in DOMAIN files /\ files' = [files EXCEPT ![w.gen] = Synced(@)]
        BY <1>1, <3>1 DEF GenInv, Close
      <4>2. QED
        BY <1>1, <4>1, SyncFiles DEF Changes
    <3>2. CASE Kill
      BY <1>1, <3>2, KillFiles
    <3>3. CASE PowerLoss
      BY <1>1, <3>3, PowerFiles
    <3>4. QED
      BY <1>10, <3>1, <3>2, <3>3
  <2>3. IsFiniteSet(DOMAIN files')
    BY <1>2, <2>2, FS_Subset
  <2>4. w' \in WriterType(now)
    BY <1>2, <2>1 DEF NewWriter, WriterType
  <2>5. DOMAIN metas' = {} /\ metas' \in [DOMAIN metas' -> MetaType(now)]
    BY <2>1 DEF NoMap
  <2>6. QED
    BY <1>2, <2>1, <2>3, <2>4, <2>5
<1>11. CASE Open
  <2>1. now' = now /\ idx' = RecoveredLocs /\ minGen' = 1
    BY <1>11 DEF Open, countVars
  <2>2. idx' \in Seq(LocType)
    BY <1>1, <2>1, RecoveredIndex DEF BufferInv
  <2>3. /\ w'.gen \in Nat \ {0} /\ DOMAIN files' = DOMAIN files \cup {w'.gen}
        /\ \/ /\ w'.gen \in DOMAIN files
              /\ w' = [NewWriter(w'.gen) EXCEPT !.dir = ScannedDir(files[w'.gen]), !.tMax = now]
           \/ w' = NewWriter(w'.gen)
    BY <1>1, <1>11, OpenFiles
  <2>4. IsFiniteSet(DOMAIN files')
    BY <1>2, <2>3, FS_AddElement
  <2>5. \A g \in DOMAIN files : /\ files[g] \in FileType(Items) /\ files[g].items \in Seq(Items)
                                /\ ScannedDir(files[g]) \in Seq(DirEntries)
    <3>1. ASSUME NEW g \in DOMAIN files
          PROVE  /\ files[g] \in FileType(Items) /\ files[g].items \in Seq(Items)
                 /\ ScannedDir(files[g]) \in Seq(DirEntries)
      <4>1. files[g] \in FileType(Items) /\ \A i \in 1 .. Len(files[g].items) : FooterFits(files[g].items, i)
        BY <1>1 DEF IsDirectory, BufferInv, FileInv
      <4>2. QED
        BY <4>1, EntriesFit DEF FileType
    <3>2. QED
      BY <3>1
  <2>6. w' \in WriterType(now)
    <3>1. CASE w' = NewWriter(w'.gen)
      <4>1. NewWriter(w'.gen) \in WriterType(now)
        BY <1>2, <2>3, WriterTypes
      <4>2. QED
        BY <3>1, <4>1, Zenon
    <3>2. CASE /\ w'.gen \in DOMAIN files
               /\ w' = [NewWriter(w'.gen) EXCEPT !.dir = ScannedDir(files[w'.gen]), !.tMax = now]
      <4>1. ScannedDir(files[w'.gen]) \in Seq(DirEntries)
        BY <2>5, <3>2
      <4>2. [NewWriter(w'.gen) EXCEPT !.dir = ScannedDir(files[w'.gen]), !.tMax = now] \in WriterType(now)
        <5>1. w'.gen \in Nat /\ now \in 0 .. now
          BY <1>2, <2>3
        <5>2. QED
          BY <1>2, <4>1, <5>1, WriterTypes, Zenon
      <4>3. QED
        BY <3>2, <4>2, Zenon
    <3>3. QED
      BY <2>3, <3>1, <3>2
  <2> DEFINE footered == {g \in DOMAIN files : HasFooter(files[g])}
  <2>7. /\ metas' = [g \in footered |-> [tMax |-> Last(files[g].items).tMax, size |-> Len(files[g].items)]]
        /\ bytes' = SumFunction([g \in footered |-> Len(files[g].items)])
    BY <1>11 DEF Open
  <2>8. footered \subseteq Nat \ {0} /\ IsFiniteSet(footered) /\ footered \subseteq DOMAIN files
    BY <1>1, <1>2, FS_Subset DEF IsDirectory
  <2>9. \A g \in footered : Len(files[g].items) \in Nat /\ Last(files[g].items).tMax \in 0 .. now
    <3>1. ASSUME NEW g \in footered
          PROVE  Len(files[g].items) \in Nat /\ Last(files[g].items).tMax \in 0 .. now
      <4>1. files[g].items \in Seq(Items)
        BY <2>5
      <4>2. files[g].items # << >> /\ files[g].items[Len(files[g].items)].kind = "footer"
        BY DEF HasFooter, Last
      <4>3. files[g].items[Len(files[g].items)] \in Items
        BY <4>1, <4>2
      <4>4. QED
        BY <4>1, <4>2, <4>3, ItemFacts DEF Last
    <3>2. QED
      BY <3>1
  <2> HIDE DEF footered
  <2>10. DOMAIN metas' = footered /\ metas' \in [DOMAIN metas' -> MetaType(now)]
    BY <2>7, <2>9 DEF MetaType
  <2>11. bytes' \in Nat
    <3> DEFINE fun == [g \in footered |-> Len(files[g].items)]
    <3>1. DOMAIN fun = footered /\ \A g \in DOMAIN fun : fun[g] \in Nat
      BY <2>9
    <3>2. bytes' = SumFunctionOnSet(fun, DOMAIN fun)
      BY <2>7 DEF SumFunction
    <3> HIDE DEF fun
    <3>3. QED
      BY <2>8, <3>1, <3>2, SumIsNat
  <2>12. QED
    BY <1>2, <2>1, <2>2, <2>4, <2>6, <2>8, <2>10, <2>11
<1>12. QED
  BY <1>2, <1>3, <1>4, <1>5, <1>6, <1>7, <1>8, <1>9, <1>10, <1>11, StepKinds

(* The control state. *)
LEMMA ControlStep ==
    ASSUME BufferInv, [Next]_vars
    PROVE  /\ appended' \in 0 .. MaxAppends /\ early' \in Nat /\ crashes' \in 0 .. MaxCrashes
           /\ pc' \in PCs /\ todo' \in TodoType(now')
           /\ OpInv'
<1>1. TypeOK /\ GenInv /\ OpInv
  BY DEF BufferInv
<1>2. /\ now \in Nat /\ appended \in 0 .. MaxAppends /\ early \in Nat /\ crashes \in 0 .. MaxCrashes
      /\ pc \in PCs /\ todo \in TodoType(now) /\ w \in WriterType(now)
  BY <1>1, BufferBounds DEF TypeOK, TodoType, WriterType
<1>3. NoWork \in TodoType(now') /\ NoWork.op = "none"
  BY DEF TodoType, NoWork
<1>4. now' \in Nat /\ now <= now'
  BY MemoryTypes, BufferBounds
<1>5. CASE Keeps
  <2>1. appended' \in 0 .. MaxAppends /\ early' \in Nat /\ crashes' \in 0 .. MaxCrashes
    BY <1>2, <1>5, BufferBounds DEF Keeps
  <2>2. pc' \in PCs
    BY <1>2, <1>5 DEF Keeps, PCs
  <2>3. todo' \in TodoType(now')
    <3>1. \A t \in TodoType(now) : t \in TodoType(now')
      BY <1>2, <1>4 DEF TodoType
    <3>2. CASE todo' = todo
      BY <1>2, <3>1, <3>2
    <3>3. CASE todo' = [op |-> "expire"]
      BY <3>3 DEF TodoType
    <3>4. CASE \E id \in Ids, at \in 0 .. now : todo' = [op |-> "append", id |-> id, at |-> at]
      <4>1. \E id \in Ids, at \in 0 .. now' : todo' = [op |-> "append", id |-> id, at |-> at]
        BY <1>2, <1>4, <3>4
      <4>2. QED
        BY <4>1 DEF TodoType
    <3>5. QED
      BY <1>3, <1>5, <3>2, <3>3, <3>4 DEF Keeps
  <2>4. w'.closed = w.closed /\ w'.gen = w.gen
    BY <1>2, <1>5 DEF Keeps, WriterType
  <2>5. OpInv'
    <3>1. CASE pc' = pc /\ todo' = todo
      BY <1>1, <1>2, <1>5, <2>4, <3>1 DEF OpInv, Keeps
    <3>2. CASE pc' = "finalize" /\ todo' = [op |-> "expire"]
      BY <3>2 DEF OpInv
    <3>3. CASE /\ pc' = "finalize" /\ appended < MaxAppends /\ appended' = appended
               /\ \E id \in Ids, at \in 0 .. now : todo' = [op |-> "append", id |-> id, at |-> at]
      BY <3>3 DEF OpInv
    <3>4. CASE pc' \in {"idle", "expire", "sweep"} /\ todo' = NoWork
      BY <1>3, <3>4 DEF OpInv
    <3>5. QED
      BY <1>5, <3>1, <3>2, <3>3, <3>4 DEF Keeps
  <2>6. QED
    BY <2>1, <2>2, <2>3, <2>5
<1>6. ASSUME NEW id \in Ids, NEW at \in 0 .. now, Stores(id, at)
      PROVE  /\ appended' \in 0 .. MaxAppends /\ early' \in Nat /\ crashes' \in 0 .. MaxCrashes
             /\ pc' \in PCs /\ todo' \in TodoType(now') /\ OpInv'
  <2>1. appended < MaxAppends /\ appended' = appended + 1 /\ pc' = "idle" /\ todo' = NoWork
        /\ early' = early /\ crashes' = crashes
    BY <1>6 DEF Stores, Put
  <2>2. OpInv'
    BY <1>3, <2>1 DEF OpInv
  <2>3. QED
    BY <1>2, <1>3, <2>1, <2>2, BufferBounds DEF PCs
<1>7. CASE RollFooter
  <2>1. /\ pc = "finalize" /\ pc' = "sync" /\ todo' = todo /\ w' = w /\ ~w.closed /\ now' = now
        /\ UNCHANGED <<appended, early, crashes>>
    BY <1>7 DEF RollFooter, countVars, memVars
  <2>2. OpInv'
    BY <1>1, <2>1 DEF OpInv
  <2>3. QED
    BY <1>2, <2>1, <2>2 DEF PCs
<1>8. CASE RollSync
  <2>1. /\ pc = "sync" /\ pc' = "create" /\ todo' = todo /\ now' = now /\ w' = [w EXCEPT !.closed = TRUE]
        /\ w.gen \in DOMAIN metas'
        /\ UNCHANGED <<appended, early, crashes>>
    BY <1>8 DEF RollSync, countVars, With
  <2>2. w'.closed = TRUE /\ w'.gen = w.gen
    BY <1>2, <2>1 DEF WriterType
  <2>3. OpInv'
    BY <1>1, <2>1, <2>2 DEF OpInv
  <2>4. QED
    BY <1>2, <2>1, <2>3 DEF PCs
<1>9. CASE RollReopenFails
  <2>1. pc = "sync" /\ RollFails
    BY <1>9 DEF RollReopenFails
  <2>2. /\ appended' = appended \/ (appended < MaxAppends /\ appended' = appended + 1)
        /\ pc' \in {"idle", "sweep"} /\ todo' = NoWork
        /\ UNCHANGED <<now, early, crashes, minGen, idx>>
    BY <2>1, RollFailed
  <2>3. OpInv'
    BY <1>3, <2>2 DEF OpInv
  <2>4. QED
    BY <1>2, <1>3, <2>2, <2>3, BufferBounds DEF PCs
<1>10. CASE RollCreate
  <2>1. /\ pc = "create" /\ now' = now /\ w' = NewWriter(w.gen + 1)
        /\ \/ todo.op = "append" /\ pc' = "append" /\ todo' = todo
           \/ pc' = "sweep" /\ todo' = NoWork
        /\ UNCHANGED <<appended, early, crashes>>
    BY <1>10 DEF RollCreate, countVars
  <2>2. w'.closed = FALSE
    BY <2>1 DEF NewWriter
  <2>3. OpInv'
    BY <1>1, <1>3, <2>1, <2>2 DEF OpInv
  <2>4. QED
    BY <1>2, <1>3, <2>1, <2>3 DEF PCs
<1>11. CASE ExpireRemove \/ ExpireOldest
  <2>1. /\ pc \in {"idle", "expire"} /\ pc' = pc /\ todo' = todo /\ now' = now /\ early' \in {early, early + 1}
        /\ UNCHANGED <<appended, crashes>>
    BY <1>11 DEF ExpireRemove, ExpireOldest, countVars, opVars
  <2>2. todo = NoWork
    BY <1>1, <2>1 DEF OpInv
  <2>3. OpInv'
    BY <1>3, <2>1, <2>2 DEF OpInv
  <2>4. QED
    BY <1>2, <2>1, <2>3
<1>12. CASE ExpireSweep
  <2>1. pc = "sweep" /\ pc' = "idle" /\ todo' = todo /\ now' = now /\ UNCHANGED <<appended, early, crashes>>
    BY <1>12 DEF ExpireSweep, countVars
  <2>2. todo = NoWork
    BY <1>1, <2>1 DEF OpInv
  <2>3. OpInv'
    BY <1>3, <2>1, <2>2 DEF OpInv
  <2>4. QED
    BY <1>2, <2>1, <2>3 DEF PCs
<1>13. CASE Close \/ Kill \/ PowerLoss
  <2>1. /\ pc' = "down" /\ todo' = NoWork /\ crashes < MaxCrashes /\ crashes' = crashes + 1
        /\ UNCHANGED <<now, appended, early>>
    BY <1>13 DEF Close, Kill, PowerLoss, GoDown
  <2>2. OpInv'
    BY <1>3, <2>1 DEF OpInv
  <2>3. QED
    BY <1>2, <1>3, <2>1, <2>2, BufferBounds DEF PCs
<1>14. CASE Open
  <2>1. pc = "down" /\ pc' = "idle" /\ todo' = todo /\ UNCHANGED <<now, appended, early, crashes>>
    BY <1>14 DEF Open, countVars
  <2>2. todo = NoWork
    BY <1>1, <2>1 DEF OpInv
  <2>3. OpInv'
    BY <1>3, <2>1, <2>2 DEF OpInv
  <2>4. QED
    BY <1>2, <2>1, <2>3 DEF PCs
<1>15. QED
  BY <1>5, <1>6, <1>7, <1>8, <1>9, <1>10, <1>11, <1>12, <1>13, <1>14, StepKinds

LEMMA TypeStep ==
    ASSUME BufferInv, [Next]_vars
    PROVE  TypeOK'
<1>1. now \in Nat /\ now' \in Nat /\ now <= now'
  BY SMTT(40), MemoryTypes, BufferBounds DEF BufferInv, TypeOK
<1>2. Items \subseteq Items'
  BY <1>1 DEF Items
<1>3. IsDirectory(files', Items')
  BY <1>2, NextFiles, DirectoryMonotone
<1>4. /\ now' \in 0 .. MaxTime
      /\ w' \in WriterType(now')
      /\ DOMAIN metas' \subseteq Nat \ {0} /\ metas' \in [DOMAIN metas' -> MetaType(now')]
      /\ idx' \in Seq(LocType)
      /\ bytes' \in Int /\ minGen' \in Nat
  BY MemoryTypes
<1>5. QED
  BY <1>3, <1>4, ControlStep DEF TypeOK, IsDirectory, FileType, WriterType, MetaType, TodoType, LocType

-----------------------------------------------------------------------------
(***************************************************************************)
(* Generations.                                                            *)
(***************************************************************************)

(* What GenInv says of a running buffer. *)
Running(fs, wr, ms, mg) ==
    /\ wr.gen >= 1
    /\ DOMAIN fs \subseteq 1 .. wr.gen
    /\ DOMAIN ms \subseteq DOMAIN fs
    /\ DOMAIN fs \subseteq DOMAIN ms \cup {wr.gen}
    /\ ~wr.closed => wr.gen \in DOMAIN fs \ DOMAIN ms
    /\ wr.closed => mg <= wr.gen + 1
    /\ ~wr.closed => mg <= wr.gen

Contiguous(wr, ms, mg) ==
    \A g \in DOMAIN ms : /\ g \in mg .. wr.gen
                         /\ \A h \in g .. wr.gen - 1 : h \in DOMAIN ms

Unbroken(D) == \A g, h \in D : \A k \in g .. h : k \in D

LEMMA GenParts ==
    ASSUME TypeOK
    PROVE  GenInv <=> /\ IsFiniteSet(DOMAIN files)
                      /\ pc = "down" => idx = << >> /\ metas = NoMap
                      /\ pc # "down" => Running(files, w, metas, minGen)
                      /\ UnmixedCrashes /\ pc # "down" => Contiguous(w, metas, minGen)
                      /\ UnmixedCrashes /\ pc = "down" => Unbroken(DOMAIN files)
<1>1. w.closed \in BOOLEAN
  BY DEF TypeOK
<1>2. (minGen <= IF w.closed THEN w.gen + 1 ELSE w.gen) <=> (w.closed => minGen <= w.gen + 1) /\ (~w.closed => minGen <= w.gen)
  BY <1>1, Zenon
<1>3. QED
  BY <1>2, Zenon DEF GenInv, GensContiguous, Running, Contiguous, Unbroken

(* While the buffer runs, its files are unbroken: so they are when it goes *)
(* down, if the finalized ones stay.                                       *)
LEMMA UnbrokenRest ==
    ASSUME NEW fs, NEW wr, NEW ms, NEW mg \in Nat, Running(fs, wr, ms, mg), Contiguous(wr, ms, mg),
           wr.gen \in Nat, DOMAIN ms \subseteq Nat,
           NEW D, D \subseteq DOMAIN fs, DOMAIN ms \subseteq D
    PROVE  Unbroken(D)
<1>1. SUFFICES ASSUME NEW g \in D, NEW h \in D, NEW k \in g .. h PROVE k \in D
  BY DEF Unbroken
<1>2. g \in Nat /\ h \in Nat /\ g <= wr.gen /\ h <= wr.gen
  BY DEF Running
<1>3. CASE k = h
  BY <1>3
<1>4. CASE k # h
  <2>1. g # wr.gen /\ k \in g .. wr.gen - 1
    BY <1>2, <1>4
  <2>2. g \in DOMAIN ms
    BY <2>1 DEF Running
  <2>3. QED
    BY <2>1, <2>2 DEF Contiguous
<1>5. QED
  BY <1>3, <1>4

(* A step that changes no segment keeps a running buffer running. *)
LEMMA SameGenerations ==
    ASSUME NEW fs, NEW wr, NEW ms, NEW mg, NEW fs1, NEW wr1,
           DOMAIN fs1 = DOMAIN fs, wr1.gen = wr.gen, wr1.closed = wr.closed
    PROVE  /\ Running(fs, wr, ms, mg) => Running(fs1, wr1, ms, mg)
           /\ Contiguous(wr, ms, mg) => Contiguous(wr1, ms, mg)
BY Zenon DEF Running, Contiguous

LEMMA GenStep ==
    ASSUME BufferInv, [Next]_vars
    PROVE  GenInv'
<1>1. TypeOK /\ OpInv /\ GenInv /\ IsDirectory(files, Items)
  BY TypedDirectory DEF BufferInv
<1>2. /\ w \in WriterType(now) /\ DOMAIN metas \subseteq Nat \ {0} /\ minGen \in Nat /\ w.gen \in Nat
  BY <1>1 DEF TypeOK, WriterType
<1>3. w' \in WriterType(now') /\ w'.closed \in BOOLEAN /\ IsFiniteSet(DOMAIN files')
  BY MemoryTypes DEF WriterType
<1>4. /\ pc # "down" => Running(files, w, metas, minGen)
      /\ UnmixedCrashes /\ pc # "down" => Contiguous(w, metas, minGen)
      /\ UnmixedCrashes /\ pc = "down" => Unbroken(DOMAIN files)
      /\ pc = "down" => idx = << >> /\ metas = NoMap
  BY <1>1, GenParts
<1>5. SUFFICES /\ pc' = "down" => idx' = << >> /\ metas' = NoMap
               /\ pc' # "down" => Running(files', w', metas', minGen')
               /\ UnmixedCrashes /\ pc' # "down" => Contiguous(w', metas', minGen')
               /\ UnmixedCrashes /\ pc' = "down" => Unbroken(DOMAIN files')
  <2>1. (minGen' <= IF w'.closed THEN w'.gen + 1 ELSE w'.gen)
           <=> (w'.closed => minGen' <= w'.gen + 1) /\ (~w'.closed => minGen' <= w'.gen)
    BY <1>3, Zenon
  <2>2. QED
    BY <1>3, <1>5, <2>1, Zenon DEF GenInv, GensContiguous, Running, Contiguous, Unbroken
<1>6. ASSUME DOMAIN files' = DOMAIN files, w'.gen = w.gen, w'.closed = w.closed, metas' = metas,
             minGen' = minGen, pc' # "down", pc # "down"
      PROVE  Running(files', w', metas', minGen') /\ (UnmixedCrashes => Contiguous(w', metas', minGen'))
  <2>1. Running(files', w', metas, minGen) /\ (UnmixedCrashes => Contiguous(w', metas, minGen))
    BY <1>4, <1>6, SameGenerations, Zenon
  <2>2. QED
    BY <1>6, <2>1, Zenon
<1>7. CASE Keeps
  <2>1. /\ files' = files /\ w'.gen = w.gen /\ w'.closed = w.closed /\ metas' = metas /\ minGen' = minGen
        /\ idx' = idx
    BY <1>2, <1>7 DEF Keeps, WriterType
  <2>2. pc' = "down" <=> pc = "down"
    BY <1>7 DEF Keeps
  <2>3. QED
    BY <1>4, <1>6, <2>1, <2>2
<1>8. ASSUME NEW id \in Ids, NEW at \in 0 .. now, Stores(id, at)
      PROVE  /\ pc' # "down"
             /\ Running(files', w', metas', minGen') /\ (UnmixedCrashes => Contiguous(w', metas', minGen'))
  <2>1. pc # "down" /\ pc' # "down" /\ appended < MaxAppends /\ Put(id, at) /\ now' = now
    BY <1>8 DEF Stores
  <2>2. DOMAIN files' = DOMAIN files
    BY <1>1, <2>1, PutFiles DEF Changes
  <2>3. w'.gen = w.gen /\ w'.closed = w.closed /\ metas' = metas /\ minGen' = minGen
    BY <1>2, <2>1 DEF Put, WriterType
  <2>4. QED
    BY <1>6, <2>1, <2>2, <2>3
<1>9. CASE RollFooter
  <2>1. DOMAIN files' = DOMAIN files
    BY <1>1, <1>9, FooterFiles DEF Changes
  <2>2. w' = w /\ metas' = metas /\ minGen' = minGen /\ pc' # "down" /\ pc # "down"
    BY <1>9 DEF RollFooter, memVars
  <2>3. QED
    BY <1>6, <2>1, <2>2
<1>10. CASE RollSync \/ RollReopenFails
  <2>1. w.gen \in DOMAIN files /\ files' = [files EXCEPT ![w.gen] = Synced(@)] /\ pc = "sync" /\ ~w.closed
    BY <1>1, <1>10 DEF OpInv, GenInv, RollSync, RollReopenFails
  <2>2. DOMAIN files' = DOMAIN files
    BY <1>1, <2>1, SyncFiles DEF Changes
  <2>3. w'.gen = w.gen /\ w'.closed = TRUE /\ minGen' = minGen /\ pc' # "down"
    BY <1>2, <1>10 DEF RollSync, RollReopenFails, RollFails, WriterType
  <2>4. DOMAIN metas' = DOMAIN metas \/ DOMAIN metas' = DOMAIN metas \cup {w.gen}
    BY <1>10 DEF RollSync, RollReopenFails, With
  <2>5. Running(files', w', metas', minGen')
    BY <1>2, <1>4, <2>1, <2>2, <2>3, <2>4 DEF Running
  <2>6. ASSUME UnmixedCrashes PROVE Contiguous(w', metas', minGen')
    <3>1. Contiguous(w, metas, minGen) /\ minGen <= w.gen
      BY <1>4, <2>1, <2>6 DEF Running
    <3>2. ASSUME NEW g \in DOMAIN metas'
          PROVE  g \in minGen .. w.gen /\ \A h \in g .. w.gen - 1 : h \in DOMAIN metas'
      <4>1. CASE g = w.gen
        BY <1>2, <3>1, <4>1
      <4>2. CASE g # w.gen
        BY <2>4, <3>1, <4>2 DEF Contiguous
      <4>3. QED
        BY <4>1, <4>2
    <3>3. QED
      BY <2>3, <3>2 DEF Contiguous
  <2>7. QED
    BY <2>1, <2>3, <2>5, <2>6
<1>11. CASE RollCreate
  <2>1. pc = "create" /\ w.closed /\ w.gen \in DOMAIN metas
    BY <1>1, <1>11 DEF OpInv, RollCreate
  <2>2. /\ w.gen + 1 \in Nat \ {0} /\ w.gen + 1 \notin DOMAIN files
        /\ files' = With(files, w.gen + 1, EmptyFile) /\ w' = NewWriter(w.gen + 1)
        /\ metas' = metas /\ minGen' = minGen /\ pc' # "down"
    BY <1>2, <1>11 DEF RollCreate
  <2>3. DOMAIN files' = DOMAIN files \cup {w.gen + 1}
    BY <1>1, <2>2, CreateFiles
  <2>4. w'.gen = w.gen + 1 /\ w'.closed = FALSE
    BY <2>2 DEF NewWriter
  <2>5. Running(files, w, metas, minGen) /\ (UnmixedCrashes => Contiguous(w, metas, minGen))
    BY <1>4, <2>1
  <2>6. Running(files', w', metas', minGen')
    BY <1>2, <2>1, <2>2, <2>3, <2>4, <2>5 DEF Running
  <2>7. ASSUME UnmixedCrashes PROVE Contiguous(w', metas', minGen')
    <3>1. ASSUME NEW g \in DOMAIN metas, NEW h \in g .. w.gen
          PROVE  h \in DOMAIN metas
      <4>1. CASE h = w.gen
        BY <2>1, <4>1
      <4>2. CASE h # w.gen
        <5>1. h \in g .. w.gen - 1
          BY <1>2, <4>2
        <5>2. QED
          BY <2>5, <2>7, <5>1 DEF Contiguous
      <4>3. QED
        BY <4>1, <4>2
    <3>2. \A g \in DOMAIN metas : g \in minGen .. w.gen
      BY <2>5, <2>7 DEF Contiguous
    <3>3. (w.gen + 1) - 1 = w.gen /\ \A g \in DOMAIN metas : g \in minGen .. w.gen + 1
      BY <1>2, <3>2
    <3>4. QED
      BY <2>2, <2>4, <3>1, <3>3 DEF Contiguous
  <2>8. QED
    BY <2>2, <2>6, <2>7
<1>12. CASE ExpireRemove \/ ExpireOldest
  <2>1. RemoveOldest /\ w' = w /\ pc' = pc /\ pc # "down" /\ minGen' = Oldest + 1
    BY <1>12 DEF ExpireRemove, ExpireOldest, RemoveOldest, opVars
  <2>2. /\ Oldest \in DOMAIN metas /\ \A g \in DOMAIN metas : Oldest <= g
        /\ DOMAIN files' = DOMAIN files \ {Oldest}
        /\ DOMAIN metas' = DOMAIN metas \ {Oldest}
    BY <1>1, <2>1, RemoveFiles
  <2>3. Running(files, w, metas, minGen) /\ (UnmixedCrashes => Contiguous(w, metas, minGen))
    BY <1>4, <2>1
  <2>4. Oldest \in Nat /\ Oldest <= w.gen /\ (~w.closed => Oldest # w.gen)
    BY <1>2, <2>2, <2>3 DEF Running
  <2>5. Running(files', w', metas', minGen')
    BY <1>2, <2>1, <2>2, <2>3, <2>4 DEF Running
  <2>6. ASSUME UnmixedCrashes PROVE Contiguous(w', metas', minGen')
    <3>1. Contiguous(w, metas, minGen)
      BY <2>3, <2>6
    <3>2. ASSUME NEW g \in DOMAIN metas'
          PROVE  g \in Oldest + 1 .. w.gen /\ \A h \in g .. w.gen - 1 : h \in DOMAIN metas'
      <4>1. g \in DOMAIN metas /\ g # Oldest /\ Oldest <= g /\ g \in Nat
        BY <1>2, <2>2
      <4>2. g \in minGen .. w.gen /\ \A h \in g .. w.gen - 1 : h \in DOMAIN metas
        BY <3>1, <4>1 DEF Contiguous
      <4>3. QED
        BY <1>2, <2>2, <2>4, <4>1, <4>2
    <3>3. QED
      BY <2>1, <3>2 DEF Contiguous
  <2>7. QED
    BY <2>1, <2>5, <2>6
<1>13. CASE ExpireSweep
  <2>1. files' = files /\ w' = w /\ metas' = metas /\ minGen' = minGen /\ pc' # "down" /\ pc # "down"
    BY <1>13 DEF ExpireSweep
  <2>2. QED
    BY <1>6, <2>1
<1>14. CASE Close \/ Kill \/ PowerLoss
  <2>1. pc # "down" /\ pc' = "down" /\ idx' = << >> /\ metas' = NoMap
    BY <1>14 DEF Close, Kill, PowerLoss, GoDown
  <2>2. Running(files, w, metas, minGen)
    BY <1>4, <2>1
  <2>3. ASSUME UnmixedCrashes PROVE Unbroken(DOMAIN files')
    <3>1. DOMAIN files' \subseteq DOMAIN files /\ DOMAIN metas \subseteq DOMAIN files'
      <4>1. CASE Close
        <5>1. w.gen \in DOMAIN files /\ files' = [files EXCEPT ![w.gen] = Synced(@)]
          BY <1>1, <4>1 DEF GenInv, Close
        <5>2. DOMAIN files' = DOMAIN files
          BY <1>1, <5>1, SyncFiles DEF Changes
        <5>3. QED
          BY <2>2, <5>2 DEF Running
      <4>2. CASE Kill
        <5>1. DOMAIN files' = DOMAIN files
          BY <1>1, <4>2, KillFiles
        <5>2. QED
          BY <2>2, <5>1 DEF Running
      <4>3. CASE PowerLoss
        <5>1. "power" \in CrashKinds /\ crashes < MaxCrashes
          BY <4>3 DEF PowerLoss, GoDown
        <5>2. ASSUME NEW g \in DOMAIN metas PROVE g \in DOMAIN files /\ files[g].synced # 0
          <6>1. g \in DOMAIN files
            BY <2>2 DEF Running
          <6>2. files[g].items # << >> /\ Durable(files[g])
            BY <2>3, <5>1, <6>1 DEF BufferInv, DurableInv
          <6>3. files[g].items \in Seq(Items)
            BY <1>1, <6>1 DEF IsDirectory, FileType
          <6>4. QED
            BY <6>1, <6>2, <6>3 DEF Durable
        <5>3. DOMAIN files' \subseteq DOMAIN files /\ \A g \in DOMAIN files : files[g].synced # 0 => g \in DOMAIN files'
          BY <1>1, <4>3, PowerFiles
        <5>4. QED
          BY <5>2, <5>3
      <4>4. QED
        BY <1>14, <4>1, <4>2, <4>3
    <3>2. Contiguous(w, metas, minGen)
      BY <1>4, <2>1, <2>3
    <3>3. QED
      BY <1>2, <2>2, <3>1, <3>2, UnbrokenRest
  <2>4. QED
    BY <2>1, <2>3
<1>15. CASE Open
  <2>1. pc = "down" /\ pc' = "idle" /\ minGen' = 1
    BY <1>15 DEF Open
  <2>2. DOMAIN metas' = {g \in DOMAIN files : HasFooter(files[g])}
    BY <1>15 DEF Open
  <2>3. /\ w'.gen \in Nat \ {0}
        /\ DOMAIN files' = DOMAIN files \cup {w'.gen}
        /\ \A g \in DOMAIN files : g <= w'.gen
        /\ \A g \in DOMAIN files : g # w'.gen => HasFooter(files[g])
    BY <1>1, <1>15, OpenFiles
  <2>4. /\ w'.gen \in DOMAIN files => ~HasFooter(files[w'.gen])
        /\ w'.gen \notin DOMAIN files => w'.gen = IF DOMAIN files = {} THEN 1 ELSE Newest + 1
    BY <1>1, <1>15, OpenWriter, Zenon
  <2>5. w'.closed = FALSE
    BY <1>1, <1>15, OpenWriter
  <2>6. DOMAIN files \subseteq Nat \ {0}
    BY <1>1 DEF IsDirectory
  <2>7. Running(files', w', metas', minGen')
    BY <2>1, <2>2, <2>3, <2>4, <2>5, <2>6 DEF Running
  <2>8. ASSUME UnmixedCrashes PROVE Contiguous(w', metas', minGen')
    <3>1. Unbroken(DOMAIN files)
      BY <1>4, <2>1, <2>8
    <3>2. ASSUME NEW g \in DOMAIN metas', NEW h \in g .. w'.gen - 1
          PROVE  h \in DOMAIN metas'
      <4>1. g \in DOMAIN files /\ g \in Nat /\ h \in Nat /\ h # w'.gen /\ g <= h /\ h <= w'.gen - 1
        BY <2>2, <2>3, <2>6
      <4>2. h \in DOMAIN files
        <5>1. CASE w'.gen \in DOMAIN files
          <6>1. h \in g .. w'.gen
            BY <2>3, <4>1
          <6>2. QED
            BY <3>1, <4>1, <5>1, <6>1 DEF Unbroken
        <5>2. CASE w'.gen \notin DOMAIN files
          <6>1. w'.gen = Newest + 1
            BY <2>4, <4>1, <5>2
          <6>2. Newest \in DOMAIN files
            <7>1. DOMAIN files \in SUBSET Int /\ IsFiniteSet(DOMAIN files) /\ DOMAIN files # {}
              BY <1>1, <2>6, <4>1 DEF GenInv
            <7>2. QED
              BY <7>1, MaxIsGreatest DEF Newest
          <6>3. h \in g .. Newest
            BY <2>6, <4>1, <6>1, <6>2
          <6>4. QED
            BY <3>1, <4>1, <6>2, <6>3 DEF Unbroken
        <5>3. QED
          BY <5>1, <5>2
      <4>3. QED
        BY <2>2, <2>3, <4>1, <4>2
    <3>3. \A g \in DOMAIN metas' : g \in 1 .. w'.gen
      BY <2>2, <2>3, <2>6
    <3>4. QED
      BY <2>1, <3>2, <3>3 DEF Contiguous
  <2>9. QED
    BY <2>1, <2>7, <2>8
<1>16. QED
  BY <1>7, <1>8, <1>9, <1>10, <1>11, <1>12, <1>13, <1>14, <1>15, StepKinds

-----------------------------------------------------------------------------
(***************************************************************************)
(* Durability.                                                             *)
(***************************************************************************)

(* Only what ends the process is counted as a crash. *)
LEMMA CrashesGrow ==
    ASSUME BufferInv, [Next]_vars
    PROVE  crashes' \in {crashes, crashes + 1}
<1>1. CASE Keeps \/ \E id \in Ids, at \in 0 .. now : Stores(id, at)
  BY <1>1 DEF Keeps, Stores
<1>2. CASE RollFooter \/ RollSync \/ RollReopenFails \/ RollCreate
  BY <1>2 DEF RollFooter, RollSync, RollReopenFails, RollCreate, RollFails, countVars
<1>3. CASE ExpireRemove \/ ExpireOldest \/ ExpireSweep \/ Open
  BY <1>3 DEF ExpireRemove, ExpireOldest, ExpireSweep, Open, countVars
<1>4. CASE Close \/ Kill \/ PowerLoss
  BY <1>4 DEF Close, Kill, PowerLoss, GoDown
<1>5. QED
  BY <1>1, <1>2, <1>3, <1>4, StepKinds

PowerMayGo(n) == UnmixedCrashes /\ "power" \in CrashKinds /\ n < MaxCrashes

(* What DurableInv says of a state, and what a step must leave of it. *)
Lasting(fs, wr, ms, c, n) ==
    /\ wr.closed /\ wr.gen \in DOMAIN fs => Durable(fs[wr.gen])
    /\ \A g \in DOMAIN ms : fs[g].items # << >>
    /\ PowerMayGo(n) =>
          \A g \in DOMAIN fs : c = "down" \/ g \in DOMAIN ms => Durable(fs[g])

LEMMA DurableStep ==
    ASSUME BufferInv, [Next]_vars
    PROVE  DurableInv'
<1>1. TypeOK /\ OpInv /\ GenInv /\ IsDirectory(files, Items)
  BY TypedDirectory DEF BufferInv
<1>2. w \in WriterType(now) /\ w.gen \in Nat
  BY <1>1 DEF TypeOK, WriterType
<1>3. Lasting(files, w, metas, pc, crashes)
  BY Zenon DEF BufferInv, DurableInv, Lasting, PowerMayGo
<1>4. pc # "down" => Running(files, w, metas, minGen)
  BY <1>1, GenParts
<1>5. SUFFICES Lasting(files', w', metas', pc', crashes) \/ Lasting(files', w', metas', pc', crashes')
  <2>1. crashes \in Nat /\ crashes' \in {crashes, crashes + 1} /\ MaxCrashes \in Nat
    BY <1>1, CrashesGrow, BufferBounds DEF TypeOK
  <2>2. PowerMayGo(crashes') => PowerMayGo(crashes)
    BY <2>1 DEF PowerMayGo
  <2>3. Lasting(files', w', metas', pc', crashes')
    BY <1>5, <2>2, Zenon DEF Lasting
  <2>4. QED
    BY <2>3, Zenon DEF DurableInv, Lasting, PowerMayGo, Durable
<1>6. ASSUME Keeps
      PROVE  Lasting(files', w', metas', pc', crashes)
  <2>1. /\ files' = files /\ w'.gen = w.gen /\ w'.closed = w.closed /\ metas' = metas
        /\ pc' = "down" <=> pc = "down"
    BY <1>2, <1>6 DEF Keeps, WriterType
  <2>2. Lasting(files, w', metas, pc', crashes)
    BY <1>3, <2>1 DEF Lasting
  <2>3. QED
    BY <2>1, <2>2, Zenon
<1>7. ASSUME NEW id \in Ids, NEW at \in 0 .. now, Stores(id, at)
      PROVE  Lasting(files', w', metas', pc', crashes)
  <2>1. pc # "down" /\ pc' = "idle" /\ appended < MaxAppends /\ Put(id, at) /\ now' = now
    BY <1>7 DEF Stores
  <2>2. w'.gen = w.gen /\ w'.closed = w.closed /\ metas' = metas
    BY <1>2, <2>1 DEF Put, WriterType
  <2>3. w.closed \/ Changes(files, files', w.gen, Grown(files[w.gen], Record(id, appended + 1, at)))
    BY <1>1, <2>1, PutFiles
  <2>4. w.closed => files' = files
    BY <1>1, <2>1, PutFiles
  <2>5. Lasting(files', w', metas, pc', crashes)
    <3>1. CASE w.closed
      <4>1. Lasting(files, w', metas, pc', crashes)
        BY <1>3, <2>1, <2>2 DEF Lasting
      <4>2. QED
        BY <2>4, <3>1, <4>1, Zenon
    <3>2. CASE ~w.closed
      <4>1. DOMAIN files' = DOMAIN files /\ \A h \in DOMAIN files : h # w.gen => files'[h] = files[h]
        BY <2>3, <3>2 DEF Changes
      <4>2. w.gen \notin DOMAIN metas /\ DOMAIN metas \subseteq DOMAIN files
        BY <1>4, <2>1, <3>2 DEF Running
      <4>3. QED
        BY <1>3, <2>1, <2>2, <3>2, <4>1, <4>2 DEF Lasting
    <3>3. QED
      BY <3>1, <3>2
  <2>6. QED
    BY <2>2, <2>5, Zenon
<1>8. ASSUME RollFooter
      PROVE  Lasting(files', w', metas', pc', crashes)
  <2>1. /\ pc' = "sync" /\ w' = w /\ metas' = metas /\ pc # "down" /\ ~w.closed
    BY <1>8 DEF RollFooter, memVars
  <2>2. Changes(files, files', w.gen, Grown(files[w.gen], Footer(w.dir, w.tMax)))
    BY <1>1, <1>8, FooterFiles
  <2>3. w.gen \notin DOMAIN metas /\ DOMAIN metas \subseteq DOMAIN files
    BY <1>4, <2>1 DEF Running
  <2>4. Lasting(files', w, metas, pc', crashes)
    BY <1>3, <2>1, <2>2, <2>3 DEF Lasting, Changes
  <2>5. QED
    BY <2>1, <2>4, Zenon
<1>9. ASSUME RollSync \/ RollReopenFails
      PROVE  Lasting(files', w', metas', pc', crashes)
  <2>1. w.gen \in DOMAIN files /\ files' = [files EXCEPT ![w.gen] = Synced(@)] /\ pc = "sync" /\ ~w.closed
    BY <1>1, <1>9 DEF OpInv, GenInv, RollSync, RollReopenFails
  <2>2. /\ DOMAIN files' = DOMAIN files /\ files'[w.gen] = Synced(files[w.gen])
        /\ \A h \in DOMAIN files : h # w.gen => files'[h] = files[h]
        /\ \A g \in DOMAIN files : files'[g].items = files[g].items
    BY <1>1, <2>1, SyncFiles DEF Changes
  <2>3. Durable(files'[w.gen])
    <3>1. files[w.gen] \in FileType(Items)
      BY <1>1, <2>1 DEF IsDirectory
    <3>2. Synced(files[w.gen]).synced = Len(Synced(files[w.gen]).items)
      BY <3>1, SyncedFile
    <3>3. QED
      BY <2>2, <3>2 DEF Durable
  <2>4. w'.gen = w.gen /\ w'.closed = TRUE /\ pc' # "down" /\ pc' # "sync"
    BY <1>2, <1>9 DEF RollSync, RollReopenFails, RollFails, WriterType
  <2>5. DOMAIN metas' \subseteq DOMAIN metas \cup {w.gen}
    BY <1>9 DEF RollSync, RollReopenFails, With
  <2>6. DOMAIN metas \subseteq DOMAIN files
    BY <1>4, <2>1 DEF Running
  <2>7. files[w.gen].items # << >>
    BY <2>1 DEF BufferInv, ActiveInv, Spoilt
  <2>8. QED
    BY <1>3, <2>1, <2>2, <2>3, <2>4, <2>5, <2>6, <2>7 DEF Lasting
<1>10. ASSUME RollCreate
      PROVE  Lasting(files', w', metas', pc', crashes)
  <2>1. /\ w.gen + 1 \notin DOMAIN files /\ files' = With(files, w.gen + 1, EmptyFile)
        /\ metas' = metas /\ pc' \notin {"down", "sync"} /\ pc # "down"
    BY <1>10 DEF RollCreate
  <2>2. w'.closed = FALSE
    BY <1>10 DEF RollCreate, NewWriter
  <2>3. DOMAIN files' = DOMAIN files \cup {w.gen + 1} /\ \A g \in DOMAIN files : files'[g] = files[g]
    <3>1. w.gen + 1 \in Nat \ {0}
      BY <1>2
    <3>2. QED
      BY <1>1, <2>1, <3>1, CreateFiles, Zenon
  <2>4. DOMAIN metas \subseteq DOMAIN files
    BY <1>4, <2>1 DEF Running
  <2>5. QED
    BY <1>3, <2>1, <2>2, <2>3, <2>4 DEF Lasting
<1>11. ASSUME ExpireRemove \/ ExpireOldest
      PROVE  Lasting(files', w', metas', pc', crashes)
  <2>1. RemoveOldest /\ w' = w /\ pc' = pc /\ pc \notin {"down", "sync"}
    BY <1>11 DEF ExpireRemove, ExpireOldest, opVars
  <2>2. /\ DOMAIN files' = DOMAIN files \ {Oldest} /\ \A g \in DOMAIN files' : files'[g] = files[g]
        /\ DOMAIN metas' = DOMAIN metas \ {Oldest}
    BY <1>1, <2>1, RemoveFiles
  <2>3. DOMAIN metas \subseteq DOMAIN files
    BY <1>4, <2>1 DEF Running
  <2>4. QED
    BY <1>3, <2>1, <2>2, <2>3 DEF Lasting
<1>12. ASSUME ExpireSweep
      PROVE  Lasting(files', w', metas', pc', crashes)
  <2>1. files' = files /\ w' = w /\ metas' = metas /\ pc' = "idle" /\ pc = "sweep"
    BY <1>12 DEF ExpireSweep
  <2>2. Lasting(files, w, metas, pc', crashes)
    BY <1>3, <2>1 DEF Lasting
  <2>3. QED
    BY <2>1, <2>2, Zenon
<1>13. ASSUME Close \/ Kill \/ PowerLoss
      PROVE  Lasting(files', w', metas', pc', crashes')
  <2>1. pc # "down" /\ pc' = "down" /\ DOMAIN metas' = {} /\ w'.closed = FALSE
    BY <1>13 DEF Close, Kill, PowerLoss, GoDown, NoMap, NewWriter
  <2>2. ASSUME PowerMayGo(crashes'), NEW g \in DOMAIN files' PROVE Durable(files'[g])
    <3>1. CASE Close
      <4>1. w.gen \in DOMAIN files /\ files' = [files EXCEPT ![w.gen] = Synced(@)]
        BY <1>1, <3>1 DEF GenInv, Close
      <4>2. /\ DOMAIN files' = DOMAIN files /\ files'[w.gen] = Synced(files[w.gen])
            /\ \A h \in DOMAIN files : h # w.gen => files'[h] = files[h]
        BY <1>1, <4>1, SyncFiles DEF Changes
      <4>3. CASE g = w.gen
        <5>1. files[w.gen] \in FileType(Items)
          BY <1>1, <4>1 DEF IsDirectory
        <5>2. Synced(files[w.gen]).synced = Len(Synced(files[w.gen]).items)
          BY <5>1, SyncedFile
        <5>3. QED
          BY <4>2, <4>3, <5>2 DEF Durable
      <4>4. CASE g # w.gen
        <5>1. g \in DOMAIN metas
          BY <1>4, <2>1, <2>2, <4>2, <4>4 DEF Running
        <5>2. PowerMayGo(crashes)
          BY <2>2, <3>1 DEF PowerMayGo, Close, GoDown
        <5>3. QED
          BY <1>3, <4>2, <4>4, <5>1, <5>2 DEF Lasting
      <4>5. QED
        BY <4>3, <4>4
    <3>2. CASE Kill
      <4>1. "kill" \in CrashKinds /\ crashes' = crashes + 1 /\ crashes \in Nat /\ MaxCrashes \in Nat
        BY <1>1, <3>2, BufferBounds DEF Kill, GoDown, TypeOK
      <4>2. QED
        BY <2>2, <4>1 DEF PowerMayGo, UnmixedCrashes
    <3>3. CASE PowerLoss
      BY <1>1, <2>2, <3>3, PowerFiles
    <3>4. QED
      BY <1>13, <3>1, <3>2, <3>3
  <2>3. QED
    BY <2>1, <2>2 DEF Lasting
<1>14. ASSUME Open
      PROVE  Lasting(files', w', metas', pc', crashes)
  <2>1. pc = "down" /\ pc' = "idle"
    BY <1>14 DEF Open
  <2>2. DOMAIN metas' = {g \in DOMAIN files : HasFooter(files[g])}
    BY <1>14 DEF Open
  <2>3. /\ DOMAIN files' = DOMAIN files \cup {w'.gen}
        /\ \A g \in DOMAIN files : g # w'.gen => files'[g] = files[g]
    BY <1>1, <1>14, OpenFiles
  <2>4. w'.closed = FALSE /\ (w'.gen \in DOMAIN files => ~HasFooter(files[w'.gen]))
    BY <1>1, <1>14, OpenWriter, Zenon
  <2>5. ASSUME NEW g \in DOMAIN metas' PROVE files'[g] = files[g] /\ files[g].items # << >> /\ g \in DOMAIN files
    BY <2>2, <2>3, <2>4, <2>5 DEF HasFooter
  <2>6. QED
    BY <1>3, <2>1, <2>3, <2>4, <2>5 DEF Lasting
<1>15. QED
  BY <1>6, <1>7, <1>8, <1>9, <1>10, <1>11, <1>12, <1>13, <1>14, StepKinds

-----------------------------------------------------------------------------
(***************************************************************************)
(* The active segment.                                                     *)
(***************************************************************************)
Sits(f, wr) ==
    \/ ~wr.closed /\ Clean(f, wr.dir)
    \/ Spoilt(f, wr.dir) /\ (~wr.closed => Len(wr.dir) < Len(f.items))

(* What spoils a file stays ahead of the next record's place. *)
LEMMA GrownSpoilt ==
    ASSUME NEW I, NEW f \in FileType(I), f.synced <= Len(f.items), NEW x \in I,
           NEW D, NEW dir \in Seq(D)
    PROVE  /\ Spoilt(f, dir) => Spoilt(Grown(f, x), dir)
           /\ Clean(f, dir) /\ x.kind # "record" => Spoilt(Grown(f, x), dir)
<1>1. Len(f.items) \in Nat /\ Len(dir) \in Nat
  BY DEF FileType
<1>2. /\ Len(Grown(f, x).items) = Len(f.items) + 1
      /\ Grown(f, x).items[Len(f.items) + 1] = x
      /\ \A i \in 1 .. Len(f.items) : Grown(f, x).items[i] = f.items[i]
  BY SMTT(40), GrownFile
<1>3. ASSUME Spoilt(f, dir) PROVE Spoilt(Grown(f, x), dir)
  <2>1. PICK i \in 1 .. Len(f.items) : i <= Len(dir) + 1 /\ f.items[i].kind # "record"
    BY <1>3 DEF Spoilt
  <2>2. i \in 1 .. Len(Grown(f, x).items) /\ Grown(f, x).items[i].kind # "record"
    BY <1>1, <1>2, <2>1
  <2>3. QED
    BY <2>1, <2>2 DEF Spoilt
<1>4. ASSUME Clean(f, dir), x.kind # "record" PROVE Spoilt(Grown(f, x), dir)
  BY <1>1, <1>2, <1>4 DEF Clean, Spoilt
<1>5. QED
  BY <1>3, <1>4

(* A record joins a file and the writer's directory. *)
LEMMA GrownActive ==
    ASSUME NEW I, NEW f \in FileType(I), f.synced <= Len(f.items), NEW x \in I,
           NEW D, NEW dir \in Seq(D), NEW e \in D
    PROVE  /\ Clean(f, dir) /\ x.kind = "record" /\ x.id = e.id => Clean(Grown(f, x), Append(dir, e))
           /\ Spoilt(f, dir) => Spoilt(f, Append(dir, e))
<1>1. Len(f.items) \in Nat /\ Len(dir) \in Nat
  BY DEF FileType
<1>2. /\ Len(Grown(f, x).items) = Len(f.items) + 1
      /\ Grown(f, x).items[Len(f.items) + 1] = x
      /\ \A i \in 1 .. Len(f.items) : Grown(f, x).items[i] = f.items[i]
  BY GrownFile
<1>3. /\ Len(Append(dir, e)) = Len(dir) + 1 /\ Append(dir, e)[Len(dir) + 1] = e
      /\ \A i \in 1 .. Len(dir) : Append(dir, e)[i] = dir[i]
  OBVIOUS
<1>4. ASSUME Clean(f, dir), x.kind = "record", x.id = e.id PROVE Clean(Grown(f, x), Append(dir, e))
  <2>1. Len(f.items) = Len(dir)
    BY <1>4 DEF Clean
  <2>2. ASSUME NEW k \in 1 .. Len(dir) + 1
        PROVE  /\ Grown(f, x).items[k].kind = "record"
               /\ Grown(f, x).items[k].id = Append(dir, e)[k].id
    BY <1>1, <1>2, <1>3, <1>4, <2>1 DEF Clean, Lists
  <2>3. QED
    BY <1>1, <1>2, <1>3, <2>1, <2>2 DEF Clean, Lists
<1>5. ASSUME Spoilt(f, dir) PROVE Spoilt(f, Append(dir, e))
  BY <1>1, <1>3, <1>5 DEF Spoilt
<1>6. QED
  BY <1>4, <1>5

(* The reopened buffer's active file holds the records it lists. *)
LEMMA OpenClean ==
    ASSUME TypeOK, GenInv, FileInv, Open
    PROVE  Clean(files'[w'.gen], w'.dir) /\ InOrder(w'.dir)
<1>1. CASE w'.gen \in DOMAIN files
  <2> DEFINE f == files[w'.gen]
  <2>1. /\ w'.dir = ScannedDir(f)
        /\ files'[w'.gen].items = SubSeq(f.items, 1, ValidEnd(f))
    BY <1>1, OpenWriter, Zenon
  <2>2. f \in FileType(Items) /\ \A i \in 1 .. Len(f.items) : FooterFits(f.items, i)
    BY <1>1, TypedDirectory DEF FileInv, IsDirectory
  <2> HIDE DEF f
  <2>3. /\ ScannedDir(f) \in Seq(DirEntries) /\ InOrder(ScannedDir(f)) /\ Len(ScannedDir(f)) = ValidEnd(f)
        /\ Lists(ScannedDir(f), f.items)
    BY <2>2, EntriesFit
  <2>4. ValidEnd(f) \in 0 .. Len(f.items)
    BY <2>2, ScanEnds DEF FileType
  <2>5. /\ Len(SubSeq(f.items, 1, ValidEnd(f))) = ValidEnd(f)
        /\ Begins(SubSeq(f.items, 1, ValidEnd(f)), f.items)
    BY <2>2, <2>4, CutFile
  <2>6. Clean(files'[w'.gen], ScannedDir(f))
    BY <2>1, <2>3, <2>4, <2>5 DEF Clean, Lists, Begins
  <2>7. QED
    BY <2>1, <2>3, <2>6, Zenon
<1>2. CASE w'.gen \notin DOMAIN files
  <2>1. w'.dir = << >> /\ files'[w'.gen].items = << >>
    BY <1>2, OpenWriter, Zenon
  <2>2. QED
    BY <2>1 DEF Clean, Lists, InOrder
<1>3. QED
  BY <1>1, <1>2

LEMMA ActiveStep ==
    ASSUME BufferInv, [Next]_vars
    PROVE  ActiveInv'
<1>1. TypeOK /\ OpInv /\ GenInv /\ IsDirectory(files, Items)
  BY TypedDirectory DEF BufferInv
<1>2. w \in WriterType(now) /\ w.gen \in Nat /\ w.dir \in Seq(DirEntries)
  BY <1>1 DEF TypeOK, WriterType
<1>3. /\ InOrder(w.dir)
      /\ pc # "down" /\ w.gen \in DOMAIN files => Sits(files[w.gen], w)
      /\ pc = "sync" => Spoilt(files[w.gen], w.dir)
  BY Zenon DEF BufferInv, ActiveInv, Sits
<1>4. pc # "down" => Running(files, w, metas, minGen)
  BY <1>1, GenParts
<1>5. SUFFICES /\ InOrder(w'.dir)
               /\ pc' # "down" /\ w'.gen \in DOMAIN files' => Sits(files'[w'.gen], w')
               /\ pc' = "sync" => Spoilt(files'[w'.gen], w'.dir)
  BY Zenon DEF ActiveInv, Sits, InOrder, Clean, Spoilt, Lists
<1>6. \A g \in DOMAIN files : files[g] \in FileType(Items) /\ files[g].synced <= Len(files[g].items)
  BY <1>1 DEF IsDirectory
<1>7. CASE Keeps
  <2>1. /\ files' = files /\ w'.gen = w.gen /\ w'.closed = w.closed /\ w'.dir = w.dir
        /\ pc' = "down" <=> pc = "down"
        /\ pc' = "sync" => pc = "sync"
    BY <1>2, <1>7 DEF Keeps, WriterType
  <2>2. QED
    BY <1>3, <2>1 DEF Sits
<1>8. ASSUME NEW id \in Ids, NEW at \in 0 .. now, Stores(id, at)
      PROVE  /\ InOrder(w'.dir) /\ pc' # "sync"
             /\ w'.gen \in DOMAIN files' => Sits(files'[w'.gen], w')
  <2>1. pc # "down" /\ pc' = "idle" /\ appended < MaxAppends /\ Put(id, at) /\ now' = now
    BY <1>8 DEF Stores
  <2> DEFINE e == [id |-> id, off |-> Len(w.dir)]
             x == Record(id, appended + 1, at)
  <2>2. w'.gen = w.gen /\ w'.closed = w.closed /\ w'.dir = Append(w.dir, e)
    BY <1>2, <2>1 DEF Put, WriterType
  <2>3. e \in DirEntries /\ e.id = id /\ e.off = Len(w.dir) /\ x.kind = "record" /\ x.id = id
    BY <1>2 DEF DirEntries, Record
  <2> HIDE DEF e, x
  <2>4. InOrder(Append(w.dir, e))
    BY <1>2, <1>3, <2>3 DEF InOrder
  <2>5. x \in Items
    <3>1. appended \in Nat /\ MaxAppends \in Nat
      BY <1>1, BufferBounds DEF TypeOK
    <3>2. appended + 1 \in 1 .. MaxAppends
      BY <2>1, <3>1
    <3>3. QED
      BY <3>2 DEF x, Items, Record
  <2>6. ASSUME w.gen \in DOMAIN files' PROVE Sits(files'[w.gen], w')
    <3>1. CASE w.closed
      <4>1. files' = files
        BY <1>1, <2>1, <3>1, PutFiles
      <4>2. Spoilt(files[w.gen], w.dir) /\ files[w.gen] \in FileType(Items) /\ files[w.gen].synced <= Len(files[w.gen].items)
        BY <1>3, <1>6, <2>1, <2>6, <3>1, <4>1 DEF Sits
      <4>3. Spoilt(files[w.gen], Append(w.dir, e))
        BY <1>2, <2>3, <2>5, <4>2, GrownActive
      <4>4. QED
        BY <2>2, <3>1, <4>1, <4>3 DEF Sits
    <3>2. CASE ~w.closed
      <4> DEFINE f == files[w.gen]
      <4>1. w.gen \in DOMAIN files /\ files'[w.gen] = Grown(f, x)
        BY <1>1, <2>1, <3>2, PutFiles DEF Changes, x
      <4>2. f \in FileType(Items) /\ f.synced <= Len(f.items) /\ f.items \in Seq(Items)
        BY <1>6, <4>1 DEF FileType
      <4>3. Clean(f, w.dir) \/ (Spoilt(f, w.dir) /\ Len(w.dir) < Len(f.items))
        BY <1>3, <2>1, <3>2, <4>1 DEF Sits
      <4> HIDE DEF f
      <4>4. CASE Clean(f, w.dir)
        <5>1. Clean(Grown(f, x), Append(w.dir, e))
          BY <1>2, <2>3, <2>5, <4>2, <4>4, GrownActive
        <5>2. QED
          BY <2>2, <3>2, <4>1, <5>1 DEF Sits
      <4>5. CASE Spoilt(f, w.dir) /\ Len(w.dir) < Len(f.items)
        <5>1. Grown(f, x) \in FileType(Items) /\ Grown(f, x).synced <= Len(Grown(f, x).items)
              /\ Len(Grown(f, x).items) = Len(f.items) + 1
          BY <2>5, <4>2, GrownFile
        <5>2. Spoilt(Grown(f, x), w.dir)
          BY <1>2, <2>5, <4>2, <4>5, GrownSpoilt
        <5>3. Spoilt(Grown(f, x), Append(w.dir, e))
          BY <1>2, <2>3, <2>5, <5>1, <5>2, GrownActive
        <5>4. Len(Append(w.dir, e)) < Len(f.items) + 1
          BY <1>2, <2>3, <4>2, <4>5
        <5>5. QED
          BY <2>2, <4>1, <5>1, <5>3, <5>4 DEF Sits
      <4>6. QED
        BY <4>3, <4>4, <4>5
    <3>3. QED
      BY <3>1, <3>2
  <2>7. QED
    BY <2>1, <2>2, <2>4, <2>6
<1>9. CASE RollFooter
  <2>1. pc' = "sync" /\ w' = w /\ pc # "down" /\ ~w.closed
    BY <1>9 DEF RollFooter, memVars
  <2> DEFINE f == files[w.gen]
             x == Footer(w.dir, w.tMax)
  <2>2. w.gen \in DOMAIN files /\ files'[w.gen] = Grown(f, x)
    BY <1>1, <1>9, FooterFiles DEF Changes
  <2>3. f \in FileType(Items) /\ f.synced <= Len(f.items) /\ f.items \in Seq(Items)
    BY <1>6, <2>2 DEF FileType
  <2>4. Clean(f, w.dir) \/ (Spoilt(f, w.dir) /\ Len(w.dir) < Len(f.items))
    BY <1>3, <2>1, <2>2 DEF Sits
  <2>5. x \in Items /\ x.kind = "footer"
    BY <1>1, <1>2 DEF Footer, Items, TypeOK
  <2> HIDE DEF f, x
  <2>6. Spoilt(Grown(f, x), w.dir)
    BY <1>2, <2>3, <2>4, <2>5, GrownSpoilt
  <2>7. Len(w.dir) < Len(Grown(f, x).items)
    BY <1>2, <2>3, <2>4, <2>5, GrownFile DEF Clean
  <2>8. QED
    BY <1>3, <2>1, <2>2, <2>6, <2>7 DEF Sits
<1>10. CASE RollSync \/ RollReopenFails
  <2>1. w.gen \in DOMAIN files /\ files' = [files EXCEPT ![w.gen] = Synced(@)] /\ pc = "sync" /\ ~w.closed
    BY <1>1, <1>10 DEF OpInv, GenInv, RollSync, RollReopenFails
  <2>2. files'[w.gen].items = files[w.gen].items
    BY <1>1, <2>1, SyncFiles
  <2>3. w'.gen = w.gen /\ w'.closed = TRUE /\ w'.dir = w.dir /\ pc' # "sync"
    BY <1>2, <1>10 DEF RollSync, RollReopenFails, RollFails, WriterType
  <2>4. Spoilt(files'[w.gen], w.dir)
    BY <1>3, <2>1, <2>2 DEF Spoilt
  <2>5. QED
    BY <1>3, <2>3, <2>4 DEF Sits
<1>11. CASE RollCreate
  <2>1. /\ w.gen + 1 \notin DOMAIN files /\ files' = With(files, w.gen + 1, EmptyFile)
        /\ pc' # "sync"
    BY <1>11 DEF RollCreate
  <2>2. w'.closed = FALSE /\ w'.dir = << >> /\ w'.gen = w.gen + 1
    BY <1>11 DEF RollCreate, NewWriter
  <2>3. files'[w.gen + 1].items = << >>
    <3>1. w.gen + 1 \in Nat \ {0}
      BY <1>2
    <3>2. QED
      BY <1>1, <2>1, <3>1, CreateFiles, Zenon
  <2>4. QED
    BY <2>1, <2>2, <2>3 DEF Sits, Clean, Lists, InOrder
<1>12. CASE ExpireRemove \/ ExpireOldest
  <2>1. RemoveOldest /\ w' = w /\ pc' = pc /\ pc \notin {"down", "sync"}
    BY <1>12 DEF ExpireRemove, ExpireOldest, opVars
  <2>2. DOMAIN files' = DOMAIN files \ {Oldest} /\ \A g \in DOMAIN files' : files'[g] = files[g]
    BY <1>1, <2>1, RemoveFiles
  <2>3. QED
    BY <1>3, <2>1, <2>2
<1>13. CASE ExpireSweep
  <2>1. files' = files /\ w' = w /\ pc' = "idle" /\ pc = "sweep"
    BY <1>13 DEF ExpireSweep
  <2>2. QED
    BY <1>3, <2>1
<1>14. CASE Close \/ Kill \/ PowerLoss
  <2>1. pc' = "down" /\ w'.dir = << >>
    BY <1>14 DEF Close, Kill, PowerLoss, GoDown, NewWriter
  <2>2. QED
    BY <2>1 DEF InOrder
<1>15. CASE Open
  <2>1. pc' = "idle" /\ w'.closed = FALSE
    BY <1>1, <1>15, OpenWriter DEF Open
  <2>2. FileInv
    BY DEF BufferInv
  <2>3. Clean(files'[w'.gen], w'.dir) /\ InOrder(w'.dir)
    BY <1>1, <1>15, <2>2, OpenClean
  <2>4. QED
    BY <2>1, <2>3 DEF Sits
<1>16. QED
  BY <1>7, <1>8, <1>9, <1>10, <1>11, <1>12, <1>13, <1>14, <1>15, StepKinds

-----------------------------------------------------------------------------
(***************************************************************************)
(* What the index leads to.                                                *)
(***************************************************************************)
CanRead(fs, l) ==
    /\ l.gen \in DOMAIN fs
    /\ l.off < Len(fs[l.gen].items)
    /\ \A i \in 1 .. l.off + 1 : fs[l.gen].items[i].kind = "record"

ReadsRight(fs, l) == CanRead(fs, l) => fs[l.gen].items[l.off + 1].id = l.id

NotAhead(wr, l) == l.gen <= wr.gen /\ (l.gen = wr.gen => l.off < Len(wr.dir))

IndexFits(fs, wr, s) ==
    /\ Ascending(s)
    /\ \A i \in 1 .. Len(s) : NotAhead(wr, s[i]) /\ ReadsRight(fs, s[i])

(* A loc still reads the same in a directory of beginnings. *)
LEMMA ReadsOfBeginnings ==
    ASSUME NEW I, NEW fs, NEW fs1, IsDirectory(fs, I), IsDirectory(fs1, I), Shrinks(fs, fs1),
           NEW l \in LocType, CanRead(fs1, l)
    PROVE  CanRead(fs, l) /\ fs[l.gen].items[l.off + 1] = fs1[l.gen].items[l.off + 1]
<1>1. l.off \in Nat /\ l.gen \in DOMAIN fs1 /\ l.off < Len(fs1[l.gen].items)
  BY DEF LocType, CanRead
<1>2. fs1[l.gen].items \in Seq(I)
  BY <1>1 DEF IsDirectory, FileType
<1>3. fs1[l.gen].items # << >>
  BY <1>1
<1>4. l.gen \in DOMAIN fs /\ Begins(fs1[l.gen].items, fs[l.gen].items)
  BY <1>1, <1>3 DEF Shrinks
<1>5. fs[l.gen].items \in Seq(I)
  BY <1>4 DEF IsDirectory, FileType
<1>6. /\ Len(fs1[l.gen].items) <= Len(fs[l.gen].items)
      /\ \A i \in 1 .. l.off + 1 : fs1[l.gen].items[i] = fs[l.gen].items[i]
  BY <1>1, <1>2, <1>4, <1>5 DEF Begins
<1>7. l.off < Len(fs[l.gen].items)
  BY <1>1, <1>2, <1>5, <1>6
<1>8. \A i \in 1 .. l.off + 1 : fs1[l.gen].items[i].kind = "record"
  BY DEF CanRead
<1>9. \A i \in 1 .. l.off + 1 : fs[l.gen].items[i].kind = "record"
  BY <1>6, <1>8
<1>10. l.off + 1 \in 1 .. l.off + 1
  BY <1>1
<1>11. QED
  BY <1>4, <1>6, <1>7, <1>9, <1>10, Zenon DEF CanRead

(* A loc that is not past the end of a file reads the same when it grows. *)
LEMMA ReadsOfGrown ==
    ASSUME NEW I, NEW fs, NEW fs1, IsDirectory(fs, I), NEW g, NEW x \in I,
           Changes(fs, fs1, g, Grown(fs[g], x)),
           NEW l \in LocType, l.gen = g => l.off < Len(fs[g].items), ReadsRight(fs, l)
    PROVE  ReadsRight(fs1, l)
<1>1. SUFFICES ASSUME CanRead(fs1, l) PROVE fs1[l.gen].items[l.off + 1].id = l.id
  BY DEF ReadsRight
<1>2. l.off \in Nat /\ l.gen \in DOMAIN fs1 /\ DOMAIN fs1 = DOMAIN fs /\ g \in DOMAIN fs
  BY <1>1 DEF LocType, CanRead, Changes
<1>3. CASE l.gen # g
  <2>1. fs1[l.gen] = fs[l.gen]
    BY <1>2, <1>3 DEF Changes
  <2>2. QED
    BY <1>1, <1>2, <2>1 DEF CanRead, ReadsRight
<1>4. CASE l.gen = g
  <2>1. fs[g] \in FileType(I) /\ fs[g].synced <= Len(fs[g].items) /\ fs[g].items \in Seq(I)
    BY <1>2 DEF IsDirectory, FileType
  <2>2. fs1[g] = Grown(fs[g], x)
    BY DEF Changes
  <2>3. \A i \in 1 .. Len(fs[g].items) : fs1[g].items[i] = fs[g].items[i]
    <3> DEFINE f == fs[g]
    <3>1. f \in FileType(I) /\ f.synced <= Len(f.items) /\ fs1[g] = Grown(f, x)
      BY <2>1, <2>2
    <3> HIDE DEF f
    <3>2. \A i \in 1 .. Len(f.items) : Grown(f, x).items[i] = f.items[i]
      BY <3>1, GrownFile
    <3>3. \A i \in 1 .. Len(f.items) : fs1[g].items[i] = f.items[i]
      BY <3>1, <3>2, Zenon
    <3>4. QED
      BY <3>3 DEF f
  <2>4. \A i \in 1 .. l.off + 1 : fs1[g].items[i] = fs[g].items[i]
    BY <1>2, <1>4, <2>1, <2>3
  <2>5. CanRead(fs, l)
    BY <1>1, <1>2, <1>4, <2>4 DEF CanRead
  <2>6. QED
    BY <1>2, <1>4, <2>4, <2>5 DEF ReadsRight
<1>5. QED
  BY <1>3, <1>4

(* The index fits the next state if no file grows and the writer does not  *)
(* fall back.                                                              *)
LEMMA IndexKept ==
    ASSUME NEW I, NEW fs, NEW fs1, IsDirectory(fs, I), IsDirectory(fs1, I), Shrinks(fs, fs1),
           NEW wr, NEW wr1, NEW s \in Seq(LocType), IndexFits(fs, wr, s),
           \A l \in LocType : NotAhead(wr, l) => NotAhead(wr1, l)
    PROVE  IndexFits(fs1, wr1, s)
<1>1. ASSUME NEW i \in 1 .. Len(s) PROVE NotAhead(wr1, s[i]) /\ ReadsRight(fs1, s[i])
  <2>1. s[i] \in LocType /\ NotAhead(wr, s[i]) /\ ReadsRight(fs, s[i])
    BY <1>1 DEF IndexFits
  <2>2. ReadsRight(fs1, s[i])
    BY <2>1, ReadsOfBeginnings DEF ReadsRight
  <2>3. QED
    BY <2>1, <2>2
<1>2. QED
  BY <1>1 DEF IndexFits

LEMMA IdxStep ==
    ASSUME BufferInv, [Next]_vars
    PROVE  IdxInv'
<1>1. /\ TypeOK /\ OpInv /\ GenInv /\ FileInv /\ IsDirectory(files, Items) /\ IsDirectory(files', Items)
  BY TypedDirectory, NextFiles DEF BufferInv
<1>2. /\ w \in WriterType(now) /\ w.gen \in Nat /\ w.dir \in Seq(DirEntries) /\ Len(w.dir) \in Nat
      /\ idx \in Seq(LocType)
  BY <1>1 DEF TypeOK, WriterType, LocType
<1>3. IndexFits(files, w, idx)
  BY Zenon DEF BufferInv, IdxInv, IndexFits, Ascending, NotAhead, ReadsRight, CanRead, InPlace, Item
<1>4. pc # "down" /\ w.gen \in DOMAIN files => Sits(files[w.gen], w)
  BY Zenon DEF BufferInv, ActiveInv, Sits
<1>5. SUFFICES IndexFits(files', w', idx')
  BY Zenon DEF IdxInv, IndexFits, Ascending, Before, NotAhead, ReadsRight, CanRead, InPlace, Item
<1>6. \A g \in DOMAIN files : files[g] \in FileType(Items) /\ files[g].synced <= Len(files[g].items)
  BY <1>1 DEF IsDirectory
<1>7. ASSUME Shrinks(files, files'), idx' = idx, \A l \in LocType : NotAhead(w, l) => NotAhead(w', l)
      PROVE  IndexFits(files', w', idx')
  <2>1. IndexFits(files', w', idx)
    BY <1>1, <1>2, <1>3, <1>7, IndexKept
  <2>2. QED
    BY <1>7, <2>1, Zenon
<1>8. ASSUME files' = files PROVE Shrinks(files, files')
  BY <1>8 DEF Shrinks, Begins
<1>9. ASSUME w'.gen = w.gen, w'.dir = w.dir PROVE \A l \in LocType : NotAhead(w, l) => NotAhead(w', l)
  BY <1>9 DEF NotAhead
<1>10. ASSUME pc # "down", ~w.closed, NEW l \in LocType, NotAhead(w, l)
       PROVE  l.gen = w.gen => l.off < Len(files[w.gen].items)
  <2>1. w.gen \in DOMAIN files
    BY <1>1, <1>10 DEF GenInv
  <2>2. files[w.gen].items \in Seq(Items)
    BY <1>6, <2>1 DEF FileType
  <2>3. Len(w.dir) <= Len(files[w.gen].items)
    BY <1>2, <1>4, <1>10, <2>1, <2>2 DEF Sits, Clean
  <2>4. QED
    BY <1>2, <1>10, <2>2, <2>3 DEF NotAhead, LocType
<1>11. CASE Keeps
  <2>1. files' = files /\ idx' = idx /\ w'.gen = w.gen /\ w'.dir = w.dir
    BY <1>2, <1>11 DEF Keeps, WriterType
  <2>2. QED
    BY <1>7, <1>8, <1>9, <2>1
<1>12. ASSUME NEW id \in Ids, NEW at \in 0 .. now, Stores(id, at)
       PROVE  IndexFits(files', w', idx')
  <2>1. pc # "down" /\ appended < MaxAppends /\ Put(id, at) /\ now' = now
    BY <1>12 DEF Stores
  <2> DEFINE l0 == [id |-> id, gen |-> w.gen, off |-> Len(w.dir)]
             x == Record(id, appended + 1, at)
  <2>2. w'.gen = w.gen /\ Len(w'.dir) = Len(w.dir) + 1 /\ idx' = Append(idx, l0)
    BY <1>2, <2>1 DEF Put, WriterType
  <2>3. l0 \in LocType /\ l0.gen = w.gen /\ l0.off = Len(w.dir) /\ l0.id = id /\ x.kind = "record" /\ x.id = id
    BY <1>2 DEF LocType, Record
  <2>4. x \in Items
    <3>1. appended \in Nat /\ MaxAppends \in Nat
      BY <1>1, BufferBounds DEF TypeOK
    <3>2. appended + 1 \in 1 .. MaxAppends
      BY <2>1, <3>1
    <3>3. QED
      BY <3>2 DEF Items, Record
  <2>5. /\ w.closed => files' = files
        /\ ~w.closed => Changes(files, files', w.gen, Grown(files[w.gen], x))
    BY <1>1, <2>1, PutFiles
  <2> HIDE DEF l0, x
  <2>6. ASSUME NEW l \in LocType, NotAhead(w, l), ReadsRight(files, l)
        PROVE  NotAhead(w', l) /\ ReadsRight(files', l) /\ Before(l, l0)
    <3>1. NotAhead(w', l) /\ Before(l, l0)
      BY <1>2, <2>2, <2>3, <2>6 DEF NotAhead, Before, LocType
    <3>2. CASE w.closed
      BY <2>5, <2>6, <3>1, <3>2
    <3>3. CASE ~w.closed
      <4>1. l.gen = w.gen => l.off < Len(files[w.gen].items)
        BY <1>10, <2>1, <2>6, <3>3
      <4>2. ReadsRight(files', l)
        BY <1>1, <2>4, <2>5, <2>6, <3>3, <4>1, ReadsOfGrown
      <4>3. QED
        BY <3>1, <4>2
    <3>4. QED
      BY <3>2, <3>3
  <2>7. NotAhead(w', l0)
    BY <1>2, <2>2, <2>3 DEF NotAhead
  <2>8. ReadsRight(files', l0)
    <3>1. SUFFICES ASSUME w.gen \in DOMAIN files', CanRead(files', l0)
                   PROVE  files'[w.gen].items[Len(w.dir) + 1].id = id
      BY <2>3 DEF ReadsRight, CanRead
    <3>2. \A i \in 1 .. Len(w.dir) + 1 : files'[w.gen].items[i].kind = "record"
      BY <2>3, <3>1 DEF CanRead
    <3>3. ~Spoilt(files'[w.gen], w.dir)
      <4>1. files'[w.gen].items \in Seq(Items)
        BY <1>1, <3>1 DEF IsDirectory, FileType
      <4>2. QED
        BY <1>2, <3>2, <4>1 DEF Spoilt
    <3>4. CASE w.closed
      BY <1>4, <2>1, <2>5, <3>1, <3>3, <3>4 DEF Sits
    <3>5. CASE ~w.closed
      <4> DEFINE f == files[w.gen]
      <4>1. w.gen \in DOMAIN files /\ files'[w.gen] = Grown(f, x)
        BY <2>5, <3>5 DEF Changes
      <4>2. f \in FileType(Items) /\ f.synced <= Len(f.items)
        BY <1>6, <4>1
      <4>3. Clean(f, w.dir) \/ Spoilt(f, w.dir)
        BY <1>4, <2>1, <4>1 DEF Sits
      <4> HIDE DEF f
      <4>4. ~Spoilt(f, w.dir)
        BY <1>2, <2>4, <3>3, <4>1, <4>2, GrownSpoilt
      <4>5. Len(f.items) = Len(w.dir)
        BY <4>3, <4>4 DEF Clean
      <4>6. Grown(f, x).items[Len(f.items) + 1] = x
        BY <2>4, <4>2, GrownFile
      <4>7. QED
        BY <2>3, <4>1, <4>5, <4>6
    <3>6. QED
      BY <3>4, <3>5
  <2>9. Ascending(Append(idx, l0))
    <3>1. ASSUME NEW i \in 1 .. Len(idx) + 1, NEW j \in 1 .. Len(idx) + 1, i < j
          PROVE  Before(Append(idx, l0)[i], Append(idx, l0)[j])
      <4>1. i \in 1 .. Len(idx) /\ Append(idx, l0)[i] = idx[i] /\ idx[i] \in LocType
        BY <1>2, <2>3, <3>1
      <4>2. CASE j \in 1 .. Len(idx)
        <5>1. Append(idx, l0)[j] = idx[j]
          BY <1>2, <2>3, <4>2
        <5>2. QED
          BY <1>3, <3>1, <4>1, <4>2, <5>1 DEF IndexFits, Ascending
      <4>3. CASE j = Len(idx) + 1
        <5>1. Append(idx, l0)[j] = l0
          BY <1>2, <2>3, <4>3
        <5>2. QED
          BY <1>3, <2>6, <4>1, <5>1 DEF IndexFits
      <4>4. QED
        BY <4>2, <4>3
    <3>2. Len(Append(idx, l0)) = Len(idx) + 1
      BY <1>2, <2>3
    <3>3. QED
      BY <3>1, <3>2 DEF Ascending
  <2>10. ASSUME NEW i \in 1 .. Len(idx) + 1
         PROVE  NotAhead(w', Append(idx, l0)[i]) /\ ReadsRight(files', Append(idx, l0)[i])
    <3>1. CASE i \in 1 .. Len(idx)
      <4>1. Append(idx, l0)[i] = idx[i] /\ idx[i] \in LocType
        BY <1>2, <2>3, <3>1
      <4>2. QED
        BY <1>3, <2>6, <3>1, <4>1 DEF IndexFits
    <3>2. CASE i = Len(idx) + 1
      <4>1. Append(idx, l0)[i] = l0
        BY <1>2, <2>3, <3>2
      <4>2. QED
        BY <2>7, <2>8, <4>1
    <3>3. QED
      BY <3>1, <3>2
  <2>11. Len(Append(idx, l0)) = Len(idx) + 1
    BY <1>2, <2>3
  <2>12. IndexFits(files', w', Append(idx, l0))
    BY <2>9, <2>10, <2>11 DEF IndexFits
  <2>13. QED
    BY <2>2, <2>12, Zenon
<1>13. CASE RollFooter
  <2>1. w' = w /\ idx' = idx /\ pc # "down" /\ ~w.closed
    BY <1>13 DEF RollFooter, memVars
  <2> DEFINE x == Footer(w.dir, w.tMax)
  <2>2. Changes(files, files', w.gen, Grown(files[w.gen], x))
    BY <1>1, <1>13, FooterFiles
  <2>3. x \in Items
    BY <1>1, <1>2 DEF Footer, Items, TypeOK
  <2> HIDE DEF x
  <2>4. ASSUME NEW i \in 1 .. Len(idx) PROVE NotAhead(w, idx[i]) /\ ReadsRight(files', idx[i])
    <3>1. idx[i] \in LocType /\ NotAhead(w, idx[i]) /\ ReadsRight(files, idx[i])
      BY <1>2, <1>3, <2>4 DEF IndexFits
    <3>2. idx[i].gen = w.gen => idx[i].off < Len(files[w.gen].items)
      BY <1>10, <2>1, <3>1
    <3>3. QED
      BY <1>1, <2>2, <2>3, <3>1, <3>2, ReadsOfGrown
  <2>5. IndexFits(files', w, idx)
    BY <1>3, <2>4 DEF IndexFits
  <2>6. QED
    BY <2>1, <2>5, Zenon
<1>14. CASE RollSync \/ RollReopenFails
  <2>1. w.gen \in DOMAIN files /\ files' = [files EXCEPT ![w.gen] = Synced(@)] /\ idx' = idx
    BY <1>1, <1>14 DEF OpInv, GenInv, RollSync, RollReopenFails, RollFails
  <2>2. w'.gen = w.gen /\ w'.dir = w.dir
    BY <1>2, <1>14 DEF RollSync, RollReopenFails, WriterType
  <2>3. Shrinks(files, files')
    BY <1>1, <2>1, SyncFiles
  <2>4. QED
    BY <1>7, <1>9, <2>1, <2>2, <2>3
<1>15. CASE RollCreate
  <2>1. w.gen + 1 \notin DOMAIN files /\ files' = With(files, w.gen + 1, EmptyFile) /\ idx' = idx
    BY <1>15 DEF RollCreate
  <2>2. w'.gen = w.gen + 1
    BY <1>15 DEF RollCreate, NewWriter
  <2>3. Shrinks(files, files')
    <3>1. w.gen + 1 \in Nat \ {0}
      BY <1>2
    <3>2. QED
      BY <1>1, <2>1, <3>1, CreateFiles, Zenon
  <2>4. \A l \in LocType : NotAhead(w, l) => NotAhead(w', l)
    BY <1>2, <2>2 DEF NotAhead, LocType
  <2>5. QED
    BY <1>7, <2>1, <2>3, <2>4
<1>16. CASE ExpireRemove \/ ExpireOldest
  <2>1. RemoveOldest /\ w' = w /\ idx' = idx
    BY <1>16 DEF ExpireRemove, ExpireOldest
  <2>2. Shrinks(files, files')
    BY <1>1, <2>1, RemoveFiles
  <2>3. QED
    BY <1>7, <1>9, <2>1, <2>2
<1>17. CASE ExpireSweep
  <2>1. files' = files /\ w' = w
    BY <1>17 DEF ExpireSweep
  <2>2. PICK S \in SUBSET {id \in Ids : Dead(id)} : idx' = Freed(S)
    BY <1>17 DEF ExpireSweep
  <2>3. Ascending(idx)
    BY <1>3 DEF IndexFits
  <2>4. /\ Ascending(Freed(S))
        /\ \A k \in 1 .. Len(Freed(S)) : \E i \in 1 .. Len(idx) : Freed(S)[k] = idx[i]
    BY <1>2, <2>3, SweptIndex
  <2>5. ASSUME NEW k \in 1 .. Len(Freed(S)) PROVE NotAhead(w, Freed(S)[k]) /\ ReadsRight(files, Freed(S)[k])
    <3>1. PICK i \in 1 .. Len(idx) : Freed(S)[k] = idx[i]
      BY <2>4, <2>5
    <3>2. QED
      BY <1>3, <3>1 DEF IndexFits
  <2>6. IndexFits(files, w, Freed(S))
    BY <2>4, <2>5 DEF IndexFits
  <2>7. QED
    BY <2>1, <2>2, <2>6, Zenon
<1>18. CASE Close \/ Kill \/ PowerLoss
  <2>1. idx' = << >>
    BY <1>18 DEF Close, Kill, PowerLoss, GoDown
  <2>2. QED
    BY <2>1 DEF IndexFits, Ascending
<1>19. CASE Open
  <2>1. idx' = RecoveredLocs
    BY <1>19 DEF Open
  <2>2. Shrinks(files, files') /\ w'.gen \in Nat /\ \A g \in DOMAIN files : g <= w'.gen
    BY <1>1, <1>19, OpenFiles
  <2>3. w'.gen \in DOMAIN files => ~HasFooter(files[w'.gen]) /\ w'.dir = ScannedDir(files[w'.gen])
    BY <1>1, <1>19, OpenWriter, Zenon
  <2>4. RecoveredLocs \in Seq(LocType) /\ Ascending(RecoveredLocs)
    BY <1>1, RecoveredIndex
  <2>5. ASSUME NEW k \in 1 .. Len(RecoveredLocs)
        PROVE  NotAhead(w', RecoveredLocs[k]) /\ ReadsRight(files', RecoveredLocs[k])
    <3> DEFINE l == RecoveredLocs[k]
               f == files[l.gen]
    <3>1. /\ l \in LocType /\ l.gen \in DOMAIN files /\ l.off < Len(Entries(f))
          /\ l.id = Entries(f)[l.off + 1].id
      BY <1>1, <2>4, <2>5, RecoveredIndex
    <3>2. f \in FileType(Items) /\ \A i \in 1 .. Len(f.items) : FooterFits(f.items, i)
      BY <1>1, <1>6, <3>1 DEF FileInv
    <3>3. l.gen = w'.gen => Entries(f) = w'.dir
      BY <2>3, <3>1 DEF Entries
    <3> HIDE DEF l
    <3>4. NotAhead(w', l)
      BY <2>2, <3>1, <3>3 DEF NotAhead
    <3>5. Entries(f) \in Seq(DirEntries) /\ Lists(Entries(f), f.items)
      BY <3>2, EntriesFit
    <3>6. f.items[l.off + 1].id = l.id
      <4>1. l.off + 1 \in 1 .. Len(Entries(f))
        BY <3>1, <3>5 DEF LocType
      <4>2. QED
        BY <3>1, <3>5, <4>1 DEF Lists
    <3>7. ReadsRight(files', l)
      <4>1. SUFFICES ASSUME CanRead(files', l) PROVE files'[l.gen].items[l.off + 1].id = l.id
        BY DEF ReadsRight
      <4>2. files[l.gen].items[l.off + 1] = files'[l.gen].items[l.off + 1]
        BY <1>1, <2>2, <3>1, <4>1, ReadsOfBeginnings
      <4>3. QED
        BY <3>6, <4>2
    <3>8. QED
      BY <3>4, <3>7 DEF l
  <2>6. IndexFits(files', w', RecoveredLocs)
    BY <2>4, <2>5 DEF IndexFits
  <2>7. QED
    BY <2>1, <2>6, Zenon
<1>20. QED
  BY <1>11, <1>12, <1>13, <1>14, <1>15, <1>16, <1>17, <1>18, <1>19, StepKinds

-----------------------------------------------------------------------------
(***************************************************************************)
(* Footers, as long as no fsync fails.                                     *)
(***************************************************************************)
Footed(fs, wr, ms, c) ==
    /\ c \notin {"down", "sync"} /\ ~wr.closed => Clean(fs[wr.gen], wr.dir)
    /\ c = "sync" => HasFooter(fs[wr.gen])
    /\ \A g \in DOMAIN ms : HasFooter(fs[g])

(* A footer is a matter of the items. *)
LEMMA SameFooter ==
    ASSUME NEW f, NEW f1, f1.items = f.items, HasFooter(f)
    PROVE  HasFooter(f1)
BY DEF HasFooter

(* Whatever ends a running buffer leaves the finalized segments whole; the *)
(* one that may have no footer is the newest.                              *)
LEMMA OpenableStep ==
    ASSUME BufferInv, UnmixedCrashes, "sync" \notin Faults, Close \/ Kill \/ PowerLoss
    PROVE  Openable'
<1>1. TypeOK /\ GenInv /\ DurableInv /\ IsDirectory(files, Items)
  BY TypedDirectory DEF BufferInv
<1>2. pc # "down" /\ w.gen \in Nat
  BY <1>1 DEF Close, Kill, PowerLoss, TypeOK
<1>3. Running(files, w, metas, minGen)
  BY <1>1, <1>2, GenParts
<1>4. ASSUME NEW g \in DOMAIN metas, g \in DOMAIN files' PROVE HasFooter(files'[g])
  <2>1. g \in DOMAIN files /\ HasFooter(files[g])
    BY <1>3 DEF BufferInv, FooterInv, Running
  <2>2. files'[g].items = files[g].items
    <3>1. CASE Close
      <4>1. w.gen \in DOMAIN files /\ files' = [files EXCEPT ![w.gen] = Synced(@)]
        BY <1>1, <3>1 DEF GenInv, Close
      <4>2. QED
        BY <1>1, <2>1, <4>1, SyncFiles
    <3>2. CASE Kill
      <4>1. CASE g # w.gen
        BY <1>1, <2>1, <3>2, <4>1, KillFiles
      <4>2. CASE g = w.gen
        <5>1. w.closed
          BY <1>3, <4>2 DEF Running
        <5>2. Durable(files[w.gen])
          BY <1>1, <2>1, <4>2, <5>1 DEF DurableInv
        <5>3. files' = files
          BY <1>1, <2>1, <3>2, <4>2, <5>2, KillFiles
        <5>4. QED
          BY <5>3
      <4>3. QED
        BY <4>1, <4>2
    <3>3. CASE PowerLoss
      <4>1. Durable(files[g])
        BY <1>1, <2>1, <3>3 DEF DurableInv, PowerLoss, GoDown
      <4>2. QED
        BY <1>1, <1>4, <3>3, <4>1, PowerFiles
    <3>4. QED
      BY <3>1, <3>2, <3>3
  <2>3. QED
    BY <2>1, <2>2, SameFooter
<1>5. DOMAIN files' \subseteq DOMAIN files
  <2>1. ASSUME Close PROVE DOMAIN files' = DOMAIN files
    <3>1. w.gen \in DOMAIN files /\ files' = [files EXCEPT ![w.gen] = Synced(@)]
      BY <1>1, <2>1 DEF GenInv, Close
    <3>2. QED
      BY <3>1
  <2>2. QED
    BY <1>1, <2>1, KillFiles, PowerFiles
<1>6. ASSUME NEW g \in DOMAIN files', g \notin DOMAIN metas PROVE g = Newest'
  <2>1. g = w.gen /\ DOMAIN files' \subseteq 1 .. w.gen
    BY <1>3, <1>5, <1>6 DEF Running
  <2>2. IsFiniteSet(DOMAIN files') /\ DOMAIN files' \in SUBSET Int /\ DOMAIN files' # {}
    BY <1>1, <1>5, <1>6, <2>1, FS_Subset DEF GenInv
  <2> DEFINE D == DOMAIN files'
  <2> HIDE DEF D
  <2>3. IsFiniteSet(D) /\ D \in SUBSET Int /\ D # {} /\ D \subseteq 1 .. w.gen /\ w.gen \in D
    BY <1>6, <2>1, <2>2 DEF D
  <2>4. Max(D) \in D /\ \A y \in D : y <= Max(D)
    BY <2>3, MaxIsGreatest
  <2>5. Max(D) = w.gen
    <3>1. Max(D) \in 1 .. w.gen /\ w.gen <= Max(D)
      BY <2>3, <2>4, Zenon
    <3>2. QED
      BY <1>2, <3>1
  <2>6. QED
    BY <2>1, <2>5 DEF D, Newest
<1>7. \A g \in DOMAIN files' : HasFooter(files'[g]) \/ g = Newest'
  BY <1>4, <1>6
<1>8. QED
  BY <1>7, Zenon DEF Openable, Recoverable, HasFooter

LEMMA FooterStep ==
    ASSUME BufferInv, [Next]_vars
    PROVE  FooterInv'
<1> SUFFICES ASSUME "sync" \notin Faults
             PROVE  Footed(files', w', metas', pc') /\ (UnmixedCrashes => Openable')
  BY Zenon DEF FooterInv, Footed, Clean, Lists, HasFooter
<1>1. TypeOK /\ OpInv /\ GenInv /\ FileInv /\ IsDirectory(files, Items)
  BY TypedDirectory DEF BufferInv
<1>2. w \in WriterType(now) /\ w.gen \in Nat /\ w.dir \in Seq(DirEntries)
  BY <1>1 DEF TypeOK, WriterType
<1>3. Footed(files, w, metas, pc) /\ (UnmixedCrashes => Openable)
  BY Zenon DEF BufferInv, FooterInv, Footed
<1>4. pc # "down" => Running(files, w, metas, minGen)
  BY <1>1, GenParts
<1>5. \A g \in DOMAIN files : files[g] \in FileType(Items) /\ files[g].synced <= Len(files[g].items)
  BY <1>1 DEF IsDirectory
<1>6. ASSUME pc' # "down" PROVE Openable'
  BY <1>6 DEF Openable
<1>7. CASE Keeps
  <2>1. /\ files' = files /\ w'.gen = w.gen /\ w'.closed = w.closed /\ w'.dir = w.dir /\ metas' = metas
        /\ pc' = "down" <=> pc = "down"
        /\ pc' = "sync" <=> pc = "sync"
    BY <1>2, <1>7 DEF Keeps, WriterType
  <2>2. Footed(files, w', metas, pc')
    BY <1>3, <2>1, Zenon DEF Footed
  <2>3. Openable => Openable'
    BY <2>1, Zenon DEF Openable, Recoverable, Newest, HasFooter
  <2>4. QED
    BY <1>3, <2>1, <2>2, <2>3, Zenon
<1>8. ASSUME NEW id \in Ids, NEW at \in 0 .. now, Stores(id, at)
      PROVE  Footed(files', w', metas', pc') /\ pc' # "down"
  <2>1. pc \in {"idle", "append"} /\ pc' = "idle" /\ appended < MaxAppends /\ Put(id, at) /\ now' = now
    BY <1>8 DEF Stores
  <2> DEFINE e == [id |-> id, off |-> Len(w.dir)]
             x == Record(id, appended + 1, at)
  <2>2. w'.gen = w.gen /\ w'.closed = w.closed /\ w'.dir = Append(w.dir, e) /\ metas' = metas
    BY <1>2, <2>1 DEF Put, WriterType
  <2>3. e \in DirEntries /\ e.id = id /\ x.kind = "record" /\ x.id = id
    BY <1>2 DEF DirEntries, Record
  <2>4. x \in Items
    <3>1. appended \in Nat /\ MaxAppends \in Nat
      BY <1>1, BufferBounds DEF TypeOK
    <3>2. appended + 1 \in 1 .. MaxAppends
      BY <2>1, <3>1
    <3>3. QED
      BY <3>2 DEF Items, Record
  <2>5. /\ w.closed => files' = files
        /\ ~w.closed => Changes(files, files', w.gen, Grown(files[w.gen], x))
    BY <1>1, <2>1, PutFiles
  <2> HIDE DEF e, x
  <2>6. ASSUME ~w.closed PROVE Clean(files'[w.gen], Append(w.dir, e))
    <3> DEFINE f == files[w.gen]
    <3>1. w.gen \in DOMAIN files /\ files'[w.gen] = Grown(f, x)
      BY <2>5, <2>6 DEF Changes
    <3>2. f \in FileType(Items) /\ f.synced <= Len(f.items)
      BY <1>5, <3>1
    <3>3. Clean(f, w.dir)
      BY <1>3, <2>1, <2>6 DEF Footed
    <3> HIDE DEF f
    <3>4. Clean(Grown(f, x), Append(w.dir, e))
      BY <1>2, <2>3, <2>4, <3>2, <3>3, GrownActive
    <3>5. QED
      BY <3>1, <3>4
  <2>7. ASSUME NEW g \in DOMAIN metas PROVE HasFooter(files'[g])
    <3>1. files'[g] = files[g]
      BY <1>4, <2>1, <2>5, <2>7 DEF Running, Changes
    <3>2. QED
      BY <1>3, <3>1 DEF Footed
  <2>8. QED
    BY <2>1, <2>2, <2>6, <2>7, Zenon DEF Footed
<1>9. CASE RollFooter
  <2>1. pc' = "sync" /\ w' = w /\ metas' = metas /\ pc = "finalize" /\ ~w.closed
    BY <1>9 DEF RollFooter, memVars
  <2> DEFINE f == files[w.gen]
             x == Footer(w.dir, w.tMax)
  <2>2. Changes(files, files', w.gen, Grown(f, x)) /\ w.gen \in DOMAIN files
    BY <1>1, <1>9, FooterFiles DEF Changes
  <2>3. f \in FileType(Items) /\ f.synced <= Len(f.items) /\ f.items \in Seq(Items)
    BY <1>5, <2>2 DEF FileType
  <2>4. Len(f.items) = Len(w.dir)
    BY <1>3, <2>1 DEF Footed, Clean
  <2>5. x \in Items /\ x.kind = "footer" /\ x.off = Len(w.dir)
    BY <1>1, <1>2 DEF Footer, Items, TypeOK
  <2> HIDE DEF f, x
  <2>6. HasFooter(Grown(f, x))
    <3>1. /\ Len(Grown(f, x).items) = Len(f.items) + 1
          /\ Grown(f, x).items[Len(f.items) + 1] = x
          /\ Grown(f, x).items = Append(f.items, x)
      BY <2>3, <2>5, GrownFile
    <3>2. Last(Grown(f, x).items) = x
      BY <3>1 DEF Last
    <3>3. Grown(f, x).items # << >>
      BY <2>3, <2>5, <3>1
    <3>4. QED
      BY <2>4, <2>5, <3>1, <3>2, <3>3 DEF HasFooter
  <2>7. ASSUME NEW g \in DOMAIN metas PROVE HasFooter(files'[g])
    <3>1. files'[g] = files[g]
      BY <1>4, <2>1, <2>2, <2>7 DEF Running, Changes
    <3>2. QED
      BY <1>3, <3>1 DEF Footed
  <2>8. files'[w.gen] = Grown(f, x)
    BY <2>2 DEF Changes
  <2>9. QED
    BY <1>6, <2>1, <2>6, <2>7, <2>8 DEF Footed
<1>10. CASE RollSync \/ RollReopenFails
  <2>1. w.gen \in DOMAIN files /\ files' = [files EXCEPT ![w.gen] = Synced(@)] /\ pc = "sync" /\ ~w.closed
    BY <1>1, <1>10 DEF OpInv, GenInv, RollSync, RollReopenFails
  <2>2. \A g \in DOMAIN files : files'[g].items = files[g].items
    BY <1>1, <2>1, SyncFiles
  <2>3. w'.closed = TRUE /\ pc' \notin {"sync", "down"}
    BY <1>2, <1>10 DEF RollSync, RollReopenFails, RollFails, WriterType
  <2>4. DOMAIN metas' \subseteq DOMAIN metas \cup {w.gen}
    BY <1>10 DEF RollSync, RollReopenFails, With
  <2>5. ASSUME NEW g \in DOMAIN metas' PROVE HasFooter(files'[g])
    <3>1. g \in DOMAIN files /\ HasFooter(files[g])
      BY <1>3, <1>4, <2>1, <2>4, <2>5 DEF Running, Footed
    <3>2. QED
      BY <2>2, <3>1, SameFooter
  <2>6. QED
    BY <1>6, <2>3, <2>5 DEF Footed
<1>11. CASE RollCreate
  <2>1. /\ w.gen + 1 \notin DOMAIN files /\ files' = With(files, w.gen + 1, EmptyFile)
        /\ pc' \notin {"sync", "down"} /\ pc # "down" /\ metas' = metas
    BY <1>11 DEF RollCreate
  <2>2. w'.dir = << >> /\ w'.gen = w.gen + 1
    BY <1>11 DEF RollCreate, NewWriter
  <2>3. files'[w.gen + 1].items = << >> /\ \A g \in DOMAIN files : files'[g] = files[g]
    <3>1. w.gen + 1 \in Nat \ {0}
      BY <1>2
    <3>2. QED
      BY <1>1, <2>1, <3>1, CreateFiles, Zenon
  <2>4. Clean(files'[w'.gen], w'.dir)
    BY <2>2, <2>3 DEF Clean, Lists
  <2>5. ASSUME NEW g \in DOMAIN metas PROVE HasFooter(files'[g])
    BY <1>3, <1>4, <2>1, <2>3, <2>5 DEF Footed, Running
  <2>6. QED
    BY <1>6, <2>1, <2>4, <2>5 DEF Footed
<1>12. CASE ExpireRemove \/ ExpireOldest
  <2>1. RemoveOldest /\ w' = w /\ pc' = pc /\ pc \notin {"down", "sync"}
    BY <1>12 DEF ExpireRemove, ExpireOldest, opVars
  <2>2. /\ DOMAIN files' = DOMAIN files \ {Oldest} /\ \A g \in DOMAIN files' : files'[g] = files[g]
        /\ DOMAIN metas' = DOMAIN metas \ {Oldest} /\ Oldest \in DOMAIN metas
    BY <1>1, <2>1, RemoveFiles
  <2>3. ASSUME ~w.closed PROVE files'[w.gen] = files[w.gen]
    BY <1>4, <2>1, <2>2, <2>3 DEF Running
  <2>4. ASSUME NEW g \in DOMAIN metas' PROVE HasFooter(files'[g])
    <3>1. g \in DOMAIN metas /\ files'[g] = files[g]
      BY <1>4, <2>1, <2>2, <2>4 DEF Running
    <3>2. QED
      BY <1>3, <3>1 DEF Footed
  <2>5. QED
    BY <1>3, <1>6, <2>1, <2>3, <2>4 DEF Footed
<1>13. CASE ExpireSweep
  <2>1. files' = files /\ w' = w /\ metas' = metas /\ pc' = "idle" /\ pc = "sweep"
    BY <1>13 DEF ExpireSweep
  <2>2. Footed(files, w, metas, pc')
    BY <1>3, <2>1, Zenon DEF Footed
  <2>3. QED
    BY <1>6, <2>1, <2>2
<1>14. CASE Close \/ Kill \/ PowerLoss
  <2>1. pc' = "down" /\ DOMAIN metas' = {}
    BY <1>14 DEF Close, Kill, PowerLoss, GoDown, NoMap
  <2>2. UnmixedCrashes => Openable'
    BY <1>14, OpenableStep
  <2>3. QED
    BY <2>1, <2>2 DEF Footed
<1>15. CASE Open
  <2>1. pc' = "idle"
    BY <1>15 DEF Open
  <2>2. Clean(files'[w'.gen], w'.dir)
    BY <1>1, <1>15, OpenClean
  <2>3. DOMAIN metas' = {g \in DOMAIN files : HasFooter(files[g])}
    BY <1>15 DEF Open
  <2>4. \A g \in DOMAIN files : g # w'.gen => files'[g] = files[g]
    BY <1>1, <1>15, OpenFiles
  <2>5. w'.gen \in DOMAIN files => ~HasFooter(files[w'.gen])
    BY <1>1, <1>15, OpenWriter, Zenon
  <2>6. ASSUME NEW g \in DOMAIN metas' PROVE HasFooter(files'[g])
    <3>1. HasFooter(files[g]) /\ files'[g] = files[g]
      BY <2>3, <2>4, <2>5, <2>6
    <3>2. QED
      BY <3>1
  <2>7. QED
    BY <1>6, <2>1, <2>2, <2>6 DEF Footed
<1>16. QED
  BY <1>6, <1>7, <1>8, <1>9, <1>10, <1>11, <1>12, <1>13, <1>14, <1>15, StepKinds

-----------------------------------------------------------------------------
(***************************************************************************)
(* The bytes of the finalized segments.                                    *)
(***************************************************************************)
Total(ms) == SumFunction([g \in DOMAIN ms |-> ms[g].size])

(* A sum over one more element. *)
LEMMA SumJoin ==
    ASSUME NEW T, IsFiniteSet(T), NEW x, x \notin T, NEW f, NEW h,
           f[x] \in Nat, \A y \in T : h[y] \in Nat /\ f[y] = h[y]
    PROVE  SumFunctionOnSet(f, T \cup {x}) = f[x] + SumFunctionOnSet(h, T)
<1>1. IsFiniteSet(T \cup {x}) /\ (T \cup {x}) \ {x} = T
  BY FS_AddElement
<1>2. SumFunctionOnSet(f, T \cup {x}) = f[x] + SumFunctionOnSet(f, (T \cup {x}) \ {x})
  <2>1. \A y \in T \cup {x} : f[y] \in Nat
    OBVIOUS
  <2>2. QED
    BY <1>1, <2>1, SumRemove
<1>3. SumFunctionOnSet(f, T) = SumFunctionOnSet(h, T)
  BY SumSame
<1>4. QED
  BY <1>1, <1>2, <1>3

LEMMA TotalWith ==
    ASSUME NEW n, NEW ms, ms \in [DOMAIN ms -> MetaType(n)], IsFiniteSet(DOMAIN ms),
           NEW g, g \notin DOMAIN ms, NEW v, v.size \in Nat
    PROVE  Total(With(ms, g, v)) = Total(ms) + v.size /\ Total(ms) \in Nat
<1> DEFINE T == DOMAIN ms
           h == [y \in T |-> ms[y].size]
           m1 == With(ms, g, v)
           f == [y \in T \cup {g} |-> m1[y].size]
<1>1. DOMAIN m1 = T \cup {g} /\ m1[g] = v /\ \A y \in T : m1[y] = ms[y]
  BY DEF With
<1>2. \A y \in T : h[y] \in Nat /\ h[y] = ms[y].size
  BY DEF MetaType
<1>3. \A y \in T : f[y] = h[y]
  BY <1>1, <1>2
<1>4. f[g] = v.size
  BY <1>1
<1>5. Total(ms) = SumFunctionOnSet(h, T) /\ Total(m1) = SumFunctionOnSet(f, T \cup {g})
  <2>1. DOMAIN h = T /\ DOMAIN f = T \cup {g}
    OBVIOUS
  <2>2. Total(ms) = SumFunction(h) /\ Total(m1) = SumFunction(f)
    BY <1>1, Zenon DEF Total
  <2>3. QED
    BY <2>1, <2>2, Zenon DEF SumFunction
<1> HIDE DEF T, h, f, m1
<1>6. IsFiniteSet(T) /\ g \notin T
  BY DEF T
<1>7. SumFunctionOnSet(f, T \cup {g}) = f[g] + SumFunctionOnSet(h, T)
  BY <1>2, <1>3, <1>4, <1>6, SumJoin
<1>8. SumFunctionOnSet(h, T) \in Nat
  BY <1>2, <1>6, SumIsNat
<1>9. QED
  BY <1>4, <1>5, <1>7, <1>8 DEF m1

LEMMA TotalWithout ==
    ASSUME NEW n, NEW ms, ms \in [DOMAIN ms -> MetaType(n)], IsFiniteSet(DOMAIN ms), NEW g \in DOMAIN ms
    PROVE  Total(Without(ms, g)) = Total(ms) - ms[g].size
<1> DEFINE T == DOMAIN ms
           h == [y \in T |-> ms[y].size]
           m1 == Without(ms, g)
           f == [y \in T \ {g} |-> m1[y].size]
<1>1. DOMAIN m1 = T \ {g} /\ \A y \in T \ {g} : m1[y] = ms[y]
  BY DEF Without
<1>2. \A y \in T : h[y] \in Nat /\ h[y] = ms[y].size
  BY DEF MetaType
<1>3. \A y \in T \ {g} : f[y] = h[y]
  BY <1>1, <1>2
<1>4. Total(ms) = SumFunctionOnSet(h, T) /\ Total(m1) = SumFunctionOnSet(f, T \ {g})
  <2>1. DOMAIN h = T /\ DOMAIN f = T \ {g}
    OBVIOUS
  <2>2. Total(ms) = SumFunction(h) /\ Total(m1) = SumFunction(f)
    BY <1>1, Zenon DEF Total
  <2>3. QED
    BY <2>1, <2>2, Zenon DEF SumFunction
<1>5. IsFiniteSet(T) /\ g \in T /\ h[g] = ms[g].size
  BY <1>2
<1> HIDE DEF T, h, f, m1
<1>6. /\ SumFunctionOnSet(h, T) = h[g] + SumFunctionOnSet(h, T \ {g})
      /\ SumFunctionOnSet(h, T \ {g}) \in Nat
  BY <1>2, <1>5, SumRemove
<1>7. IsFiniteSet(T \ {g})
  BY <1>5, FS_RemoveElement
<1>8. SumFunctionOnSet(f, T \ {g}) = SumFunctionOnSet(h, T \ {g})
  <2>1. \A y \in T \ {g} : h[y] \in Nat /\ f[y] = h[y]
    BY <1>2, <1>3
  <2>2. QED
    BY <1>7, <2>1, SumSame
<1>9. QED
  BY <1>2, <1>4, <1>5, <1>6, <1>8 DEF m1

(* What BytesInv says of the finalized segments. *)
Counted(fs, ms, b) ==
    /\ \A g \in DOMAIN ms : ms[g].size = Len(fs[g].items)
    /\ b = Total(ms)

LEMMA BytesStep ==
    ASSUME BufferInv, [Next]_vars
    PROVE  BytesInv'
<1>1. TypeOK /\ OpInv /\ GenInv /\ IsDirectory(files, Items)
  BY TypedDirectory DEF BufferInv
<1>2. w \in WriterType(now) /\ w.gen \in Nat /\ metas \in [DOMAIN metas -> MetaType(now)]
  BY <1>1 DEF TypeOK, WriterType, MetaType
<1>3. Counted(files, metas, bytes)
  BY Zenon DEF BufferInv, BytesInv, Counted, Total
<1>4. Faults \subseteq {"remove", "write"} => (w.closed <=> pc = "create")
  BY DEF BufferInv, BytesInv
<1>5. pc # "down" => Running(files, w, metas, minGen)
  BY <1>1, GenParts
<1>6. SUFFICES /\ Counted(files', metas', bytes')
               /\ Faults \subseteq {"remove", "write"} => (w'.closed <=> pc' = "create")
  BY Zenon DEF BytesInv, Counted, Total
<1>7. pc # "down" => IsFiniteSet(DOMAIN metas)
  BY <1>1, <1>5, FS_Subset DEF GenInv, Running
<1>8. CASE Keeps
  <2>1. files' = files /\ metas' = metas /\ bytes' = bytes
    BY <1>8 DEF Keeps
  <2>2. Faults \subseteq {"remove", "write"} => (w'.closed <=> pc' = "create")
    <3>1. w'.closed = w.closed
      BY <1>2, <1>8 DEF Keeps, WriterType
    <3>2. Faults \subseteq {"remove", "write"} => (pc' = "create" <=> pc = "create")
      BY <1>8 DEF Keeps
    <3>3. QED
      BY <1>4, <3>1, <3>2, Zenon
  <2>3. QED
    BY <1>3, <2>1, <2>2, Zenon
<1>9. ASSUME NEW id \in Ids, NEW at \in 0 .. now, Stores(id, at)
      PROVE  /\ Counted(files', metas', bytes')
             /\ Faults \subseteq {"remove", "write"} => (w'.closed <=> pc' = "create")
  <2>1. pc \in {"idle", "append"} /\ pc' = "idle" /\ appended < MaxAppends /\ Put(id, at) /\ now' = now
    BY <1>9 DEF Stores
  <2>2. w'.closed = w.closed /\ metas' = metas /\ bytes' = bytes
    BY <1>2, <2>1 DEF Put, WriterType
  <2>3. \A g \in DOMAIN metas : files'[g] = files[g]
    <3>1. CASE w.closed
      BY <1>1, <2>1, <3>1, PutFiles
    <3>2. CASE ~w.closed
      <4>1. \A h \in DOMAIN files : h # w.gen => files'[h] = files[h]
        BY <1>1, <2>1, <3>2, PutFiles DEF Changes
      <4>2. QED
        BY <1>5, <2>1, <3>2, <4>1 DEF Running
    <3>3. QED
      BY <3>1, <3>2
  <2>4. Counted(files', metas, bytes)
    BY <1>3, <2>3 DEF Counted
  <2>5. QED
    BY <1>4, <2>1, <2>2, <2>4
<1>10. CASE RollFooter
  <2>1. w' = w /\ metas' = metas /\ bytes' = bytes /\ pc = "finalize" /\ pc' = "sync" /\ ~w.closed
    BY <1>10 DEF RollFooter, memVars
  <2>2. \A h \in DOMAIN files : h # w.gen => files'[h] = files[h]
    BY <1>1, <1>10, FooterFiles DEF Changes
  <2>3. Counted(files', metas, bytes)
    BY <1>3, <1>5, <2>1, <2>2 DEF Counted, Running
  <2>4. QED
    BY <1>4, <2>1, <2>3
<1>11. CASE RollSync
  <2> DEFINE v == [tMax |-> w.tMax, size |-> Len(files[w.gen].items)]
  <2>1. /\ w.gen \in DOMAIN files /\ files' = [files EXCEPT ![w.gen] = Synced(@)] /\ pc = "sync" /\ ~w.closed
        /\ pc' = "create" /\ metas' = With(metas, w.gen, v) /\ bytes' = bytes + v.size
    BY <1>1, <1>11 DEF OpInv, GenInv, RollSync
  <2>2. w'.closed = TRUE
    BY <1>2, <1>11 DEF RollSync, WriterType
  <2>3. \A g \in DOMAIN files : files'[g].items = files[g].items
    BY <1>1, <2>1, SyncFiles
  <2>4. v.size \in Nat /\ v.size = Len(files[w.gen].items)
    <3>1. files[w.gen].items \in Seq(Items)
      BY <1>1, <2>1 DEF IsDirectory, FileType
    <3>2. QED
      BY <3>1
  <2> HIDE DEF v
  <2>5. w.gen \notin DOMAIN metas /\ DOMAIN metas \subseteq DOMAIN files /\ IsFiniteSet(DOMAIN metas)
    BY <1>5, <1>7, <2>1 DEF Running
  <2>6. Total(With(metas, w.gen, v)) = Total(metas) + v.size
    BY <1>2, <2>4, <2>5, TotalWith
  <2>7. /\ DOMAIN With(metas, w.gen, v) = DOMAIN metas \cup {w.gen} /\ With(metas, w.gen, v)[w.gen] = v
        /\ \A g \in DOMAIN metas : With(metas, w.gen, v)[g] = metas[g]
    BY <2>5 DEF With
  <2>8. Counted(files', With(metas, w.gen, v), bytes + v.size)
    BY <1>3, <2>1, <2>3, <2>4, <2>5, <2>6, <2>7 DEF Counted
  <2>9. QED
    BY <2>1, <2>2, <2>8, Zenon
<1>12. CASE RollReopenFails
  <2>1. w.gen \in DOMAIN files /\ files' = [files EXCEPT ![w.gen] = Synced(@)] /\ pc = "sync" /\ "reopen" \in Faults
    BY <1>1, <1>12 DEF OpInv, GenInv, RollReopenFails
  <2>2. metas' = metas /\ bytes' = bytes
    BY <1>12 DEF RollReopenFails
  <2>3. \A g \in DOMAIN files : files'[g].items = files[g].items
    BY <1>1, <2>1, SyncFiles
  <2>4. Counted(files', metas, bytes)
    BY <1>3, <1>5, <2>1, <2>3 DEF Counted, Running
  <2>5. QED
    BY <2>1, <2>2, <2>4
<1>13. CASE RollCreate
  <2>1. /\ w.gen + 1 \notin DOMAIN files /\ files' = With(files, w.gen + 1, EmptyFile)
        /\ pc' # "create" /\ pc # "down" /\ metas' = metas /\ bytes' = bytes
    BY <1>13 DEF RollCreate
  <2>2. w'.closed = FALSE
    BY <1>13 DEF RollCreate, NewWriter
  <2>3. \A g \in DOMAIN files : files'[g] = files[g]
    <3>1. w.gen + 1 \in Nat \ {0}
      BY <1>2
    <3>2. QED
      BY <1>1, <2>1, <3>1, CreateFiles, Zenon
  <2>4. Counted(files', metas, bytes)
    BY <1>3, <1>5, <2>1, <2>3 DEF Counted, Running
  <2>5. QED
    BY <2>1, <2>2, <2>4
<1>14. CASE ExpireRemove \/ ExpireOldest
  <2>1. RemoveOldest /\ w' = w /\ pc' = pc /\ pc \notin {"down", "create"}
    BY <1>14 DEF ExpireRemove, ExpireOldest, opVars
  <2>2. metas' = Without(metas, Oldest) /\ bytes' = bytes - metas[Oldest].size
    BY <2>1 DEF RemoveOldest
  <2>3. /\ DOMAIN files' = DOMAIN files \ {Oldest} /\ \A g \in DOMAIN files' : files'[g] = files[g]
        /\ DOMAIN metas' = DOMAIN metas \ {Oldest} /\ \A g \in DOMAIN metas' : metas'[g] = metas[g]
        /\ Oldest \in DOMAIN metas
    BY <1>1, <2>1, RemoveFiles
  <2>4. Total(Without(metas, Oldest)) = Total(metas) - metas[Oldest].size
    BY <1>2, <1>7, <2>1, <2>3, TotalWithout
  <2>5. bytes' = Total(metas')
    BY <1>3, <2>2, <2>4 DEF Counted
  <2>6. ASSUME NEW g \in DOMAIN metas' PROVE metas'[g].size = Len(files'[g].items)
    <3>1. g \in DOMAIN metas /\ metas'[g] = metas[g] /\ files'[g] = files[g]
      BY <1>5, <2>1, <2>3, <2>6 DEF Running
    <3>2. QED
      BY <1>3, <3>1 DEF Counted
  <2>7. QED
    BY <1>4, <2>1, <2>5, <2>6 DEF Counted
<1>15. CASE ExpireSweep
  <2>1. files' = files /\ w' = w /\ metas' = metas /\ bytes' = bytes /\ pc' = "idle" /\ pc = "sweep"
    BY <1>15 DEF ExpireSweep
  <2>2. QED
    BY <1>3, <1>4, <2>1, Zenon
<1>16. CASE Close \/ Kill \/ PowerLoss
  <2>1. pc' = "down" /\ metas' = NoMap /\ bytes' = 0 /\ w'.closed = FALSE
    BY <1>16 DEF Close, Kill, PowerLoss, GoDown, NewWriter
  <2>2. Total(NoMap) = 0
    <3>1. DOMAIN [g \in DOMAIN NoMap |-> NoMap[g].size] = {}
      BY DEF NoMap
    <3>2. IsFiniteSet({})
      BY FS_EmptySet
    <3>3. \A f : SumFunctionOnSet(f, {}) = 0
      BY <3>2, SumIsNat
    <3>4. QED
      BY <3>1, <3>3, Zenon DEF Total, SumFunction
  <2>3. DOMAIN NoMap = {}
    BY DEF NoMap
  <2>4. Counted(files', NoMap, 0)
    BY <2>2, <2>3 DEF Counted
  <2>5. QED
    BY <2>1, <2>4
<1>17. CASE Open
  <2> DEFINE F == {g \in DOMAIN files : HasFooter(files[g])}
             h == [g \in F |-> Len(files[g].items)]
  <2>1. /\ pc' = "idle" /\ bytes' = SumFunction(h)
        /\ metas' = [g \in F |-> [tMax |-> Last(files[g].items).tMax, size |-> Len(files[g].items)]]
    BY <1>17 DEF Open
  <2>2. DOMAIN metas' = F /\ \A g \in F : metas'[g].size = Len(files[g].items)
    BY <2>1
  <2>3. w'.closed = FALSE
    BY <1>1, <1>17, OpenWriter
  <2>4. \A g \in DOMAIN files : g # w'.gen => files'[g] = files[g]
    BY <1>1, <1>17, OpenFiles
  <2>5. w'.gen \in DOMAIN files => ~HasFooter(files[w'.gen])
    BY <1>1, <1>17, OpenWriter, Zenon
  <2>6. ASSUME NEW g \in F PROVE files'[g] = files[g]
    BY <2>4, <2>5, <2>6
  <2>7. h = [g \in DOMAIN metas' |-> metas'[g].size]
    BY <2>2
  <2>8. bytes' = Total(metas')
    BY <2>1, <2>7, Zenon DEF Total
  <2>9. QED
    BY <2>1, <2>2, <2>3, <2>6, <2>8 DEF Counted
<1>18. QED
  BY <1>8, <1>9, <1>10, <1>11, <1>12, <1>13, <1>14, <1>15, <1>16, <1>17, StepKinds

-----------------------------------------------------------------------------
(***************************************************************************)
(* The invariant and what follows from it.                                 *)
(***************************************************************************)
LEMMA InitInv == Init => BufferInv
<1> SUFFICES ASSUME Init PROVE BufferInv
  OBVIOUS
<1>1. /\ now = 0 /\ appended = 0 /\ early = 0 /\ crashes = 0 /\ pc = "idle" /\ todo = NoWork
      /\ w = NewWriter(1) /\ bytes = 0 /\ minGen = 1 /\ idx = << >>
      /\ files = [g \in {1} |-> EmptyFile] /\ metas = NoMap
  BY DEF Init
<1>2. DOMAIN files = {1} /\ files[1].items = << >> /\ files[1].synced = 0 /\ files[1] = EmptyFile
  BY <1>1 DEF EmptyFile
<1>3. DOMAIN metas = {}
  BY <1>1 DEF NoMap
<1>4. w.gen = 1 /\ w.dir = << >> /\ w.closed = FALSE
  BY <1>1 DEF NewWriter
<1>5. TypeOK
  <2>1. /\ now \in 0 .. MaxTime /\ appended \in 0 .. MaxAppends /\ early \in Nat /\ crashes \in 0 .. MaxCrashes
        /\ pc \in PCs /\ todo = NoWork /\ bytes \in Int /\ minGen \in Nat
    BY <1>1, BufferBounds DEF PCs
  <2>2. idx \in Seq([id : Ids, gen : Nat, off : Nat])
    BY <1>1
  <2>3. w \in WriterType(now)
    BY <1>1, WriterTypes
  <2>4. files \in [DOMAIN files -> [items : Seq(Items), synced : Nat]]
    BY <1>1, <1>2 DEF EmptyFile
  <2>5. metas \in [DOMAIN metas -> [tMax : 0 .. now, size : Nat]]
    BY <1>1, <1>3 DEF NoMap
  <2>6. \A g \in DOMAIN files : files[g].synced <= Len(files[g].items)
    BY <1>2
  <2>7. QED
    BY <1>2, <1>3, <2>1, <2>2, <2>3, <2>4, <2>5, <2>6 DEF TypeOK, WriterType
<1>6. OpInv
  BY <1>1 DEF OpInv, NoWork
<1>7. GenInv
  <2>1. IsFiniteSet(DOMAIN files)
    BY <1>2, FS_Singleton
  <2>2. Running(files, w, metas, minGen) /\ Contiguous(w, metas, minGen)
    BY <1>1, <1>2, <1>3, <1>4 DEF Running, Contiguous
  <2>3. QED
    BY <1>1, <1>5, <2>1, <2>2, GenParts
<1>8. DurableInv
  BY <1>1, <1>3, <1>4 DEF DurableInv
<1>9. FileInv /\ NumberInv
  BY <1>2 DEF FileInv, NumberInv
<1>10. Clean(files[w.gen], w.dir)
  BY <1>2, <1>4 DEF Clean, Lists
<1>11. ActiveInv
  BY <1>1, <1>4, <1>10 DEF ActiveInv, InOrder
<1>12. IdxInv
  BY <1>1 DEF IdxInv
<1>13. FooterInv
  BY <1>1, <1>3, <1>10 DEF FooterInv, Openable
<1>14. BytesInv
  <2>1. SumFunction([g \in DOMAIN metas |-> metas[g].size]) = 0
    <3>1. DOMAIN [g \in DOMAIN metas |-> metas[g].size] = {}
      BY <1>3
    <3>2. \A f : SumFunctionOnSet(f, {}) = 0
      BY FS_EmptySet, SumIsNat
    <3>3. QED
      BY <3>1, <3>2, Zenon DEF SumFunction
  <2>2. QED
    BY <1>1, <1>3, <1>4, <2>1 DEF BytesInv
<1>15. QED
  BY <1>5, <1>6, <1>7, <1>8, <1>9, <1>11, <1>12, <1>13, <1>14 DEF BufferInv

(* The invariant holds: through every order of appends, rolls, expiry,     *)
(* failed file operations, closes, crashes and recoveries the directory,   *)
(* the writer, the registered segments and the index fit each other.       *)
THEOREM BufferInvariant == Spec => []BufferInv
<1>1. BufferInv /\ [Next]_vars => BufferInv'
  <2> SUFFICES ASSUME BufferInv, [Next]_vars PROVE BufferInv'
    OBVIOUS
  <2>1. TypeOK' /\ OpInv'
    BY TypeStep, ControlStep
  <2>2. GenInv' /\ DurableInv' /\ FileInv' /\ NumberInv'
    BY GenStep, DurableStep, FileStep, NumberStep
  <2>3. ActiveInv' /\ IdxInv' /\ FooterInv' /\ BytesInv'
    BY ActiveStep, IdxStep, FooterStep, BytesStep
  <2>4. QED
    BY <2>1, <2>2, <2>3, Zenon DEF BufferInv
<1>2. QED
  BY <1>1, InitInv, PTL DEF Spec

(* A record that is read from a file without a stray footer is in place. *)
LEMMA YieldsRecord ==
    ASSUME BufferInv, NEW l \in ToSet(idx), Yields(l)
    PROVE  Item(l).kind = "record" /\ (Whole(files[l.gen]) => Item(l).id = l.id)
<1>1. idx \in Seq(LocType)
  BY DEF BufferInv, TypeOK, LocType
<1>2. PICK i \in 1 .. Len(idx) : l = idx[i]
  BY <1>1 DEF ToSet
<1>3. l \in LocType /\ Readable(l)
  BY <1>1, <1>2 DEF Yields
<1>4. l.off \in Nat /\ l.gen \in DOMAIN files
  BY <1>3 DEF LocType, Readable
<1>5. files[l.gen].items \in Seq(Items)
  BY <1>4, TypedDirectory DEF BufferInv, IsDirectory, FileType
<1>6. l.off < Len(files[l.gen].items) /\ Item(l).kind = "record"
  BY <1>3 DEF Readable, Item
<1>7. ASSUME Whole(files[l.gen]) PROVE InPlace(l)
  <2>1. ASSUME NEW k \in 1 .. l.off + 1 PROVE files[l.gen].items[k].kind = "record"
    <3>1. CASE k = l.off + 1
      BY <1>6, <3>1 DEF Item
    <3>2. CASE k # l.off + 1
      BY <1>4, <1>5, <1>6, <1>7, <3>2 DEF Whole
    <3>3. QED
      BY <3>1, <3>2
  <2>2. QED
    BY <1>4, <1>6, <2>1 DEF InPlace
<1>8. ASSUME InPlace(l) PROVE Item(l).id = l.id
  BY <1>2, <1>8 DEF BufferInv, IdxInv
<1>9. QED
  BY <1>6, <1>7, <1>8

(* Collect yields records, in append order, whatever file operations       *)
(* failed before, and those of the loc's own trace from every file that no *)
(* failed fsync left a footer in; the registered generations are an        *)
(* unbroken run up to the active one.  The last part is where a power loss *)
(* after a kill would matter.                                              *)
THEOREM CollectIsSound ==
    ASSUME UnmixedCrashes
    PROVE  Spec => []CollectSound
<1>1. BufferInv => CollectSound
  <2> SUFFICES ASSUME BufferInv PROVE CollectSound
    OBVIOUS
  <2>1. GensContiguous
    BY DEF BufferInv, GenInv
  <2>2. idx \in Seq(LocType)
    BY DEF BufferInv, TypeOK, LocType
  <2>3. ASSUME NEW l \in LocType, Readable(l)
        PROVE  l.gen \in DOMAIN files /\ l.off + 1 \in 1 .. Len(files[l.gen].items) /\ Item(l).kind = "record"
    <3>1. l.off \in Nat /\ l.gen \in DOMAIN files
      BY <2>3 DEF LocType, Readable
    <3>2. files[l.gen].items \in Seq(Items)
      BY <3>1, TypedDirectory DEF BufferInv, IsDirectory, FileType
    <3>3. QED
      BY <2>3, <3>1, <3>2 DEF Readable, Item
  <2>4. ASSUME NEW l \in ToSet(idx), Yields(l)
        PROVE  Item(l).kind = "record" /\ (Whole(files[l.gen]) => Item(l).id = l.id)
    BY <2>4, YieldsRecord
  <2>5. ASSUME NEW i \in 1 .. Len(idx), NEW j \in 1 .. Len(idx), i < j, Yields(idx[i]), Yields(idx[j])
        PROVE  Item(idx[i]).n < Item(idx[j]).n
    <3> DEFINE k == idx[i]
               l == idx[j]
    <3>1. k \in LocType /\ l \in LocType /\ Readable(k) /\ Readable(l) /\ Before(k, l)
      BY <2>2, <2>5 DEF BufferInv, IdxInv, Yields
    <3> HIDE DEF k, l
    <3>2. /\ k.gen \in DOMAIN files /\ k.off + 1 \in 1 .. Len(files[k.gen].items) /\ Item(k).kind = "record"
          /\ l.gen \in DOMAIN files /\ l.off + 1 \in 1 .. Len(files[l.gen].items) /\ Item(l).kind = "record"
      BY <2>3, <3>1
    <3>3. k.gen < l.gen \/ (k.gen = l.gen /\ k.off + 1 < l.off + 1)
      BY <3>1 DEF Before, LocType
    <3>4. \A g, h \in DOMAIN files :
          \A a \in 1 .. Len(files[g].items), b \in 1 .. Len(files[h].items) :
             /\ files[g].items[a].kind = "record"
             /\ files[h].items[b].kind = "record"
             /\ g < h \/ (g = h /\ a < b)
             => files[g].items[a].n < files[h].items[b].n
      BY Zenon DEF BufferInv, NumberInv
    <3>5. files[k.gen].items[k.off + 1].n < files[l.gen].items[l.off + 1].n
      BY <3>2, <3>3, <3>4, Zenon DEF Item
    <3>6. QED
      BY <3>5 DEF Item, k, l
  <2>6. QED
    BY <2>1, <2>4, <2>5 DEF CollectSound
<1>2. QED
  BY <1>1, BufferInvariant, PTL

(* As long as no fsync fails, no footer lies ahead of a record: a file     *)
(* that gets one is closed with it, or goes with the process.              *)
WholeInv == "sync" \notin Faults => \A g \in DOMAIN files : Whole(files[g])

LEMMA WholeGrown ==
    ASSUME NEW I, NEW f \in FileType(I), NEW x \in I,
           \A i \in 1 .. Len(f.items) : f.items[i].kind = "record"
    PROVE  Whole(Grown(f, x))
<1>1. f.items \in Seq(I) /\ Grown(f, x).items = Append(f.items, x)
  BY DEF FileType, Grown
<1>2. QED
  BY <1>1 DEF Whole

LEMMA WholeStep ==
    ASSUME BufferInv, WholeInv, [Next]_vars
    PROVE  WholeInv'
<1>1. TypeOK /\ GenInv /\ IsDirectory(files, Items) /\ IsDirectory(files', Items)
  BY TypedDirectory, NextFiles DEF BufferInv
<1>2. SUFFICES ASSUME "sync" \notin Faults, NEW g \in DOMAIN files' PROVE Whole(files'[g])
  BY Zenon DEF WholeInv, Whole
<1>3. \A h \in DOMAIN files : Whole(files[h]) /\ files[h] \in FileType(Items)
  BY <1>1, <1>2 DEF WholeInv, IsDirectory
<1>4. files'[g] \in FileType(Items)
  BY <1>1, <1>2 DEF IsDirectory
<1>5. CASE Shrinks(files, files')
  <2>1. CASE files'[g].items = << >>
    BY <2>1 DEF Whole
  <2>2. CASE g \in DOMAIN files /\ Begins(files'[g].items, files[g].items)
    <3>1. files'[g].items \in Seq(Items) /\ files[g].items \in Seq(Items) /\ Whole(files[g])
      BY <1>3, <1>4, <2>2 DEF FileType
    <3>2. QED
      BY <2>2, <3>1 DEF Begins, Whole
  <2>3. QED
    BY <1>5, <2>1, <2>2 DEF Shrinks
<1>6. ASSUME NEW x \in Items, Changes(files, files', w.gen, Grown(files[w.gen], x)),
             pc # "down", pc # "sync", ~w.closed
      PROVE  Whole(files'[g])
  <2>1. w.gen \in DOMAIN files /\ Clean(files[w.gen], w.dir)
    BY <1>1, <1>2, <1>6 DEF GenInv, BufferInv, FooterInv
  <2>2. \A i \in 1 .. Len(files[w.gen].items) : files[w.gen].items[i].kind = "record"
    BY <2>1 DEF Clean, Lists
  <2>3. Whole(Grown(files[w.gen], x))
    BY <1>3, <2>1, <2>2, WholeGrown
  <2>4. QED
    BY <1>2, <1>3, <1>6, <2>3, Zenon DEF Changes
<1>7. CASE RollFooter
  <2>1. ~w.closed /\ pc # "down" /\ pc # "sync"
    BY <1>7 DEF RollFooter
  <2>2. Changes(files, files', w.gen, Grown(files[w.gen], Footer(w.dir, w.tMax)))
    BY <1>1, <1>7, FooterFiles
  <2>3. Footer(w.dir, w.tMax) \in Items
    BY <1>1 DEF TypeOK, Items, Footer
  <2>4. QED
    BY <1>6, <2>1, <2>2, <2>3
<1>8. QED
  BY <1>5, <1>6, <1>7, NextFiles

(* "a false trace merge is a correctness bug": as long as no fsync fails,  *)
(* whatever else does and however the process ends, Collect never yields a *)
(* record of another trace.                                                *)
THEOREM NoMergeUnlessSyncFails ==
    ASSUME "sync" \notin Faults
    PROVE  Spec => []NoFalseMerge
<1>1. BufferInv /\ WholeInv => NoFalseMerge
  <2> SUFFICES ASSUME BufferInv, WholeInv, NEW l \in ToSet(idx), Yields(l)
               PROVE  Item(l).id = l.id
    BY DEF NoFalseMerge
  <2>1. Whole(files[l.gen])
    BY DEF WholeInv, Yields, Readable
  <2>2. QED
    BY <2>1, YieldsRecord
<1>2. Init => WholeInv
  BY DEF Init, WholeInv, Whole, EmptyFile
<1>3. BufferInv /\ WholeInv /\ [Next]_vars => WholeInv'
  BY WholeStep
<1>4. QED
  BY <1>1, <1>2, <1>3, BufferInvariant, PTL DEF Spec

(* "data-loss bound is the current segment": whatever a crash leaves in    *)
(* the directory Open accepts, as long as no fsync fails and kills and     *)
(* power losses do not mix.                                                *)
THEOREM OpensAgain ==
    ASSUME UnmixedCrashes, "sync" \notin Faults
    PROVE  Spec => []Openable
<1>1. BufferInv => Openable
  BY DEF BufferInv, FooterInv
<1>2. QED
  BY <1>1, BufferInvariant, PTL

(* Between operations the files are the registered segments and the active *)
(* one, and DiskBytes is their size, if only removals and writes fail: the *)
(* other failures leave a half-rolled segment.                             *)
THEOREM DiskIsAccounted ==
    ASSUME Faults \subseteq {"remove", "write"}
    PROVE  Spec => []DiskAccounted
<1>1. BufferInv => DiskAccounted
  <2> SUFFICES ASSUME BufferInv, pc = "idle"
               PROVE  /\ DOMAIN files = DOMAIN metas \cup {w.gen}
                      /\ w.gen \notin DOMAIN metas
                      /\ bytes + Len(w.dir) = SumFunction([g \in DOMAIN files |-> Len(files[g].items)])
    BY DEF DiskAccounted, BufferInv
  <2>1. TypeOK /\ GenInv /\ IsDirectory(files, Items)
    BY TypedDirectory DEF BufferInv
  <2>2. ~w.closed
    BY DEF BufferInv, BytesInv
  <2>3. Running(files, w, metas, minGen)
    BY <2>1, GenParts
  <2>4. DOMAIN files = DOMAIN metas \cup {w.gen} /\ w.gen \notin DOMAIN metas
    BY <2>2, <2>3 DEF Running
  <2>5. Len(files[w.gen].items) = Len(w.dir)
    BY <2>2 DEF BufferInv, FooterInv, Clean
  <2> DEFINE T == DOMAIN metas
             f == [g \in DOMAIN files |-> Len(files[g].items)]
             h == [g \in T |-> metas[g].size]
  <2>6. \A g \in DOMAIN files : Len(files[g].items) \in Nat
    BY <2>1 DEF IsDirectory, FileType
  <2>7. \A g \in T : metas[g].size = Len(files[g].items)
    BY DEF BufferInv, BytesInv
  <2>8. /\ f[w.gen] \in Nat /\ f[w.gen] = Len(w.dir)
        /\ \A g \in T : h[g] \in Nat /\ f[g] = h[g]
    BY <2>4, <2>5, <2>6, <2>7
  <2>9. bytes = SumFunctionOnSet(h, T)
    <3>1. bytes = SumFunction(h)
      BY DEF BufferInv, BytesInv
    <3>2. DOMAIN h = T
      OBVIOUS
    <3>3. QED
      BY <3>1, <3>2, Zenon DEF SumFunction
  <2>10. SumFunction(f) = SumFunctionOnSet(f, T \cup {w.gen})
    <3>1. DOMAIN f = T \cup {w.gen}
      BY <2>4
    <3>2. QED
      BY <3>1, Zenon DEF SumFunction
  <2>11. IsFiniteSet(T) /\ w.gen \notin T
    BY <2>1, <2>3, <2>4, FS_Subset DEF GenInv, Running
  <2> HIDE DEF T, f, h
  <2>12. SumFunctionOnSet(f, T \cup {w.gen}) = f[w.gen] + SumFunctionOnSet(h, T)
    BY <2>8, <2>11, SumJoin
  <2>13. SumFunctionOnSet(h, T) \in Nat
    BY <2>8, <2>11, SumIsNat
  <2>14. bytes + Len(w.dir) = SumFunction(f)
    BY <2>8, <2>9, <2>10, <2>12, <2>13
  <2>15. QED
    BY <2>4, <2>14 DEF f
<1>2. QED
  BY <1>1, BufferInvariant, PTL

-----------------------------------------------------------------------------
(***************************************************************************)
(* Fragments in append order: a sequence of them is determined by which    *)
(* fragments it has.                                                       *)
(***************************************************************************)
Fragments == [id : Ids, n : Nat, at : Nat]

Rising(s) == \A i, j \in 1 .. Len(s) : i < j => s[i].n < s[j].n

LEMMA RisingFacts ==
    ASSUME NEW s \in Seq(Fragments), Rising(s)
    PROVE  /\ Len(s) \in Nat
           /\ \A i \in 1 .. Len(s) : s[i] \in Fragments /\ s[i].n \in Nat /\ Contains(s, s[i])
           /\ \A i, j \in 1 .. Len(s) : s[i].n <= s[j].n <=> i <= j
           /\ \A i, j \in 1 .. Len(s) : s[i] = s[j] => i = j
<1>1. Len(s) \in Nat /\ \A i \in 1 .. Len(s) : s[i] \in Fragments /\ Contains(s, s[i])
  BY DEF Contains
<1>2. \A i \in 1 .. Len(s) : s[i].n \in Nat
  BY <1>1 DEF Fragments
<1>3. \A i, j \in 1 .. Len(s) : s[i].n <= s[j].n <=> i <= j
  BY <1>1, <1>2 DEF Rising
<1>4. ASSUME NEW i \in 1 .. Len(s), NEW j \in 1 .. Len(s), s[i] = s[j] PROVE i = j
  <2>1. s[i].n <= s[j].n /\ s[j].n <= s[i].n
    BY <1>2, <1>4
  <2>2. QED
    BY <1>1, <1>3, <2>1
<1>5. QED
  BY <1>1, <1>2, <1>3, <1>4

LEMMA SameFragments ==
    ASSUME NEW s \in Seq(Fragments), NEW t \in Seq(Fragments), Rising(s), Rising(t),
           \A x \in Fragments : Contains(s, x) <=> Contains(t, x)
    PROVE  s = t
<1>1. /\ Len(s) \in Nat /\ \A i \in 1 .. Len(s) : s[i] \in Fragments /\ s[i].n \in Nat /\ Contains(s, s[i])
      /\ \A i, j \in 1 .. Len(s) : s[i].n <= s[j].n <=> i <= j
      /\ \A i, j \in 1 .. Len(s) : s[i] = s[j] => i = j
  BY RisingFacts
<1>2. /\ Len(t) \in Nat /\ \A i \in 1 .. Len(t) : t[i] \in Fragments /\ t[i].n \in Nat /\ Contains(t, t[i])
      /\ \A i, j \in 1 .. Len(t) : t[i].n <= t[j].n <=> i <= j
      /\ \A i, j \in 1 .. Len(t) : t[i] = t[j] => i = j
  BY RisingFacts
<1> DEFINE Same(i) == i <= Len(s) /\ i <= Len(t) /\ s[i] = t[i]
           B == {i \in Nat : i # 0 /\ (i <= Len(s) \/ i <= Len(t)) /\ ~Same(i)}
<1>3. ASSUME B # {} PROVE FALSE
  <2>1. B \in SUBSET Nat
    OBVIOUS
  <2>2. PICK m \in B : \A k \in B : m <= k
    <3> HIDE DEF B
    <3>1. QED
      BY <1>3, <2>1, LeastNumber
  <2>3. m \in Nat /\ m # 0 /\ (m <= Len(s) \/ m <= Len(t)) /\ ~Same(m)
    BY <2>2
  <2>4. ASSUME NEW j \in Nat, j # 0, j < m PROVE Same(j)
    <3>1. j \notin B
      BY <2>2, <2>3, <2>4
    <3>2. j <= Len(s) \/ j <= Len(t)
      BY <1>1, <1>2, <2>3, <2>4
    <3> HIDE DEF Same
    <3>3. QED
      BY <2>4, <3>1, <3>2
  <2>5. ASSUME m <= Len(s)
        PROVE  m <= Len(t) /\ \E j \in 1 .. Len(t) : m <= j /\ t[j] = s[m]
    <3>1. m \in 1 .. Len(s)
      BY <1>1, <2>3, <2>5
    <3>2. Contains(t, s[m])
      BY <1>1, <3>1
    <3>3. PICK j \in 1 .. Len(t) : t[j] = s[m]
      BY <3>2 DEF Contains
    <3>4. CASE j < m
      <4>1. Same(j)
        BY <2>4, <3>4
      <4>2. s[j] = s[m] /\ j \in 1 .. Len(s)
        BY <1>1, <3>1, <3>3, <3>4, <4>1
      <4>3. QED
        BY <1>1, <1>2, <3>1, <3>4, <4>2
    <3>5. CASE ~(j < m)
      BY <1>2, <2>3, <3>3, <3>5
    <3>6. QED
      BY <3>4, <3>5
  <2>6. ASSUME m <= Len(t)
        PROVE  m <= Len(s) /\ \E j \in 1 .. Len(s) : m <= j /\ s[j] = t[m]
    <3>1. m \in 1 .. Len(t)
      BY <1>2, <2>3, <2>6
    <3>2. Contains(s, t[m])
      BY <1>2, <3>1
    <3>3. PICK j \in 1 .. Len(s) : s[j] = t[m]
      BY <3>2 DEF Contains
    <3>4. CASE j < m
      <4>1. Same(j)
        BY <2>4, <3>4
      <4>2. t[j] = t[m] /\ j \in 1 .. Len(t)
        BY <1>2, <3>1, <3>3, <3>4, <4>1
      <4>3. QED
        BY <1>1, <1>2, <3>1, <3>4, <4>2
    <3>5. CASE ~(j < m)
      BY <1>1, <2>3, <3>3, <3>5
    <3>6. QED
      BY <3>4, <3>5
  <2>7. m <= Len(s) /\ m <= Len(t) /\ m \in 1 .. Len(s) /\ m \in 1 .. Len(t)
    BY <1>1, <1>2, <2>3, <2>5, <2>6
  <2>8. PICK j \in 1 .. Len(t) : m <= j /\ t[j] = s[m]
    BY <2>5, <2>7
  <2>9. PICK i \in 1 .. Len(s) : m <= i /\ s[i] = t[m]
    BY <2>6, <2>7
  <2>10. s[m].n <= s[i].n /\ t[m].n <= t[j].n
    BY <1>1, <1>2, <2>7, <2>8, <2>9, Zenon
  <2>11. s[i].n <= s[m].n
    <3>1. s[i].n = t[m].n /\ t[j].n = s[m].n
      BY <2>8, <2>9
    <3>2. QED
      BY <2>10, <3>1
  <2>12. i = m
    BY <1>1, <2>7, <2>9, <2>11
  <2>13. QED
    BY <2>3, <2>7, <2>9, <2>12
<1>4. \A i \in 1 .. Len(s) : i <= Len(t) /\ s[i] = t[i]
  <2>1. ASSUME NEW i \in 1 .. Len(s) PROVE Same(i)
    <3>1. i \in Nat /\ i # 0 /\ i <= Len(s)
      BY <1>1
    <3> HIDE DEF Same
    <3>2. QED
      BY <1>3, <3>1
  <2>2. QED
    BY <2>1
<1>5. \A i \in 1 .. Len(t) : i <= Len(s)
  <2>1. ASSUME NEW i \in 1 .. Len(t) PROVE Same(i)
    <3>1. i \in Nat /\ i # 0 /\ i <= Len(t)
      BY <1>2
    <3> HIDE DEF Same
    <3>2. QED
      BY <1>3, <3>1
  <2>2. QED
    BY <2>1
<1>6. Len(s) = Len(t)
  <2>1. Len(s) = 0 \/ Len(s) \in 1 .. Len(s)
    BY <1>1
  <2>2. Len(t) = 0 \/ Len(t) \in 1 .. Len(t)
    BY <1>2
  <2>3. QED
    BY <1>1, <1>2, <1>4, <1>5, <2>1, <2>2
<1>7. QED
  BY <1>4, <1>6

(* What has, with a fragment, all the older ones of s is a prefix of s. *)
LEMMA PrefixOfFragments ==
    ASSUME NEW s \in Seq(Fragments), NEW t \in Seq(Fragments), Rising(s), Rising(t),
           \A x \in Fragments : Contains(t, x) => Contains(s, x),
           \A x, y \in Fragments : Contains(s, x) /\ Contains(t, y) /\ x.n <= y.n => Contains(t, x)
    PROVE  \E k \in 0 .. Len(s) : t = SubSeq(s, 1, k)
<1>1. /\ Len(s) \in Nat /\ \A i \in 1 .. Len(s) : s[i] \in Fragments /\ s[i].n \in Nat /\ Contains(s, s[i])
      /\ \A i, j \in 1 .. Len(s) : s[i].n <= s[j].n <=> i <= j
  BY RisingFacts
<1> DEFINE K == {i \in 0 .. Len(s) : i = 0 \/ Contains(t, s[i])}
<1>2. PICK k \in K : \A i \in K : k >= i
  <2>1. K \in SUBSET Int /\ 0 \in K /\ K \subseteq 0 .. Len(s)
    BY <1>1
  <2>2. IsFiniteSet(0 .. Len(s))
    BY <1>1, FS_Interval
  <2>3. IsFiniteSet(K)
    BY <2>1, <2>2, FS_Subset
  <2> HIDE DEF K
  <2>4. QED
    BY <2>1, <2>3, GreatestNumber
<1>3. k \in 0 .. Len(s) /\ (k = 0 \/ Contains(t, s[k]))
  BY <1>2
<1>4. ASSUME NEW i \in 1 .. Len(s) PROVE Contains(t, s[i]) <=> i <= k
  <2>1. ASSUME i <= k PROVE Contains(t, s[i])
    <3>1. k \in 1 .. Len(s) /\ Contains(t, s[k])
      BY <1>1, <1>3, <2>1
    <3>2. s[i].n <= s[k].n
      BY <1>1, <2>1, <3>1
    <3>3. QED
      BY <1>1, <3>1, <3>2
  <2>2. ASSUME Contains(t, s[i]) PROVE i <= k
    <3>1. i \in K
      BY <1>1, <2>2
    <3>2. k >= i
      BY <1>2, <3>1
    <3>3. QED
      BY <1>1, <1>3, <3>2
  <2>3. QED
    BY <2>1, <2>2
<1> HIDE DEF K
<1> DEFINE u == SubSeq(s, 1, k)
<1>5. u \in Seq(Fragments) /\ Len(u) = k /\ \A i \in 1 .. k : u[i] = s[i]
  BY <1>1, <1>3
<1> HIDE DEF u
<1>6. Rising(u)
  BY SMTT(40), <1>1, <1>3, <1>5 DEF Rising
<1>7. ASSUME NEW x \in Fragments PROVE Contains(u, x) <=> Contains(t, x)
  <2>1. ASSUME Contains(u, x) PROVE Contains(t, x)
    <3>1. PICK i \in 1 .. Len(u) : u[i] = x
      BY <2>1 DEF Contains
    <3>2. i \in 1 .. Len(s) /\ i <= k /\ s[i] = x
      BY <1>1, <1>3, <1>5, <3>1
    <3>3. QED
      BY <1>4, <3>2
  <2>2. ASSUME Contains(t, x) PROVE Contains(u, x)
    <3>1. PICK i \in 1 .. Len(s) : s[i] = x
      BY <2>2 DEF Contains
    <3>2. i \in 1 .. Len(u) /\ u[i] = x
      BY <1>1, <1>3, <1>4, <1>5, <2>2, <3>1
    <3>3. QED
      BY <3>2 DEF Contains
  <2>3. QED
    BY <2>1, <2>2
<1>8. u = t
  BY <1>5, <1>6, <1>7, SameFragments
<1>9. QED
  BY <1>3, <1>8 DEF u

(* What has, with a fragment, all the newer ones of s is a suffix of s. *)
LEMMA SuffixOfFragments ==
    ASSUME NEW s \in Seq(Fragments), NEW t \in Seq(Fragments), Rising(s), Rising(t),
           \A x \in Fragments : Contains(t, x) => Contains(s, x),
           \A x, y \in Fragments : Contains(s, x) /\ Contains(t, y) /\ y.n <= x.n => Contains(t, x)
    PROVE  \E k \in 0 .. Len(s) : /\ t = SubSeq(s, k + 1, Len(s))
                                  /\ \A i \in 1 .. k : ~Contains(t, s[i])
<1>1. /\ Len(s) \in Nat /\ \A i \in 1 .. Len(s) : s[i] \in Fragments /\ s[i].n \in Nat /\ Contains(s, s[i])
      /\ \A i, j \in 1 .. Len(s) : s[i].n <= s[j].n <=> i <= j
  BY RisingFacts
<1> DEFINE K == {i \in 0 .. Len(s) : i = 0 \/ ~Contains(t, s[i])}
<1>2. PICK k \in K : \A i \in K : k >= i
  <2>1. K \in SUBSET Int /\ 0 \in K /\ K \subseteq 0 .. Len(s)
    BY <1>1
  <2>2. IsFiniteSet(0 .. Len(s))
    BY <1>1, FS_Interval
  <2>3. IsFiniteSet(K)
    BY <2>1, <2>2, FS_Subset
  <2> HIDE DEF K
  <2>4. QED
    BY <2>1, <2>3, GreatestNumber
<1>3. k \in 0 .. Len(s) /\ (k = 0 \/ ~Contains(t, s[k]))
  BY <1>2
<1>4. ASSUME NEW i \in 1 .. Len(s) PROVE ~Contains(t, s[i]) <=> i <= k
  <2>1. ASSUME i <= k PROVE ~Contains(t, s[i])
    <3>1. k \in 1 .. Len(s) /\ ~Contains(t, s[k])
      BY <1>1, <1>3, <2>1
    <3>2. s[i].n <= s[k].n
      BY <1>1, <2>1, <3>1
    <3>3. QED
      BY <1>1, <3>1, <3>2
  <2>2. ASSUME ~Contains(t, s[i]) PROVE i <= k
    <3>1. i \in K
      BY <1>1, <2>2
    <3>2. k >= i
      BY <1>2, <3>1
    <3>3. QED
      BY <1>1, <1>3, <3>2
  <2>3. QED
    BY <2>1, <2>2
<1> HIDE DEF K
<1> DEFINE u == SubSeq(s, k + 1, Len(s))
<1>5. u \in Seq(Fragments) /\ Len(u) = Len(s) - k /\ \A i \in 1 .. Len(s) - k : u[i] = s[k + i]
  BY <1>1, <1>3
<1> HIDE DEF u
<1>6. Rising(u)
  <2>1. ASSUME NEW i \in 1 .. Len(u), NEW j \in 1 .. Len(u), i < j PROVE u[i].n < u[j].n
    <3>1. /\ k + i \in 1 .. Len(s) /\ k + j \in 1 .. Len(s) /\ k + i < k + j
          /\ u[i] = s[k + i] /\ u[j] = s[k + j]
      BY SMTT(40), <1>1, <1>3, <1>5, <2>1
    <3>2. QED
      BY <3>1 DEF Rising
  <2>2. QED
    BY <2>1 DEF Rising
<1>7. ASSUME NEW x \in Fragments PROVE Contains(u, x) <=> Contains(t, x)
  <2>1. ASSUME Contains(u, x) PROVE Contains(t, x)
    <3>1. PICK i \in 1 .. Len(u) : u[i] = x
      BY <2>1 DEF Contains
    <3>2. k + i \in 1 .. Len(s) /\ ~(k + i <= k) /\ s[k + i] = x
      BY <1>1, <1>3, <1>5, <3>1
    <3>3. QED
      BY <1>4, <3>2
  <2>2. ASSUME Contains(t, x) PROVE Contains(u, x)
    <3>1. PICK i \in 1 .. Len(s) : s[i] = x
      BY <2>2 DEF Contains
    <3>2. i - k \in 1 .. Len(u) /\ k + (i - k) = i
      BY <1>1, <1>3, <1>4, <1>5, <2>2, <3>1
    <3>3. u[i - k] = x
      BY <1>5, <3>1, <3>2
    <3>4. QED
      BY <3>2, <3>3 DEF Contains
  <2>3. QED
    BY <2>1, <2>2
<1>8. u = t
  BY <1>5, <1>6, <1>7, SameFragments
<1>9. \A i \in 1 .. k : ~Contains(t, s[i])
  BY <1>1, <1>3, <1>4
<1>10. QED
  BY <1>3, <1>8, <1>9 DEF u

(* One fragment more, newer than all. *)
LEMMA OneMoreFragment ==
    ASSUME NEW s \in Seq(Fragments), NEW t \in Seq(Fragments), Rising(s), Rising(t), NEW f \in Fragments,
           \A x \in Fragments : Contains(t, x) <=> Contains(s, x) \/ x = f,
           \A x \in Fragments : Contains(s, x) => x.n < f.n
    PROVE  t = Append(s, f)
<1>1. /\ Len(s) \in Nat /\ \A i \in 1 .. Len(s) : s[i] \in Fragments /\ s[i].n \in Nat /\ Contains(s, s[i])
      /\ \A i, j \in 1 .. Len(s) : s[i].n <= s[j].n <=> i <= j
  BY RisingFacts
<1> DEFINE u == Append(s, f)
<1>2. /\ u \in Seq(Fragments) /\ Len(u) = Len(s) + 1
      /\ u[Len(s) + 1] = f /\ \A i \in 1 .. Len(s) : u[i] = s[i]
  OBVIOUS
<1> HIDE DEF u
<1>3. Rising(u)
  <2>1. ASSUME NEW i \in 1 .. Len(u), NEW j \in 1 .. Len(u), i < j PROVE u[i].n < u[j].n
    <3>1. i \in 1 .. Len(s) /\ u[i] = s[i]
      BY <1>1, <1>2, <2>1
    <3>2. CASE j \in 1 .. Len(s)
      BY <1>2, <2>1, <3>1, <3>2 DEF Rising
    <3>3. CASE j \notin 1 .. Len(s)
      <4>1. j = Len(s) + 1
        BY <1>1, <1>2, <3>3
      <4>2. QED
        BY <1>1, <1>2, <3>1, <4>1
    <3>4. QED
      BY <3>2, <3>3
  <2>2. QED
    BY <2>1 DEF Rising
<1>4. ASSUME NEW x \in Fragments PROVE Contains(u, x) <=> Contains(t, x)
  <2>1. ASSUME Contains(u, x) PROVE Contains(s, x) \/ x = f
    <3>1. PICK i \in 1 .. Len(u) : u[i] = x
      BY <2>1 DEF Contains
    <3>2. i = Len(s) + 1 \/ i \in 1 .. Len(s)
      BY <1>1, <1>2, <3>1
    <3>3. QED
      BY <1>1, <1>2, <3>1, <3>2
  <2>2. ASSUME Contains(s, x) PROVE Contains(u, x)
    <3>1. PICK i \in 1 .. Len(s) : s[i] = x
      BY <2>2 DEF Contains
    <3>2. i \in 1 .. Len(u) /\ u[i] = x
      BY <1>1, <1>2, <3>1
    <3>3. QED
      BY <3>2 DEF Contains
  <2>3. Contains(u, f)
    <3>1. Len(s) + 1 \in 1 .. Len(u)
      BY <1>1, <1>2
    <3>2. QED
      BY <1>2, <3>1 DEF Contains
  <2>4. QED
    BY <2>1, <2>2, <2>3
<1>5. u = t
  BY <1>2, <1>3, <1>4, SameFragments
<1>6. QED
  BY <1>5 DEF u

-----------------------------------------------------------------------------
(***************************************************************************)
(* Where only removals fail.                                               *)
(***************************************************************************)
OnlyRemovalsFail == Faults \subseteq {"remove"}

(* The steps that store, drop and recover nothing. *)
Idles ==
    /\ UNCHANGED <<files, w, metas, minGen, idx, appended, early, crashes>>
    /\ now' = now \/ now' = now + 1
    /\ pc' = "down" <=> pc = "down"

LEMMA NothingElseFails ==
    ASSUME BufferInv, SpanInv, OnlyRemovalsFail
    PROVE  /\ "write" \notin Faults /\ "sync" \notin Faults /\ "create" \notin Faults /\ "reopen" \notin Faults
           /\ w.err = FALSE /\ w.dirty = FALSE
           /\ w.closed <=> pc = "create"
<1>1. "write" \notin Faults /\ "sync" \notin Faults /\ "create" \notin Faults /\ "reopen" \notin Faults
  BY DEF OnlyRemovalsFail
<1>2. ~w.err /\ ~w.dirty
  BY DEF SpanInv, SoundInv
<1>3. w.err \in BOOLEAN /\ w.dirty \in BOOLEAN
  BY DEF BufferInv, TypeOK
<1>4. Faults \subseteq {"remove", "write"}
  BY DEF OnlyRemovalsFail
<1>5. w.closed <=> pc = "create"
  BY <1>4, Zenon DEF BufferInv, BytesInv
<1>6. QED
  BY <1>1, <1>2, <1>3, <1>5, Zenon

LEMMA OrderlySteps ==
    ASSUME BufferInv, SpanInv, OnlyRemovalsFail, [Next]_vars
    PROVE  \/ Idles
           \/ \E id \in Ids, at \in 0 .. now : Stores(id, at)
           \/ RollFooter \/ RollSync \/ RollCreate
           \/ ExpireRemove \/ ExpireOldest \/ ExpireSweep
           \/ Close \/ Kill \/ PowerLoss \/ Open
<1>1. /\ "write" \notin Faults /\ "sync" \notin Faults /\ "create" \notin Faults /\ "reopen" \notin Faults
      /\ w.err = FALSE /\ w.dirty = FALSE
      /\ w.closed <=> pc = "create"
  BY NothingElseFails
<1>2. TypeOK /\ OpInv
  BY DEF BufferInv
<1>3. ~PutFails
  BY <1>1 DEF PutFails
<1>4. ASSUME UNCHANGED vars PROVE Idles
  BY <1>4 DEF vars, Idles
<1>5. ASSUME Advance PROVE Idles
  BY <1>5 DEF Advance, Idles, opVars, memVars
<1>6. ASSUME NEW id \in Ids, NEW at \in Stamps, AppendFragment(id, at)
      PROVE  Idles \/ \E i \in Ids, t \in 0 .. now : Stores(i, t)
  <2>1. at \in 0 .. now
    <3>1. now \in Nat
      BY <1>2, BufferBounds DEF TypeOK
    <3>2. QED
      BY <3>1, BufferBounds DEF Stamps
  <2>2. pc = "idle" /\ todo = NoWork /\ appended < MaxAppends
    BY <1>2, <1>6 DEF AppendFragment, OpInv
  <2>3. CASE ~Fits
    BY <1>6, <2>2, <2>3 DEF AppendFragment, Idles, memVars
  <2>4. CASE Fits
    <3>1. Put(id, at)
      BY <1>3, <1>6, <2>4 DEF AppendFragment
    <3>2. Stores(id, at)
      BY <1>6, <2>2, <2>4, <3>1 DEF AppendFragment, Stores, opVars
    <3>3. QED
      BY <2>1, <3>2
  <2>5. QED
    BY <2>3, <2>4
<1>7. ASSUME NEW id \in Ids, CollectFlushFails(id) PROVE FALSE
  BY <1>1, <1>7 DEF CollectFlushFails
<1>8. ASSUME AppendAfterRoll
      PROVE  \E i \in Ids, t \in 0 .. now : Stores(i, t)
  <2>1. pc = "append" /\ todo.op = "append" /\ appended < MaxAppends
    BY <1>2, <1>8 DEF AppendAfterRoll, OpInv
  <2>2. todo.id \in Ids /\ todo.at \in 0 .. now
    BY <1>2, <2>1 DEF TypeOK, NoWork
  <2>3. Put(todo.id, todo.at)
    BY <1>3, <1>8 DEF AppendAfterRoll
  <2>4. Stores(todo.id, todo.at)
    BY <1>8, <2>1, <2>3 DEF AppendAfterRoll, Stores
  <2>5. QED
    BY <2>2, <2>4
<1>9. ~RollSyncFails /\ ~RollReopenFails /\ ~RollCreateFails
  BY <1>1 DEF RollSyncFails, RollReopenFails, RollCreateFails
<1>10. ~RollWriteFails
  BY <1>1 DEF RollWriteFails
<1>11. ASSUME ExpireBegin PROVE Idles
  BY <1>11 DEF ExpireBegin, Idles, countVars, memVars
<1>12. ASSUME ExpireDeleted PROVE Idles
  BY <1>12 DEF ExpireDeleted, Idles, countVars, memVars
<1>13. QED
  BY <1>4, <1>5, <1>6, <1>7, <1>8, <1>9, <1>10, <1>11, <1>12 DEF Next, Roll, Expire

(* The file of a writer that is neither finalizing nor closed. *)
LEMMA OpenSegment ==
    ASSUME BufferInv, OnlyRemovalsFail, pc \notin {"down", "sync"}, ~w.closed
    PROVE  /\ w.gen \in DOMAIN files /\ w.gen \notin DOMAIN metas
           /\ files[w.gen].items \in Seq(Items)
           /\ Len(files[w.gen].items) = Len(w.dir)
           /\ \A i \in 1 .. Len(files[w.gen].items) : files[w.gen].items[i].kind = "record"
<1>1. w.gen \in DOMAIN files /\ w.gen \notin DOMAIN metas
  BY DEF BufferInv, GenInv
<1>2. Clean(files[w.gen], w.dir)
  BY DEF BufferInv, FooterInv, OnlyRemovalsFail
<1>3. files[w.gen].items \in Seq(Items)
  BY <1>1, TypedDirectory DEF BufferInv, IsDirectory, FileType
<1>4. QED
  BY <1>1, <1>2, <1>3 DEF Clean, Lists

LEMMA SoundStep ==
    ASSUME BufferInv, SpanInv, OnlyRemovalsFail, [Next]_vars
    PROVE  SoundInv'
<1>1. /\ w.err = FALSE /\ w.dirty = FALSE
      /\ w.closed <=> pc = "create"
  BY NothingElseFails
<1>2. w \in [gen : Nat, dir : Seq(DirEntries), tMax : 0 .. now, closed : BOOLEAN,
             err : BOOLEAN, dirty : BOOLEAN]
  BY DEF BufferInv, TypeOK
<1>3. SUFFICES w'.err = FALSE /\ w'.dirty = FALSE
  BY DEF SoundInv
<1>4. CASE UNCHANGED w
  BY <1>1, <1>4
<1>5. CASE \E gen : w' = NewWriter(gen)
  BY <1>5 DEF NewWriter
<1>6. ASSUME NEW id \in Ids, NEW at \in 0 .. now, Stores(id, at)
      PROVE  w'.err = FALSE /\ w'.dirty = FALSE
  <2>1. w.closed = FALSE
    BY <1>1, <1>2, <1>6 DEF Stores
  <2>2. w'.err = w.err /\ w'.dirty = w.closed
    BY <1>2, <1>6 DEF Stores, Put
  <2>3. QED
    BY <1>1, <2>1, <2>2
<1>7. CASE RollSync
  BY <1>1, <1>2, <1>7 DEF RollSync
<1>8. CASE Open
  <2>1. \/ \E gen : w' = NewWriter(gen)
        \/ \E gen, d, t : w' = [NewWriter(gen) EXCEPT !.dir = d, !.tMax = t]
    BY <1>8, Zenon DEF Open
  <2>2. ASSUME NEW gen, NEW d, NEW t, w' = [NewWriter(gen) EXCEPT !.dir = d, !.tMax = t]
        PROVE  w'.err = FALSE /\ w'.dirty = FALSE
    BY <2>2 DEF NewWriter
  <2>3. QED
    BY <1>5, <2>1, <2>2, Zenon
<1>9. CASE RollFooter \/ ExpireRemove \/ ExpireOldest \/ ExpireSweep \/ Idles
  BY <1>4, <1>9 DEF RollFooter, ExpireRemove, ExpireOldest, ExpireSweep, Idles, memVars
<1>10. CASE RollCreate \/ Close \/ Kill \/ PowerLoss
  BY <1>5, <1>10, Zenon DEF RollCreate, Close, Kill, PowerLoss, GoDown
<1>11. QED
  BY <1>6, <1>7, <1>8, <1>9, <1>10, OrderlySteps, Zenon

(* The beginning of such a file is one, and so is one of records with      *)
(* another record or with a footer behind them.                            *)
LEMMA EndedBeginning ==
    ASSUME NEW I, NEW s \in Seq(I), NEW t \in Seq(I), Begins(s, t), Ended(t)
    PROVE  Ended(s)
<1>1. Len(s) \in Nat /\ Len(t) \in Nat /\ Len(s) <= Len(t) /\ \A i \in 1 .. Len(s) : s[i] = t[i] /\ i \in 1 .. Len(t)
  BY DEF Begins
<1>2. SUFFICES ASSUME NEW i \in 1 .. Len(s), s[i].kind = "footer"
               PROVE  i = Len(s) /\ s[i].off + 1 = i /\ Dated(s, s[i].tMax)
  BY DEF Ended
<1>3. s[i] = t[i] /\ i \in 1 .. Len(t)
  BY <1>1
<1>4. i = Len(t) /\ t[i].off + 1 = i /\ Dated(t, t[i].tMax)
  BY <1>2, <1>3 DEF Ended
<1>5. Dated(s, s[i].tMax)
  BY <1>1, <1>3, <1>4 DEF Dated
<1>6. QED
  BY <1>1, <1>3, <1>4, <1>5

LEMMA EndedGrown ==
    ASSUME NEW I, NEW s \in Seq(I), NEW x \in I, \A i \in 1 .. Len(s) : s[i].kind = "record",
           x.kind = "footer" => x.off = Len(s) /\ Dated(s, x.tMax)
    PROVE  Ended(Append(s, x))
<1> DEFINE t == Append(s, x)
<1>1. Len(s) \in Nat /\ Len(t) = Len(s) + 1 /\ t[Len(s) + 1] = x /\ \A i \in 1 .. Len(s) : t[i] = s[i]
  OBVIOUS
<1> HIDE DEF t
<1>2. SUFFICES ASSUME NEW i \in 1 .. Len(t), t[i].kind = "footer"
               PROVE  i = Len(t) /\ t[i].off + 1 = i /\ Dated(t, t[i].tMax)
  BY DEF Ended, t
<1>3. i = Len(s) + 1 /\ t[i] = x
  <2>1. i \in 1 .. Len(s) \/ i = Len(s) + 1
    BY <1>1
  <2>2. i \notin 1 .. Len(s)
    BY <1>1, <1>2
  <2>3. QED
    BY <1>1, <2>1, <2>2
<1>4. Dated(t, x.tMax)
  <2>1. ASSUME NEW k \in 1 .. Len(t), t[k].kind = "record" PROVE t[k].at <= x.tMax
    <3>1. k # Len(s) + 1
      BY <1>2, <1>3, <2>1
    <3>2. k \in 1 .. Len(s) /\ t[k] = s[k]
      BY <1>1, <3>1
    <3>3. Dated(s, x.tMax)
      BY <1>2, <1>3
    <3>4. QED
      BY <2>1, <3>2, <3>3 DEF Dated
  <2>2. QED
    BY <2>1 DEF Dated
<1>5. QED
  BY <1>1, <1>2, <1>3, <1>4

LEMMA EndStep ==
    ASSUME BufferInv, SpanInv, OnlyRemovalsFail, [Next]_vars
    PROVE  EndInv'
<1>1. IsDirectory(files, Items) /\ IsDirectory(files', Items)
  BY TypedDirectory, NextFiles DEF BufferInv
<1>2. SUFFICES ASSUME NEW g \in DOMAIN files' PROVE Ended(files'[g].items)
  BY Zenon DEF EndInv, Ended, Dated
<1>3. /\ \A h \in DOMAIN files : files[h].items \in Seq(Items) /\ Ended(files[h].items)
      /\ files'[g].items \in Seq(Items)
  BY <1>1 DEF IsDirectory, FileType, SpanInv, EndInv
<1>4. CASE Shrinks(files, files')
  <2>1. CASE files'[g].items = << >>
    BY <2>1 DEF Ended
  <2>2. CASE g \in DOMAIN files /\ Begins(files'[g].items, files[g].items)
    BY <1>3, <2>2, EndedBeginning
  <2>3. QED
    BY <1>4, <2>1, <2>2 DEF Shrinks
<1>5. ASSUME NEW x \in Items, Changes(files, files', w.gen, Grown(files[w.gen], x)),
             pc \notin {"down", "sync"}, ~w.closed,
             x.kind = "footer" => x.off = Len(files[w.gen].items) /\ Dated(files[w.gen].items, x.tMax)
      PROVE  Ended(files'[g].items)
  <2>1. CASE g = w.gen
    <3>1. /\ files[w.gen].items \in Seq(Items) /\ w.gen \in DOMAIN files
          /\ \A i \in 1 .. Len(files[w.gen].items) : files[w.gen].items[i].kind = "record"
      BY <1>5, OpenSegment
    <3>2. Ended(Append(files[w.gen].items, x))
      BY <1>5, <3>1, EndedGrown
    <3>3. files[w.gen] \in FileType(Items)
      BY <1>1, <3>1 DEF IsDirectory
    <3>4. Grown(files[w.gen], x).items = Append(files[w.gen].items, x)
      BY <3>3 DEF Grown, FileType
    <3>5. QED
      BY <1>5, <2>1, <3>2, <3>4, Zenon DEF Changes
  <2>2. CASE g # w.gen
    BY <1>3, <1>5, <2>2 DEF Changes
  <2>3. QED
    BY <2>1, <2>2
<1>6. ASSUME NEW id \in Ids, NEW at \in 0 .. now, Stores(id, at)
      PROVE  Ended(files'[g].items)
  <2>1. /\ pc \notin {"down", "sync"} /\ pc # "create" /\ pc # "down" /\ appended < MaxAppends
        /\ Put(id, at) /\ now' = now
    BY <1>6 DEF Stores
  <2>2. ~w.closed
    BY <2>1, NothingElseFails
  <2>3. Changes(files, files', w.gen, Grown(files[w.gen], Record(id, appended + 1, at)))
    BY <2>1, <2>2, PutFiles DEF BufferInv
  <2>4. Record(id, appended + 1, at) \in Items /\ Record(id, appended + 1, at).kind = "record"
    <3>1. appended \in 0 .. MaxAppends
      BY DEF BufferInv, TypeOK
    <3>2. appended + 1 \in 1 .. MaxAppends
      BY <2>1, <3>1, BufferBounds
    <3>3. QED
      BY <3>2 DEF Items, Record
  <2>5. QED
    BY <1>5, <2>1, <2>2, <2>3, <2>4
<1>7. CASE RollFooter
  <2>1. ~w.closed /\ pc \notin {"down", "sync"} /\ pc # "down"
    BY <1>7 DEF RollFooter
  <2>2. Changes(files, files', w.gen, Grown(files[w.gen], Footer(w.dir, w.tMax)))
    BY <1>7, FooterFiles DEF BufferInv
  <2>3. Footer(w.dir, w.tMax) \in Items
    BY DEF BufferInv, TypeOK, Items, Footer
  <2>4. Footer(w.dir, w.tMax).off = Len(w.dir) /\ Footer(w.dir, w.tMax).tMax = w.tMax
    BY DEF Footer
  <2>5. w.gen \in DOMAIN files /\ Len(files[w.gen].items) = Len(w.dir)
    BY <2>1, OpenSegment
  <2>6. Dated(files[w.gen].items, w.tMax)
    BY <2>1, <2>5, Zenon DEF SpanInv, StampInv
  <2>7. QED
    BY <1>5, <2>1, <2>2, <2>3, <2>4, <2>5, <2>6
<1>8. Shrinks(files, files') \/ RollFooter \/ \E id \in Ids, at \in 0 .. now : Stores(id, at)
  <2>1. Shrinks(files, files)
    BY <1>3 DEF Shrinks, Begins
  <2>2. TypeOK /\ GenInv /\ OpInv
    BY DEF BufferInv
  <2>3. CASE Idles \/ ExpireSweep
    <3>1. files' = files
      BY <2>3 DEF Idles, ExpireSweep
    <3>2. QED
      BY <2>1, <3>1, Zenon
  <2>4. CASE RollSync \/ Close
    <3>1. w.gen \in DOMAIN files /\ files' = [files EXCEPT ![w.gen] = Synced(@)]
      BY <2>2, <2>4 DEF OpInv, GenInv, RollSync, Close
    <3>2. QED
      BY <2>2, <3>1, SyncFiles
  <2>5. CASE RollCreate
    <3>1. w.gen + 1 \in Nat \ {0}
      BY <2>2 DEF TypeOK
    <3>2. w.gen + 1 \notin DOMAIN files /\ files' = With(files, w.gen + 1, EmptyFile)
      BY <2>5 DEF RollCreate
    <3>3. QED
      BY <2>2, <3>1, <3>2, CreateFiles
  <2>6. CASE ExpireRemove \/ ExpireOldest
    BY <2>2, <2>6, RemoveFiles DEF ExpireRemove, ExpireOldest
  <2>7. CASE Kill \/ PowerLoss \/ Open
    BY <2>2, <2>7, KillFiles, PowerFiles, OpenFiles
  <2>8. QED
    BY <2>3, <2>4, <2>5, <2>6, <2>7, OrderlySteps
<1>9. QED
  BY <1>4, <1>6, <1>7, <1>8

LEMMA DatedGrown ==
    ASSUME NEW I, NEW s \in Seq(I), NEW x \in I, NEW t \in Nat, NEW u \in Nat, t <= u, Dated(s, t),
           \A y \in I : y.kind = "record" => y.at \in Nat,
           x.kind = "record" => x.at <= u
    PROVE  Dated(Append(s, x), u)
<1> DEFINE r == Append(s, x)
<1>1. Len(s) \in Nat /\ Len(r) = Len(s) + 1 /\ r[Len(s) + 1] = x /\ \A i \in 1 .. Len(s) : r[i] = s[i] /\ s[i] \in I
  OBVIOUS
<1> HIDE DEF r
<1>2. SUFFICES ASSUME NEW i \in 1 .. Len(r), r[i].kind = "record"
               PROVE  r[i].at <= u
  BY DEF Dated, r
<1>3. CASE i = Len(s) + 1
  BY <1>1, <1>2, <1>3
<1>4. CASE i # Len(s) + 1
  <2>1. i \in 1 .. Len(s)
    BY <1>1, <1>4
  <2>2. r[i] = s[i] /\ s[i] \in I /\ s[i].kind = "record"
    BY <1>1, <1>2, <2>1
  <2>3. s[i].at <= t /\ s[i].at \in Nat
    BY <2>1, <2>2 DEF Dated
  <2>4. QED
    BY <2>2, <2>3
<1>5. QED
  BY <1>3, <1>4

LEMMA StampStep ==
    ASSUME BufferInv, SpanInv, OnlyRemovalsFail, [Next]_vars
    PROVE  StampInv'
<1>1. IsDirectory(files, Items) /\ TypeOK /\ GenInv /\ OpInv
  BY TypedDirectory DEF BufferInv
<1>2. /\ \A h \in DOMAIN files : files[h] \in FileType(Items) /\ files[h].items \in Seq(Items)
      /\ pc # "down" /\ w.gen \in DOMAIN files => Dated(files[w.gen].items, w.tMax)
      /\ \A g \in DOMAIN metas : Dated(files[g].items, metas[g].tMax)
  BY <1>1 DEF IsDirectory, FileType, SpanInv, StampInv
<1>3. pc # "down" => DOMAIN metas \subseteq DOMAIN files
  BY <1>1 DEF GenInv
<1>4. SUFFICES /\ pc' # "down" /\ w'.gen \in DOMAIN files' => Dated(files'[w'.gen].items, w'.tMax)
               /\ \A g \in DOMAIN metas' : Dated(files'[g].items, metas'[g].tMax)
  BY Zenon DEF StampInv, Dated
<1>5. CASE Idles \/ ExpireSweep
  <2>1. UNCHANGED <<files, w, metas>> /\ (pc' # "down" => pc # "down")
    BY <1>5 DEF Idles, ExpireSweep
  <2>2. QED
    BY <1>2, <2>1, Zenon
<1>6. ASSUME NEW x \in Items, NEW t \in Nat,
             Changes(files, files', w.gen, Grown(files[w.gen], x)),
             pc \notin {"down", "sync"}, ~w.closed, w'.gen = w.gen, w'.tMax = t, w.tMax <= t,
             x.kind = "record" => x.at <= t, metas' = metas
      PROVE  /\ w'.gen \in DOMAIN files' => Dated(files'[w'.gen].items, w'.tMax)
             /\ \A g \in DOMAIN metas' : Dated(files'[g].items, metas'[g].tMax)
  <2>1. w.gen \in DOMAIN files /\ w.gen \notin DOMAIN metas /\ files[w.gen].items \in Seq(Items)
    BY <1>6, OpenSegment
  <2>2. Grown(files[w.gen], x).items = Append(files[w.gen].items, x)
    BY <1>2, <2>1 DEF Grown, FileType
  <2>3. w.tMax \in Nat /\ \A y \in Items : y.kind = "record" => y.at \in Nat
    <3>1. w.tMax \in Nat /\ now \in Nat
      BY <1>1, BufferBounds DEF TypeOK
    <3>2. QED
      BY <3>1 DEF Items
  <2>4. Dated(files[w.gen].items, w.tMax)
    BY <1>2, <1>6, <2>1
  <2>5. Dated(Append(files[w.gen].items, x), t)
    BY <1>6, <2>1, <2>3, <2>4, DatedGrown
  <2>6. ASSUME NEW g \in DOMAIN metas' PROVE Dated(files'[g].items, metas'[g].tMax)
    <3>1. g \in DOMAIN metas /\ g # w.gen /\ g \in DOMAIN files
      BY <1>3, <1>6, <2>1
    <3>2. files'[g] = files[g]
      BY <1>6, <3>1 DEF Changes
    <3>3. QED
      BY <1>2, <1>6, <3>1, <3>2, Zenon
  <2>7. files'[w'.gen].items = Append(files[w.gen].items, x)
    BY <1>6, <2>2, Zenon DEF Changes
  <2>8. QED
    BY <1>6, <2>5, <2>6, <2>7, Zenon
<1>7. ASSUME NEW id \in Ids, NEW at \in 0 .. now, Stores(id, at)
      PROVE  /\ w'.gen \in DOMAIN files' => Dated(files'[w'.gen].items, w'.tMax)
             /\ \A g \in DOMAIN metas' : Dated(files'[g].items, metas'[g].tMax)
  <2>1. /\ pc \notin {"down", "sync"} /\ pc # "create" /\ pc # "down" /\ appended < MaxAppends
        /\ Put(id, at) /\ now' = now
    BY <1>7 DEF Stores
  <2>2. ~w.closed
    BY <2>1, NothingElseFails
  <2>3. Changes(files, files', w.gen, Grown(files[w.gen], Record(id, appended + 1, at)))
    BY <1>1, <2>1, <2>2, PutFiles
  <2>4. Record(id, appended + 1, at) \in Items /\ Record(id, appended + 1, at).at = at
    <3>1. appended \in 0 .. MaxAppends
      BY <1>1 DEF TypeOK
    <3>2. appended + 1 \in 1 .. MaxAppends
      BY <2>1, <3>1, BufferBounds
    <3>3. QED
      BY <3>2 DEF Items, Record
  <2>5. w.tMax \in Int /\ at \in Int /\ w.tMax \in Nat /\ at \in Nat
    BY <1>1, BufferBounds DEF TypeOK
  <2> DEFINE m == Max({w.tMax, at})
  <2>6. m \in Nat /\ w.tMax <= m /\ at <= m
    BY <2>5, MaxOfTwo
  <2>7. w'.gen = w.gen /\ w'.tMax = m /\ metas' = metas
    BY <1>1, <2>1 DEF Put, TypeOK
  <2> HIDE DEF m
  <2>8. QED
    BY <1>6, <2>1, <2>2, <2>3, <2>4, <2>6, <2>7
<1>8. CASE RollFooter
  <2>1. ~w.closed /\ pc \notin {"down", "sync"} /\ w' = w /\ metas' = metas
    BY <1>8 DEF RollFooter, memVars
  <2>2. Changes(files, files', w.gen, Grown(files[w.gen], Footer(w.dir, w.tMax)))
    BY <1>1, <1>8, FooterFiles
  <2>3. Footer(w.dir, w.tMax) \in Items /\ Footer(w.dir, w.tMax).kind # "record"
    BY <1>1 DEF TypeOK, Items, Footer
  <2>4. w.tMax \in Nat /\ w.tMax <= w.tMax
    BY <1>1, BufferBounds DEF TypeOK
  <2>5. QED
    BY <1>6, <2>1, <2>2, <2>3, <2>4
<1>9. CASE RollSync
  <2>1. /\ w.gen \in DOMAIN files /\ files' = [files EXCEPT ![w.gen] = Synced(@)] /\ pc # "down"
        /\ w'.gen = w.gen /\ w'.tMax = w.tMax
        /\ metas' = With(metas, w.gen, [tMax |-> w.tMax, size |-> Len(files[w.gen].items)])
    BY <1>1, <1>9 DEF OpInv, GenInv, RollSync, TypeOK
  <2>2. DOMAIN files' = DOMAIN files /\ \A g \in DOMAIN files : files'[g].items = files[g].items
    BY <1>1, <2>1, SyncFiles DEF Changes
  <2>3. Dated(files[w.gen].items, w.tMax)
    BY <1>2, <2>1
  <2>4. ASSUME NEW g \in DOMAIN metas' PROVE Dated(files'[g].items, metas'[g].tMax)
    <3>1. CASE g = w.gen
      <4>1. metas'[g].tMax = w.tMax
        BY <2>1, <3>1 DEF With
      <4>2. QED
        BY <2>1, <2>2, <2>3, <3>1, <4>1
    <3>2. CASE g # w.gen
      <4>1. g \in DOMAIN metas /\ metas'[g] = metas[g] /\ g \in DOMAIN files
        BY <1>3, <2>1, <3>2 DEF With
      <4>2. QED
        BY <1>2, <2>2, <4>1
    <3>3. QED
      BY <3>1, <3>2
  <2>5. QED
    BY <2>1, <2>2, <2>3, <2>4
<1>10. CASE RollCreate
  <2>1. w.gen + 1 \in Nat \ {0}
    BY <1>1 DEF TypeOK
  <2>2. /\ w.gen + 1 \notin DOMAIN files /\ files' = With(files, w.gen + 1, EmptyFile)
        /\ w'.gen = w.gen + 1 /\ metas' = metas /\ pc # "down"
    BY <1>10 DEF RollCreate, NewWriter
  <2>3. files'[w'.gen].items = << >> /\ \A g \in DOMAIN files : files'[g] = files[g]
    BY <1>1, <2>1, <2>2, CreateFiles
  <2>4. Dated(files'[w'.gen].items, w'.tMax)
    BY <2>3 DEF Dated
  <2>5. QED
    BY <1>2, <1>3, <2>2, <2>3, <2>4
<1>11. CASE ExpireRemove \/ ExpireOldest
  <2>1. RemoveOldest /\ w' = w /\ pc # "down"
    BY <1>11 DEF ExpireRemove, ExpireOldest
  <2>2. /\ DOMAIN files' \subseteq DOMAIN files /\ \A g \in DOMAIN files' : files'[g] = files[g]
        /\ DOMAIN metas' = DOMAIN metas \ {Oldest} /\ \A g \in DOMAIN metas' : metas'[g] = metas[g]
        /\ DOMAIN files' = DOMAIN files \ {Oldest}
    BY <1>1, <2>1, RemoveFiles
  <2>3. ASSUME NEW g \in DOMAIN metas' PROVE Dated(files'[g].items, metas'[g].tMax)
    <3>1. g \in DOMAIN metas /\ g \in DOMAIN files'
      BY <1>3, <2>1, <2>2
    <3>2. QED
      BY <1>2, <2>2, <3>1
  <2>4. QED
    BY <1>2, <2>1, <2>2, <2>3
<1>12. CASE Close \/ Kill \/ PowerLoss
  <2>1. pc' = "down" /\ metas' = NoMap
    BY <1>12 DEF Close, Kill, PowerLoss, GoDown
  <2>2. DOMAIN metas' = {}
    BY <2>1 DEF NoMap
  <2>3. QED
    BY <2>1, <2>2
<1>13. CASE Open
  <2>1. ASSUME NEW g \in DOMAIN metas' PROVE Dated(files'[g].items, metas'[g].tMax)
    <3>1. g \in DOMAIN files /\ HasFooter(files[g]) /\ metas'[g].tMax = Last(files[g].items).tMax
      BY <1>13, <2>1 DEF Open
    <3>2. g # w'.gen
      BY <1>1, <1>13, <3>1, OpenWriter
    <3>3. files'[g] = files[g]
      BY <1>1, <1>13, <3>1, <3>2, OpenFiles
    <3> DEFINE s == files[g].items
    <3>4. s \in Seq(Items) /\ s # << >> /\ s[Len(s)].kind = "footer" /\ Last(s) = s[Len(s)]
      BY <1>2, <3>1 DEF HasFooter, Last
    <3>5. Ended(s)
      BY <3>1 DEF SpanInv, EndInv
    <3> HIDE DEF s
    <3>6. Len(s) \in 1 .. Len(s)
      BY <3>4
    <3>7. Dated(s, s[Len(s)].tMax)
      BY <3>4, <3>5, <3>6 DEF Ended
    <3>8. QED
      BY <3>1, <3>3, <3>4, <3>7 DEF s
  <2>2. Dated(files'[w'.gen].items, w'.tMax)
    <3>1. CASE w'.gen \notin DOMAIN files
      <4>1. files'[w'.gen].items = << >>
        BY <1>1, <1>13, <3>1, OpenWriter
      <4>2. QED
        BY <4>1 DEF Dated
    <3>2. CASE w'.gen \in DOMAIN files
      <4> DEFINE n == w'.gen
                 f == files[w'.gen]
                 s == files'[w'.gen].items
      <4>1. w' = [NewWriter(n) EXCEPT !.dir = ScannedDir(f), !.tMax = now]
        BY <1>1, <1>13, <3>2, OpenFiles, Zenon
      <4>2. w'.tMax = now
        <5> HIDE DEF n, f
        <5>1. QED
          BY <4>1 DEF NewWriter
      <4>3. s \in Seq(Items)
        <5>1. IsDirectory(files', Items) /\ DOMAIN files' = DOMAIN files \cup {n}
          BY <1>1, <1>13, OpenFiles
        <5>2. QED
          BY <5>1 DEF IsDirectory, FileType
      <4>4. \A y \in Items : y.kind = "record" => y.at \in 0 .. now
        BY DEF Items
      <4>5. now \in Nat
        BY <1>1, BufferBounds DEF TypeOK
      <4> HIDE DEF s
      <4>6. Dated(s, now)
        <5>1. ASSUME NEW i \in 1 .. Len(s), s[i].kind = "record" PROVE s[i].at <= now
          BY <4>3, <4>4, <4>5, <5>1
        <5>2. QED
          BY <5>1 DEF Dated
      <4>7. QED
        BY <4>2, <4>6 DEF s
    <3>3. QED
      BY <3>1, <3>2
  <2>3. QED
    BY <2>1, <2>2
<1>14. QED
  BY <1>5, <1>7, <1>8, <1>9, <1>10, <1>11, <1>12, <1>13, OrderlySteps, Zenon

(* Every record of the directory has its loc in an index. *)
Located(fs, ix) ==
    \A g \in DOMAIN fs : \A i \in 1 .. Len(fs[g].items) :
        fs[g].items[i].kind = "record" => \E k \in 1 .. Len(ix) : ix[k].gen = g /\ ix[k].off = i - 1

(* Recovery lists every record. *)
LEMMA AllListed ==
    ASSUME NEW f \in FileType(Items), \A i \in 1 .. Len(f.items) : FooterFits(f.items, i), Ended(f.items),
           NEW i \in 1 .. Len(f.items), f.items[i].kind = "record"
    PROVE  /\ i \in 1 .. Len(Entries(f))
           /\ i <= ValidEnd(f)
<1> DEFINE s == f.items
<1>1. s \in Seq(Items) /\ Len(s) \in Nat /\ \A k \in 1 .. Len(s) : s[k] \in Items /\ s[k].kind \in {"record", "footer"}
  BY ItemFacts DEF FileType
<1>2. /\ ValidEnd(f) \in 0 .. Len(s)
      /\ ValidEnd(f) < Len(s) => s[ValidEnd(f) + 1].kind # "record"
  BY <1>1, ScanEnds
<1>3. Len(ScannedDir(f)) = ValidEnd(f)
  BY EntriesFit
<1> HIDE DEF s
<1>4. i <= ValidEnd(f)
  <2>1. SUFFICES ASSUME i > ValidEnd(f) PROVE FALSE
    BY <1>1, <1>2 DEF s
  <2> DEFINE k == ValidEnd(f) + 1
  <2>2. k \in 1 .. Len(s) /\ k <= i /\ s[k].kind = "footer"
    BY <1>1, <1>2, <2>1 DEF s
  <2> HIDE DEF k
  <2>3. k = Len(s)
    BY <2>2 DEF Ended, s
  <2>4. i = k
    BY <1>1, <2>2, <2>3 DEF s
  <2>5. QED
    BY <2>2, <2>4 DEF s
<1>5. CASE HasFooter(f)
  <2> DEFINE x == s[Len(s)]
  <2>1. s # << >> /\ x.kind = "footer" /\ x.off + 1 = Len(s)
    BY <1>5 DEF HasFooter, Last, s
  <2>2. Len(s) \in 1 .. Len(s) /\ i # Len(s) /\ i \in 1 .. Len(s)
    BY <1>1, <2>1 DEF s
  <2>3. x.off = Len(x.dir)
    BY <2>1, <2>2 DEF FooterFits, s
  <2>4. Entries(f) = x.dir
    BY <1>5 DEF Entries, Last, s
  <2>5. Len(Entries(f)) = Len(s) - 1
    <3>1. x.off \in Nat
      BY <1>1, <2>1, <2>2, ItemFacts
    <3> HIDE DEF x
    <3>2. QED
      BY <1>1, <2>1, <2>3, <2>4, <3>1
  <2>6. QED
    BY <1>1, <1>4, <2>2, <2>5
<1>6. CASE ~HasFooter(f)
  <2>1. Entries(f) = ScannedDir(f)
    BY <1>6 DEF Entries
  <2>2. QED
    BY <1>1, <1>2, <1>3, <1>4, <2>1
<1>7. QED
  BY <1>5, <1>6

(* As long as kills and power losses do not mix, no file is left behind    *)
(* minGen.                                                                 *)
LEMMA FilesAhead ==
    ASSUME BufferInv, SpanInv, OnlyRemovalsFail, UnmixedCrashes, pc # "down", NEW g \in DOMAIN files
    PROVE  minGen <= g
<1>1. GenInv /\ OpInv /\ GensContiguous /\ TypeOK
  BY DEF BufferInv, GenInv
<1>2. g \in Nat /\ minGen \in Nat /\ w.gen \in Nat
  BY <1>1 DEF TypeOK
<1>3. CASE g \in DOMAIN metas
  <2>1. g \in minGen .. w.gen
    BY <1>1, <1>3 DEF GensContiguous
  <2>2. QED
    BY <1>2, <2>1
<1>4. CASE g \notin DOMAIN metas
  <2>1. g = w.gen
    BY <1>1, <1>4 DEF GenInv
  <2>2. ~w.closed
    BY <1>1, <1>4, <2>1, NothingElseFails DEF OpInv
  <2>3. minGen <= w.gen
    BY <1>1, <2>2 DEF GenInv
  <2>4. QED
    BY <2>1, <2>3
<1>5. QED
  BY <1>3, <1>4

LEMMA LocatedStep ==
    ASSUME BufferInv, SpanInv, OnlyRemovalsFail, UnmixedCrashes, [Next]_vars
    PROVE  LocatedInv'
<1>1. IsDirectory(files, Items) /\ TypeOK /\ GenInv /\ OpInv /\ FileInv
  BY TypedDirectory DEF BufferInv
<1>2. /\ \A h \in DOMAIN files : files[h] \in FileType(Items) /\ files[h].items \in Seq(Items)
      /\ pc # "down" => Located(files, idx)
  BY <1>1 DEF IsDirectory, FileType, SpanInv, LocatedInv, Located
<1>3. SUFFICES ASSUME pc' # "down" PROVE Located(files', idx')
  BY Zenon DEF LocatedInv, Located
<1>4. idx \in Seq(LocType)
  BY <1>1 DEF TypeOK, LocType
<1>5. ASSUME pc # "down", idx' = idx,
             \A g \in DOMAIN files' : \/ files'[g].items = << >>
                                      \/ g \in DOMAIN files /\ files'[g].items = files[g].items
      PROVE  Located(files', idx')
  <2>1. SUFFICES ASSUME NEW g \in DOMAIN files', NEW i \in 1 .. Len(files'[g].items),
                        files'[g].items[i].kind = "record"
                 PROVE  \E k \in 1 .. Len(idx) : idx[k].gen = g /\ idx[k].off = i - 1
    BY <1>5, Zenon DEF Located
  <2>2. CASE files'[g].items = << >>
    BY <2>1, <2>2
  <2>3. CASE g \in DOMAIN files /\ files'[g].items = files[g].items
    <3>1. i \in 1 .. Len(files[g].items) /\ files[g].items[i].kind = "record"
      BY <2>1, <2>3
    <3>2. QED
      BY <1>2, <1>5, <2>3, <3>1, Zenon DEF Located
  <2>4. QED
    BY <1>5, <2>2, <2>3
<1>6. CASE Idles
  BY <1>3, <1>5, <1>6 DEF Idles
<1>7. ASSUME NEW id \in Ids, NEW at \in 0 .. now, Stores(id, at)
      PROVE  Located(files', idx')
  <2>1. /\ pc \notin {"down", "sync"} /\ pc # "create" /\ pc # "down" /\ appended < MaxAppends
        /\ Put(id, at) /\ now' = now
    BY <1>7 DEF Stores
  <2>2. ~w.closed
    BY <2>1, NothingElseFails
  <2>3. Changes(files, files', w.gen, Grown(files[w.gen], Record(id, appended + 1, at)))
    BY <1>1, <2>1, <2>2, PutFiles
  <2>4. w.gen \in DOMAIN files /\ Len(files[w.gen].items) = Len(w.dir)
    BY <2>1, <2>2, OpenSegment
  <2> DEFINE s == files[w.gen].items
             x == Record(id, appended + 1, at)
             l == [id |-> id, gen |-> w.gen, off |-> Len(w.dir)]
  <2>5. idx' = Append(idx, l)
    BY <2>1 DEF Put
  <2>6. Len(idx) \in Nat /\ Len(idx') = Len(idx) + 1 /\ idx'[Len(idx) + 1] = l
        /\ \A k \in 1 .. Len(idx) : idx'[k] = idx[k]
    <3> HIDE DEF l
    <3>1. QED
      BY <1>4, <2>5
  <2>7. l.gen = w.gen /\ l.off = Len(w.dir)
    OBVIOUS
  <2> HIDE DEF l
  <2>8. files'[w.gen].items = Append(s, x)
    <3>1. Grown(files[w.gen], x).items = Append(s, x)
      BY <1>2, <2>4 DEF Grown, FileType
    <3>2. QED
      BY <2>3, <3>1, Zenon DEF Changes
  <2>9. s \in Seq(Items) /\ Len(s) = Len(w.dir)
    BY <1>2, <2>4
  <2>10. ASSUME NEW g \in DOMAIN files', NEW i \in 1 .. Len(files'[g].items),
                files'[g].items[i].kind = "record"
         PROVE  \E k \in 1 .. Len(idx') : idx'[k].gen = g /\ idx'[k].off = i - 1
    <3>1. CASE g = w.gen /\ i = Len(s) + 1
      <4>1. Len(idx) + 1 \in 1 .. Len(idx') /\ i - 1 = Len(w.dir)
        BY <2>6, <2>9, <3>1
      <4>2. QED
        BY <2>6, <2>7, <3>1, <4>1, Zenon
    <3>2. CASE ~(g = w.gen /\ i = Len(s) + 1)
      <4>1. g \in DOMAIN files /\ i \in 1 .. Len(files[g].items) /\ files[g].items[i].kind = "record"
        <5>1. CASE g = w.gen
          <6> HIDE DEF s, x
          <6>1. i \in 1 .. Len(Append(s, x)) /\ Len(Append(s, x)) = Len(s) + 1 /\ Len(s) \in Nat
            BY <2>8, <2>9, <5>1
          <6>2. i \in 1 .. Len(s)
            BY <3>2, <5>1, <6>1
          <6>3. Append(s, x)[i] = s[i]
            BY <2>9, <6>2
          <6>4. QED
            BY <2>4, <2>8, <2>10, <5>1, <6>2, <6>3 DEF s
        <5>2. CASE g # w.gen
          BY <2>3, <2>10, <5>2 DEF Changes
        <5>3. QED
          BY <5>1, <5>2
      <4>2. PICK k \in 1 .. Len(idx) : idx[k].gen = g /\ idx[k].off = i - 1
        BY <1>2, <2>1, <4>1, Zenon DEF Located
      <4>3. k \in 1 .. Len(idx') /\ idx'[k] = idx[k]
        BY <2>6
      <4>4. QED
        BY <4>2, <4>3, Zenon
    <3>3. QED
      BY <3>1, <3>2
  <2>11. QED
    BY <2>10, Zenon DEF Located
<1>8. CASE RollFooter
  <2>1. ~w.closed /\ pc # "down" /\ idx' = idx
    BY <1>8 DEF RollFooter, memVars
  <2>2. Changes(files, files', w.gen, Grown(files[w.gen], Footer(w.dir, w.tMax)))
    BY <1>1, <1>8, FooterFiles
  <2> DEFINE s == files[w.gen].items
             x == Footer(w.dir, w.tMax)
  <2>3. s \in Seq(Items) /\ w.gen \in DOMAIN files
    BY <1>2, <2>2 DEF Changes
  <2>4. files'[w.gen].items = Append(s, x)
    <3>1. Grown(files[w.gen], x).items = Append(s, x)
      BY <1>2, <2>3 DEF Grown, FileType
    <3>2. QED
      BY <2>2, <3>1, Zenon DEF Changes
  <2>5. x.kind = "footer"
    BY DEF Footer
  <2>6. ASSUME NEW g \in DOMAIN files', NEW i \in 1 .. Len(files'[g].items),
               files'[g].items[i].kind = "record"
        PROVE  \E k \in 1 .. Len(idx') : idx'[k].gen = g /\ idx'[k].off = i - 1
    <3>1. g \in DOMAIN files /\ i \in 1 .. Len(files[g].items) /\ files[g].items[i].kind = "record"
      <4>1. CASE g = w.gen
        <5> HIDE DEF s, x
        <5>1. i \in 1 .. Len(s) \/ i = Len(s) + 1
          BY <2>3, <2>4, <4>1
        <5>2. i # Len(s) + 1
          BY <2>3, <2>4, <2>5, <2>6, <4>1
        <5>3. Append(s, x)[i] = s[i]
          BY <2>3, <5>1, <5>2
        <5>4. QED
          BY <2>3, <2>4, <2>6, <4>1, <5>1, <5>2, <5>3 DEF s
      <4>2. CASE g # w.gen
        BY <2>2, <2>6, <4>2 DEF Changes
      <4>3. QED
        BY <4>1, <4>2
    <3>2. QED
      BY <1>2, <2>1, <3>1, Zenon DEF Located
  <2>7. QED
    BY <2>6, Zenon DEF Located
<1>9. CASE RollSync
  <2>1. w.gen \in DOMAIN files /\ files' = [files EXCEPT ![w.gen] = Synced(@)] /\ pc # "down" /\ idx' = idx
    BY <1>1, <1>9 DEF OpInv, GenInv, RollSync
  <2>2. DOMAIN files' = DOMAIN files /\ \A g \in DOMAIN files : files'[g].items = files[g].items
    BY <1>1, <2>1, SyncFiles DEF Changes
  <2>3. QED
    BY <1>5, <2>1, <2>2, Zenon
<1>10. CASE RollCreate
  <2>1. w.gen + 1 \in Nat \ {0}
    BY <1>1 DEF TypeOK
  <2>2. w.gen + 1 \notin DOMAIN files /\ files' = With(files, w.gen + 1, EmptyFile) /\ pc # "down" /\ idx' = idx
    BY <1>10 DEF RollCreate
  <2>3. /\ DOMAIN files' = DOMAIN files \cup {w.gen + 1}
        /\ files'[w.gen + 1].items = << >> /\ \A g \in DOMAIN files : files'[g] = files[g]
    BY <1>1, <2>1, <2>2, CreateFiles
  <2>4. QED
    BY <1>5, <2>2, <2>3
<1>11. CASE ExpireRemove \/ ExpireOldest
  <2>1. RemoveOldest /\ idx' = idx /\ pc # "down"
    BY <1>11 DEF ExpireRemove, ExpireOldest
  <2>2. DOMAIN files' = DOMAIN files \ {Oldest} /\ \A g \in DOMAIN files' : files'[g] = files[g]
    BY <1>1, <2>1, RemoveFiles
  <2>3. QED
    BY <1>5, <2>1, <2>2
<1>12. CASE ExpireSweep
  <2>1. PICK S \in SUBSET {id \in Ids : Dead(id)} : idx' = Freed(S)
    BY <1>12 DEF ExpireSweep
  <2>2. files' = files /\ pc # "down"
    BY <1>12 DEF ExpireSweep
  <2>3. Ascending(idx)
    BY DEF BufferInv, IdxInv, Ascending
  <2>4. \A i \in 1 .. Len(idx) : idx[i].id \notin S => \E k \in 1 .. Len(Freed(S)) : Freed(S)[k] = idx[i]
    BY <1>4, <2>3, SweptIndex
  <2>5. ASSUME NEW g \in DOMAIN files', NEW i \in 1 .. Len(files'[g].items),
               files'[g].items[i].kind = "record"
        PROVE  \E k \in 1 .. Len(idx') : idx'[k].gen = g /\ idx'[k].off = i - 1
    <3>1. PICK j \in 1 .. Len(idx) : idx[j].gen = g /\ idx[j].off = i - 1
      BY <1>2, <2>2, <2>5, Zenon DEF Located
    <3>2. minGen <= g /\ g \in Nat /\ minGen \in Nat
      BY <1>1, <2>2, FilesAhead DEF TypeOK
    <3>3. ~(idx[j].gen < minGen)
      BY <3>1, <3>2
    <3>4. ~Dead(idx[j].id)
      BY <3>3 DEF Dead
    <3>5. idx[j].id \notin S
      BY <2>1, <3>4
    <3>6. QED
      BY <2>1, <2>4, <3>1, <3>5, Zenon
  <2>6. QED
    BY <2>5, Zenon DEF Located
<1>13. CASE Close \/ Kill \/ PowerLoss
  BY <1>3, <1>13 DEF Close, Kill, PowerLoss, GoDown
<1>14. CASE Open
  <2>1. /\ DOMAIN files' = DOMAIN files \cup {w'.gen}
        /\ \A g \in DOMAIN files : g # w'.gen => files'[g] = files[g]
    BY <1>1, <1>14, OpenFiles
  <2>2. idx' = RecoveredLocs
    BY <1>14 DEF Open
  <2>3. \A g \in DOMAIN files : \A i \in 1 .. Len(Entries(files[g])) :
            \E k \in 1 .. Len(RecoveredLocs) : RecoveredLocs[k].gen = g /\ RecoveredLocs[k].off = i - 1
    BY <1>1, RecoveredIndex
  <2>4. ASSUME NEW g \in DOMAIN files', NEW i \in 1 .. Len(files'[g].items),
               files'[g].items[i].kind = "record"
        PROVE  g \in DOMAIN files /\ i \in 1 .. Len(files[g].items) /\ files[g].items[i].kind = "record"
    <3>1. CASE g # w'.gen
      BY <2>1, <2>4, <3>1
    <3>2. CASE g = w'.gen /\ w'.gen \notin DOMAIN files
      <4>1. files'[g].items = << >>
        BY <1>1, <1>14, <3>2, OpenWriter
      <4>2. QED
        BY <2>4, <4>1
    <3>3. CASE g = w'.gen /\ w'.gen \in DOMAIN files
      <4>1. files'[g].items = SubSeq(files[g].items, 1, ValidEnd(files[g]))
        BY <1>1, <1>14, <3>3, OpenWriter
      <4> DEFINE f == files[g]
      <4>2. f \in FileType(Items) /\ f.items \in Seq(Items)
        BY <1>2, <3>3
      <4> HIDE DEF f
      <4>3. ValidEnd(f) \in 0 .. Len(f.items)
        BY <4>2, ScanEnds
      <4>4. Begins(SubSeq(f.items, 1, ValidEnd(f)), f.items)
        BY <4>2, <4>3, CutFile
      <4>5. Begins(files'[g].items, files[g].items)
        BY <4>1, <4>4, Zenon DEF f
      <4>6. Len(files[g].items) \in Nat /\ Len(files'[g].items) \in Nat
        BY <4>1, <4>2, <4>3 DEF f
      <4>7. QED
        BY <2>4, <3>3, <4>5, <4>6 DEF Begins
    <3>4. QED
      BY <3>1, <3>2, <3>3
  <2>5. ASSUME NEW g \in DOMAIN files', NEW i \in 1 .. Len(files'[g].items),
               files'[g].items[i].kind = "record"
        PROVE  \E k \in 1 .. Len(idx') : idx'[k].gen = g /\ idx'[k].off = i - 1
    <3>1. g \in DOMAIN files /\ i \in 1 .. Len(files[g].items) /\ files[g].items[i].kind = "record"
      BY <2>4, <2>5
    <3>2. /\ files[g] \in FileType(Items) /\ \A k \in 1 .. Len(files[g].items) : FooterFits(files[g].items, k)
          /\ Ended(files[g].items)
      BY <1>1, <1>2, <3>1 DEF FileInv, SpanInv, EndInv
    <3>3. i \in 1 .. Len(Entries(files[g]))
      BY <3>1, <3>2, AllListed
    <3>4. QED
      BY <2>2, <2>3, <3>1, <3>3, Zenon
  <2>6. QED
    BY <2>5, Zenon DEF Located
<1>15. QED
  BY <1>6, <1>7, <1>8, <1>9, <1>10, <1>11, <1>12, <1>13, <1>14, OrderlySteps, Zenon

LEMMA InitSpan == Init => SpanInv
<1> SUFFICES ASSUME Init PROVE SpanInv
  OBVIOUS
<1>1. DOMAIN files = {1} /\ files[1].items = << >> /\ w = NewWriter(1) /\ DOMAIN metas = {}
  BY DEF Init, EmptyFile, NoMap
<1>2. w.err = FALSE /\ w.dirty = FALSE /\ w.gen = 1
  BY <1>1 DEF NewWriter
<1>3. EndInv
  BY <1>1 DEF EndInv, Ended
<1>4. StampInv
  BY <1>1, <1>2 DEF StampInv, Dated
<1>5. LocatedInv
  BY <1>1 DEF LocatedInv
<1>6. QED
  BY <1>2, <1>3, <1>4, <1>5 DEF SpanInv, SoundInv

(* Where only removals fail, every record on disk has its loc in the       *)
(* index, footers end their files, and no segment's clock is behind its    *)
(* records.                                                                *)
THEOREM SpanInvariant ==
    ASSUME UnmixedCrashes, OnlyRemovalsFail
    PROVE  Spec => []SpanInv
<1>1. BufferInv /\ SpanInv /\ [Next]_vars => SpanInv'
  <2> SUFFICES ASSUME BufferInv, SpanInv, [Next]_vars PROVE SpanInv'
    OBVIOUS
  <2>1. QED
    BY EndStep, StampStep, LocatedStep, SoundStep, Zenon DEF SpanInv
<1>2. QED
  BY <1>1, InitSpan, BufferInvariant, PTL DEF Spec

-----------------------------------------------------------------------------
(***************************************************************************)
(* What is live is what the directory holds.                               *)
(***************************************************************************)
FragmentOf(r) == [id |-> r.id, n |-> r.n, at |-> r.at]

Stored(fs, x) ==
    \E g \in DOMAIN fs : \E i \in 1 .. Len(fs[g].items) :
        fs[g].items[i].kind = "record" /\ x = FragmentOf(fs[g].items[i])

(* s lists the records of a directory in append order. *)
Kept(s, fs) ==
    /\ s \in Seq(Fragments)
    /\ Rising(s)
    /\ \A x \in Fragments : Contains(s, x) <=> Stored(fs, x)

LEMMA LocFacts == \A l \in LocType : l.id \in Ids /\ l.gen \in Nat /\ l.off \in Nat
BY DEF LocType

(* The records that the locs of a complete index lead to. *)
LEMMA LocatedRecords ==
    ASSUME BufferInv, NEW L \in Seq(LocType), Ascending(L), Located(files, L),
           \A k \in 1 .. Len(L) : /\ L[k].gen \in DOMAIN files
                                  /\ L[k].off + 1 \in 1 .. Len(files[L[k].gen].items)
                                  /\ Item(L[k]).kind = "record"
    PROVE  Kept([i \in 1 .. Len(L) |-> FragmentOf(Item(L[i]))], files)
<1> DEFINE s == [i \in 1 .. Len(L) |-> FragmentOf(Item(L[i]))]
<1>1. IsDirectory(files, Items) /\ NumberInv /\ TypeOK
  BY TypedDirectory DEF BufferInv
<1>2. Len(L) \in Nat /\ \A k \in 1 .. Len(L) : L[k] \in LocType /\ L[k].gen \in Nat /\ L[k].off \in Nat
  <2>1. Len(L) \in Nat /\ \A k \in 1 .. Len(L) : L[k] \in LocType
    OBVIOUS
  <2>2. QED
    BY <2>1, LocFacts
<1>3. \A x \in Items : x.kind = "record" => FragmentOf(x) \in Fragments
  <2>1. now \in Nat
    BY <1>1, BufferBounds DEF TypeOK
  <2>2. \A x \in Items : x.kind = "record" => x.id \in Ids /\ x.n \in Nat /\ x.at \in Nat
    BY <2>1, BufferBounds DEF Items
  <2>3. QED
    BY <2>2 DEF FragmentOf, Fragments
<1>4. ASSUME NEW k \in 1 .. Len(L) PROVE Item(L[k]) \in Items
  <2>1. files[L[k].gen].items \in Seq(Items)
    BY <1>1 DEF IsDirectory, FileType
  <2>2. QED
    BY <2>1 DEF Item
<1>5. \A k \in 1 .. Len(L) : s[k] = FragmentOf(Item(L[k])) /\ s[k] \in Fragments
  BY <1>3, <1>4
<1>6. s \in Seq(Fragments) /\ Len(s) = Len(L)
  <2>1. s \in [1 .. Len(L) -> Fragments]
    BY <1>5
  <2> HIDE DEF s
  <2>2. QED
    BY SMTT(40), <1>2, <2>1
<1> HIDE DEF s
<1>7. ASSUME NEW i \in 1 .. Len(s), NEW j \in 1 .. Len(s), i < j PROVE s[i].n < s[j].n
  <2> DEFINE k == L[i]
             l == L[j]
  <2>1. i \in 1 .. Len(L) /\ j \in 1 .. Len(L)
    BY <1>6
  <2>2. Before(k, l) /\ k.gen \in Nat /\ l.gen \in Nat /\ k.off \in Nat /\ l.off \in Nat
    BY <1>2, <1>7, <2>1 DEF Ascending
  <2>3. /\ k.gen \in DOMAIN files /\ k.off + 1 \in 1 .. Len(files[k.gen].items) /\ Item(k).kind = "record"
        /\ l.gen \in DOMAIN files /\ l.off + 1 \in 1 .. Len(files[l.gen].items) /\ Item(l).kind = "record"
    BY <2>1
  <2>4. s[i].n = Item(k).n /\ s[j].n = Item(l).n
    <3>1. s[i] = FragmentOf(Item(k)) /\ s[j] = FragmentOf(Item(l))
      BY <1>5, <2>1
    <3> HIDE DEF k, l
    <3>2. QED
      BY <3>1 DEF FragmentOf
  <2> HIDE DEF k, l
  <2>5. k.gen < l.gen \/ (k.gen = l.gen /\ k.off + 1 < l.off + 1)
    BY <2>2 DEF Before
  <2>6. \A g, h \in DOMAIN files :
        \A a \in 1 .. Len(files[g].items), b \in 1 .. Len(files[h].items) :
           /\ files[g].items[a].kind = "record"
           /\ files[h].items[b].kind = "record"
           /\ g < h \/ (g = h /\ a < b)
           => files[g].items[a].n < files[h].items[b].n
    BY <1>1, Zenon DEF NumberInv
  <2>7. files[k.gen].items[k.off + 1].n < files[l.gen].items[l.off + 1].n
    BY <2>3, <2>5, <2>6, Zenon DEF Item
  <2>8. QED
    BY <2>4, <2>7 DEF Item
<1>8. ASSUME NEW x \in Fragments PROVE Contains(s, x) <=> Stored(files, x)
  <2>1. ASSUME Contains(s, x) PROVE Stored(files, x)
    <3>1. PICK k \in 1 .. Len(L) : s[k] = x
      BY <1>6, <2>1 DEF Contains
    <3>2. x = FragmentOf(files[L[k].gen].items[L[k].off + 1])
      BY <1>5, <3>1 DEF Item
    <3>3. files[L[k].gen].items[L[k].off + 1].kind = "record"
      BY DEF Item
    <3>4. QED
      BY <3>2, <3>3, Zenon DEF Stored
  <2>2. ASSUME Stored(files, x) PROVE Contains(s, x)
    <3>1. PICK g \in DOMAIN files : \E i \in 1 .. Len(files[g].items) :
                 files[g].items[i].kind = "record" /\ x = FragmentOf(files[g].items[i])
      BY <2>2 DEF Stored
    <3>2. PICK i \in 1 .. Len(files[g].items) :
                 files[g].items[i].kind = "record" /\ x = FragmentOf(files[g].items[i])
      BY <3>1
    <3>3. PICK k \in 1 .. Len(L) : L[k].gen = g /\ L[k].off = i - 1
      BY <3>2, Zenon DEF Located
    <3>4. Item(L[k]) = files[g].items[i]
      <4>1. files[g].items \in Seq(Items)
        BY <1>1 DEF IsDirectory, FileType
      <4>2. L[k].off + 1 = i
        BY <3>3, <4>1
      <4>3. QED
        BY <3>3, <4>2 DEF Item
    <3>5. s[k] = x /\ k \in 1 .. Len(s)
      BY <1>5, <1>6, <3>2, <3>4
    <3>6. QED
      BY <3>5 DEF Contains
  <2>3. QED
    BY <2>1, <2>2
<1>9. QED
  BY <1>6, <1>7, <1>8 DEF Kept, Rising, s

LiveInv == Kept(Live, files)

LEMMA LiveIsKept ==
    ASSUME UnmixedCrashes, OnlyRemovalsFail
    PROVE  BufferInv /\ SpanInv => LiveInv
<1> SUFFICES ASSUME BufferInv, SpanInv PROVE Kept(Live, files)
  BY DEF LiveInv
<1>1. IsDirectory(files, Items) /\ TypeOK /\ GenInv /\ FileInv
  BY TypedDirectory DEF BufferInv
<1>2. \A h \in DOMAIN files : files[h] \in FileType(Items) /\ files[h].items \in Seq(Items) /\ Ended(files[h].items)
  BY <1>1 DEF IsDirectory, FileType, SpanInv, EndInv
<1>3. CASE pc = "down"
  <2> DEFINE L == RecoveredLocs
  <2>1. /\ L \in Seq(LocType) /\ Ascending(L)
        /\ \A k \in 1 .. Len(L) :
                /\ L[k].gen \in DOMAIN files
                /\ L[k].off < Len(Entries(files[L[k].gen]))
        /\ \A g \in DOMAIN files : \A i \in 1 .. Len(Entries(files[g])) :
                \E k \in 1 .. Len(L) : L[k].gen = g /\ L[k].off = i - 1
    BY <1>1, RecoveredIndex
  <2>2. Live = [i \in 1 .. Len(L) |-> FragmentOf(Item(L[i]))]
    BY <1>3 DEF Live, FragmentOf
  <2> HIDE DEF L
  <2>3. ASSUME NEW k \in 1 .. Len(L)
        PROVE  /\ L[k].gen \in DOMAIN files
               /\ L[k].off + 1 \in 1 .. Len(files[L[k].gen].items)
               /\ Item(L[k]).kind = "record"
    <3> DEFINE f == files[L[k].gen]
    <3>1. L[k].gen \in DOMAIN files /\ L[k].off \in Nat /\ L[k].off < Len(Entries(f))
      <4>1. L[k] \in LocType
        BY <2>1
      <4>2. QED
        BY <2>1, <4>1, LocFacts
    <3>2. f \in FileType(Items) /\ f.items \in Seq(Items) /\ \A i \in 1 .. Len(f.items) : FooterFits(f.items, i)
      BY <1>1, <1>2, <3>1 DEF FileInv
    <3>3. Entries(f) \in Seq(DirEntries) /\ Lists(Entries(f), f.items)
      <4> HIDE DEF f
      <4>1. QED
        BY <3>2, EntriesFit
    <3>4. L[k].off + 1 \in 1 .. Len(Entries(f))
      <4> HIDE DEF f
      <4>1. QED
        BY <3>1, <3>3
    <3>5. L[k].off + 1 <= Len(f.items) /\ f.items[L[k].off + 1].kind = "record"
      <4> HIDE DEF f
      <4>1. QED
        BY <3>3, <3>4 DEF Lists
    <3>6. QED
      BY <3>1, <3>2, <3>5 DEF Item
  <2>4. Located(files, L)
    <3>1. ASSUME NEW g \in DOMAIN files, NEW i \in 1 .. Len(files[g].items), files[g].items[i].kind = "record"
          PROVE  i \in 1 .. Len(Entries(files[g]))
      <4>1. /\ files[g] \in FileType(Items) /\ \A k \in 1 .. Len(files[g].items) : FooterFits(files[g].items, k)
            /\ Ended(files[g].items)
        BY <1>1, <1>2 DEF FileInv
      <4>2. QED
        BY <3>1, <4>1, AllListed
    <3>2. QED
      BY <2>1, <3>1, Zenon DEF Located
  <2>5. QED
    BY <2>1, <2>2, <2>3, <2>4, LocatedRecords
<1>4. CASE pc # "down"
  <2> DEFINE L == Reachable
  <2>1. idx \in Seq(LocType) /\ Ascending(idx)
    BY <1>1 DEF TypeOK, LocType, BufferInv, IdxInv, Ascending
  <2>2. /\ L \in Seq(LocType) /\ Ascending(L)
        /\ \A k \in 1 .. Len(L) : Yields(L[k])
        /\ \A i \in 1 .. Len(idx) : Yields(idx[i]) => \E k \in 1 .. Len(L) : L[k] = idx[i]
    BY <2>1, ReachedIndex
  <2>3. Live = [i \in 1 .. Len(L) |-> FragmentOf(Item(L[i]))]
    BY <1>4 DEF Live, FragmentOf
  <2> HIDE DEF L
  <2>4. ASSUME NEW k \in 1 .. Len(L)
        PROVE  /\ L[k].gen \in DOMAIN files
               /\ L[k].off + 1 \in 1 .. Len(files[L[k].gen].items)
               /\ Item(L[k]).kind = "record"
    <3>1. Readable(L[k]) /\ L[k].off \in Nat
      <4>1. L[k] \in LocType /\ Yields(L[k])
        BY <2>2
      <4>2. QED
        BY <4>1, LocFacts DEF Yields
    <3>2. L[k].gen \in DOMAIN files /\ L[k].off < Len(files[L[k].gen].items)
      BY <3>1 DEF Readable
    <3>3. files[L[k].gen].items \in Seq(Items)
      BY <1>2, <3>2
    <3>4. L[k].off + 1 \in 1 .. L[k].off + 1 /\ L[k].off + 1 \in 1 .. Len(files[L[k].gen].items)
      BY <3>1, <3>2, <3>3
    <3>5. QED
      BY <3>1, <3>2, <3>4 DEF Readable, Item
  <2>5. ASSUME NEW g \in DOMAIN files, NEW i \in 1 .. Len(files[g].items), files[g].items[i].kind = "record"
        PROVE  \E k \in 1 .. Len(L) : L[k].gen = g /\ L[k].off = i - 1
    <3>1. PICK j \in 1 .. Len(idx) : idx[j].gen = g /\ idx[j].off = i - 1
      BY <1>4, <2>5, Zenon DEF SpanInv, LocatedInv
    <3>2. files[g].items \in Seq(Items) /\ Ended(files[g].items)
      BY <1>2
    <3>3. \A k \in 1 .. i : files[g].items[k].kind = "record"
      <4>1. ASSUME NEW k \in 1 .. i, files[g].items[k].kind # "record" PROVE FALSE
        <5>1. k \in 1 .. Len(files[g].items) /\ k # i
          BY <2>5, <3>2, <4>1
        <5>2. files[g].items[k].kind = "footer"
          BY <3>2, <4>1, <5>1, ItemFacts
        <5>3. k = Len(files[g].items)
          BY <3>2, <5>1, <5>2 DEF Ended
        <5>4. QED
          BY <3>2, <5>1, <5>3
      <4>2. QED
        BY <4>1
    <3>4. minGen <= g /\ g \in Nat /\ minGen \in Nat
      BY <1>1, <1>4, FilesAhead DEF TypeOK
    <3>5. idx[j].off < Len(files[g].items) /\ idx[j].off + 1 = i
      BY <3>1, <3>2
    <3>6. Yields(idx[j])
      BY <3>1, <3>3, <3>4, <3>5 DEF Yields, Readable, InPlace
    <3>7. QED
      BY <2>2, <3>1, <3>6, Zenon
  <2>6. Located(files, L)
    BY <2>5, Zenon DEF Located
  <2>7. QED
    BY <2>2, <2>3, <2>4, <2>6, LocatedRecords
<1>5. QED
  BY <1>3, <1>4

-----------------------------------------------------------------------------
(***************************************************************************)
(* Refinement, step by step.                                               *)
(***************************************************************************)

(* How what is live follows the directory. *)
LEMMA KeptSame ==
    ASSUME NEW s, NEW t, NEW fs, NEW fs1, Kept(s, fs), Kept(t, fs1),
           \A x \in Fragments : Stored(fs, x) <=> Stored(fs1, x)
    PROVE  s = t
<1>1. /\ s \in Seq(Fragments) /\ Rising(s) /\ t \in Seq(Fragments) /\ Rising(t)
      /\ \A x \in Fragments : Contains(s, x) <=> Contains(t, x)
  BY Zenon DEF Kept
<1>2. QED
  BY <1>1, SameFragments

LEMMA KeptGrows ==
    ASSUME NEW s, NEW t, NEW fs, NEW fs1, Kept(s, fs), Kept(t, fs1), NEW f \in Fragments,
           \A x \in Fragments : Stored(fs1, x) <=> Stored(fs, x) \/ x = f,
           \A x \in Fragments : Stored(fs, x) => x.n < f.n
    PROVE  t = Append(s, f)
<1>1. /\ s \in Seq(Fragments) /\ Rising(s) /\ t \in Seq(Fragments) /\ Rising(t)
      /\ \A x \in Fragments : Contains(t, x) <=> Contains(s, x) \/ x = f
      /\ \A x \in Fragments : Contains(s, x) => x.n < f.n
  BY Zenon DEF Kept
<1>2. QED
  BY <1>1, OneMoreFragment

LEMMA KeptFront ==
    ASSUME NEW s, NEW t, NEW fs, NEW fs1, Kept(s, fs), Kept(t, fs1),
           \A x \in Fragments : Stored(fs1, x) => Stored(fs, x),
           \A x, y \in Fragments : Stored(fs, x) /\ Stored(fs1, y) /\ x.n <= y.n => Stored(fs1, x)
    PROVE  \E k \in 0 .. Len(s) : t = SubSeq(s, 1, k)
<1>1. /\ s \in Seq(Fragments) /\ Rising(s) /\ t \in Seq(Fragments) /\ Rising(t)
      /\ \A x \in Fragments : Contains(t, x) => Contains(s, x)
      /\ \A x, y \in Fragments : Contains(s, x) /\ Contains(t, y) /\ x.n <= y.n => Contains(t, x)
  BY Zenon DEF Kept
<1>2. QED
  BY <1>1, PrefixOfFragments

LEMMA KeptBack ==
    ASSUME NEW s, NEW t, NEW fs, NEW fs1, Kept(s, fs), Kept(t, fs1),
           \A x \in Fragments : Stored(fs1, x) => Stored(fs, x),
           \A x, y \in Fragments : Stored(fs, x) /\ Stored(fs1, y) /\ y.n <= x.n => Stored(fs1, x)
    PROVE  \E k \in 0 .. Len(s) : /\ t = SubSeq(s, k + 1, Len(s))
                                  /\ \A i \in 1 .. k : s[i] \in Fragments /\ Stored(fs, s[i]) /\ ~Stored(fs1, s[i])
<1>1. /\ s \in Seq(Fragments) /\ Rising(s) /\ t \in Seq(Fragments) /\ Rising(t)
      /\ \A x \in Fragments : Contains(t, x) => Contains(s, x)
      /\ \A x, y \in Fragments : Contains(s, x) /\ Contains(t, y) /\ y.n <= x.n => Contains(t, x)
  BY Zenon DEF Kept
<1>2. PICK k \in 0 .. Len(s) : t = SubSeq(s, k + 1, Len(s)) /\ \A i \in 1 .. k : ~Contains(t, s[i])
  BY <1>1, SuffixOfFragments
<1>3. \A i \in 1 .. Len(s) : s[i] \in Fragments /\ Contains(s, s[i])
  BY <1>1, RisingFacts
<1>4. \A i \in 1 .. k : i \in 1 .. Len(s)
  BY <1>1
<1>5. ASSUME NEW i \in 1 .. k PROVE s[i] \in Fragments /\ Stored(fs, s[i]) /\ ~Stored(fs1, s[i])
  <2>1. s[i] \in Fragments /\ Contains(s, s[i]) /\ ~Contains(t, s[i])
    BY <1>2, <1>3, <1>4
  <2>2. QED
    BY <2>1, Zenon DEF Kept
<1>6. QED
  BY <1>2, <1>5

(* Directories with the same records. *)
Carries(fs, fs1) ==
    \A g \in DOMAIN fs : \A i \in 1 .. Len(fs[g].items) :
        fs[g].items[i].kind = "record" =>
            /\ g \in DOMAIN fs1 /\ i \in 1 .. Len(fs1[g].items)
            /\ fs1[g].items[i] = fs[g].items[i]

LEMMA StoredCarries ==
    ASSUME NEW fs, NEW fs1, Carries(fs, fs1), NEW x, Stored(fs, x)
    PROVE  Stored(fs1, x)
<1>1. PICK g \in DOMAIN fs : \E i \in 1 .. Len(fs[g].items) :
              fs[g].items[i].kind = "record" /\ x = FragmentOf(fs[g].items[i])
  BY DEF Stored
<1>2. PICK i \in 1 .. Len(fs[g].items) :
              fs[g].items[i].kind = "record" /\ x = FragmentOf(fs[g].items[i])
  BY <1>1
<1>3. g \in DOMAIN fs1 /\ i \in 1 .. Len(fs1[g].items) /\ fs1[g].items[i] = fs[g].items[i]
  BY <1>2 DEF Carries
<1>4. QED
  BY <1>2, <1>3, Zenon DEF Stored

LEMMA ShrunkCarries ==
    ASSUME NEW I, NEW fs, NEW fs1, IsDirectory(fs, I), IsDirectory(fs1, I), Shrinks(fs, fs1)
    PROVE  Carries(fs1, fs)
<1>1. SUFFICES ASSUME NEW g \in DOMAIN fs1, NEW i \in 1 .. Len(fs1[g].items)
               PROVE  /\ g \in DOMAIN fs /\ i \in 1 .. Len(fs[g].items)
                      /\ fs[g].items[i] = fs1[g].items[i]
  BY DEF Carries
<1>2. g \in DOMAIN fs /\ Begins(fs1[g].items, fs[g].items)
  BY DEF Shrinks
<1>3. Len(fs1[g].items) \in Nat /\ Len(fs[g].items) \in Nat
  BY <1>2 DEF IsDirectory, FileType
<1>4. QED
  BY <1>2, <1>3 DEF Begins

LEMMA StoredAt ==
    ASSUME NEW fs, NEW x, Stored(fs, x)
    PROVE  \E g, i :
               /\ g \in DOMAIN fs /\ i \in 1 .. Len(fs[g].items)
               /\ fs[g].items[i].kind = "record" /\ x = FragmentOf(fs[g].items[i])
               /\ x.n = fs[g].items[i].n /\ x.at = fs[g].items[i].at
<1>1. PICK g \in DOMAIN fs : \E i \in 1 .. Len(fs[g].items) :
              fs[g].items[i].kind = "record" /\ x = FragmentOf(fs[g].items[i])
  BY DEF Stored
<1>2. PICK i \in 1 .. Len(fs[g].items) :
              fs[g].items[i].kind = "record" /\ x = FragmentOf(fs[g].items[i])
  BY <1>1
<1>3. x.n = fs[g].items[i].n /\ x.at = fs[g].items[i].at
  BY <1>2 DEF FragmentOf
<1>4. QED
  BY <1>2, <1>3

(* A crash cuts the newest file: the records that are left are the oldest. *)
LEMMA CutFront ==
    ASSUME NEW I, NEW fs, NEW fs1, NEW top \in Nat, NEW n,
           IsDirectory(fs, I), IsDirectory(fs1, I), Shrinks(fs, fs1), Numbered(fs, n),
           \A r \in I : r.kind = "record" => r.n \in Nat,
           \A g \in DOMAIN fs : g <= top,
           \A g \in DOMAIN fs : g # top /\ fs[g].items # << >> => g \in DOMAIN fs1 /\ fs1[g].items = fs[g].items,
           NEW x, NEW y, Stored(fs, x), Stored(fs1, y), x.n <= y.n
    PROVE  Stored(fs1, x)
<1>1. PICK g, i :
               /\ g \in DOMAIN fs /\ i \in 1 .. Len(fs[g].items)
               /\ fs[g].items[i].kind = "record" /\ x = FragmentOf(fs[g].items[i])
               /\ x.n = fs[g].items[i].n
  BY StoredAt
<1>2. PICK h, j :
               /\ h \in DOMAIN fs1 /\ j \in 1 .. Len(fs1[h].items)
               /\ fs1[h].items[j].kind = "record" /\ y = FragmentOf(fs1[h].items[j])
               /\ y.n = fs1[h].items[j].n
  BY StoredAt
<1>3. h \in DOMAIN fs /\ j \in 1 .. Len(fs[h].items) /\ fs[h].items[j] = fs1[h].items[j]
  BY <1>2, ShrunkCarries DEF Carries
<1>4. /\ g \in Nat /\ h \in Nat /\ Len(fs[g].items) \in Nat /\ Len(fs[h].items) \in Nat
      /\ fs[g].items[i] \in I /\ fs[h].items[j] \in I /\ Len(fs1[h].items) \in Nat
  BY <1>1, <1>2, <1>3 DEF IsDirectory, FileType
<1>5. x.n \in Nat /\ y.n \in Nat
  BY <1>1, <1>2, <1>3, <1>4
<1>6. ~(h < g \/ (h = g /\ j < i))
  <2>1. SUFFICES ASSUME h < g \/ (h = g /\ j < i) PROVE FALSE
    OBVIOUS
  <2>2. fs[h].items[j].n < fs[g].items[i].n
    BY <1>1, <1>2, <1>3, <2>1, Zenon DEF Numbered
  <2>3. QED
    BY <1>1, <1>2, <1>3, <1>5, <2>2
<1>7. CASE g # top
  <2>1. fs[g].items # << >>
    BY <1>1, <1>4
  <2>2. g \in DOMAIN fs1 /\ fs1[g].items = fs[g].items
    BY <1>1, <1>7, <2>1
  <2>3. QED
    BY <1>1, <2>2, Zenon DEF Stored
<1>8. CASE g = top
  <2>1. h = g /\ i <= j
    BY <1>1, <1>2, <1>3, <1>4, <1>6, <1>8
  <2>2. i \in 1 .. Len(fs1[g].items) /\ fs1[g].items # << >>
    BY <1>1, <1>2, <1>4, <2>1
  <2>3. Begins(fs1[g].items, fs[g].items)
    BY <1>2, <2>1, <2>2 DEF Shrinks
  <2>4. fs1[g].items[i] = fs[g].items[i]
    BY <2>2, <2>3 DEF Begins
  <2>5. QED
    BY <1>1, <1>2, <2>1, <2>2, <2>4, Zenon DEF Stored
<1>9. QED
  BY <1>7, <1>8

(* The removal of the oldest file: what is left are the newest records. *)
Sheds(fs, fs1, old) ==
    /\ old \in DOMAIN fs /\ \A g \in DOMAIN fs : old <= g
    /\ DOMAIN fs1 = DOMAIN fs \ {old} /\ \A g \in DOMAIN fs1 : fs1[g] = fs[g]

Held(f, x) == \E i \in 1 .. Len(f.items) : f.items[i].kind = "record" /\ x.at = f.items[i].at

LEMMA CutBack ==
    ASSUME NEW I, NEW fs, NEW fs1, NEW old, NEW n,
           IsDirectory(fs, I), Numbered(fs, n), Sheds(fs, fs1, old),
           \A r \in I : r.kind = "record" => r.n \in Nat
    PROVE  /\ \A x : Stored(fs1, x) => Stored(fs, x)
           /\ \A x, y : Stored(fs, x) /\ Stored(fs1, y) /\ y.n <= x.n => Stored(fs1, x)
           /\ \A x : Stored(fs, x) /\ ~Stored(fs1, x) => Held(fs[old], x)
<1> USE DEF Sheds, Held
<1>1. ASSUME NEW x, Stored(fs1, x) PROVE Stored(fs, x)
  <2>1. Carries(fs1, fs)
    BY DEF Carries
  <2>2. QED
    BY <1>1, <2>1, StoredCarries
<1>2. ASSUME NEW x, Stored(fs, x), ~Stored(fs1, x)
      PROVE  \E i \in 1 .. Len(fs[old].items) :
                /\ fs[old].items[i].kind = "record" /\ x.at = fs[old].items[i].at
                /\ x.n = fs[old].items[i].n
  <2>1. PICK g, i :
               /\ g \in DOMAIN fs /\ i \in 1 .. Len(fs[g].items)
               /\ fs[g].items[i].kind = "record" /\ x = FragmentOf(fs[g].items[i])
               /\ x.n = fs[g].items[i].n /\ x.at = fs[g].items[i].at
    BY <1>2, StoredAt
  <2>2. g = old
    <3>1. SUFFICES ASSUME g # old PROVE FALSE
      OBVIOUS
    <3>2. g \in DOMAIN fs1 /\ fs1[g] = fs[g]
      BY <2>1, <3>1
    <3>3. Stored(fs1, x)
      BY <2>1, <3>2, Zenon DEF Stored
    <3>4. QED
      BY <1>2, <3>3
  <2>3. QED
    BY <2>1, <2>2, Zenon
<1>3. ASSUME NEW x, NEW y, Stored(fs, x), Stored(fs1, y), y.n <= x.n, ~Stored(fs1, x) PROVE FALSE
  <2>1. PICK i \in 1 .. Len(fs[old].items) :
                fs[old].items[i].kind = "record" /\ x.n = fs[old].items[i].n
    BY <1>2, <1>3
  <2>2. PICK h, j :
               /\ h \in DOMAIN fs1 /\ j \in 1 .. Len(fs1[h].items)
               /\ fs1[h].items[j].kind = "record" /\ y.n = fs1[h].items[j].n
    BY <1>3, StoredAt
  <2>3. h \in DOMAIN fs /\ h # old /\ fs1[h] = fs[h]
    BY <2>2
  <2>4. old < h
    BY <2>3 DEF IsDirectory
  <2>5. fs[old].items[i].n < fs[h].items[j].n
    BY <2>1, <2>2, <2>3, <2>4, Zenon DEF Numbered
  <2>6. fs[old].items[i].n \in Nat /\ fs[h].items[j].n \in Nat
    BY <2>1, <2>2, <2>3 DEF IsDirectory, FileType
  <2>7. QED
    BY <1>3, <2>1, <2>2, <2>3, <2>5, <2>6
<1>4. QED
  BY <1>1, <1>2, <1>3

LEMMA SpanFacts ==
    ASSUME BufferInv
    PROVE  /\ TypeOK /\ GenInv /\ OpInv /\ DurableInv
           /\ IsDirectory(files, Items) /\ Numbered(files, appended)
           /\ \A r \in Items : r.kind = "record" => r.n \in Nat
           /\ now \in Nat /\ appended \in Nat /\ w.gen \in Nat
<1>1. TypeOK /\ GenInv /\ OpInv /\ DurableInv /\ Numbered(files, appended)
  BY Zenon DEF BufferInv, NumberInv, Numbered
<1>2. now \in Nat /\ appended \in Nat /\ w.gen \in Nat
  BY <1>1, BufferBounds DEF TypeOK
<1>3. QED
  BY <1>1, <1>2, TypedDirectory, ItemFacts

(* The steps that leave the records on disk as they are: a footer, an      *)
(* fsync, a new file and Close add and take none, and what Open truncates  *)
(* is none.                                                                *)
LEMMA SameRecords ==
    ASSUME BufferInv, SpanInv, OnlyRemovalsFail,
           RollFooter \/ RollSync \/ RollCreate \/ Close \/ Open
    PROVE  Carries(files, files') /\ Carries(files', files)
<1>1. TypeOK /\ GenInv /\ OpInv /\ IsDirectory(files, Items)
  BY SpanFacts
<1>2. \A g \in DOMAIN files : files[g] \in FileType(Items) /\ files[g].items \in Seq(Items) /\ Len(files[g].items) \in Nat
  BY <1>1 DEF IsDirectory, FileType
<1>3. CASE RollFooter
  <2> DEFINE x == Footer(w.dir, w.tMax)
  <2>1. Changes(files, files', w.gen, Grown(files[w.gen], x))
    BY <1>1, <1>3, FooterFiles
  <2>2. x \in Items /\ x.kind = "footer"
    BY <1>1 DEF TypeOK, Items, Footer
  <2> DEFINE s == files[w.gen].items
             t == files'[w.gen].items
  <2>3. w.gen \in DOMAIN files /\ s \in Seq(Items)
    BY <1>2, <2>1 DEF Changes
  <2>4. t = Append(s, x)
    BY <1>2, <2>1 DEF Changes, Grown, FileType
  <2> HIDE DEF x, s, t
  <2>5. Len(t) = Len(s) + 1 /\ t[Len(s) + 1] = x
    BY <2>3, <2>4
  <2>6. \A i \in 1 .. Len(s) : t[i] = s[i]
    BY <2>3, <2>4
  <2>7. Len(s) \in Nat
    BY <2>3
  <2>8. \A i \in 1 .. Len(s) : i \in 1 .. Len(t) /\ t[i] = s[i]
    BY <2>5, <2>6, <2>7
  <2>9. \A i \in 1 .. Len(t) : t[i].kind = "record" => i \in 1 .. Len(s) /\ t[i] = s[i]
    BY <2>2, <2>5, <2>6, <2>7
  <2>10. DOMAIN files' = DOMAIN files /\ \A h \in DOMAIN files : h # w.gen => files'[h] = files[h]
    BY <2>1 DEF Changes
  <2>11. Carries(files, files')
    BY <2>8, <2>10 DEF Carries, s, t
  <2>12. Carries(files', files)
    BY <2>9, <2>10 DEF Carries, s, t
  <2>13. QED
    BY <2>11, <2>12
<1>4. CASE RollSync \/ Close
  <2>1. w.gen \in DOMAIN files /\ files' = [files EXCEPT ![w.gen] = Synced(@)]
    <3>1. ~w.closed /\ pc # "down"
      BY <1>1, <1>4 DEF OpInv, RollSync, Close
    <3>2. w.gen \in DOMAIN files
      BY <1>1, <3>1 DEF GenInv
    <3>3. QED
      BY <1>4, <3>2 DEF RollSync, Close
  <2>2. DOMAIN files' = DOMAIN files /\ \A g \in DOMAIN files : files'[g].items = files[g].items
    BY <1>1, <2>1, SyncFiles DEF Changes
  <2>3. QED
    BY <2>2 DEF Carries
<1>5. CASE RollCreate
  <2>1. w.gen + 1 \in Nat \ {0}
    BY SpanFacts
  <2>2. /\ DOMAIN files' = DOMAIN files \cup {w.gen + 1}
        /\ files'[w.gen + 1].items = << >>
        /\ \A g \in DOMAIN files : files'[g] = files[g]
    BY <1>1, <1>5, <2>1, CreateFiles DEF RollCreate
  <2>3. QED
    BY <2>2 DEF Carries
<1>6. CASE Open
  <2> DEFINE gen == w'.gen
  <2>1. /\ IsDirectory(files', Items)
        /\ DOMAIN files' = DOMAIN files \cup {gen}
        /\ \A g \in DOMAIN files : g # gen => files'[g] = files[g]
        /\ \/ gen \in DOMAIN files /\ files'[gen].items = SubSeq(files[gen].items, 1, ValidEnd(files[gen]))
           \/ gen \notin DOMAIN files
        /\ Shrinks(files, files')
    BY <1>1, <1>6, OpenFiles
  <2> HIDE DEF gen
  <2>2. Carries(files', files)
    BY <1>1, <2>1, ShrunkCarries
  <2>3. ASSUME NEW g \in DOMAIN files, NEW i \in 1 .. Len(files[g].items), files[g].items[i].kind = "record"
        PROVE  g \in DOMAIN files' /\ i \in 1 .. Len(files'[g].items) /\ files'[g].items[i] = files[g].items[i]
    <3>1. CASE g # gen
      BY <2>1, <3>1
    <3>2. CASE g = gen
      <4> DEFINE f == files[g]
                 e == ValidEnd(f)
      <4>1. f \in FileType(Items) /\ (\A k \in 1 .. Len(f.items) : FooterFits(f.items, k)) /\ Ended(f.items)
        BY <1>2 DEF BufferInv, FileInv, SpanInv, EndInv
      <4>2. i <= e
        <5> HIDE DEF f
        <5>1. i \in 1 .. Len(f.items) /\ f.items[i].kind = "record"
          BY <2>3 DEF f
        <5>2. QED
          BY <4>1, <5>1, AllListed
      <4>3. e \in 0 .. Len(f.items)
        <5>1. \A k \in 1 .. Len(f.items) : f.items[k] \in Items
          BY <1>2
        <5>2. QED
          BY <1>2, <5>1, ScanEnds
      <4>4. files'[g].items = SubSeq(f.items, 1, e)
        BY <2>1, <3>2
      <4> HIDE DEF f, e
      <4>5. /\ Len(SubSeq(f.items, 1, e)) = e
            /\ Begins(SubSeq(f.items, 1, e), f.items)
        BY <4>1, <4>3, CutFile
      <4>6. i \in 1 .. e /\ e \in Nat
        BY <4>2, <4>3
      <4>7. SubSeq(f.items, 1, e)[i] = f.items[i]
        BY <4>5, <4>6 DEF Begins
      <4>8. QED
        BY <2>1, <4>4, <4>5, <4>6, <4>7 DEF f
    <3>3. QED
      BY <3>1, <3>2
  <2>4. Carries(files, files')
    BY <2>3 DEF Carries
  <2>5. QED
    BY <2>2, <2>4
<1>7. QED
  BY <1>3, <1>4, <1>5, <1>6

(* An append stores its fragment, which is numbered behind all others. *)
LEMMA OneMoreRecord ==
    ASSUME BufferInv, SpanInv, OnlyRemovalsFail, NEW id \in Ids, NEW at \in 0 .. now, Stores(id, at),
           NEW f, f = [id |-> id, n |-> appended + 1, at |-> at]
    PROVE  /\ f \in Fragments
           /\ \A x : Stored(files', x) <=> Stored(files, x) \/ x = f
           /\ \A x : Stored(files, x) => x.n < f.n
<1>1. TypeOK /\ GenInv /\ IsDirectory(files, Items) /\ now \in Nat /\ appended \in Nat /\ Numbered(files, appended)
      /\ \A r \in Items : r.kind = "record" => r.n \in Nat
  BY SpanFacts
<1>2. f \in Fragments /\ f.n = appended + 1
  BY <1>1 DEF Fragments
<1>3. ASSUME NEW x, Stored(files, x) PROVE x.n < f.n
  <2>1. PICK g, i : /\ g \in DOMAIN files /\ i \in 1 .. Len(files[g].items)
                    /\ files[g].items[i].kind = "record" /\ x.n = files[g].items[i].n
    BY <1>3, StoredAt
  <2>2. x.n \in Nat /\ x.n <= appended
    BY <1>1, <2>1 DEF Numbered, IsDirectory, FileType
  <2>3. QED
    BY <1>1, <1>2, <2>2
<1> DEFINE r == Record(id, appended + 1, at)
           s == files[w.gen].items
           t == files'[w.gen].items
<1>4. Changes(files, files', w.gen, Grown(files[w.gen], r))
  <2>1. pc # "down" /\ appended < MaxAppends /\ Put(id, at) /\ now' = now /\ pc # "create"
    BY DEF Stores
  <2>2. ~w.closed
    BY <2>1, NothingElseFails
  <2>3. QED
    BY <1>1, <2>1, <2>2, PutFiles
<1>5. w.gen \in DOMAIN files /\ DOMAIN files' = DOMAIN files /\ \A h \in DOMAIN files : h # w.gen => files'[h] = files[h]
  BY <1>4 DEF Changes
<1>6. files[w.gen] \in FileType(Items) /\ s \in Seq(Items)
  BY <1>1, <1>5 DEF IsDirectory, FileType
<1>7. t = Append(s, r)
  BY <1>4, <1>6 DEF Changes, Grown, FileType
<1>8. r.kind = "record" /\ FragmentOf(r) = f
  BY DEF Record, FragmentOf
<1> HIDE DEF r, s, t
<1>9. Len(t) = Len(s) + 1 /\ t[Len(s) + 1] = r /\ Len(s) \in Nat
  BY <1>6, <1>7
<1>10. \A i \in 1 .. Len(s) : t[i] = s[i]
  BY <1>6, <1>7
<1>11. Carries(files, files')
  <2>1. \A i \in 1 .. Len(s) : i \in 1 .. Len(t) /\ t[i] = s[i]
    BY <1>9, <1>10
  <2>2. QED
    BY <1>5, <2>1 DEF Carries, s, t
<1>12. ASSUME NEW x, Stored(files, x) PROVE Stored(files', x)
  BY <1>11, <1>12, StoredCarries
<1>13. Stored(files', f)
  <2>1. Len(s) + 1 \in 1 .. Len(t) /\ t[Len(s) + 1].kind = "record" /\ f = FragmentOf(t[Len(s) + 1])
    BY <1>8, <1>9
  <2>2. w.gen \in DOMAIN files'
    BY <1>5
  <2>3. QED
    BY <2>1, <2>2, Zenon DEF Stored, t
<1>14. ASSUME NEW x, Stored(files', x), x # f PROVE Stored(files, x)
  <2>1. PICK g, i : /\ g \in DOMAIN files' /\ i \in 1 .. Len(files'[g].items)
                    /\ files'[g].items[i].kind = "record" /\ x = FragmentOf(files'[g].items[i])
    BY <1>14, StoredAt
  <2>2. CASE g # w.gen
    <3>1. g \in DOMAIN files /\ files'[g] = files[g]
      BY <1>5, <2>1, <2>2
    <3>2. QED
      BY <2>1, <3>1, Zenon DEF Stored
  <2>3. CASE g = w.gen
    <3>1. i \in 1 .. Len(t) /\ t[i].kind = "record" /\ x = FragmentOf(t[i])
      BY <2>1, <2>3 DEF t
    <3>2. i # Len(s) + 1
      BY <1>8, <1>9, <1>14, <3>1
    <3>3. i \in 1 .. Len(s) /\ t[i] = s[i]
      BY <1>9, <1>10, <3>1, <3>2
    <3>4. s[i].kind = "record" /\ x = FragmentOf(s[i])
      BY <3>1, <3>3
    <3>5. QED
      BY <1>5, <3>3, <3>4, Zenon DEF Stored, s
  <2>4. QED
    BY <2>2, <2>3
<1>15. QED
  BY <1>2, <1>3, <1>12, <1>13, <1>14

(* A crash takes the newest records. *)
LEMMA CrashCutsFront ==
    ASSUME BufferInv, SpanInv, OnlyRemovalsFail, UnmixedCrashes, Kill \/ PowerLoss
    PROVE  /\ \A x : Stored(files', x) => Stored(files, x)
           /\ \A x, y : Stored(files, x) /\ Stored(files', y) /\ x.n <= y.n => Stored(files', x)
<1>1. /\ TypeOK /\ GenInv /\ DurableInv /\ IsDirectory(files, Items) /\ Numbered(files, appended)
      /\ \A r \in Items : r.kind = "record" => r.n \in Nat
      /\ w.gen \in Nat
  BY SpanFacts
<1>2. pc # "down" /\ crashes < MaxCrashes
  BY DEF Kill, PowerLoss, GoDown
<1>3. \A g \in DOMAIN files : g <= w.gen
  BY <1>1, <1>2 DEF GenInv
<1>4. IsDirectory(files', Items) /\ Shrinks(files, files')
  BY <1>1, KillFiles, PowerFiles
<1>5. ASSUME NEW g \in DOMAIN files, g # w.gen, files[g].items # << >>
      PROVE  g \in DOMAIN files' /\ files'[g].items = files[g].items
  <2>1. CASE Kill
    BY <1>1, <1>5, <2>1, KillFiles
  <2>2. CASE PowerLoss
    <3>1. g \in DOMAIN metas
      BY <1>1, <1>2, <1>5 DEF GenInv
    <3>2. "power" \in CrashKinds
      BY <2>2 DEF PowerLoss
    <3>3. Durable(files[g])
      BY <1>1, <1>2, <3>1, <3>2 DEF DurableInv
    <3>4. files[g].synced # 0
      BY <1>1, <1>5, <3>3 DEF Durable, IsDirectory, FileType
    <3>5. QED
      BY <1>1, <2>2, <3>3, <3>4, PowerFiles
  <2>3. QED
    BY <2>1, <2>2
<1>6. Carries(files', files)
  BY <1>1, <1>4, ShrunkCarries
<1>7. ASSUME NEW x, Stored(files', x) PROVE Stored(files, x)
  BY <1>6, <1>7, StoredCarries
<1>8. ASSUME NEW x, NEW y, Stored(files, x), Stored(files', y), x.n <= y.n PROVE Stored(files', x)
  BY <1>1, <1>3, <1>4, <1>5, <1>8, CutFront
<1>9. QED
  BY <1>7, <1>8

(* Expiry takes the oldest records. *)
LEMMA RemovalCutsBack ==
    ASSUME BufferInv, SpanInv, OnlyRemovalsFail, RemoveOldest, pc \in {"idle", "expire"}
    PROVE  /\ \A x : Stored(files', x) => Stored(files, x)
           /\ \A x, y : Stored(files, x) /\ Stored(files', y) /\ y.n <= x.n => Stored(files', x)
           /\ \A x : Stored(files, x) /\ ~Stored(files', x) => x.at <= metas[Oldest].tMax
<1>1. /\ TypeOK /\ GenInv /\ IsDirectory(files, Items) /\ Numbered(files, appended)
      /\ \A r \in Items : r.kind = "record" => r.n \in Nat
      /\ w.gen \in Nat
  BY SpanFacts
<1>2. /\ Oldest \in DOMAIN metas /\ \A g \in DOMAIN metas : Oldest <= g
      /\ DOMAIN files' = DOMAIN files \ {Oldest}
      /\ \A g \in DOMAIN files' : files'[g] = files[g]
  BY <1>1, RemoveFiles
<1>3. /\ Oldest \in DOMAIN files /\ Oldest <= w.gen
      /\ DOMAIN files \subseteq DOMAIN metas \cup {w.gen}
  BY <1>1, <1>2 DEF GenInv
<1>4. \A g \in DOMAIN files : Oldest <= g
  BY <1>2, <1>3
<1>5. \A i \in 1 .. Len(files[Oldest].items) :
          files[Oldest].items[i].kind = "record" => files[Oldest].items[i].at <= metas[Oldest].tMax
  BY <1>2, Zenon DEF SpanInv, StampInv, Dated
<1>6. /\ \A x : Stored(files', x) => Stored(files, x)
      /\ \A x, y : Stored(files, x) /\ Stored(files', y) /\ y.n <= x.n => Stored(files', x)
      /\ \A x : Stored(files, x) /\ ~Stored(files', x) => Held(files[Oldest], x)
  <2>1. Sheds(files, files', Oldest)
    BY <1>2, <1>3, <1>4, Zenon DEF Sheds
  <2>2. QED
    BY <1>1, <2>1, CutBack
<1>7. ASSUME NEW x, Stored(files, x), ~Stored(files', x) PROVE x.at <= metas[Oldest].tMax
  <2>1. PICK i \in 1 .. Len(files[Oldest].items) :
               files[Oldest].items[i].kind = "record" /\ x.at = files[Oldest].items[i].at
    BY <1>6, <1>7, Zenon DEF Held
  <2>2. QED
    BY <1>5, <2>1, Zenon
<1>8. QED
  BY <1>6, <1>7

LEMMA WholePrefix ==
    ASSUME NEW s \in Seq(Fragments)
    PROVE  Len(s) \in 0 .. Len(s) /\ SubSeq(s, 1, Len(s)) = s
<1>1. Len(s) \in Nat /\ Len(SubSeq(s, 1, Len(s))) = Len(s) /\ SubSeq(s, 1, Len(s)) \in Seq(Fragments)
  OBVIOUS
<1>2. \A i \in 1 .. Len(s) : SubSeq(s, 1, Len(s))[i] = s[i]
  OBVIOUS
<1>3. QED
  BY <1>1, <1>2

(* Every step of the buffer is a step of SpanBuffer, or changes nothing    *)
(* that it shows.                                                          *)
LEMMA StepRefines ==
    ASSUME BufferInv, SpanInv, OnlyRemovalsFail, UnmixedCrashes, [Next]_vars,
           Kept(Live, files), Kept(Live', files')
    PROVE  [Abstract!Next]_(Abstract!vars)
<1>1. now \in Nat /\ appended \in Nat
  BY SpanFacts
<1>2. Live \in Seq(Fragments)
  BY Zenon DEF Kept
<1>3. ASSUME \A x \in Fragments : Stored(files, x) <=> Stored(files', x)
      PROVE  Live' = Live
  BY <1>3, KeptSame
<1>4. ASSUME RollFooter \/ RollSync \/ RollCreate \/ Close \/ Open
      PROVE  Live' = Live
  <2>1. Carries(files, files') /\ Carries(files', files)
    BY <1>4, SameRecords
  <2>2. \A x : Stored(files, x) <=> Stored(files', x)
    BY <2>1, StoredCarries
  <2>3. QED
    BY <1>3, <2>2
<1>5. ASSUME files' = files PROVE Live' = Live
  <2>1. Kept(Live', files)
    BY <1>5
  <2>2. QED
    BY <2>1, KeptSame
<1>6. CASE Idles
  <2>1. Live' = Live
    BY <1>5, <1>6 DEF Idles
  <2>2. UNCHANGED <<appended, early, crashes>> /\ (now' = now \/ now' = now + 1)
    BY <1>6 DEF Idles
  <2>3. QED
    BY <2>1, <2>2 DEF Abstract!Next, Abstract!Advance, Abstract!vars
<1>7. ASSUME NEW id \in Ids, NEW at \in 0 .. now, Stores(id, at) PROVE Abstract!Store
  <2> DEFINE f == [id |-> id, n |-> appended + 1, at |-> at]
  <2>1. /\ f \in Fragments
        /\ \A x : Stored(files', x) <=> Stored(files, x) \/ x = f
        /\ \A x : Stored(files, x) => x.n < f.n
    BY <1>7, OneMoreRecord
  <2>2. Live' = Append(Live, f)
    <3> HIDE DEF f
    <3>1. QED
      BY <2>1, KeptGrows
  <2>3. appended' = appended + 1 /\ UNCHANGED <<now, early, crashes>>
    BY <1>7 DEF Stores, Put
  <2>4. QED
    BY <2>2, <2>3 DEF Abstract!Store
<1>8. CASE RollFooter \/ RollSync \/ RollCreate \/ Open \/ ExpireSweep
  <2>1. Live' = Live
    <3>1. ExpireSweep => files' = files
      BY DEF ExpireSweep
    <3>2. QED
      BY <1>4, <1>5, <1>8, <3>1
  <2>2. UNCHANGED countVars
    BY <1>8 DEF RollFooter, RollSync, RollCreate, Open, ExpireSweep
  <2>3. QED
    BY <2>1, <2>2 DEF Abstract!vars, countVars
<1>9. ASSUME RemoveOldest, pc \in {"idle", "expire"}
      PROVE  \E k \in 0 .. Len(Live) :
                /\ Live' = SubSeq(Live, k + 1, Len(Live))
                /\ \A i \in 1 .. k : Live[i] \in Fragments /\ Live[i].at <= metas[Oldest].tMax
  <2>1. /\ \A x : Stored(files', x) => Stored(files, x)
        /\ \A x, y : Stored(files, x) /\ Stored(files', y) /\ y.n <= x.n => Stored(files', x)
        /\ \A x : Stored(files, x) /\ ~Stored(files', x) => x.at <= metas[Oldest].tMax
    BY <1>9, RemovalCutsBack
  <2>2. PICK k \in 0 .. Len(Live) :
               /\ Live' = SubSeq(Live, k + 1, Len(Live))
               /\ \A i \in 1 .. k : Live[i] \in Fragments /\ Stored(files, Live[i]) /\ ~Stored(files', Live[i])
    BY <2>1, KeptBack
  <2>3. QED
    BY <2>1, <2>2
<1>10. CASE ExpireRemove
  <2>1. RemoveOldest /\ pc = "expire" /\ HasExpired /\ UNCHANGED countVars
    BY <1>10 DEF ExpireRemove
  <2>2. PICK k \in 0 .. Len(Live) :
                /\ Live' = SubSeq(Live, k + 1, Len(Live))
                /\ \A i \in 1 .. k : Live[i] \in Fragments /\ Live[i].at <= metas[Oldest].tMax
    BY <1>9, <2>1
  <2>3. /\ metas[Oldest].tMax \in Nat /\ metas[Oldest].tMax < now - Window
        /\ Window \in Nat
    <3>1. TypeOK
      BY SpanFacts
    <3>2. Oldest \in DOMAIN metas
      BY <2>1, <3>1, RemoveFiles
    <3>3. metas[Oldest].tMax \in Nat
      BY <1>1, <3>1, <3>2 DEF TypeOK
    <3>4. QED
      BY <2>1, <3>3, BufferWindowPositive DEF HasExpired, Expired
  <2>4. \A i \in 1 .. k : Live[i].at < now - Window
    <3>1. ASSUME NEW i \in 1 .. k PROVE Live[i].at < now - Window
      <4>1. Live[i].at \in Nat /\ Live[i].at <= metas[Oldest].tMax
        BY <2>2 DEF Fragments
      <4>2. QED
        BY <1>1, <2>3, <4>1
    <3>2. QED
      BY <3>1
  <2>5. CASE k = 0
    <3>1. Live' = Live
      BY <1>2, <2>2, <2>5, WholePrefix
    <3>2. QED
      BY <2>1, <3>1 DEF Abstract!vars, countVars
  <2>6. CASE k # 0
    <3>1. k \in 1 .. Len(Live)
      BY <1>2, <2>6
    <3>2. Abstract!Reclaim
      BY <2>1, <2>2, <2>4, <3>1 DEF Abstract!Reclaim, Abstract!DropFront, countVars
    <3>3. QED
      BY <3>2 DEF Abstract!Next
  <2>7. QED
    BY <2>5, <2>6
<1>11. CASE ExpireOldest
  <2>1. RemoveOldest /\ pc = "idle" /\ early' = early + 1 /\ UNCHANGED <<now, appended, crashes>>
    BY <1>11 DEF ExpireOldest
  <2>2. PICK k \in 0 .. Len(Live) : Live' = SubSeq(Live, k + 1, Len(Live))
    BY <1>9, <2>1
  <2>3. Abstract!Sacrifice
    BY <2>1, <2>2 DEF Abstract!Sacrifice, Abstract!DropFront
  <2>4. QED
    BY <2>3 DEF Abstract!Next
<1>12. CASE Close \/ Kill \/ PowerLoss
  <2>1. crashes' = crashes + 1 /\ UNCHANGED <<now, appended, early>>
    BY <1>12 DEF Close, Kill, PowerLoss, GoDown
  <2>2. CASE Close
    <3>1. Live' = SubSeq(Live, 1, Len(Live)) /\ Len(Live) \in 0 .. Len(Live)
      BY <1>2, <1>4, <2>2, WholePrefix
    <3>2. QED
      BY <2>1, <3>1 DEF Abstract!Next, Abstract!Lose
  <2>3. CASE Kill \/ PowerLoss
    <3>1. /\ \A x : Stored(files', x) => Stored(files, x)
          /\ \A x, y : Stored(files, x) /\ Stored(files', y) /\ x.n <= y.n => Stored(files', x)
      BY <2>3, CrashCutsFront
    <3>2. PICK k \in 0 .. Len(Live) : Live' = SubSeq(Live, 1, k)
      BY <3>1, KeptFront
    <3>3. QED
      BY <2>1, <3>2 DEF Abstract!Next, Abstract!Lose
  <2>4. QED
    BY <1>12, <2>2, <2>3
<1>13. QED
  <2>1. ASSUME \E id \in Ids, at \in 0 .. now : Stores(id, at) PROVE Abstract!Next
    BY <1>7, <2>1, Zenon DEF Abstract!Next
  <2>2. QED
    BY <1>6, <1>8, <1>10, <1>11, <1>12, <2>1, OrderlySteps, Zenon

(* The buffer is a SpanBuffer for every segment size, window and number of *)
(* appends and crashes: what Collect reaches grows at the back by whole    *)
(* appends, loses from the front only what a whole segment's clock puts    *)
(* past the window or what ExpireOldest sacrifices, loses only its newest  *)
(* to a crash, and is what Open rebuilds.  Removals may fail; the other    *)
(* file operations may not, and kills and power losses do not mix.         *)
THEOREM BufferImplementsSpanBuffer ==
    ASSUME UnmixedCrashes, OnlyRemovalsFail
    PROVE  Spec => ImplementsSpanBuffer
<1>1. BufferInv /\ SpanInv => LiveInv
  BY LiveIsKept
<1>2. Init => Abstract!Init
  <2> SUFFICES ASSUME Init PROVE Abstract!Init
    OBVIOUS
  <2>1. now = 0 /\ appended = 0 /\ early = 0 /\ crashes = 0 /\ pc = "idle" /\ idx = << >>
    BY DEF Init
  <2>2. Kept(Live, files)
    BY <1>1, InitInv, InitSpan DEF LiveInv
  <2>3. \A x : ~Stored(files, x)
    BY DEF Init, Stored, EmptyFile
  <2>4. Live = << >>
    <3>1. Live \in Seq(Fragments) /\ \A x \in Fragments : ~Contains(Live, x)
      BY <2>2, <2>3, Zenon DEF Kept
    <3>2. \A i \in 1 .. Len(Live) : Live[i] \in Fragments /\ Contains(Live, Live[i])
      BY <2>2, RisingFacts, Zenon DEF Kept
    <3>3. Len(Live) \in Nat /\ 1 \notin 1 .. Len(Live)
      BY <3>1, <3>2
    <3>4. QED
      BY <3>1, <3>3
  <2>5. QED
    BY <2>1, <2>4 DEF Abstract!Init
<1>3. BufferInv /\ SpanInv /\ LiveInv /\ LiveInv' /\ [Next]_vars => [Abstract!Next]_(Abstract!vars)
  <2> SUFFICES ASSUME BufferInv, SpanInv, LiveInv, LiveInv', [Next]_vars
               PROVE  [Abstract!Next]_(Abstract!vars)
    OBVIOUS
  <2>1. Kept(Live, files)
    BY DEF LiveInv
  <2>2. Kept(Live', files')
    BY Zenon DEF LiveInv, Kept, Stored, Rising, Contains
  <2>3. QED
    BY <2>1, <2>2, StepRefines
<1>4. QED
  BY <1>1, <1>2, <1>3, BufferInvariant, SpanInvariant, PTL DEF Spec, ImplementsSpanBuffer, Abstract!Spec
=============================================================================
