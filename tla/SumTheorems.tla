---------------------------- MODULE SumTheorems ----------------------------
(***************************************************************************)
(* What SumFunction adds up, for functions from finite sets to natural     *)
(* numbers.  The sum is the number of pairs of an index and a unit below   *)
(* its value, and so no induction over the fold is needed beyond the one   *)
(* that identifies the two.  And sequences put one behind the other, as    *)
(* FlattenSeq puts them: they exist, and ascend if the pieces do.          *)
(***************************************************************************)
EXTENDS Integers, Sequences, FiniteSets, Functions, FiniteSetTheorems, FunctionTheorems,
        SequenceTheorems, WellFoundedInduction, TLAPS

(* A nonempty set of natural numbers has a least element. *)
LEMMA LeastNumber ==
    ASSUME NEW T \in SUBSET Nat, T # {}
    PROVE  \E n \in T : \A m \in T : n <= m
<1>1. \E n \in T : \A m \in T : ~(<<m, n>> \in OpToRel(<, Nat))
  BY NatLessThanWellFounded, WFMin, Zenon
<1>2. \A m, n \in T : m < n => <<m, n>> \in OpToRel(<, Nat)
  BY Zenon DEF OpToRel
<1>3. PICK n \in T : \A m \in T : ~(m < n)
  BY <1>1, <1>2, Zenon
<1>4. QED
  BY <1>3

(* One unit for each index and each number up to its value. *)
Units(f, s) == {p \in s \X Nat : p[2] \in 1 .. f[p[1]]}

(* An index more brings its value in units. *)
LEMMA UnitsAdd ==
    ASSUME NEW f, NEW s, NEW x \in s, f[x] \in Nat, IsFiniteSet(Units(f, s \ {x}))
    PROVE  /\ IsFiniteSet(Units(f, s))
           /\ Cardinality(Units(f, s)) = f[x] + Cardinality(Units(f, s \ {x}))
<1> DEFINE a == Units(f, s \ {x})
<1> DEFINE b == {x} \X (1 .. f[x])
<1>1. IsFiniteSet({x}) /\ Cardinality({x}) = 1
  BY FS_Singleton
<1>2. IsFiniteSet(1 .. f[x]) /\ Cardinality(1 .. f[x]) = f[x]
  BY SMTT(40), FS_Interval
<1>3. IsFiniteSet(b) /\ Cardinality(b) = f[x]
  <2>1. IsFiniteSet(b) /\ Cardinality(b) = 1 * Cardinality(1 .. f[x])
    BY <1>1, <1>2, FS_Product
  <2>2. QED
    BY <1>2, <2>1
<1>4. Units(f, s) = a \cup b
  BY DEF Units
<1>5. a \cap b = {}
  BY DEF Units
<1>6. Cardinality(a) \in Nat
  BY FS_CardinalityType
<1> HIDE DEF a, b
<1>7. IsFiniteSet(a)
  BY DEF a
<1>8. IsFiniteSet(a \cup b) /\ Cardinality(a \cup b) = Cardinality(a) + Cardinality(b) - 0
  BY <1>3, <1>5, <1>7, FS_Union, FS_EmptySet
<1>9. Cardinality(a \cup b) = f[x] + Cardinality(a)
  BY <1>3, <1>6, <1>8
<1>10. QED
  BY <1>4, <1>8, <1>9 DEF a

(* There are finitely many. *)
LEMMA UnitsFinite ==
    ASSUME NEW f, NEW s, IsFiniteSet(s), \A x \in s : f[x] \in Nat
    PROVE  IsFiniteSet(Units(f, s))
<1>1. SUFFICES ASSUME ~IsFiniteSet(Units(f, s))
               PROVE  FALSE
  OBVIOUS
<1> DEFINE B == {n \in Nat : \E t \in SUBSET s : Cardinality(t) = n /\ ~IsFiniteSet(Units(f, t))}
<1>2. \A t \in SUBSET s : IsFiniteSet(t) /\ Cardinality(t) \in Nat
  BY FS_Subset, FS_CardinalityType
<1>3. Cardinality(s) \in B
  BY <1>1, <1>2
<1>4. PICK n \in B : \A m \in B : n <= m
  BY <1>3, LeastNumber
<1>5. PICK t \in SUBSET s : Cardinality(t) = n /\ ~IsFiniteSet(Units(f, t))
  BY <1>4
<1>6. CASE t = {}
  <2>1. Units(f, t) = {}
    BY <1>6 DEF Units
  <2>2. QED
    BY <1>5, <2>1, FS_EmptySet
<1>7. CASE t # {}
  <2>1. PICK x : x \in t
    BY <1>7
  <2>2. Cardinality(t \ {x}) = n - 1 /\ t \ {x} \in SUBSET s /\ Cardinality(t \ {x}) \in Nat
    BY <1>2, <1>5, <2>1, FS_RemoveElement
  <2>3. IsFiniteSet(Units(f, t \ {x}))
    <3>1. SUFFICES ASSUME ~IsFiniteSet(Units(f, t \ {x})) PROVE FALSE
      OBVIOUS
    <3>2. Cardinality(t \ {x}) \in B
      BY <2>2, <3>1
    <3>3. n \in Nat /\ n <= n - 1
      BY <1>4, <2>2, <3>2
    <3>4. QED
      BY <3>3
  <2>4. f[x] \in Nat
    BY <2>1
  <2>5. QED
    BY <1>5, <2>1, <2>3, <2>4, UnitsAdd
<1>8. QED
  BY <1>6, <1>7

(* The fold that SumFunctionOnSet is, over T. *)
Pick(s) == CHOOSE x \in s : TRUE

IsFold(f, T, it) == it = [s \in SUBSET T |-> IF s = {} THEN 0 ELSE f[Pick(s)] + it[s \ {Pick(s)}]]

(* SumFunctionOnSet is one of the folds, if there is one. *)
LEMMA SumFolds ==
    ASSUME NEW f, NEW T, NEW it, IsFold(f, T, it)
    PROVE  \E jt : IsFold(f, T, jt) /\ SumFunctionOnSet(f, T) = jt[T]
<1> DEFINE c == CHOOSE jt : IsFold(f, T, jt)
<1>1. IsFold(f, T, c)
  BY Zenon
<1>2. SumFunctionOnSet(f, T) = c[T]
  BY Zenon DEF SumFunctionOnSet, FoldFunctionOnSet, MapThenFoldSet, Pick, IsFold
<1>3. QED
  BY <1>1, <1>2, Zenon

(* Counting units is a fold... *)
LEMMA UnitsFold ==
    ASSUME NEW f, NEW T, IsFiniteSet(T), \A x \in T : f[x] \in Nat
    PROVE  IsFold(f, T, [s \in SUBSET T |-> Cardinality(Units(f, s))])
<1> DEFINE it == [s \in SUBSET T |-> Cardinality(Units(f, s))]
<1>1. ASSUME NEW s \in SUBSET T
      PROVE  it[s] = IF s = {} THEN 0 ELSE f[Pick(s)] + it[s \ {Pick(s)}]
  <2>1. CASE s = {}
    <3>1. Units(f, s) = {}
      BY <2>1 DEF Units
    <3>2. QED
      BY <2>1, <3>1, FS_EmptySet
  <2>2. CASE s # {}
    <3> DEFINE x == Pick(s)
    <3>1. x \in s
      BY <2>2 DEF Pick
    <3> HIDE DEF x
    <3>2. s \ {x} \in SUBSET T /\ IsFiniteSet(s \ {x}) /\ f[x] \in Nat
      BY <3>1, FS_Subset
    <3>3. IsFiniteSet(Units(f, s \ {x}))
      BY <3>2, UnitsFinite
    <3>4. Cardinality(Units(f, s)) = f[x] + Cardinality(Units(f, s \ {x}))
      BY <3>1, <3>2, <3>3, UnitsAdd
    <3>5. QED
      BY <2>2, <3>2, <3>4 DEF x
  <2>3. QED
    BY <2>1, <2>2
<1>2. [s \in SUBSET T |-> it[s]] = [s \in SUBSET T |-> IF s = {} THEN 0 ELSE f[Pick(s)] + it[s \ {Pick(s)}]]
  BY <1>1, Zenon
<1>3. it = [s \in SUBSET T |-> it[s]]
  BY Zenon
<1>4. QED
  BY <1>2, <1>3, Zenon DEF IsFold

(* ... and there is no other. *)
LEMMA FoldUnique ==
    ASSUME NEW f, NEW T, IsFiniteSet(T), NEW it, IsFold(f, T, it), NEW jt, IsFold(f, T, jt)
    PROVE  it[T] = jt[T]
<1>1. SUFFICES ASSUME it[T] # jt[T]
               PROVE  FALSE
  OBVIOUS
<1> DEFINE B == {n \in Nat : \E t \in SUBSET T : Cardinality(t) = n /\ it[t] # jt[t]}
<1>2. \A t \in SUBSET T : IsFiniteSet(t) /\ Cardinality(t) \in Nat
  BY FS_Subset, FS_CardinalityType
<1>3. Cardinality(T) \in B
  BY <1>1, <1>2
<1>4. PICK n \in B : \A m \in B : n <= m
  BY <1>3, LeastNumber
<1>5. PICK t \in SUBSET T : Cardinality(t) = n /\ it[t] # jt[t]
  BY <1>4
<1>6. /\ it[t] = IF t = {} THEN 0 ELSE f[Pick(t)] + it[t \ {Pick(t)}]
      /\ jt[t] = IF t = {} THEN 0 ELSE f[Pick(t)] + jt[t \ {Pick(t)}]
  BY Zenon DEF IsFold
<1>7. t # {}
  BY <1>5, <1>6
<1> DEFINE x == Pick(t)
<1>8. x \in t
  BY <1>7 DEF Pick
<1>9. it[t] = f[x] + it[t \ {x}] /\ jt[t] = f[x] + jt[t \ {x}]
  BY <1>6, <1>7
<1> HIDE DEF x
<1>10. it[t \ {x}] # jt[t \ {x}]
  BY <1>5, <1>9
<1>11. Cardinality(t \ {x}) = n - 1 /\ t \ {x} \in SUBSET T /\ Cardinality(t \ {x}) \in Nat
  BY <1>2, <1>5, <1>8, FS_RemoveElement
<1>12. Cardinality(t \ {x}) \in B
  BY <1>10, <1>11
<1>13. n \in Nat /\ n <= n - 1
  BY <1>4, <1>11, <1>12
<1>14. QED
  BY <1>13

(* The sum of the values is the number of units. *)
THEOREM SumCounts ==
    ASSUME NEW f, NEW T, IsFiniteSet(T), \A x \in T : f[x] \in Nat
    PROVE  SumFunctionOnSet(f, T) = Cardinality(Units(f, T)) /\ IsFiniteSet(Units(f, T))
<1> DEFINE it == [s \in SUBSET T |-> Cardinality(Units(f, s))]
<1>1. IsFold(f, T, it)
  BY UnitsFold
<1>2. it[T] = Cardinality(Units(f, T))
  OBVIOUS
<1> HIDE DEF it
<1>3. PICK jt : IsFold(f, T, jt) /\ SumFunctionOnSet(f, T) = jt[T]
  BY <1>1, SumFolds, Zenon
<1>4. jt[T] = it[T]
  BY <1>1, <1>3, FoldUnique
<1>5. QED
  BY <1>2, <1>3, <1>4, UnitsFinite

-----------------------------------------------------------------------------
(***************************************************************************)
(* What follows for sums.                                                  *)
(***************************************************************************)

(* An index of the sum can be taken out. *)
THEOREM SumRemove ==
    ASSUME NEW f, NEW T, IsFiniteSet(T), \A y \in T : f[y] \in Nat, NEW x \in T
    PROVE  /\ SumFunctionOnSet(f, T) = f[x] + SumFunctionOnSet(f, T \ {x})
           /\ SumFunctionOnSet(f, T \ {x}) \in Nat
<1> DEFINE R == T \ {x}
<1>1. IsFiniteSet(R) /\ (\A y \in R : f[y] \in Nat) /\ f[x] \in Nat
  BY FS_RemoveElement
<1>2. SumFunctionOnSet(f, T) = Cardinality(Units(f, T))
  BY SumCounts
<1>3. IsFiniteSet(Units(f, R))
  BY <1>1, UnitsFinite
<1>4. Cardinality(Units(f, T)) = f[x] + Cardinality(Units(f, R))
  BY <1>1, <1>3, UnitsAdd
<1> HIDE DEF R
<1>5. SumFunctionOnSet(f, R) = Cardinality(Units(f, R))
  BY <1>1, SumCounts
<1>6. Cardinality(Units(f, R)) \in Nat
  BY <1>3, FS_CardinalityType
<1>7. QED
  BY <1>2, <1>4, <1>5, <1>6 DEF R

(* A sum is a number, and that of nothing is zero. *)
THEOREM SumIsNat ==
    ASSUME NEW f, NEW T, IsFiniteSet(T), \A x \in T : f[x] \in Nat
    PROVE  SumFunctionOnSet(f, T) \in Nat /\ (T = {} => SumFunctionOnSet(f, T) = 0)
<1>1. SumFunctionOnSet(f, T) = Cardinality(Units(f, T)) /\ IsFiniteSet(Units(f, T))
  BY SumCounts
<1>2. T = {} => Units(f, T) = {}
  BY DEF Units
<1>3. QED
  BY <1>1, <1>2, FS_CardinalityType, FS_EmptySet

(* Only the values in T count. *)
THEOREM SumSame ==
    ASSUME NEW f, NEW g, NEW T, IsFiniteSet(T), \A x \in T : f[x] \in Nat /\ g[x] = f[x]
    PROVE  SumFunctionOnSet(g, T) = SumFunctionOnSet(f, T)
<1>1. \A p \in T \X Nat : p[1] \in T
  OBVIOUS
<1>2. \A p \in T \X Nat : 1 .. g[p[1]] = 1 .. f[p[1]]
  BY <1>1
<1>3. Units(f, T) = Units(g, T)
  BY <1>2, Zenon DEF Units
<1>4. \A x \in T : f[x] \in Nat /\ g[x] \in Nat
  OBVIOUS
<1>5. QED
  BY <1>3, <1>4, SumCounts

(* A sum of zeros. *)
THEOREM SumOfZeros ==
    ASSUME NEW f, NEW T, IsFiniteSet(T), \A x \in T : f[x] = 0
    PROVE  SumFunctionOnSet(f, T) = 0
<1>1. \A x \in T : f[x] \in Nat
  OBVIOUS
<1>2. Units(f, T) = {}
  BY DEF Units
<1>3. QED
  BY <1>1, <1>2, SumCounts, FS_EmptySet

(* One value of those summed changes. *)
THEOREM SumChange ==
    ASSUME NEW T, IsFiniteSet(T), NEW f, NEW g, \A y \in T : f[y] \in Nat /\ g[y] \in Nat,
           NEW x \in T, \A y \in T \ {x} : g[y] = f[y]
    PROVE  SumFunctionOnSet(g, T) = SumFunctionOnSet(f, T) + (g[x] - f[x])
<1>1. SumFunctionOnSet(g, T \ {x}) = SumFunctionOnSet(f, T \ {x})
  <2>1. IsFiniteSet(T \ {x})
    BY FS_RemoveElement
  <2>2. QED
    BY <2>1, SumSame
<1>2. SumFunctionOnSet(g, T) = g[x] + SumFunctionOnSet(g, T \ {x})
  BY SumRemove
<1>3. /\ SumFunctionOnSet(f, T) = f[x] + SumFunctionOnSet(f, T \ {x})
      /\ SumFunctionOnSet(f, T \ {x}) \in Nat
  BY SumRemove
<1>4. f[x] \in Nat /\ g[x] \in Nat
  OBVIOUS
<1>5. QED
  BY <1>1, <1>2, <1>3, <1>4

(* One value of a function changes. *)
THEOREM SumUpdate ==
    ASSUME NEW T, IsFiniteSet(T), NEW f \in [T -> Nat], NEW x \in T, NEW v \in Nat
    PROVE  SumFunction([f EXCEPT ![x] = v]) = SumFunction(f) + (v - f[x])
<1> DEFINE g == [f EXCEPT ![x] = v]
<1>1. g \in [T -> Nat] /\ g[x] = v /\ \A y \in T \ {x} : g[y] = f[y]
  OBVIOUS
<1>2. SumFunction(f) = SumFunctionOnSet(f, T) /\ SumFunction(g) = SumFunctionOnSet(g, T)
  BY <1>1 DEF SumFunction
<1> HIDE DEF g
<1>3. SumFunctionOnSet(g, T) = SumFunctionOnSet(f, T) + (g[x] - f[x])
  BY <1>1, SumChange
<1>4. QED
  BY <1>1, <1>2, <1>3 DEF g

(* A sum of values up to m is at most m for each. *)
THEOREM SumAtMost ==
    ASSUME NEW T, IsFiniteSet(T), NEW f \in [T -> Nat], NEW m \in Nat, \A x \in T : f[x] <= m
    PROVE  SumFunction(f) <= Cardinality(T) * m
<1>1. SumFunction(f) = Cardinality(Units(f, T))
  <2>1. SumFunction(f) = SumFunctionOnSet(f, T)
    BY DEF SumFunction
  <2>2. QED
    BY <2>1, SumCounts
<1>2. IsFiniteSet(1 .. m) /\ Cardinality(1 .. m) = m
  BY FS_Interval
<1>3. IsFiniteSet(T \X (1 .. m)) /\ Cardinality(T \X (1 .. m)) = Cardinality(T) * m
  BY <1>2, FS_Product
<1>4. Units(f, T) \in SUBSET (T \X (1 .. m))
  <2>1. ASSUME NEW p \in Units(f, T)
        PROVE  p \in T \X (1 .. m)
    <3>1. p = <<p[1], p[2]>> /\ p[1] \in T /\ p[2] \in Nat /\ p[2] \in 1 .. f[p[1]]
      BY DEF Units
    <3>2. f[p[1]] \in Nat /\ f[p[1]] <= m
      BY <3>1
    <3>3. p[2] \in 1 .. m
      BY <3>1, <3>2
    <3>4. QED
      BY <3>1, <3>3
  <2>2. QED
    BY <2>1
<1>5. QED
  BY <1>1, <1>3, <1>4, FS_Subset

(* A sequence gives up its first value. *)
THEOREM SumTail ==
    ASSUME NEW f, NEW g, NEW n \in Nat \ {0}, \A i \in 1 .. n : f[i] \in Nat,
           \A i \in 1 .. n - 1 : g[i] = f[i + 1]
    PROVE  SumFunctionOnSet(g, 1 .. n - 1) = SumFunctionOnSet(f, 1 .. n) - f[1]
<1> DEFINE R == (1 .. n) \ {1}
<1>1. IsFiniteSet(1 .. n) /\ IsFiniteSet(1 .. n - 1) /\ IsFiniteSet(R)
  <2>1. 1 \in Int /\ n \in Int /\ n - 1 \in Int
    OBVIOUS
  <2>2. IsFiniteSet(1 .. n) /\ IsFiniteSet(1 .. n - 1)
    BY <2>1, FS_Interval
  <2>3. QED
    BY <2>2, FS_RemoveElement
<1>2. /\ SumFunctionOnSet(f, 1 .. n) = f[1] + SumFunctionOnSet(f, R)
      /\ SumFunctionOnSet(f, R) \in Nat
  <2>1. 1 \in 1 .. n
    OBVIOUS
  <2>2. QED
    BY <1>1, <2>1, SumRemove
<1>3. \A i \in 1 .. n - 1 : g[i] \in Nat /\ g[i] = f[i + 1] /\ i + 1 \in R
  OBVIOUS
<1>4. \A i \in R : f[i] \in Nat /\ i - 1 \in 1 .. n - 1 /\ i = (i - 1) + 1
  OBVIOUS
<1>5. /\ SumFunctionOnSet(g, 1 .. n - 1) = Cardinality(Units(g, 1 .. n - 1)) /\ IsFiniteSet(Units(g, 1 .. n - 1))
      /\ SumFunctionOnSet(f, R) = Cardinality(Units(f, R))
  <2>1. /\ \A i \in 1 .. n - 1 : g[i] \in Nat
        /\ \A i \in R : f[i] \in Nat
    BY <1>3, <1>4
  <2> HIDE DEF R
  <2>2. QED
    BY <1>1, <2>1, SumCounts
<1> DEFINE up == [p \in Units(g, 1 .. n - 1) |-> <<p[1] + 1, p[2]>>]
<1>6. up \in Bijection(Units(g, 1 .. n - 1), Units(f, R))
  <2>1. \A p \in Units(g, 1 .. n - 1) : /\ p = <<p[1], p[2]>> /\ p[1] \in 1 .. n - 1 /\ p[2] \in Nat
                                        /\ p[2] \in 1 .. g[p[1]] /\ up[p] = <<p[1] + 1, p[2]>>
    BY DEF Units
  <2>2. \A p \in Units(g, 1 .. n - 1) : up[p] \in Units(f, R)
    BY <1>3, <2>1 DEF Units
  <2>3. \A p, q \in Units(g, 1 .. n - 1) : up[p] = up[q] => p = q
    <3>1. SUFFICES ASSUME NEW p \in Units(g, 1 .. n - 1), NEW q \in Units(g, 1 .. n - 1), up[p] = up[q]
                   PROVE  p = q
      OBVIOUS
    <3>2. p[1] + 1 = q[1] + 1 /\ p[2] = q[2]
      <4>1. <<p[1] + 1, p[2]>> = <<q[1] + 1, q[2]>>
        BY <2>1, <3>1
      <4>2. QED
        BY <4>1
    <3>3. p[1] = q[1]
      <4>1. p[1] \in 1 .. n - 1 /\ q[1] \in 1 .. n - 1
        BY <2>1, Zenon
      <4>2. QED
        BY <3>2, <4>1
    <3>4. QED
      BY <2>1, <3>2, <3>3
  <2>4. ASSUME NEW q \in Units(f, R)
        PROVE  \E p \in Units(g, 1 .. n - 1) : up[p] = q
    <3> DEFINE p == <<q[1] - 1, q[2]>>
    <3>1. q = <<q[1], q[2]>> /\ q[1] \in R /\ q[2] \in Nat /\ q[2] \in 1 .. f[q[1]]
      BY DEF Units
    <3>2. q[1] - 1 \in 1 .. n - 1 /\ (q[1] - 1) + 1 = q[1]
      BY <3>1
    <3>3. g[q[1] - 1] = f[q[1]]
      BY <1>3, <3>2
    <3>4. p \in Units(g, 1 .. n - 1)
      BY <3>1, <3>2, <3>3 DEF Units
    <3>5. up[p] = q
      BY <2>1, <3>1, <3>2, <3>4
    <3>6. QED
      BY <3>4, <3>5
  <2>5. up \in [Units(g, 1 .. n - 1) -> Units(f, R)]
    BY <2>2
  <2>6. QED
    BY <2>3, <2>4, <2>5, Fun_IsBij
<1>7. ExistsBijection(Units(g, 1 .. n - 1), Units(f, R))
  BY <1>6, Zenon DEF ExistsBijection
<1>8. Cardinality(Units(f, R)) = Cardinality(Units(g, 1 .. n - 1))
  BY <1>5, <1>7, FS_Bijection
<1>9. f[1] \in Nat
  OBVIOUS
<1>10. QED
  BY <1>2, <1>5, <1>8, <1>9

-----------------------------------------------------------------------------
(***************************************************************************)
(* Sequences one behind the other, as FlattenSeq.                          *)
(***************************************************************************)
IsFlat(seqs, n, fl) == fl = [i \in 1 .. n |-> IF i = 1 THEN seqs[i] ELSE fl[i - 1] \o seqs[i]]

(* The recursive function of FlattenSeq exists. *)
LEMMA FlatExists ==
    ASSUME NEW seqs, NEW n \in Nat \ {0}
    PROVE  \E fl : IsFlat(seqs, n, fl)
<1>1. SUFFICES ASSUME ~\E fl : IsFlat(seqs, n, fl)
               PROVE  FALSE
  OBVIOUS
<1> DEFINE B == {k \in Nat : k # 0 /\ ~\E fl : IsFlat(seqs, k, fl)}
<1>2. B \in SUBSET Nat /\ n \in B
  BY <1>1
<1>3. PICK m \in B : \A k \in B : m <= k
  <2> HIDE DEF B
  <2>1. QED
    BY <1>2, LeastNumber
<1>4. m \in Nat /\ m # 0 /\ ~\E fl : IsFlat(seqs, m, fl)
  BY <1>3
<1>5. CASE m = 1
  <2> DEFINE fl == [i \in 1 .. 1 |-> seqs[1]]
  <2>1. \A i \in 1 .. 1 : i = 1
    OBVIOUS
  <2>2. fl = [i \in 1 .. 1 |-> IF i = 1 THEN seqs[i] ELSE fl[i - 1] \o seqs[i]]
    BY <2>1, Zenon
  <2>3. QED
    BY <1>4, <1>5, <2>2, Zenon DEF IsFlat
<1>6. CASE m # 1
  <2>1. m - 1 \in Nat /\ m - 1 # 0 /\ m - 1 \notin B
    BY <1>3, <1>4, <1>6
  <2>2. PICK fl : IsFlat(seqs, m - 1, fl)
    BY <2>1
  <2> DEFINE gl == [i \in 1 .. m |-> IF i = m THEN fl[m - 1] \o seqs[m] ELSE fl[i]]
  <2>3. ASSUME NEW i \in 1 .. m
        PROVE  gl[i] = IF i = 1 THEN seqs[i] ELSE gl[i - 1] \o seqs[i]
    <3>1. CASE i = m
      <4>1. i # 1 /\ i - 1 \in 1 .. m /\ i - 1 # m /\ i - 1 = m - 1
        BY <1>4, <1>6, <3>1
      <4>2. gl[i] = fl[m - 1] \o seqs[m]
        BY <3>1, Zenon
      <4>3. gl[i - 1] = fl[i - 1]
        BY <4>1, Zenon
      <4>4. QED
        BY <3>1, <4>1, <4>2, <4>3, Zenon
    <3>2. CASE i # m
      <4>1. i \in 1 .. m - 1 /\ (i # 1 => i - 1 \in 1 .. m /\ i - 1 # m)
        BY <1>4, <3>2
      <4>2. gl[i] = fl[i]
        BY <3>2, Zenon
      <4>3. fl[i] = IF i = 1 THEN seqs[i] ELSE fl[i - 1] \o seqs[i]
        BY <2>2, <4>1, Zenon DEF IsFlat
      <4>4. i # 1 => gl[i - 1] = fl[i - 1]
        BY <4>1, Zenon
      <4>5. QED
        BY <4>2, <4>3, <4>4, Zenon
    <3>3. QED
      BY <3>1, <3>2
  <2>4. gl = [i \in 1 .. m |-> gl[i]]
    BY Zenon
  <2>5. gl = [i \in 1 .. m |-> IF i = 1 THEN seqs[i] ELSE gl[i - 1] \o seqs[i]]
    <3> HIDE DEF gl
    <3>1. QED
      BY <2>3, <2>4, Zenon
  <2>6. IsFlat(seqs, m, gl)
    <3> HIDE DEF gl
    <3>1. QED
      BY <2>5, Zenon DEF IsFlat
  <2>7. QED
    BY <1>4, <2>6
<1>7. QED
  BY <1>5, <1>6

(* s is made of the first n pieces, all of them, and ascends. *)
Made(s, seqs, n, R) ==
    /\ \A k \in 1 .. Len(s) : \E i \in 1 .. n : \E j \in 1 .. Len(seqs[i]) : s[k] = seqs[i][j]
    /\ \A i \in 1 .. n : \A j \in 1 .. Len(seqs[i]) : \E k \in 1 .. Len(s) : s[k] = seqs[i][j]
    /\ \A k, l \in 1 .. Len(s) : k < l => <<s[k], s[l]>> \in R

(* If the pieces ascend, and from one to the next, so does the whole. *)
LEMMA FlatAscends ==
    ASSUME NEW T, NEW R, NEW seqs \in Seq(Seq(T)), Len(seqs) # 0, NEW fl, IsFlat(seqs, Len(seqs), fl),
           \A i \in 1 .. Len(seqs) : \A k, l \in 1 .. Len(seqs[i]) :
              k < l => <<seqs[i][k], seqs[i][l]>> \in R,
           \A i, j \in 1 .. Len(seqs) : i < j =>
              \A k \in 1 .. Len(seqs[i]), l \in 1 .. Len(seqs[j]) : <<seqs[i][k], seqs[j][l]>> \in R
    PROVE  fl[Len(seqs)] \in Seq(T) /\ Made(fl[Len(seqs)], seqs, Len(seqs), R)
<1> DEFINE N == Len(seqs)
<1>1. N \in Nat \ {0}
  OBVIOUS
<1> DEFINE B == {n \in Nat : n \in 1 .. N /\ ~(fl[n] \in Seq(T) /\ Made(fl[n], seqs, n, R))}
<1>3. SUFFICES ASSUME B # {} PROVE FALSE
  BY <1>1
<1>4. PICK m \in B : \A k \in B : m <= k
  <2>1. B \in SUBSET Nat
    OBVIOUS
  <2> HIDE DEF B
  <2>2. QED
    BY <1>3, <2>1, LeastNumber
<1>5. m \in 1 .. N /\ ~(fl[m] \in Seq(T) /\ Made(fl[m], seqs, m, R))
  BY <1>4
<1>6. fl[m] = IF m = 1 THEN seqs[m] ELSE fl[m - 1] \o seqs[m]
  BY <1>5, Zenon DEF IsFlat
<1>7. seqs[m] \in Seq(T)
  BY <1>5
<1>8. CASE m = 1
  <2>1. fl[m] = seqs[m]
    BY <1>6, <1>8, Zenon
  <2>2. /\ \A k \in 1 .. Len(seqs[m]) : \E i \in 1 .. m : \E j \in 1 .. Len(seqs[i]) : seqs[m][k] = seqs[i][j]
        /\ \A k, l \in 1 .. Len(seqs[m]) : k < l => <<seqs[m][k], seqs[m][l]>> \in R
    BY <1>5, <1>7
  <2>3. \A i \in 1 .. m : i = m
    BY <1>8
  <2>4. Made(seqs[m], seqs, m, R)
    BY <2>2, <2>3, Zenon DEF Made
  <2>5. QED
    BY <1>5, <1>7, <2>1, <2>4, Zenon
<1>9. CASE m # 1
  <2>1. m - 1 \in 1 .. N /\ m - 1 \notin B
    BY <1>1, <1>4, <1>5, <1>9
  <2> DEFINE s == fl[m - 1]
  <2> DEFINE t == seqs[m]
  <2>2. s \in Seq(T) /\ Made(s, seqs, m - 1, R)
    BY <2>1
  <2>3. fl[m] = s \o t
    BY <1>6, <1>9, Zenon
  <2> HIDE DEF s
  <2>4. /\ Len(s \o t) = Len(s) + Len(t) /\ s \o t \in Seq(T)
        /\ Len(s) \in Nat /\ Len(t) \in Nat
        /\ \A k \in 1 .. Len(s \o t) : (s \o t)[k] = IF k <= Len(s) THEN s[k] ELSE t[k - Len(s)]
    BY <1>7, <2>2
  <2> DEFINE u == s \o t
  <2>5. ASSUME NEW k \in 1 .. Len(u)
        PROVE  \E i \in 1 .. m : \E j \in 1 .. Len(seqs[i]) : u[k] = seqs[i][j]
    <3>1. CASE k <= Len(s)
      <4>1. u[k] = s[k] /\ k \in 1 .. Len(s)
        BY <2>4, <3>1
      <4>2. PICK i \in 1 .. m - 1 : \E j \in 1 .. Len(seqs[i]) : s[k] = seqs[i][j]
        BY <2>2, <4>1 DEF Made
      <4>3. i \in 1 .. m
        BY <1>5
      <4>4. QED
        BY <4>1, <4>2, <4>3, Zenon
    <3>2. CASE ~(k <= Len(s))
      <4>1. u[k] = t[k - Len(s)] /\ k - Len(s) \in 1 .. Len(t) /\ m \in 1 .. m
        BY <1>5, <2>4, <3>2
      <4>2. QED
        BY <4>1, Zenon
    <3>3. QED
      BY <3>1, <3>2
  <2>6. ASSUME NEW k \in 1 .. Len(u), NEW l \in 1 .. Len(u), k < l
        PROVE  <<u[k], u[l]>> \in R
    <3>1. CASE l <= Len(s)
      <4>1. u[k] = s[k] /\ u[l] = s[l] /\ k \in 1 .. Len(s) /\ l \in 1 .. Len(s)
        BY <2>4, <2>6, <3>1
      <4>2. QED
        BY <2>2, <2>6, <4>1 DEF Made
    <3>2. CASE k > Len(s)
      <4>1. /\ u[k] = t[k - Len(s)] /\ u[l] = t[l - Len(s)]
            /\ k - Len(s) \in 1 .. Len(t) /\ l - Len(s) \in 1 .. Len(t) /\ k - Len(s) < l - Len(s)
        BY <2>4, <2>6, <3>2
      <4>2. \A a, b \in 1 .. Len(t) : a < b => <<t[a], t[b]>> \in R
        BY <1>5
      <4>3. QED
        BY <4>1, <4>2, Zenon
    <3>3. CASE k <= Len(s) /\ l > Len(s)
      <4>1. u[k] = s[k] /\ u[l] = t[l - Len(s)] /\ k \in 1 .. Len(s) /\ l - Len(s) \in 1 .. Len(t)
        BY <2>4, <2>6, <3>3
      <4>2. PICK i \in 1 .. m - 1 : \E j \in 1 .. Len(seqs[i]) : s[k] = seqs[i][j]
        BY <2>2, <4>1 DEF Made
      <4>3. i \in 1 .. Len(seqs) /\ m \in 1 .. Len(seqs) /\ i < m
        BY <1>5
      <4>4. \A a \in 1 .. Len(seqs[i]), b \in 1 .. Len(seqs[m]) : <<seqs[i][a], seqs[m][b]>> \in R
        BY <4>3
      <4>5. QED
        BY <4>1, <4>2, <4>4, Zenon
    <3>4. l <= Len(s) \/ k > Len(s) \/ (k <= Len(s) /\ l > Len(s))
      BY <2>4
    <3>5. QED
      BY <3>1, <3>2, <3>3, <3>4, Zenon
  <2>7. ASSUME NEW i \in 1 .. m, NEW j \in 1 .. Len(seqs[i])
        PROVE  \E k \in 1 .. Len(u) : u[k] = seqs[i][j]
    <3>1. CASE i = m
      <4>1. Len(s) + j \in 1 .. Len(u) /\ ~(Len(s) + j <= Len(s)) /\ (Len(s) + j) - Len(s) = j
        BY <2>4, <3>1
      <4>2. u[Len(s) + j] = t[j]
        BY <2>4, <4>1
      <4>3. QED
        BY <3>1, <4>1, <4>2
    <3>2. CASE i # m
      <4>1. i \in 1 .. m - 1
        BY <1>5, <3>2
      <4>2. PICK k \in 1 .. Len(s) : s[k] = seqs[i][j]
        BY <2>2, <4>1, Zenon DEF Made
      <4>3. k \in 1 .. Len(u) /\ k <= Len(s)
        BY <2>4
      <4>4. u[k] = s[k]
        BY <2>4, <4>3
      <4>5. QED
        BY <4>2, <4>3, <4>4, Zenon
    <3>3. QED
      BY <3>1, <3>2
  <2>8. Made(u, seqs, m, R)
    BY <2>5, <2>6, <2>7, Zenon DEF Made
  <2>9. QED
    BY <1>5, <2>3, <2>4, <2>8, Zenon
<1>10. QED
  BY <1>8, <1>9

=============================================================================
