------------------------------ MODULE Counting ------------------------------
(***************************************************************************)
(* Facts the proofs of several components need: what one more or one less  *)
(* element does to a cardinality and to a sum over a finite set.           *)
(***************************************************************************)
EXTENDS Integers, FiniteSets, Functions, FiniteSetTheorems, WellFoundedInduction, TLAPS

LEMMA LeastNatural ==
  ASSUME NEW S \in SUBSET Nat, S # {}
  PROVE  \E i \in S : \A j \in S : i <= j
<1>1. PICK i \in S : \A j \in S : ~(<<j, i>> \in OpToRel(<, Nat))
  BY NatLessThanWellFounded, WFMin, Zenon
<1>2. ASSUME NEW j \in S PROVE i <= j
  <2>1. j < i => <<j, i>> \in OpToRel(<, Nat)
    <3> DEFINE pair == <<j, i>>
    <3>1. pair \in Nat \X Nat /\ pair[1] = j /\ pair[2] = i
      OBVIOUS
    <3>2. OpToRel(<, Nat) = {ss \in Nat \X Nat : ss[1] < ss[2]}
      BY Zenon DEF OpToRel
    <3> QED
      BY <3>1, <3>2
  <2>2. ~(j < i)
    BY <1>1, <2>1
  <2> QED
    BY <2>2
<1> QED
  BY <1>2

\* Induction over the natural numbers, stated of a set of them.
LEMMA EveryNatural ==
  ASSUME NEW S \in SUBSET Nat, 0 \in S, \A n \in S : n + 1 \in S, NEW n \in Nat
  PROVE  n \in S
<1> SUFFICES ASSUME n \notin S PROVE FALSE
  OBVIOUS
<1> DEFINE without == Nat \ S
<1>1. PICK m \in without : \A j \in without : m <= j
  <2>1. without \in SUBSET Nat /\ without # {}
    OBVIOUS
  <2> HIDE DEF without
  <2> QED
    BY <2>1, LeastNatural
<1>2. m \in Nat /\ m # 0 /\ m \notin S
  BY <1>1
<1>3. m - 1 \in Nat /\ ~(m <= m - 1) /\ (m - 1) + 1 = m
  BY <1>2
<1>4. m - 1 \in S
  BY <1>1, <1>3
<1> QED
  BY <1>2, <1>3, <1>4

-----------------------------------------------------------------------------
(* Cardinalities. *)

LEMMA CountEmpty == IsFiniteSet({}) /\ Cardinality({}) = 0
  BY FS_EmptySet

LEMMA CountIsNat ==
  ASSUME NEW S, IsFiniteSet(S)
  PROVE  Cardinality(S) \in Nat
  BY FS_CardinalityType

LEMMA CountWith ==
  ASSUME NEW S, IsFiniteSet(S), NEW x, x \notin S
  PROVE  IsFiniteSet(S \cup {x}) /\ Cardinality(S \cup {x}) = Cardinality(S) + 1
  BY FS_AddElement

LEMMA CountWithout ==
  ASSUME NEW S, IsFiniteSet(S), NEW x \in S
  PROVE  IsFiniteSet(S \ {x}) /\ Cardinality(S \ {x}) = Cardinality(S) - 1
  BY FS_RemoveElement

LEMMA CountOrdered ==
  ASSUME NEW S, IsFiniteSet(S), NEW T \in SUBSET S
  PROVE  /\ IsFiniteSet(T)
         /\ Cardinality(T) \in Nat /\ Cardinality(S) \in Nat
         /\ Cardinality(T) <= Cardinality(S)
  BY FS_Subset, FS_CardinalityType

-----------------------------------------------------------------------------
(* Sums.  The library's sum is a function defined by recursion over the     *)
(* subsets of the indices; the table of its values is shown to exist for a  *)
(* finite set of indices, by taking a least size for which it would not.    *)

Pick(s) == CHOOSE x \in s : TRUE

IsTable(table, f, D) ==
  table = [s \in D |-> IF s = {} THEN 0 ELSE f[Pick(s)] + table[s \ {Pick(s)}]]

SumTable(f, S) == CHOOSE table : IsTable(table, f, SUBSET S)

\* The subsets with at most n elements, and that there is a table for them.
Upto(S, n) == {s \in SUBSET S : Cardinality(s) <= n}
HasTable(f, S, n) == \E table : IsTable(table, f, Upto(S, n))

LEMMA PickIn == ASSUME NEW s, s # {} PROVE Pick(s) \in s
  BY DEF Pick

LEMMA TableGrows ==
  ASSUME NEW f, NEW S, IsFiniteSet(S), NEW n \in Nat, HasTable(f, S, n)
  PROVE  HasTable(f, S, n + 1)
<1>1. PICK table : IsTable(table, f, Upto(S, n))
  BY DEF HasTable
<1>2. \A s \in Upto(S, n) : table[s] = IF s = {} THEN 0 ELSE f[Pick(s)] + table[s \ {Pick(s)}]
  BY <1>1 DEF IsTable
<1> DEFINE next == [s \in Upto(S, n + 1) |-> IF s = {} THEN 0
                                               ELSE f[Pick(s)] + table[s \ {Pick(s)}]]
<1>3. ASSUME NEW s \in Upto(S, n + 1), s # {}
      PROVE  s \ {Pick(s)} \in Upto(S, n) /\ s \ {Pick(s)} \in Upto(S, n + 1)
  <2>1. s \in SUBSET S /\ Cardinality(s) <= n + 1
    BY DEF Upto
  <2>2. IsFiniteSet(s)
    BY <2>1, FS_Subset
  <2>3. Pick(s) \in s
    BY <1>3, PickIn
  <2>4. Cardinality(s \ {Pick(s)}) = Cardinality(s) - 1 /\ Cardinality(s) \in Nat
    BY <2>2, <2>3, FS_RemoveElement, FS_CardinalityType
  <2>5. Cardinality(s \ {Pick(s)}) <= n /\ Cardinality(s \ {Pick(s)}) <= n + 1
    BY <2>1, <2>4
  <2> QED
    BY <2>1, <2>5 DEF Upto
<1>4. ASSUME NEW s \in Upto(S, n + 1), s # {}
      PROVE  next[s \ {Pick(s)}] = table[s \ {Pick(s)}]
  <2>1. s \ {Pick(s)} \in Upto(S, n) /\ s \ {Pick(s)} \in Upto(S, n + 1)
    BY <1>3, <1>4
  <2> QED
    BY <1>2, <2>1
<1>5. next = [s \in Upto(S, n + 1) |-> IF s = {} THEN 0
                                         ELSE f[Pick(s)] + next[s \ {Pick(s)}]]
  <2> DEFINE other == [s \in Upto(S, n + 1) |-> IF s = {} THEN 0
                                         ELSE f[Pick(s)] + next[s \ {Pick(s)}]]
  <2>1. ASSUME NEW s \in Upto(S, n + 1) PROVE next[s] = other[s]
    <3>1. CASE s = {}
      BY <3>1
    <3>2. CASE s # {}
      <4> HIDE DEF next
      <4>1. next[s \ {Pick(s)}] = table[s \ {Pick(s)}]
        BY <3>2, <1>4
      <4>2. other[s] = f[Pick(s)] + next[s \ {Pick(s)}]
        BY <3>2
      <4>3. next[s] = f[Pick(s)] + table[s \ {Pick(s)}]
        BY <3>2 DEF next
      <4> QED
        BY <4>1, <4>2, <4>3
    <3> QED
      BY <3>1, <3>2
  <2> QED
    BY <2>1
<1>6. IsTable(next, f, Upto(S, n + 1))
  <2> HIDE DEF next
  <2> QED
    BY <1>5 DEF IsTable
<1> QED
  BY <1>6 DEF HasTable

LEMMA TableExists ==
  ASSUME NEW f, NEW S, IsFiniteSet(S), NEW n \in Nat
  PROVE  HasTable(f, S, n)
<1>1. HasTable(f, S, 0)
  <2>1. Upto(S, 0) = {{}}
    <3>1. ASSUME NEW s \in SUBSET S, Cardinality(s) <= 0 PROVE s = {}
      BY <3>1, FS_Subset, FS_CardinalityType, FS_EmptySet
    <3>2. Cardinality({}) = 0
      BY FS_EmptySet
    <3> QED
      BY <3>1, <3>2 DEF Upto
  <2> DEFINE table == [s \in {{}} |-> 0]
  <2>2. table = [s \in {{}} |-> IF s = {} THEN 0 ELSE f[Pick(s)] + table[s \ {Pick(s)}]]
    <3>1. \A s \in {{}} : s = {}
      OBVIOUS
    <3> DEFINE other == [s \in {{}} |-> IF s = {} THEN 0 ELSE f[Pick(s)] + table[s \ {Pick(s)}]]
    <3>2. \A s \in {{}} : table[s] = other[s]
      BY <3>1
    <3> QED
      BY <3>2
  <2>3. IsTable(table, f, Upto(S, 0))
    <3> HIDE DEF table
    <3> QED
      BY <2>1, <2>2 DEF IsTable
  <2> QED
    BY <2>3 DEF HasTable
<1> DEFINE with == {m \in Nat : HasTable(f, S, m)}
<1>2. 0 \in with /\ \A m \in with : m + 1 \in with
  BY <1>1, TableGrows
<1>3. n \in with
  <2>1. with \in SUBSET Nat
    OBVIOUS
  <2> HIDE DEF with
  <2> QED
    BY <1>2, <2>1, EveryNatural
<1> QED
  BY <1>3

LEMMA TableOfSum ==
  ASSUME NEW f, NEW S, IsFiniteSet(S)
  PROVE  IsTable(SumTable(f, S), f, SUBSET S)
<1>1. Upto(S, Cardinality(S)) = SUBSET S /\ Cardinality(S) \in Nat
  BY FS_Subset, FS_CardinalityType DEF Upto
<1>2. HasTable(f, S, Cardinality(S))
  BY <1>1, TableExists
<1>3. \E table : IsTable(table, f, SUBSET S)
  BY <1>1, <1>2 DEF HasTable
<1> QED
  BY <1>3 DEF SumTable

LEMMA SumIsTable ==
  ASSUME NEW f, NEW S PROVE SumFunctionOnSet(f, S) = SumTable(f, S)[S]
  BY DEF SumFunctionOnSet, FoldFunctionOnSet, MapThenFoldSet, SumTable, IsTable, Pick

\* A subset's value does not depend on the set of indices of the table.
LEMMA TablesAgree ==
  ASSUME NEW f, NEW U, IsFiniteSet(U), NEW S \in SUBSET U, NEW g, NEW h,
         IsTable(g, f, SUBSET U), IsTable(h, f, SUBSET S)
  PROVE  g[S] = h[S]
<1> DEFINE agree == {n \in Nat : \A s \in Upto(S, n) : g[s] = h[s]}
<1>0. /\ \A s \in SUBSET U : g[s] = IF s = {} THEN 0 ELSE f[Pick(s)] + g[s \ {Pick(s)}]
      /\ \A s \in SUBSET S : h[s] = IF s = {} THEN 0 ELSE f[Pick(s)] + h[s \ {Pick(s)}]
  BY DEF IsTable
<1>1. IsFiniteSet(S) /\ Upto(S, Cardinality(S)) = SUBSET S /\ Cardinality(S) \in Nat
  BY FS_Subset, FS_CardinalityType DEF Upto
<1>2. 0 \in agree
  <2>1. ASSUME NEW s \in Upto(S, 0) PROVE g[s] = h[s]
    <3>1. s \in SUBSET S /\ Cardinality(s) <= 0
      BY DEF Upto
    <3>2. s = {}
      BY <1>1, <3>1, FS_Subset, FS_CardinalityType, FS_EmptySet
    <3>3. g[s] = 0 /\ h[s] = 0
      BY <1>0, <3>1, <3>2
    <3> QED
      BY <3>3
  <2> QED
    BY <2>1
<1>3. ASSUME NEW n \in agree PROVE n + 1 \in agree
  <2>1. ASSUME NEW s \in Upto(S, n + 1), s # {} PROVE g[s] = h[s]
    <3>1. s \in SUBSET S /\ Cardinality(s) <= n + 1 /\ Pick(s) \in s
      BY <2>1, PickIn DEF Upto
    <3>2. IsFiniteSet(s)
      BY <1>1, <3>1, FS_Subset
    <3>3. Cardinality(s \ {Pick(s)}) = Cardinality(s) - 1 /\ Cardinality(s) \in Nat
      BY <3>1, <3>2, FS_RemoveElement, FS_CardinalityType
    <3>4. s \ {Pick(s)} \in Upto(S, n)
      BY <3>1, <3>3 DEF Upto
    <3>5. g[s \ {Pick(s)}] = h[s \ {Pick(s)}]
      BY <3>4
    <3> HIDE DEF agree
    <3>6. g[s] = f[Pick(s)] + g[s \ {Pick(s)}] /\ h[s] = f[Pick(s)] + h[s \ {Pick(s)}]
      BY <1>0, <2>1, <3>1
    <3> QED
      BY <3>5, <3>6
  <2>2. g[{}] = 0 /\ h[{}] = 0
    BY <1>0
  <2> QED
    BY <2>1, <2>2
<1>4. Cardinality(S) \in agree
  <2>1. agree \in SUBSET Nat
    OBVIOUS
  <2> HIDE DEF agree
  <2> QED
    BY <1>1, <1>2, <1>3, <2>1, EveryNatural
<1> QED
  BY <1>1, <1>4

LEMMA SumInTable ==
  ASSUME NEW f, NEW U, IsFiniteSet(U), NEW S \in SUBSET U
  PROVE  SumFunctionOnSet(f, S) = SumTable(f, U)[S]
<1>1. IsFiniteSet(S)
  BY FS_Subset
<1>2. IsTable(SumTable(f, U), f, SUBSET U) /\ IsTable(SumTable(f, S), f, SUBSET S)
  BY <1>1, TableOfSum
<1>3. SumTable(f, U)[S] = SumTable(f, S)[S]
  BY <1>2, TablesAgree
<1> QED
  BY <1>3, SumIsTable

\* The recursive equation of the sum itself.
LEMMA SumEquation ==
  ASSUME NEW f, NEW S, IsFiniteSet(S)
  PROVE  /\ SumFunctionOnSet(f, {}) = 0
         /\ S # {} => SumFunctionOnSet(f, S)
                       = f[Pick(S)] + SumFunctionOnSet(f, S \ {Pick(S)})
<1>1. SumFunctionOnSet(f, {}) = 0
  <2>1. IsTable(SumTable(f, {}), f, SUBSET {})
    BY TableOfSum, FS_EmptySet
  <2>2. SumTable(f, {})[{}] = 0
    BY <2>1 DEF IsTable
  <2> QED
    BY <2>2, SumIsTable
<1>2. ASSUME S # {} PROVE SumFunctionOnSet(f, S)
                       = f[Pick(S)] + SumFunctionOnSet(f, S \ {Pick(S)})
  <2>1. IsTable(SumTable(f, S), f, SUBSET S)
    BY TableOfSum
  <2>2. SumTable(f, S)[S] = f[Pick(S)] + SumTable(f, S)[S \ {Pick(S)}]
    <3>1. \A t \in SUBSET S : SumTable(f, S)[t] =
            IF t = {} THEN 0 ELSE f[Pick(t)] + SumTable(f, S)[t \ {Pick(t)}]
      BY <2>1 DEF IsTable
    <3> QED
      BY <1>2, <3>1
  <2>3. /\ SumFunctionOnSet(f, S) = SumTable(f, S)[S]
        /\ SumFunctionOnSet(f, S \ {Pick(S)}) = SumTable(f, S)[S \ {Pick(S)}]
    BY SumInTable
  <2> QED
    BY <2>2, <2>3
<1> QED
  BY <1>1, <1>2

LEMMA SumEmpty == ASSUME NEW f PROVE SumFunctionOnSet(f, {}) = 0
  BY SumEquation, FS_EmptySet

\* A property of subsets that one more element always keeps holds of all.
LEMMA EverySize ==
  ASSUME NEW U, IsFiniteSet(U), NEW good \in SUBSET SUBSET U, {} \in good,
         \A s \in SUBSET U : s # {} /\ (\A t \in SUBSET U : Cardinality(t) < Cardinality(s) => t \in good)
                              => s \in good
  PROVE  U \in good
<1> DEFINE sizes == {n \in Nat : \A s \in SUBSET U : Cardinality(s) <= n => s \in good}
<1>0. \A s \in SUBSET U : Cardinality(s) \in Nat /\ (Cardinality(s) = 0 => s = {})
  BY FS_Subset, FS_CardinalityType, FS_EmptySet
<1>1. 0 \in sizes
  BY <1>0
<1>2. ASSUME NEW n \in sizes PROVE n + 1 \in sizes
  <2>0. n \in Nat /\ \A s \in SUBSET U : Cardinality(s) <= n => s \in good
    OBVIOUS
  <2>1. ASSUME NEW s \in SUBSET U, Cardinality(s) <= n + 1, s # {} PROVE s \in good
    <3>1. ASSUME NEW t \in SUBSET U, Cardinality(t) < Cardinality(s) PROVE t \in good
      <4>1. Cardinality(t) <= n
        BY <1>0, <2>0, <2>1, <3>1
      <4> QED
        BY <2>0, <4>1
    <3> QED
      BY <2>1, <3>1
  <2>2. \A s \in SUBSET U : Cardinality(s) <= n + 1 => s \in good
    BY <2>1
  <2> QED
    BY <2>0, <2>2
<1>3. Cardinality(U) \in sizes
  <2>1. sizes \in SUBSET Nat /\ Cardinality(U) \in Nat
    BY <1>0
  <2> HIDE DEF sizes
  <2> QED
    BY <1>1, <1>2, <2>1, EveryNatural
<1> QED
  BY <1>0, <1>3

LEMMA SmallerWithout ==
  ASSUME NEW U, IsFiniteSet(U), NEW s \in SUBSET U, NEW x \in s
  PROVE  /\ s \ {x} \in SUBSET U /\ IsFiniteSet(s) /\ IsFiniteSet(s \ {x})
         /\ Cardinality(s \ {x}) < Cardinality(s)
<1>1. IsFiniteSet(s)
  BY FS_Subset
<1>2. IsFiniteSet(s \ {x}) /\ Cardinality(s \ {x}) = Cardinality(s) - 1
  BY <1>1, FS_RemoveElement
<1>3. Cardinality(s) \in Nat
  BY <1>1, FS_CardinalityType
<1> QED
  BY <1>1, <1>2, <1>3

LEMMA SumIsInt ==
  ASSUME NEW f, NEW U, IsFiniteSet(U), \A x \in U : f[x] \in Int
  PROVE  SumFunctionOnSet(f, U) \in Int
<1> DEFINE good == {s \in SUBSET U : SumFunctionOnSet(f, s) \in Int}
<1>1. {} \in good
  BY SumEmpty
<1>2. ASSUME NEW s \in SUBSET U, s # {},
             \A t \in SUBSET U : Cardinality(t) < Cardinality(s) => t \in good
      PROVE  s \in good
  <2>1. Pick(s) \in s
    BY <1>2, PickIn
  <2>2. s \ {Pick(s)} \in good
    BY <1>2, <2>1, SmallerWithout
  <2>3. SumFunctionOnSet(f, s) = f[Pick(s)] + SumFunctionOnSet(f, s \ {Pick(s)})
    BY <1>2, <2>1, SmallerWithout, SumEquation
  <2> QED
    BY <2>1, <2>2, <2>3
<1>3. U \in good
  <2>1. good \in SUBSET SUBSET U
    OBVIOUS
  <2> HIDE DEF good
  <2> QED
    BY <1>1, <1>2, <2>1, EverySize
<1> QED
  BY <1>3

LEMMA SumWithout ==
  ASSUME NEW f, NEW U, IsFiniteSet(U), \A x \in U : f[x] \in Int, NEW y \in U
  PROVE  SumFunctionOnSet(f, U) = f[y] + SumFunctionOnSet(f, U \ {y})
<1> DEFINE splits(s) == \A x \in s : SumFunctionOnSet(f, s) = f[x] + SumFunctionOnSet(f, s \ {x})
           good == {s \in SUBSET U : splits(s)}
<1>0. \A s \in SUBSET U : SumFunctionOnSet(f, s) \in Int
  BY FS_Subset, SumIsInt
<1>2. ASSUME NEW s \in SUBSET U, s # {},
             \A t \in SUBSET U : Cardinality(t) < Cardinality(s) => t \in good,
             NEW x \in s
      PROVE  SumFunctionOnSet(f, s) = f[x] + SumFunctionOnSet(f, s \ {x})
  <2> DEFINE p == Pick(s)
  <2>1. p \in s
    BY <1>2, PickIn
  <2>2. SumFunctionOnSet(f, s) = f[p] + SumFunctionOnSet(f, s \ {p})
    BY <1>2, <2>1, SmallerWithout, SumEquation
  <2>3. CASE p = x
    BY <2>2, <2>3
  <2>4. CASE p # x
    <3>1. s \ {p} \in good /\ s \ {x} \in good
      <4>1. /\ s \ {p} \in SUBSET U /\ Cardinality(s \ {p}) < Cardinality(s)
            /\ s \ {x} \in SUBSET U /\ Cardinality(s \ {x}) < Cardinality(s)
        BY <2>1, SmallerWithout
      <4> HIDE DEF good
      <4> QED
        BY <1>2, <4>1
    <3>2. /\ SumFunctionOnSet(f, s \ {p}) = f[x] + SumFunctionOnSet(f, (s \ {p}) \ {x})
          /\ SumFunctionOnSet(f, s \ {x}) = f[p] + SumFunctionOnSet(f, (s \ {x}) \ {p})
      BY <2>1, <2>4, <3>1
    <3>3. (s \ {p}) \ {x} = (s \ {x}) \ {p}
      OBVIOUS
    <3>4. /\ f[p] \in Int /\ f[x] \in Int
          /\ SumFunctionOnSet(f, (s \ {x}) \ {p}) \in Int
      BY <1>0, <2>1
    <3>5. PICK a \in Int, b \in Int, c \in Int :
            a = f[p] /\ b = f[x] /\ c = SumFunctionOnSet(f, (s \ {x}) \ {p})
      BY <3>4
    <3>6. /\ SumFunctionOnSet(f, s) = a + (b + c)
          /\ SumFunctionOnSet(f, s \ {x}) = a + c
      BY <2>2, <3>2, <3>3, <3>5
    <3> QED
      BY <3>5, <3>6
  <2> QED
    BY <2>3, <2>4
<1>3. U \in good
  <2>1. good \in SUBSET SUBSET U /\ {} \in good
    OBVIOUS
  <2>2. ASSUME NEW s \in SUBSET U, s # {},
               \A t \in SUBSET U : Cardinality(t) < Cardinality(s) => t \in good
        PROVE  s \in good
    BY <1>2, <2>2
  <2> HIDE DEF good
  <2> QED
    BY <2>1, <2>2, EverySize
<1> QED
  BY <1>3

LEMMA SumWith ==
  ASSUME NEW f, NEW U, IsFiniteSet(U), NEW y, y \notin U, \A x \in U \cup {y} : f[x] \in Int
  PROVE  SumFunctionOnSet(f, U \cup {y}) = f[y] + SumFunctionOnSet(f, U)
<1>1. IsFiniteSet(U \cup {y})
  BY FS_AddElement
<1>2. SumFunctionOnSet(f, U \cup {y}) = f[y] + SumFunctionOnSet(f, (U \cup {y}) \ {y})
  BY <1>1, SumWithout
<1>3. (U \cup {y}) \ {y} = U
  OBVIOUS
<1> QED
  BY <1>2, <1>3

\* Functions that are ordered on the indices have sums in that order.
LEMMA SumOrdered ==
  ASSUME NEW f, NEW g, NEW U, IsFiniteSet(U),
         \A x \in U : f[x] \in Int /\ g[x] \in Int /\ f[x] <= g[x]
  PROVE  SumFunctionOnSet(f, U) <= SumFunctionOnSet(g, U)
<1> DEFINE good == {s \in SUBSET U : SumFunctionOnSet(f, s) <= SumFunctionOnSet(g, s)}
<1>1. {} \in good
  BY SumEmpty
<1>2. ASSUME NEW s \in SUBSET U, s # {},
             \A t \in SUBSET U : Cardinality(t) < Cardinality(s) => t \in good
      PROVE  s \in good
  <2> DEFINE p == Pick(s)
  <2>1. p \in s
    BY <1>2, PickIn
  <2>2. s \ {p} \in good /\ s \ {p} \in SUBSET U /\ IsFiniteSet(s)
    BY <1>2, <2>1, SmallerWithout, SMTT(30)
  <2>3. /\ SumFunctionOnSet(f, s) = f[p] + SumFunctionOnSet(f, s \ {p})
        /\ SumFunctionOnSet(g, s) = g[p] + SumFunctionOnSet(g, s \ {p})
    BY <1>2, <2>2, SumEquation
  <2>4. SumFunctionOnSet(f, s \ {p}) \in Int /\ SumFunctionOnSet(g, s \ {p}) \in Int
    BY <2>2, FS_Subset, SumIsInt
  <2>5. SumFunctionOnSet(f, s \ {p}) <= SumFunctionOnSet(g, s \ {p})
    BY <2>2
  <2>6. SumFunctionOnSet(f, s) <= SumFunctionOnSet(g, s)
    <3> HIDE DEF p, good
    <3> QED
      BY <2>1, <2>3, <2>4, <2>5
  <2> QED
    BY <2>6
<1>3. U \in good
  <2>1. good \in SUBSET SUBSET U
    OBVIOUS
  <2> HIDE DEF good
  <2> QED
    BY <1>1, <1>2, <2>1, EverySize
<1> QED
  BY <1>3

LEMMA SumEqual ==
  ASSUME NEW f, NEW g, NEW U, IsFiniteSet(U), \A x \in U : f[x] \in Int /\ f[x] = g[x]
  PROVE  SumFunctionOnSet(f, U) = SumFunctionOnSet(g, U)
<1>1. SumFunctionOnSet(f, U) \in Int /\ SumFunctionOnSet(g, U) \in Int
  BY SumIsInt
<1>2. SumFunctionOnSet(f, U) <= SumFunctionOnSet(g, U) /\ SumFunctionOnSet(g, U) <= SumFunctionOnSet(f, U)
  BY SumOrdered
<1> QED
  BY <1>1, <1>2

LEMMA SumOfZeros ==
  ASSUME NEW U, IsFiniteSet(U)
  PROVE  SumFunctionOnSet([x \in U |-> 0], U) = 0
<1> DEFINE f == [x \in U |-> 0]
           good == {s \in SUBSET U : SumFunctionOnSet(f, s) = 0}
<1>1. {} \in good
  <2> HIDE DEF f
  <2> QED
    BY SumEmpty
<1>2. ASSUME NEW s \in SUBSET U, s # {},
             \A t \in SUBSET U : Cardinality(t) < Cardinality(s) => t \in good
      PROVE  s \in good
  <2> DEFINE p == Pick(s)
  <2>1. p \in s /\ f[p] = 0
    BY <1>2, PickIn
  <2> HIDE DEF f
  <2>2. s \ {p} \in good /\ IsFiniteSet(s)
    BY <1>2, <2>1, SmallerWithout
  <2>3. SumFunctionOnSet(f, s) = f[p] + SumFunctionOnSet(f, s \ {p})
    BY <1>2, <2>2, SumEquation
  <2> QED
    BY <2>1, <2>2, <2>3
<1>3. U \in good
  <2>1. good \in SUBSET SUBSET U
    OBVIOUS
  <2> HIDE DEF good, f
  <2> QED
    BY <1>1, <1>2, <2>1, EverySize
<1> QED
  BY <1>3

LEMMA SumIsNat ==
  ASSUME NEW f, NEW U, IsFiniteSet(U), \A x \in U : f[x] \in Nat
  PROVE  SumFunctionOnSet(f, U) \in Nat
<1> DEFINE zero == [x \in U |-> 0]
<1>1. \A x \in U : zero[x] \in Int /\ f[x] \in Int /\ zero[x] <= f[x]
  OBVIOUS
<1>2. SumFunctionOnSet(zero, U) = 0
  BY SumOfZeros
<1> HIDE DEF zero
<1>3. SumFunctionOnSet(zero, U) <= SumFunctionOnSet(f, U) /\ SumFunctionOnSet(f, U) \in Int
  BY <1>1, SumOrdered, SumIsInt
<1> QED
  BY <1>2, <1>3

LEMMA ProductGrows ==
  ASSUME NEW n \in Nat, NEW m \in Nat, n <= m, NEW c \in Nat
  PROVE  n * c <= m * c /\ n * c \in Nat /\ m * c \in Nat
<1>1. n * c <= m * c
  BY Z3
<1> QED
  BY <1>1

\* A sum of numbers that are at most c.
LEMMA SumBounded ==
  ASSUME NEW f, NEW U, IsFiniteSet(U), NEW c \in Nat,
         \A x \in U : f[x] \in Nat /\ f[x] <= c
  PROVE  SumFunctionOnSet(f, U) <= Cardinality(U) * c
<1> DEFINE good == {s \in SUBSET U : SumFunctionOnSet(f, s) <= Cardinality(s) * c}
<1>1. {} \in good
  <2>1. SumFunctionOnSet(f, {}) = 0 /\ Cardinality({}) = 0 /\ 0 * c = 0
    BY SumEmpty, CountEmpty
  <2> QED
    BY <2>1
<1>2. ASSUME NEW s \in SUBSET U, s # {},
             \A t \in SUBSET U : Cardinality(t) < Cardinality(s) => t \in good
      PROVE  s \in good
  <2> DEFINE p == Pick(s)
  <2>1. p \in s
    BY <1>2, PickIn
  <2> HIDE DEF p
  <2>2. s \ {p} \in good /\ s \ {p} \in SUBSET U /\ IsFiniteSet(s) /\ IsFiniteSet(s \ {p})
    BY <1>2, <2>1, SmallerWithout
  <2>3. SumFunctionOnSet(f, s) = f[p] + SumFunctionOnSet(f, s \ {p})
    BY <1>2, <2>2, SumEquation DEF p
  <2>4. PICK rest \in Nat, n \in Nat, x \in Nat :
          /\ rest = SumFunctionOnSet(f, s \ {p}) /\ n = Cardinality(s \ {p}) /\ x = f[p]
    BY <2>1, <2>2, SumIsNat, CountIsNat
  <2>5. Cardinality(s) = n + 1
    BY <2>1, <2>2, <2>4, CountWithout, CountIsNat
  <2>6. rest <= n * c /\ x <= c
    BY <2>1, <2>2, <2>4
  <2>7. (n + 1) * c = n * c + c /\ n * c \in Int
    BY <2>4
  <2>8. SumFunctionOnSet(f, s) <= Cardinality(s) * c
    BY <2>3, <2>4, <2>5, <2>6, <2>7
  <2> QED
    BY <2>8
<1>3. U \in good
  <2>1. good \in SUBSET SUBSET U
    OBVIOUS
  <2> HIDE DEF good
  <2> QED
    BY <1>1, <1>2, <2>1, EverySize
<1> QED
  BY <1>3

\* The sums over the two parts into which T divides a set.
Inside(f, S, T)  == SumFunctionOnSet(f, S \cap T)
Outside(f, S, T) == SumFunctionOnSet(f, S \ T)
Splits(f, S, T)  == SumFunctionOnSet(f, S) = Inside(f, S, T) + Outside(f, S, T)

LEMMA SplitStep ==
  ASSUME NEW f, NEW S, IsFiniteSet(S), \A x \in S : f[x] \in Int, NEW T, NEW p \in S,
         Splits(f, S \ {p}, T)
  PROVE  Splits(f, S, T)
<1> DEFINE rest == S \ {p}
<1>1. SumFunctionOnSet(f, S) = f[p] + SumFunctionOnSet(f, rest)
  BY SumWithout
<1>2. Inside(f, rest, T) \in Int /\ Outside(f, rest, T) \in Int /\ f[p] \in Int
  <2>1. IsFiniteSet(rest \cap T) /\ IsFiniteSet(rest \ T)
    BY FS_Subset
  <2> QED
    BY <2>1, SumIsInt DEF Inside, Outside
<1>3. SumFunctionOnSet(f, rest) = Inside(f, rest, T) + Outside(f, rest, T)
  BY Zenon DEF Splits
<1>4. IsFiniteSet(S \cap T) /\ IsFiniteSet(S \ T)
  BY FS_Subset
<1>5. CASE p \in T
  <2>1. (S \cap T) \ {p} = rest \cap T /\ S \ T = rest \ T /\ p \in S \cap T
    BY <1>5
  <2>2. Inside(f, S, T) = f[p] + Inside(f, rest, T)
    <3>1. \A x \in S \cap T : f[x] \in Int
      OBVIOUS
    <3> HIDE DEF rest
    <3>2. SumFunctionOnSet(f, S \cap T) = f[p] + SumFunctionOnSet(f, (S \cap T) \ {p})
      BY <1>4, <2>1, <3>1, SumWithout
    <3> QED
      BY <2>1, <3>2, Zenon DEF Inside
  <2>3. Outside(f, S, T) = Outside(f, rest, T)
    BY <2>1, Zenon DEF Outside
  <2> HIDE DEF rest
  <2>4. SumFunctionOnSet(f, S) = (f[p] + Inside(f, rest, T)) + Outside(f, rest, T)
    BY <1>1, <1>2, <1>3
  <2> QED
    BY <2>2, <2>3, <2>4, Zenon DEF Splits
<1>6. CASE p \notin T
  <2>1. (S \ T) \ {p} = rest \ T /\ S \cap T = rest \cap T /\ p \in S \ T
    BY <1>6
  <2>2. Outside(f, S, T) = f[p] + Outside(f, rest, T)
    <3>1. \A x \in S \ T : f[x] \in Int
      OBVIOUS
    <3> HIDE DEF rest
    <3>2. SumFunctionOnSet(f, S \ T) = f[p] + SumFunctionOnSet(f, (S \ T) \ {p})
      BY <1>4, <2>1, <3>1, SumWithout
    <3> QED
      BY <2>1, <3>2, Zenon DEF Outside
  <2>3. Inside(f, S, T) = Inside(f, rest, T)
    BY <2>1, Zenon DEF Inside
  <2> HIDE DEF rest
  <2>4. SumFunctionOnSet(f, S) = Inside(f, rest, T) + (f[p] + Outside(f, rest, T))
    BY <1>1, <1>2, <1>3
  <2> QED
    BY <2>2, <2>3, <2>4, Zenon DEF Splits
<1> QED
  BY <1>5, <1>6

\* A sum is that of two parts of the set.
LEMMA SumSplit ==
  ASSUME NEW f, NEW U, IsFiniteSet(U), \A x \in U : f[x] \in Int, NEW T
  PROVE  Splits(f, U, T)
<1> DEFINE good == {s \in SUBSET U : Splits(f, s, T)}
<1>1. {} \in good
  <2>1. {} \cap T = {} /\ {} \ T = {}
    OBVIOUS
  <2>2. Inside(f, {}, T) = 0 /\ Outside(f, {}, T) = 0
    BY <2>1, SumEmpty DEF Inside, Outside
  <2>3. Splits(f, {}, T)
    BY <2>2, SumEmpty DEF Splits
  <2> QED
    BY <2>3
<1>2. ASSUME NEW s \in SUBSET U, s # {},
             \A t \in SUBSET U : Cardinality(t) < Cardinality(s) => t \in good
      PROVE  s \in good
  <2>1. PICK p : p \in s
    BY <1>2
  <2>2. s \ {p} \in good /\ IsFiniteSet(s) /\ \A x \in s : f[x] \in Int
    BY <1>2, <2>1, SmallerWithout
  <2>3. Splits(f, s, T)
    BY <2>1, <2>2, SplitStep
  <2> QED
    BY <2>3
<1>3. U \in good
  <2> HIDE DEF good
  <2>1. good \in SUBSET SUBSET U
    BY DEF good
  <2> QED
    BY <1>1, <1>2, <2>1, EverySize
<1> QED
  BY <1>3

=============================================================================
