---------------------- MODULE DecodedImageCache_proofs ----------------------
(***************************************************************************)
(* The cache's list, map and byte count agree, and insertions evict by     *)
(* recency, for any images, sizes, capacity and workers.                   *)
(*                                                                         *)
(* CacheOK says of a list, a map and a count that they belong together;    *)
(* one lemma for each operation shows that it keeps that, and the steps    *)
(* find and insert combine those.  Ordered adds that nodes with an entry   *)
(* stand in the order of the last use of their images.                     *)
(***************************************************************************)
EXTENDS DecodedImageCache, SequenceTheorems, Counting

Node  == [key : Keys, id : Nat]
Entry == [bytes : Nat, lru_iterator : Nat]

-----------------------------------------------------------------------------
(* Lists. *)

\* Erasing the node at place i keeps the others, in order.
LEMMA Erased ==
  ASSUME NEW S, NEW list \in Seq(S), NEW i \in 1..Len(list)
  PROVE  /\ RemoveAt(list, i) \in Seq(S)
         /\ Len(RemoveAt(list, i)) = Len(list) - 1
         /\ \A j \in 1..Len(list) - 1 :
              RemoveAt(list, i)[j] = IF j < i THEN list[j] ELSE list[j + 1]
<1> DEFINE before == SubSeq(list, 1, i - 1)
           after  == SubSeq(list, i + 1, Len(list))
<1>0. Len(list) \in Nat /\ \A j \in 1..Len(list) : list[j] \in S
  BY LenProperties, ElementOfSeq
<1>1. /\ before \in Seq(S)
      /\ Len(before) = IF 1 <= i - 1 THEN (i - 1) - 1 + 1 ELSE 0
      /\ \A j \in 1..(i - 1) - 1 + 1 : before[j] = list[1 + j - 1]
  <2>1. 1 \in Int /\ i - 1 \in Int /\ \A j \in 1..i - 1 : list[j] \in S
    BY <1>0
  <2> QED
    BY <2>1, SubSeqProperties
<1>2. /\ after \in Seq(S)
      /\ Len(after) = IF i + 1 <= Len(list) THEN Len(list) - (i + 1) + 1 ELSE 0
      /\ \A j \in 1..Len(list) - (i + 1) + 1 : after[j] = list[(i + 1) + j - 1]
  <2>1. i + 1 \in Int /\ Len(list) \in Int /\ \A j \in i + 1..Len(list) : list[j] \in S
    BY <1>0
  <2> QED
    BY <2>1, SubSeqProperties
<1>3. /\ before \o after \in Seq(S)
      /\ Len(before \o after) = Len(before) + Len(after)
      /\ \A j \in 1..Len(before) + Len(after) :
           (before \o after)[j] = IF j <= Len(before) THEN before[j] ELSE after[j - Len(before)]
  BY <1>1, <1>2, ConcatProperties
<1>4. RemoveAt(list, i) = before \o after
  BY DEF RemoveAt
<1> HIDE DEF before, after
<1>5. Len(before) = i - 1 /\ Len(after) = Len(list) - i
  BY <1>0, <1>1, <1>2
<1>6. ASSUME NEW j \in 1..Len(list) - 1
      PROVE  RemoveAt(list, i)[j] = IF j < i THEN list[j] ELSE list[j + 1]
  <2>1. CASE j < i
    BY <1>0, <1>1, <1>3, <1>4, <1>5, <2>1
  <2>2. CASE ~(j < i)
    <3>1. j - (i - 1) \in 1..Len(list) - (i + 1) + 1
      BY <1>0, <2>2
    <3>2. after[j - (i - 1)] = list[j + 1]
      BY <1>0, <1>2, <3>1
    <3> QED
      BY <1>0, <1>3, <1>4, <1>5, <2>2, <3>2
  <2> QED
    BY <2>1, <2>2
<1>7. RemoveAt(list, i) \in Seq(S) /\ Len(RemoveAt(list, i)) = Len(list) - 1
  <2>1. Len(before) + Len(after) = Len(list) - 1
    BY <1>0, <1>5
  <2> QED
    BY <1>3, <1>4, <2>1, Zenon
<1>8. \A j \in 1..Len(list) - 1 :
        RemoveAt(list, i)[j] = IF j < i THEN list[j] ELSE list[j + 1]
  BY <1>6
<1> QED
  BY <1>7, <1>8

\* push_front and splice: a node before a list.
LEMMA Pushed ==
  ASSUME NEW S, NEW list \in Seq(S), NEW x \in S
  PROVE  /\ <<x>> \o list \in Seq(S)
         /\ Len(<<x>> \o list) = Len(list) + 1
         /\ \A j \in 1..Len(list) + 1 :
              (<<x>> \o list)[j] = IF j = 1 THEN x ELSE list[j - 1]
<1>1. <<x>> \in Seq(S) /\ Len(<<x>>) = 1 /\ <<x>>[1] = x
  OBVIOUS
<1>2. Len(list) \in Nat
  BY LenProperties
<1>3. /\ <<x>> \o list \in Seq(S)
      /\ Len(<<x>> \o list) = Len(<<x>>) + Len(list)
      /\ \A j \in 1..Len(<<x>>) + Len(list) :
           (<<x>> \o list)[j] = IF j <= Len(<<x>>) THEN <<x>>[j] ELSE list[j - Len(<<x>>)]
  BY <1>1, ConcatProperties
<1> DEFINE one == <<x>>
           all == one \o list
<1>4. /\ all \in Seq(S) /\ Len(all) = Len(one) + Len(list)
      /\ \A j \in 1..Len(one) + Len(list) :
           all[j] = IF j <= Len(one) THEN one[j] ELSE list[j - Len(one)]
  BY <1>3
<1>5. Len(one) = 1 /\ one[1] = x
  BY <1>1
<1>6. all \in Seq(S) /\ Len(all) = Len(list) + 1
      /\ \A j \in 1..Len(list) + 1 : all[j] = IF j = 1 THEN x ELSE list[j - 1]
  <2> HIDE DEF all, one
  <2> QED
    BY <1>2, <1>4, <1>5
<1> QED
  BY <1>6

\* The front of a list, as pop_back leaves it.
LEMMA Shortened ==
  ASSUME NEW S, NEW list \in Seq(S), NEW n \in 0..Len(list)
  PROVE  /\ Popped(list, n) \in Seq(S)
         /\ Len(Popped(list, n)) = Len(list) - n
         /\ \A j \in 1..Len(list) - n : Popped(list, n)[j] = list[j]
<1>0. Len(list) \in Nat /\ \A j \in 1..Len(list) : list[j] \in S
  BY LenProperties, ElementOfSeq
<1>1. 1 \in Int /\ Len(list) - n \in Int /\ \A j \in 1..Len(list) - n : list[j] \in S
  BY <1>0
<1>2. /\ SubSeq(list, 1, Len(list) - n) \in Seq(S)
      /\ Len(SubSeq(list, 1, Len(list) - n))
           = IF 1 <= Len(list) - n THEN (Len(list) - n) - 1 + 1 ELSE 0
      /\ \A j \in 1..(Len(list) - n) - 1 + 1 :
           SubSeq(list, 1, Len(list) - n)[j] = list[1 + j - 1]
  BY <1>1, SubSeqProperties
<1> DEFINE front == SubSeq(list, 1, Len(list) - n)
<1>3. /\ front \in Seq(S)
      /\ Len(front) = IF 1 <= Len(list) - n THEN (Len(list) - n) - 1 + 1 ELSE 0
      /\ \A j \in 1..(Len(list) - n) - 1 + 1 : front[j] = list[1 + j - 1]
  BY <1>2
<1>4. Popped(list, n) = front
  BY DEF Popped
<1> HIDE DEF front
<1> QED
  BY <1>0, <1>3, <1>4

-----------------------------------------------------------------------------
(* Entries and their bytes. *)

EntriesOK(entries) ==
  /\ DOMAIN entries \subseteq Keys /\ IsFiniteSet(DOMAIN entries)
  /\ entries \in [DOMAIN entries -> Entry]
  /\ \A k \in DOMAIN entries : entries[k].bytes = Size[k]

\* The bytes of the entries of some keys.
Total(keys) == SumFunctionOnSet(Size, keys)

LEMMA SizeIsNat == ASSUME NEW k \in Keys PROVE Size[k] \in Nat
  BY CacheAssumption

LEMMA TotalIsNat ==
  ASSUME NEW S \in SUBSET Keys, IsFiniteSet(S)
  PROVE  Total(S) \in Nat
<1>1. \A k \in S : Size[k] \in Nat
  BY SizeIsNat
<1> QED
  BY <1>1, SumIsNat DEF Total

LEMMA BytesTotal ==
  ASSUME NEW entries, EntriesOK(entries)
  PROVE  Bytes(entries) = Total(DOMAIN entries)
<1> DEFINE f == [k \in DOMAIN entries |-> entries[k].bytes]
<1>1. \A k \in DOMAIN entries : f[k] \in Int /\ f[k] = Size[k]
  BY SizeIsNat DEF EntriesOK
<1>2. IsFiniteSet(DOMAIN entries)
  BY DEF EntriesOK
<1>3. SumFunctionOnSet(f, DOMAIN entries) = SumFunctionOnSet(Size, DOMAIN entries)
  <2> HIDE DEF f
  <2> QED
    BY <1>1, <1>2, SumEqual
<1> QED
  BY <1>3 DEF Bytes, Total

LEMMA Restricted ==
  ASSUME NEW entries, EntriesOK(entries), NEW S \in SUBSET DOMAIN entries
  PROVE  /\ EntriesOK(Restrict(entries, S))
         /\ DOMAIN Restrict(entries, S) = S
         /\ \A k \in S : Restrict(entries, S)[k] = entries[k]
<1> DEFINE kept == Restrict(entries, S)
<1>1. DOMAIN kept = S /\ kept \in [S -> Entry] /\ \A k \in S : kept[k] = entries[k]
  BY DEF Restrict, EntriesOK
<1>2. IsFiniteSet(S) /\ S \subseteq Keys
  BY FS_Subset DEF EntriesOK
<1> HIDE DEF kept
<1>3. EntriesOK(kept)
  BY <1>1, <1>2 DEF EntriesOK
<1> QED
  BY <1>1, <1>3 DEF kept

\* The bytes of a set of entries are those of two parts of it.
LEMMA TotalSplit ==
  ASSUME NEW S \in SUBSET Keys, IsFiniteSet(S), NEW T
  PROVE  /\ Total(S) = Total(S \cap T) + Total(S \ T)
         /\ Total(S \cap T) \in Nat /\ Total(S \ T) \in Nat /\ Total(S) \in Nat
<1>1. \A k \in S : Size[k] \in Int
  BY SizeIsNat
<1>2. IsFiniteSet(S \cap T) /\ IsFiniteSet(S \ T)
  BY FS_Subset
<1>3. Total(S \cap T) \in Nat /\ Total(S \ T) \in Nat /\ Total(S) \in Nat
  <2>1. S \cap T \in SUBSET Keys /\ S \ T \in SUBSET Keys
    OBVIOUS
  <2> QED
    BY <1>2, <2>1, TotalIsNat
<1>4. SumFunctionOnSet(Size, S) = SumFunctionOnSet(Size, S \cap T) + SumFunctionOnSet(Size, S \ T)
  <2>1. Splits(Size, S, T)
    BY <1>1, SumSplit
  <2> QED
    BY <2>1 DEF Splits, Inside, Outside
<1> QED
  BY <1>3, <1>4 DEF Total

LEMMA Surviving ==
  ASSUME NEW entries, NEW list, NEW n
  PROVE  DOMAIN Survivors(entries, list, n) = DOMAIN entries \ KeysPopped(list, n)
  BY DEF Survivors, Restrict

\* What is counted once the entries of some popped keys are gone.
LEMMA LeftAfter ==
  ASSUME NEW entries, EntriesOK(entries), NEW list, NEW n
  PROVE  /\ EntriesOK(Survivors(entries, list, n))
         /\ DOMAIN Survivors(entries, list, n) = DOMAIN entries \ KeysPopped(list, n)
         /\ UsedAfter(Total(DOMAIN entries), entries, list, n)
              = Total(DOMAIN Survivors(entries, list, n))
<1> DEFINE gone == DOMAIN entries \cap KeysPopped(list, n)
           kept == DOMAIN entries \ KeysPopped(list, n)
<1>1. DOMAIN entries \in SUBSET Keys /\ IsFiniteSet(DOMAIN entries)
  BY DEF EntriesOK
<1>2. /\ Total(DOMAIN entries) = Total(gone) + Total(kept)
      /\ Total(gone) \in Nat /\ Total(kept) \in Nat /\ Total(DOMAIN entries) \in Nat
  BY <1>1, TotalSplit
<1>3. EntriesOK(Restrict(entries, gone)) /\ DOMAIN Restrict(entries, gone) = gone
  BY Restricted
<1>4. EntriesOK(Restrict(entries, kept)) /\ DOMAIN Restrict(entries, kept) = kept
  BY Restricted
<1>5. Bytes(Restrict(entries, gone)) = Total(gone)
  BY <1>3, BytesTotal
<1> HIDE DEF gone, kept
<1>6. Total(DOMAIN entries) - Bytes(Restrict(entries, gone)) = Total(kept)
  BY <1>2, <1>5
<1> QED
  BY <1>4, <1>6 DEF UsedAfter, Survivors, gone, kept

-----------------------------------------------------------------------------
(* The list and the map refer to each other. *)

IdsDistinct(list) ==
  \A i \in 1..Len(list) : \A j \in 1..Len(list) : list[i].id = list[j].id => i = j

NodesOK(list) == list \in Seq(Node) /\ IdsDistinct(list)

\* The iterator of k's entry points to node i, whose key is k.
PointsTo(entries, k, node) == node.key = k /\ node.id = entries[k].lru_iterator

Linked(list, entries) ==
  \A k \in DOMAIN entries : \E i \in 1..Len(list) : PointsTo(entries, k, list[i])

CacheOK(list, entries, used) ==
  /\ NodesOK(list) /\ EntriesOK(entries) /\ Linked(list, entries)
  /\ used = Total(DOMAIN entries)

LEMMA NodesTyped ==
  ASSUME NEW list, NodesOK(list)
  PROVE  /\ Len(list) \in Nat
         /\ \A i \in 1..Len(list) : list[i] \in Node /\ list[i].id \in Nat /\ list[i].key \in Keys
<1>1. list \in Seq(Node)
  BY DEF NodesOK
<1>2. Len(list) \in Nat /\ \A i \in 1..Len(list) : list[i] \in Node
  BY <1>1, LenProperties, ElementOfSeq
<1> QED
  BY <1>2 DEF Node

LEMMA PlaceFound ==
  ASSUME NEW list, NodesOK(list), NEW entries, Linked(list, entries), NEW k \in DOMAIN entries
  PROVE  /\ Place(list, entries[k].lru_iterator) \in 1..Len(list)
         /\ PointsTo(entries, k, list[Place(list, entries[k].lru_iterator)])
<1>1. PICK i \in 1..Len(list) : PointsTo(entries, k, list[i])
  BY DEF Linked
<1> DEFINE it == entries[k].lru_iterator
<1>2. \E j \in 1..Len(list) : list[j].id = it
  BY <1>1 DEF PointsTo
<1>3. Place(list, it) \in 1..Len(list) /\ list[Place(list, it)].id = it
  BY <1>2, Zenon DEF Place
<1>4. Place(list, it) = i
  BY <1>1, <1>3 DEF PointsTo, NodesOK, IdsDistinct
<1> QED
  BY <1>1, <1>3, <1>4

\* The nodes that are left are those at the other places.
Shift(i, j) == IF j < i THEN j ELSE j + 1

LEMMA ErasedFrom ==
  ASSUME NEW list, NodesOK(list), NEW i \in 1..Len(list)
  PROVE  /\ RemoveAt(list, i) \in Seq(Node) /\ Len(RemoveAt(list, i)) = Len(list) - 1
         /\ \A j \in 1..Len(list) - 1 :
              /\ Shift(i, j) \in 1..Len(list) /\ Shift(i, j) # i
              /\ RemoveAt(list, i)[j] = list[Shift(i, j)]
         /\ \A m \in 1..Len(list) : m # i => \E j \in 1..Len(list) - 1 : Shift(i, j) = m
<1>0. Len(list) \in Nat /\ list \in Seq(Node)
  BY NodesTyped DEF NodesOK
<1>1. /\ RemoveAt(list, i) \in Seq(Node) /\ Len(RemoveAt(list, i)) = Len(list) - 1
      /\ \A j \in 1..Len(list) - 1 :
           RemoveAt(list, i)[j] = IF j < i THEN list[j] ELSE list[j + 1]
  BY <1>0, Erased
<1>2. ASSUME NEW j \in 1..Len(list) - 1
      PROVE  /\ Shift(i, j) \in 1..Len(list) /\ Shift(i, j) # i
             /\ RemoveAt(list, i)[j] = list[Shift(i, j)]
  <2>1. Shift(i, j) \in 1..Len(list) /\ Shift(i, j) # i
    BY <1>0 DEF Shift
  <2>2. RemoveAt(list, i)[j] = list[Shift(i, j)]
    BY <1>1 DEF Shift
  <2> QED
    BY <2>1, <2>2
<1>3. ASSUME NEW m \in 1..Len(list), m # i
      PROVE  \E j \in 1..Len(list) - 1 : Shift(i, j) = m
  <2>1. CASE m < i
    <3>1. m \in 1..Len(list) - 1 /\ Shift(i, m) = m
      BY <1>0, <2>1 DEF Shift
    <3> QED
      BY <3>1
  <2>2. CASE m > i
    <3>1. m - 1 \in 1..Len(list) - 1 /\ Shift(i, m - 1) = m
      BY <1>0, <2>2 DEF Shift
    <3> QED
      BY <3>1
  <2> QED
    BY <1>0, <1>3, <2>1, <2>2
<1> QED
  BY <1>1, <1>2, <1>3

LEMMA ErasedNodes ==
  ASSUME NEW list, NodesOK(list), NEW i \in 1..Len(list)
  PROVE  /\ NodesOK(RemoveAt(list, i))
         /\ \A j \in 1..Len(RemoveAt(list, i)) : RemoveAt(list, i)[j].id # list[i].id
<1> DEFINE rest == RemoveAt(list, i)
<1>0. Len(list) \in Nat
  BY NodesTyped
<1>1. /\ rest \in Seq(Node) /\ Len(rest) = Len(list) - 1
      /\ \A j \in 1..Len(list) - 1 :
           Shift(i, j) \in 1..Len(list) /\ Shift(i, j) # i /\ rest[j] = list[Shift(i, j)]
  BY ErasedFrom
<1> HIDE DEF rest
<1>2. ASSUME NEW j \in 1..Len(list) - 1, NEW m \in 1..Len(list) - 1, rest[j].id = rest[m].id
      PROVE  j = m
  <2>1. Shift(i, j) = Shift(i, m)
    BY <1>1, <1>2 DEF NodesOK, IdsDistinct
  <2> QED
    BY <1>0, <2>1 DEF Shift
<1>3. ASSUME NEW j \in 1..Len(rest) PROVE rest[j].id # list[i].id
  BY <1>1 DEF NodesOK, IdsDistinct
<1>4. NodesOK(rest)
  BY <1>1, <1>2 DEF NodesOK, IdsDistinct
<1> QED
  BY <1>3, <1>4 DEF rest

\* Entries whose keys are not the erased node's keep their nodes.
LEMMA ErasedLinked ==
  ASSUME NEW list, NodesOK(list), NEW i \in 1..Len(list), NEW entries, Linked(list, entries),
         NEW k \in DOMAIN entries, k # list[i].key
  PROVE  \E j \in 1..Len(RemoveAt(list, i)) : PointsTo(entries, k, RemoveAt(list, i)[j])
<1>1. PICK m \in 1..Len(list) : PointsTo(entries, k, list[m])
  BY DEF Linked
<1>2. m # i
  BY <1>1 DEF PointsTo
<1>3. PICK j \in 1..Len(list) - 1 : Shift(i, j) = m
  BY <1>2, ErasedFrom
<1>4. /\ Len(RemoveAt(list, i)) = Len(list) - 1
      /\ RemoveAt(list, i)[j] = list[Shift(i, j)]
  BY ErasedFrom
<1>5. RemoveAt(list, i)[j] = list[m] /\ j \in 1..Len(RemoveAt(list, i))
  BY <1>3, <1>4, Zenon
<1> QED
  BY <1>1, <1>5

\* A node with a key of the dataset and an identity of its own, before a list.
LEMMA PushedNodes ==
  ASSUME NEW list, NodesOK(list), NEW node \in Node,
         \A j \in 1..Len(list) : list[j].id # node.id
  PROVE  /\ NodesOK(<<node>> \o list)
         /\ Len(<<node>> \o list) = Len(list) + 1
         /\ (<<node>> \o list)[1] = node
         /\ \A j \in 1..Len(list) : (<<node>> \o list)[j + 1] = list[j]
<1> DEFINE all == <<node>> \o list
<1>0. Len(list) \in Nat /\ list \in Seq(Node)
  BY NodesTyped DEF NodesOK
<1>1. /\ all \in Seq(Node) /\ Len(all) = Len(list) + 1
      /\ \A j \in 1..Len(list) + 1 : all[j] = IF j = 1 THEN node ELSE list[j - 1]
  BY <1>0, Pushed
<1> HIDE DEF all
<1>2. all[1] = node
  BY <1>0, <1>1
<1>3. ASSUME NEW j \in 1..Len(list) PROVE all[j + 1] = list[j]
  BY <1>0, <1>1
<1>4. ASSUME NEW i \in 1..Len(list) + 1, NEW j \in 1..Len(list) + 1, all[i].id = all[j].id
      PROVE  i = j
  <2>1. CASE i = 1 /\ j # 1
    <3>1. j - 1 \in 1..Len(list) /\ all[j] = list[j - 1]
      BY <1>0, <1>1, <2>1
    <3> QED
      BY <1>2, <1>4, <2>1, <3>1
  <2>2. CASE i # 1 /\ j = 1
    <3>1. i - 1 \in 1..Len(list) /\ all[i] = list[i - 1]
      BY <1>0, <1>1, <2>2
    <3> QED
      BY <1>2, <1>4, <2>2, <3>1
  <2>3. CASE i # 1 /\ j # 1
    <3>1. i - 1 \in 1..Len(list) /\ all[i] = list[i - 1]
      BY <1>0, <1>1, <2>3
    <3>2. j - 1 \in 1..Len(list) /\ all[j] = list[j - 1]
      BY <1>0, <1>1, <2>3
    <3>3. i - 1 = j - 1
      BY <1>4, <3>1, <3>2 DEF NodesOK, IdsDistinct
    <3> QED
      BY <1>0, <3>3
  <2> QED
    BY <2>1, <2>2, <2>3
<1>5. NodesOK(all)
  BY <1>1, <1>4 DEF NodesOK, IdsDistinct
<1> QED
  BY <1>1, <1>2, <1>3, <1>5 DEF all

LEMMA CountInterval ==
  ASSUME NEW n \in Nat
  PROVE  /\ IsFiniteSet(0..n) /\ Cardinality(0..n) = n + 1
         /\ IsFiniteSet(1..n) /\ Cardinality(1..n) = n
<1>1. IsFiniteSet(0..n) /\ Cardinality(0..n) = IF 0 > n THEN 0 ELSE n - 0 + 1
  BY FS_Interval
<1>2. IsFiniteSet(1..n) /\ Cardinality(1..n) = IF 1 > n THEN 0 ELSE n - 1 + 1
  BY FS_Interval
<1> QED
  BY <1>1, <1>2

\* An insertion finds an identity no live node has.
LEMMA Fresh ==
  ASSUME NEW list, NodesOK(list), NEW k \in Keys
  PROVE  /\ NewNode(list, k) \in Node /\ NewNode(list, k).key = k
         /\ \A j \in 1..Len(list) : list[j].id # NewNode(list, k).id
<1> DEFINE free(i) == \A n \in ToSet(list) : n.id # i
           f == [i \in 0..Len(list) |-> CHOOSE j \in 1..Len(list) : list[j].id = i]
<1>0. Len(list) \in Nat /\ list \in Seq(Node) /\ DOMAIN list = 1..Len(list)
  BY NodesTyped, LenProperties DEF NodesOK
<1>1. \E i \in 0..Len(list) : free(i)
  <2> SUFFICES ASSUME \A i \in 0..Len(list) : ~free(i) PROVE FALSE
    OBVIOUS
  <2>1. ASSUME NEW i \in 0..Len(list)
        PROVE  f[i] \in 1..Len(list) /\ list[f[i]].id = i
    <3>1. ~free(i)
      OBVIOUS
    <3>2. \E j \in 1..Len(list) : list[j].id = i
      BY <1>0, <3>1 DEF ToSet
    <3>3. f[i] = CHOOSE j \in 1..Len(list) : list[j].id = i
      OBVIOUS
    <3> HIDE DEF f
    <3> QED
      BY <3>2, <3>3, Zenon
  <2>2. f \in [0..Len(list) -> 1..Len(list)]
    <3>1. \A i \in 0..Len(list) : (CHOOSE j \in 1..Len(list) : list[j].id = i) \in 1..Len(list)
      BY <2>1, Zenon
    <3> QED
      BY <3>1
  <2>3. /\ IsFiniteSet(0..Len(list)) /\ IsFiniteSet(1..Len(list))
        /\ Cardinality(1..Len(list)) < Cardinality(0..Len(list))
    <3>1. IsFiniteSet(0..Len(list)) /\ Cardinality(0..Len(list)) = Len(list) + 1
      BY <1>0, CountInterval
    <3>2. IsFiniteSet(1..Len(list)) /\ Cardinality(1..Len(list)) = Len(list)
      BY <1>0, CountInterval
    <3> QED
      BY <1>0, <3>1, <3>2
  <2> HIDE DEF f
  <2>4. \E x, y \in 0..Len(list) : x # y /\ f[x] = f[y]
    BY <2>2, <2>3, FS_PigeonHole
  <2> QED
    BY <2>1, <2>4
<1> DEFINE id == CHOOSE i \in 0..Len(list) : free(i)
<1>2. id \in 0..Len(list) /\ free(id)
  BY <1>1, Zenon
<1>3. NewNode(list, k) = [key |-> k, id |-> id]
  BY DEF NewNode
<1> HIDE DEF id
<1>4. NewNode(list, k) \in Node /\ NewNode(list, k).key = k /\ NewNode(list, k).id = id
  BY <1>0, <1>2, <1>3 DEF Node
<1>5. ASSUME NEW j \in 1..Len(list) PROVE list[j].id # id
  BY <1>0, <1>2 DEF ToSet
<1> QED
  BY <1>4, <1>5

-----------------------------------------------------------------------------
(* The operations keep the cache consistent. *)

LEMMA FindKeeps ==
  ASSUME NEW list, NEW entries, NEW used, CacheOK(list, entries, used), NEW k \in DOMAIN entries,
         NEW i, i = Place(list, entries[k].lru_iterator)
  PROVE  CacheOK(<<list[i]>> \o RemoveAt(list, i), entries, used)
<1> DEFINE rest == RemoveAt(list, i)
           all  == <<list[i]>> \o rest
<1>1. NodesOK(list) /\ Linked(list, entries)
  BY DEF CacheOK
<1>2. i \in 1..Len(list) /\ PointsTo(entries, k, list[i])
  BY <1>1, PlaceFound
<1>3. list[i] \in Node
  BY <1>1, <1>2, NodesTyped
<1>4. NodesOK(rest) /\ \A j \in 1..Len(rest) : rest[j].id # list[i].id
  BY <1>1, <1>2, ErasedNodes
<1>5. /\ NodesOK(all) /\ Len(all) = Len(rest) + 1 /\ all[1] = list[i]
      /\ \A j \in 1..Len(rest) : all[j + 1] = rest[j]
  <2> HIDE DEF rest
  <2> QED
    BY <1>3, <1>4, PushedNodes
<1>6. Len(rest) \in Nat
  BY <1>4, NodesTyped
<1>7. ASSUME NEW m \in DOMAIN entries PROVE \E j \in 1..Len(all) : PointsTo(entries, m, all[j])
  <2>1. CASE m = list[i].key
    <3>1. m = k
      BY <1>2, <2>1 DEF PointsTo
    <3> HIDE DEF all
    <3>2. 1 \in 1..Len(all) /\ PointsTo(entries, m, all[1])
      BY <1>2, <1>5, <1>6, <3>1
    <3> QED
      BY <3>2
  <2>2. CASE m # list[i].key
    <3>1. \E j \in 1..Len(rest) : PointsTo(entries, m, rest[j])
      BY <1>1, <1>2, <2>2, ErasedLinked
    <3> HIDE DEF all, rest
    <3>2. PICK j \in 1..Len(rest) : PointsTo(entries, m, rest[j])
      BY <3>1
    <3>3. j + 1 \in 1..Len(all) /\ all[j + 1] = rest[j]
      BY <1>5, <1>6
    <3> QED
      BY <3>2, <3>3
  <2> QED
    BY <2>1, <2>2
<1> HIDE DEF all
<1>8. CacheOK(all, entries, used)
  BY <1>5, <1>7 DEF CacheOK, Linked
<1> QED
  BY <1>8 DEF all

\* Erasing an entry together with its node.
LEMMA ErasedEntry ==
  ASSUME NEW list, NEW entries, NEW used, CacheOK(list, entries, used), NEW k \in DOMAIN entries
  PROVE  CacheOK(RemoveAt(list, Place(list, entries[k].lru_iterator)),
                 Restrict(entries, DOMAIN entries \ {k}),
                 used - entries[k].bytes)
<1> DEFINE i == Place(list, entries[k].lru_iterator)
           rest == RemoveAt(list, i)
           kept == Restrict(entries, DOMAIN entries \ {k})
<1>1. NodesOK(list) /\ Linked(list, entries) /\ EntriesOK(entries) /\ used = Total(DOMAIN entries)
  BY DEF CacheOK
<1>2. i \in 1..Len(list) /\ PointsTo(entries, k, list[i])
  BY <1>1, PlaceFound
<1>3. NodesOK(rest)
  BY <1>1, <1>2, ErasedNodes
<1>4. /\ EntriesOK(kept) /\ DOMAIN kept = DOMAIN entries \ {k}
      /\ \A m \in DOMAIN entries \ {k} : kept[m] = entries[m]
  BY <1>1, Restricted
<1>5. ASSUME NEW m \in DOMAIN entries \ {k}
      PROVE  \E j \in 1..Len(rest) : PointsTo(kept, m, rest[j])
  <2>1. m # list[i].key
    BY <1>2 DEF PointsTo
  <2>2. \E j \in 1..Len(rest) : PointsTo(entries, m, rest[j])
    BY <1>1, <1>2, <2>1, ErasedLinked
  <2> HIDE DEF rest, kept
  <2> QED
    BY <1>4, <2>2 DEF PointsTo
<1>6. used - entries[k].bytes = Total(DOMAIN entries \ {k})
  <2>1. DOMAIN entries \in SUBSET Keys /\ IsFiniteSet(DOMAIN entries) /\ entries[k].bytes = Size[k]
    BY <1>1 DEF EntriesOK
  <2>2. Total(DOMAIN entries) = Size[k] + Total(DOMAIN entries \ {k})
    <3>1. \A x \in DOMAIN entries : Size[x] \in Int
      BY <2>1, SizeIsNat
    <3> QED
      BY <2>1, <3>1, SumWithout DEF Total
  <2>3. Total(DOMAIN entries \ {k}) \in Nat /\ Size[k] \in Nat
    <3>1. DOMAIN entries \ {k} \in SUBSET Keys /\ IsFiniteSet(DOMAIN entries \ {k})
      BY <2>1, FS_Subset
    <3> QED
      BY <2>1, <3>1, TotalIsNat, SizeIsNat
  <2> QED
    BY <1>1, <2>1, <2>2, <2>3
<1> HIDE DEF rest, kept
<1>7. CacheOK(rest, kept, used - entries[k].bytes)
  BY <1>3, <1>4, <1>5, <1>6 DEF CacheOK, Linked
<1> QED
  BY <1>7 DEF rest, kept

LEMMA DroppedKeeps ==
  ASSUME CacheOK(lru_, entries_, used_bytes_), NEW k
  PROVE  /\ CacheOK(Dropped(k).list, Dropped(k).entries, Dropped(k).used)
         /\ k \notin DOMAIN Dropped(k).entries
<1>1. CASE k \notin DOMAIN entries_
  <2>1. Dropped(k) = [list |-> lru_, entries |-> entries_, used |-> used_bytes_]
    BY <1>1 DEF Dropped
  <2>2. Dropped(k).list = lru_ /\ Dropped(k).entries = entries_ /\ Dropped(k).used = used_bytes_
    BY <2>1
  <2> QED
    BY <1>1, <2>2
<1>2. CASE k \in DOMAIN entries_
  <2> DEFINE rest == RemoveAt(lru_, Place(lru_, entries_[k].lru_iterator))
             kept == Restrict(entries_, DOMAIN entries_ \ {k})
             left == used_bytes_ - entries_[k].bytes
  <2>1. CacheOK(rest, kept, left)
    BY <1>2, ErasedEntry
  <2>2. k \notin DOMAIN kept
    BY DEF Restrict
  <2>3. Dropped(k) = [list |-> rest, entries |-> kept, used |-> left]
    BY <1>2 DEF Dropped
  <2> HIDE DEF rest, kept, left
  <2>4. Dropped(k).list = rest /\ Dropped(k).entries = kept /\ Dropped(k).used = left
    BY <2>3
  <2> QED
    BY <2>1, <2>2, <2>4
<1> QED
  BY <1>1, <1>2

\* Popping nodes, and the entries of their keys, from the back.  The node of
\* an entry that stays is not popped: its key would be popped with it.
LEMMA PoppedKeeps ==
  ASSUME NEW list, NEW entries, NEW used, CacheOK(list, entries, used), NEW n \in 0..Len(list)
  PROVE  CacheOK(Popped(list, n), Survivors(entries, list, n), UsedAfter(used, entries, list, n))
<1> DEFINE front == Popped(list, n)
           kept  == Survivors(entries, list, n)
           left  == UsedAfter(used, entries, list, n)
<1>1. NodesOK(list) /\ Linked(list, entries) /\ EntriesOK(entries) /\ used = Total(DOMAIN entries)
  BY DEF CacheOK
<1>2. Len(list) \in Nat /\ list \in Seq(Node)
  BY <1>1, NodesTyped DEF NodesOK
<1>3. /\ front \in Seq(Node) /\ Len(front) = Len(list) - n
      /\ \A j \in 1..Len(list) - n : front[j] = list[j]
  BY <1>2, Shortened
<1>4. EntriesOK(kept) /\ DOMAIN kept = DOMAIN entries \ KeysPopped(list, n)
      /\ left = Total(DOMAIN kept)
  BY <1>1, LeftAfter
<1>5. \A k \in DOMAIN entries \ KeysPopped(list, n) : kept[k] = entries[k]
  BY <1>1, Restricted DEF Survivors
<1> HIDE DEF front, kept, left
<1>6. ASSUME NEW k \in DOMAIN kept PROVE \E j \in 1..Len(front) : PointsTo(kept, k, front[j])
  <2>1. k \in DOMAIN entries /\ k \notin KeysPopped(list, n) /\ kept[k] = entries[k]
    BY <1>4, <1>5
  <2>2. PICK i \in 1..Len(list) : PointsTo(entries, k, list[i])
    BY <1>1, <2>1 DEF Linked
  <2>3. i \notin (Len(list) - n + 1)..Len(list)
    BY <2>1, <2>2 DEF KeysPopped, PointsTo
  <2>4. i \in 1..Len(front) /\ front[i] = list[i]
    BY <1>2, <1>3, <2>3
  <2> QED
    BY <2>1, <2>2, <2>4 DEF PointsTo
<1>7. NodesOK(front)
  BY <1>1, <1>2, <1>3 DEF NodesOK, IdsDistinct
<1>8. CacheOK(front, kept, left)
  BY <1>4, <1>6, <1>7 DEF CacheOK, Linked
<1> QED
  BY <1>8 DEF front, kept, left

\* evict_until_fits stops as soon as the image fits.
LEMMA EvictionsLeast ==
  ASSUME NEW list, NodesOK(list), NEW entries, NEW used, NEW bytes,
         NEW n, n = Evictions(used, entries, list, bytes)
  PROVE  /\ n \in 0..Len(list)
         /\ n = Len(list) \/ UsedAfter(used, entries, list, n) + bytes <= Capacity
         /\ \A m \in 0..Len(list) : m < n => ~(UsedAfter(used, entries, list, m) + bytes <= Capacity)
<1> DEFINE turns == {m \in 0..Len(list) : \/ m = Len(list)
                                          \/ UsedAfter(used, entries, list, m) + bytes <= Capacity}
<1>1. Len(list) \in Nat
  BY NodesTyped
<1>2. \E i \in turns : \A j \in turns : i <= j
  <2>1. turns \in SUBSET Nat /\ turns # {}
    BY <1>1
  <2> QED
    BY <2>1, LeastNatural
<1>3. n = CHOOSE i \in turns : \A j \in turns : i <= j
  BY DEF Evictions, Min
<1>4. n \in turns /\ \A j \in turns : n <= j
  <2> HIDE DEF turns
  <2> QED
    BY <1>2, <1>3, Zenon
<1>5. ASSUME NEW m \in 0..Len(list), m < n
      PROVE  ~(UsedAfter(used, entries, list, m) + bytes <= Capacity)
  <2>1. n \in 0..Len(list)
    BY <1>4
  <2>2. ~(n <= m)
    BY <1>1, <1>5, <2>1
  <2> QED
    BY <1>4, <2>2
<1>6. n = Len(list) \/ UsedAfter(used, entries, list, n) + bytes <= Capacity
  BY <1>4
<1> QED
  BY <1>4, <1>5, <1>6

\* evict_until_fits leaves room for the image: at the latest when the list is
\* empty, as every entry has a node.
LEMMA EvictionsFit ==
  ASSUME NEW list, NEW entries, NEW used, CacheOK(list, entries, used),
         NEW bytes \in Nat, bytes <= Capacity
  PROVE  LET n == Evictions(used, entries, list, bytes)
         IN  n \in 0..Len(list) /\ UsedAfter(used, entries, list, n) + bytes <= Capacity
<1> DEFINE enough(n) == UsedAfter(used, entries, list, n) + bytes <= Capacity
           n == Evictions(used, entries, list, bytes)
<1>1. NodesOK(list) /\ Linked(list, entries) /\ EntriesOK(entries) /\ used = Total(DOMAIN entries)
  BY DEF CacheOK
<1>2. Len(list) \in Nat
  BY <1>1, NodesTyped
<1>3. n \in 0..Len(list) /\ (n = Len(list) \/ enough(n))
  BY <1>1, EvictionsLeast
<1>4. enough(Len(list))
  <2> DEFINE m == Len(list)
             kept == Survivors(entries, list, m)
  <2>1. DOMAIN kept = DOMAIN entries \ KeysPopped(list, m)
        /\ UsedAfter(used, entries, list, m) = Total(DOMAIN kept)
    BY <1>1, LeftAfter
  <2>2. ASSUME NEW k \in DOMAIN entries PROVE k \in KeysPopped(list, m)
    <3>1. PICK i \in 1..Len(list) : PointsTo(entries, k, list[i])
      BY <1>1 DEF Linked
    <3>2. i \in (Len(list) - m + 1)..Len(list) /\ list[i].key = k
      BY <1>2, <3>1 DEF PointsTo
    <3> QED
      BY <3>2 DEF KeysPopped
  <2>3. DOMAIN kept = {}
    BY <2>1, <2>2
  <2>4. Total(DOMAIN kept) = 0
    BY <2>3, SumEmpty DEF Total
  <2> HIDE DEF kept, m
  <2>5. UsedAfter(used, entries, list, m) = 0
    BY <2>1, <2>4
  <2>6. 0 + bytes <= Capacity
    BY CacheAssumption
  <2> QED
    BY <2>5, <2>6, Zenon DEF m
<1>5. n \in 0..Len(list) /\ enough(n)
  <2> HIDE DEF n, enough
  <2> QED
    BY <1>3, <1>4
<1> QED
  BY <1>5

\* push_front and emplace; when emplace throws the node stays alone.
LEMMA InsertedKeeps ==
  ASSUME NEW list, NEW entries, NEW used, CacheOK(list, entries, used),
         NEW k \in Keys, k \notin DOMAIN entries, NEW node, node = NewNode(list, k)
  PROVE  /\ CacheOK(<<node>> \o list, entries, used)
         /\ CacheOK(<<node>> \o list, Emplaced(entries, k, node), used + Size[k])
<1> DEFINE all  == <<node>> \o list
           more == Emplaced(entries, k, node)
<1>1. NodesOK(list) /\ Linked(list, entries) /\ EntriesOK(entries) /\ used = Total(DOMAIN entries)
  BY DEF CacheOK
<1>2. node \in Node /\ node.key = k /\ node.id \in Nat /\ \A j \in 1..Len(list) : list[j].id # node.id
  BY <1>1, Fresh DEF Node
<1>3. /\ NodesOK(all) /\ Len(all) = Len(list) + 1 /\ all[1] = node
      /\ \A j \in 1..Len(list) : all[j + 1] = list[j]
  BY <1>1, <1>2, PushedNodes
<1>4. Len(list) \in Nat
  BY <1>1, NodesTyped
<1>5. /\ DOMAIN more = DOMAIN entries \cup {k}
      /\ more[k] = [bytes |-> Size[k], lru_iterator |-> node.id]
      /\ \A m \in DOMAIN entries : more[m] = entries[m]
      /\ more = [m \in DOMAIN more |-> more[m]]
  BY DEF Emplaced
<1> HIDE DEF all, more
<1>6. ASSUME NEW m \in DOMAIN entries
      PROVE  \E j \in 1..Len(all) : PointsTo(entries, m, all[j])
  <2>1. PICK j \in 1..Len(list) : PointsTo(entries, m, list[j])
    BY <1>1 DEF Linked
  <2>2. j + 1 \in 1..Len(all) /\ all[j + 1] = list[j]
    BY <1>3, <1>4
  <2> QED
    BY <2>1, <2>2
<1>7. ASSUME NEW m \in DOMAIN more PROVE \E j \in 1..Len(all) : PointsTo(more, m, all[j])
  <2>1. CASE m = k
    <3>1. 1 \in 1..Len(all) /\ PointsTo(more, m, all[1])
      BY <1>2, <1>3, <1>4, <1>5, <2>1 DEF PointsTo
    <3> QED
      BY <3>1
  <2>2. CASE m # k
    <3>1. m \in DOMAIN entries /\ more[m] = entries[m]
      BY <1>5, <2>2
    <3> QED
      BY <1>6, <3>1 DEF PointsTo
  <2> QED
    BY <2>1, <2>2
<1>8. EntriesOK(more)
  <2>1. DOMAIN more \subseteq Keys /\ IsFiniteSet(DOMAIN more)
    BY <1>1, <1>5, FS_AddElement DEF EntriesOK
  <2>2. Size[k] \in Nat
    BY SizeIsNat
  <2>3. \A m \in DOMAIN entries : entries[m] \in Entry /\ entries[m].bytes = Size[m]
    BY <1>1 DEF EntriesOK
  <2>4. ASSUME NEW m \in DOMAIN more PROVE more[m] \in Entry /\ more[m].bytes = Size[m]
    <3>1. CASE m = k
      BY <1>2, <1>5, <2>2, <3>1 DEF Entry
    <3>2. CASE m # k
      BY <1>5, <2>3, <3>2
    <3> QED
      BY <3>1, <3>2
  <2>5. more \in [DOMAIN more -> Entry]
    BY <1>5, <2>4
  <2> QED
    BY <2>1, <2>4, <2>5 DEF EntriesOK
<1>9. used + Size[k] = Total(DOMAIN more)
  <2>1. DOMAIN entries \in SUBSET Keys /\ IsFiniteSet(DOMAIN entries)
    BY <1>1 DEF EntriesOK
  <2>2. \A x \in DOMAIN entries \cup {k} : Size[x] \in Int
    BY <2>1, SizeIsNat
  <2>3. Total(DOMAIN entries \cup {k}) = Size[k] + Total(DOMAIN entries)
    BY <2>1, <2>2, SumWith DEF Total
  <2>4. Total(DOMAIN entries) \in Nat /\ Size[k] \in Nat
    BY <2>1, TotalIsNat, SizeIsNat
  <2> QED
    BY <1>1, <1>5, <2>3, <2>4
<1>10. CacheOK(all, entries, used)
  BY <1>1, <1>3, <1>6 DEF CacheOK, Linked
<1>11. CacheOK(all, more, used + Size[k])
  BY <1>3, <1>7, <1>8, <1>9 DEF CacheOK, Linked
<1> QED
  BY <1>10, <1>11 DEF all, more

-----------------------------------------------------------------------------
(* The inductive invariant. *)

\* A worker that decodes or inserts is busy with an image of the dataset.
SamplesOK ==
  /\ pc \in [Workers -> {"idle", "decode", "insert", "stopped"}]
  /\ sample \in [Workers -> {sample[w] : w \in Workers}]
  /\ \A w \in Workers : pc[w] \in {"decode", "insert"} => sample[w] \in Keys

IInv == CacheOK(lru_, entries_, used_bytes_) /\ used_bytes_ <= Capacity /\ SamplesOK

LEMMA EmptyCache == Init => IInv
<1> SUFFICES ASSUME Init PROVE IInv
  OBVIOUS
<1>1. lru_ = <<>> /\ entries_ = <<>> /\ used_bytes_ = 0
  BY DEF Init
<1>2. NodesOK(lru_)
  <2>1. lru_ \in Seq(Node) /\ Len(lru_) = 0
    BY <1>1, EmptySeq
  <2> QED
    BY <2>1 DEF NodesOK, IdsDistinct
<1>3. DOMAIN entries_ = {}
  BY <1>1
<1>4. EntriesOK(entries_)
  <2>1. entries_ \in [DOMAIN entries_ -> Entry]
    BY <1>1
  <2> QED
    BY <1>3, <2>1, FS_EmptySet DEF EntriesOK
<1>5. Total(DOMAIN entries_) = 0
  BY <1>3, SumEmpty DEF Total
<1>6. SamplesOK
  BY DEF Init, SamplesOK
<1>7. used_bytes_ <= Capacity
  BY <1>1, CacheAssumption
<1> QED
  BY <1>1, <1>2, <1>3, <1>4, <1>5, <1>6, <1>7 DEF IInv, CacheOK, Linked

LEMMA SamplesMove ==
  ASSUME SamplesOK, NEW w \in Workers, NEW label, Goto(w, label)
  PROVE  /\ label \in {"idle", "stopped"} /\ UNCHANGED sample => SamplesOK'
         /\ label = "insert" /\ pc[w] = "decode" /\ UNCHANGED sample => SamplesOK'
  BY DEF SamplesOK, Goto

LEMMA FindStep ==
  ASSUME IInv, NEW w \in Workers, NEW k \in Keys, Find(w, k)
  PROVE  IInv'
<1>1. CASE k \in DOMAIN entries_
  <2> DEFINE i == Place(lru_, entries_[k].lru_iterator)
  <2>1. lru_' = <<lru_[i]>> \o RemoveAt(lru_, i) /\ UNCHANGED <<entries_, used_bytes_, pc, sample>>
    BY <1>1 DEF Find
  <2>2. CacheOK(<<lru_[i]>> \o RemoveAt(lru_, i), entries_, used_bytes_)
    BY <1>1, FindKeeps DEF IInv
  <2>3. CacheOK(lru_', entries_', used_bytes_')
    BY <2>1, <2>2
  <2>4. SamplesOK'
    BY <2>1 DEF IInv, SamplesOK
  <2> QED
    BY <2>1, <2>3, <2>4 DEF IInv, CacheOK, NodesOK, IdsDistinct, EntriesOK, Linked, PointsTo
<1>2. CASE k \notin DOMAIN entries_
  <2>1. UNCHANGED <<lru_, entries_, used_bytes_>> /\ Goto(w, "decode") /\ sample' = [sample EXCEPT ![w] = k]
    BY <1>2 DEF Find
  <2>2. SamplesOK'
    BY <2>1 DEF IInv, SamplesOK, Goto
  <2> QED
    BY <2>1, <2>2 DEF IInv, CacheOK, NodesOK, IdsDistinct, EntriesOK, Linked, PointsTo
<1> QED
  BY <1>1, <1>2

LEMMA DecodeStep ==
  ASSUME IInv, NEW w \in Workers, Decode(w)
  PROVE  IInv'
<1>1. UNCHANGED <<lru_, entries_, used_bytes_, sample>> /\ pc[w] = "decode"
  BY DEF Decode, cacheVars
<1>2. Goto(w, "insert") \/ Goto(w, "stopped")
  BY DEF Decode
<1>3. SamplesOK'
  BY <1>1, <1>2, SamplesMove DEF IInv
<1> QED
  BY <1>1, <1>3 DEF IInv, CacheOK, NodesOK, IdsDistinct, EntriesOK, Linked, PointsTo

LEMMA InsertStep ==
  ASSUME IInv, NEW w \in Workers, Insert(w)
  PROVE  IInv'
<1> DEFINE k    == sample[w]
           old  == Dropped(k)
           n    == Evictions(old.used, old.entries, old.list, Size[k])
           rest == Popped(old.list, n)
           kept == Survivors(old.entries, old.list, n)
           left == UsedAfter(old.used, old.entries, old.list, n)
           node == NewNode(rest, k)
<1>1. k \in Keys /\ Size[k] \in Nat
  BY SizeIsNat DEF IInv, SamplesOK, Insert
<1>2. CacheOK(old.list, old.entries, old.used) /\ k \notin DOMAIN old.entries
  BY DroppedKeeps DEF IInv
<1>3. ASSUME Size[k] <= Capacity
      PROVE  /\ CacheOK(rest, kept, left) /\ left + Size[k] <= Capacity /\ left \in Nat
             /\ k \notin DOMAIN kept
  <2> HIDE DEF old, k
  <2>1. n \in 0..Len(old.list) /\ left + Size[k] <= Capacity
    BY <1>1, <1>2, <1>3, EvictionsFit
  <2> HIDE DEF n
  <2>2. CacheOK(rest, kept, left)
    BY <1>2, <2>1, PoppedKeeps
  <2>3. k \notin DOMAIN kept
    BY <1>2 DEF Survivors, Restrict
  <2>4. left \in Nat
    <3> HIDE DEF rest, kept, left
    <3>1. DOMAIN kept \in SUBSET Keys /\ IsFiniteSet(DOMAIN kept) /\ left = Total(DOMAIN kept)
      BY <2>2 DEF CacheOK, EntriesOK
    <3> QED
      BY <3>1, TotalIsNat
  <2> QED
    BY <2>1, <2>2, <2>3, <2>4
<1>4. ASSUME Size[k] <= Capacity
      PROVE  /\ CacheOK(<<node>> \o rest, kept, left)
             /\ CacheOK(<<node>> \o rest, Emplaced(kept, k, node), left + Size[k])
  <2> HIDE DEF rest, kept, left, k
  <2> QED
    BY <1>1, <1>3, <1>4, InsertedKeeps, Zenon
<1>5. \/ UNCHANGED cacheVars /\ Goto(w, "idle")
      \/ /\ Size[k] <= Capacity /\ Goto(w, "idle") /\ lru_' = <<node>> \o rest
         /\ entries_' = Emplaced(kept, k, node) /\ used_bytes_' = left + Size[k]
      \/ /\ Size[k] <= Capacity /\ Goto(w, "stopped") /\ lru_' \in {rest, <<node>> \o rest}
         /\ entries_' = kept /\ used_bytes_' = left
  BY DEF Insert
<1>6. UNCHANGED sample
  BY DEF Insert
<1> HIDE DEF rest, kept, left, node, k
<1>7. SamplesOK'
  BY <1>5, <1>6, SamplesMove DEF IInv
<1>8. CacheOK(lru_', entries_', used_bytes_') /\ used_bytes_' <= Capacity
  <2>1. CASE UNCHANGED cacheVars
    BY <2>1 DEF IInv, cacheVars
  <2>2. CASE /\ Size[k] <= Capacity /\ lru_' = <<node>> \o rest
             /\ entries_' = Emplaced(kept, k, node) /\ used_bytes_' = left + Size[k]
    BY <1>3, <1>4, <2>2
  <2>3. CASE /\ Size[k] <= Capacity /\ lru_' \in {rest, <<node>> \o rest}
             /\ entries_' = kept /\ used_bytes_' = left
    <3>1. left <= Capacity
      BY <1>1, <1>3, <2>3, CacheAssumption
    <3> QED
      BY <1>3, <1>4, <2>3, <3>1
  <2> QED
    BY <1>5, <2>1, <2>2, <2>3
<1> QED
  BY <1>7, <1>8 DEF IInv, CacheOK, NodesOK, IdsDistinct, EntriesOK, Linked, PointsTo

LEMMA IInvStep == IInv /\ [Next]_vars => IInv'
<1> SUFFICES ASSUME IInv, [Next]_vars PROVE IInv'
  OBVIOUS
<1>1. CASE UNCHANGED vars
  BY <1>1 DEF vars, cacheVars, IInv, CacheOK, NodesOK, IdsDistinct, EntriesOK, Linked, PointsTo,
              SamplesOK
<1>2. CASE Next
  BY <1>2, FindStep, DecodeStep, InsertStep DEF Next
<1> QED
  BY <1>1, <1>2

\* List and map refer to each other, node identities differ, and the bytes
\* counted are the sizes of the cached images: what find and insert keep.
THEOREM CacheConsistent == Spec => []IInv
<1>1. Init => IInv
  BY EmptyCache
<1>2. IInv /\ [Next]_vars => IInv'
  BY IInvStep
<1> QED
  BY <1>1, <1>2, PTL DEF Spec

\* DecodedImageCache::used_bytes_ counts the bytes of the cached images, and
\* never more than the capacity, whichever workers missed one image together
\* and wherever push_front or emplace threw.
THEOREM BytesCounted == Spec => []BytesAccounted
<1>1. IInv => BytesAccounted
  <2> SUFFICES ASSUME IInv PROVE BytesAccounted
    OBVIOUS
  <2>1. EntriesOK(entries_) /\ used_bytes_ = Total(DOMAIN entries_) /\ used_bytes_ <= Capacity
    BY DEF IInv, CacheOK
  <2> QED
    BY <2>1, BytesTotal DEF BytesAccounted
<1> QED
  BY <1>1, CacheConsistent, PTL

\* Every entry's lru_iterator is a live node with the entry's key, so that
\* splice and erase are defined, also after a node was left without an entry.
THEOREM IteratorsAlive == Spec => []IteratorsValid
<1>1. IInv => IteratorsValid
  <2> SUFFICES ASSUME IInv, NEW k \in DOMAIN entries_
               PROVE  \E i \in 1..Len(lru_) : lru_[i] = [key |-> k, id |-> entries_[k].lru_iterator]
    BY DEF IteratorsValid
  <2>1. PICK i \in 1..Len(lru_) : PointsTo(entries_, k, lru_[i])
    BY DEF IInv, CacheOK, Linked
  <2>2. lru_[i] \in Node
    BY NodesTyped DEF IInv, CacheOK
  <2>3. lru_[i] = [key |-> k, id |-> entries_[k].lru_iterator]
    BY <2>1, <2>2 DEF Node, PointsTo
  <2> QED
    BY <2>3
<1> QED
  BY <1>1, CacheConsistent, PTL

-----------------------------------------------------------------------------
(* Recency: nodes that entries point to stand in the order of their last   *)
(* use, whatever nodes failed insertions have left between them.           *)

\* k was used after m.
Before(order, k, m) ==
  \E a \in 1..Len(order) : \E b \in 1..Len(order) : a < b /\ order[a] = k /\ order[b] = m

Within(order, k) == \E a \in 1..Len(order) : order[a] = k

OrderOK(order) ==
  /\ order \in Seq(Keys)
  /\ \A i \in 1..Len(order) : \A j \in 1..Len(order) : order[i] = order[j] => i = j

Ordered(list, entries, order) ==
  \A i \in 1..Len(list) : \A j \in 1..Len(list) :
    \A k \in DOMAIN entries : \A m \in DOMAIN entries :
      i < j /\ PointsTo(entries, k, list[i]) /\ PointsTo(entries, m, list[j]) => Before(order, k, m)

LEMMA ShiftGrows ==
  ASSUME NEW n \in Nat, NEW i \in 1..n, NEW j \in 1..n - 1, NEW m \in 1..n - 1
  PROVE  j < m <=> Shift(i, j) < Shift(i, m)
  BY DEF Shift

\* The keys used, once k was used again, are k and the others as before.
LEMMA UsedOrder ==
  ASSUME OrderOK(recent), NEW k \in Keys
  PROVE  /\ OrderOK(Used(k)) /\ Within(Used(k), k)
         /\ \A x \in Keys : x # k /\ Within(recent, x) => Within(Used(k), x) /\ Before(Used(k), k, x)
         /\ \A x \in Keys : \A y \in Keys :
              x # k /\ y # k /\ Before(recent, x, y) => Before(Used(k), x, y)
<1> DEFINE rest == IF k \in ToSet(recent) THEN RemoveAt(recent, Age(k)) ELSE recent
           all  == <<k>> \o rest
<1>0. recent \in Seq(Keys) /\ Len(recent) \in Nat /\ DOMAIN recent = 1..Len(recent)
  BY LenProperties DEF OrderOK
<1>1. /\ rest \in Seq(Keys) /\ Len(rest) \in Nat
      /\ \A i \in 1..Len(rest) : \A j \in 1..Len(rest) : rest[i] = rest[j] => i = j
      /\ \A i \in 1..Len(rest) : rest[i] # k
      /\ \A x \in Keys : x # k /\ Within(recent, x) => Within(rest, x)
      /\ \A x \in Keys : \A y \in Keys : x # k /\ y # k /\ Before(recent, x, y) => Before(rest, x, y)
  <2>1. CASE k \notin ToSet(recent)
    <3>1. rest = recent /\ \A i \in 1..Len(recent) : recent[i] # k
      BY <1>0, <2>1 DEF ToSet
    <3> HIDE DEF rest
    <3> QED
      BY <1>0, <3>1 DEF OrderOK
  <2>2. CASE k \in ToSet(recent)
    <3> DEFINE p == Age(k)
    <3>1. p \in 1..Len(recent) /\ recent[p] = k
      <4>1. \E i \in 1..Len(recent) : recent[i] = k
        BY <1>0, <2>2 DEF ToSet
      <4> QED
        BY <4>1, Zenon DEF Age
    <3> HIDE DEF p
    <3>2. /\ rest = RemoveAt(recent, p)
      BY <2>2, Zenon DEF p
    <3> HIDE DEF rest
    <3>3. /\ rest \in Seq(Keys) /\ Len(rest) = Len(recent) - 1
          /\ \A j \in 1..Len(recent) - 1 :
               rest[j] = IF j < p THEN recent[j] ELSE recent[j + 1]
      BY <1>0, <3>1, <3>2, Erased
    <3>4. \A j \in 1..Len(recent) - 1 :
            rest[j] = recent[Shift(p, j)] /\ Shift(p, j) \in 1..Len(recent) /\ Shift(p, j) # p
      BY <1>0, <3>1, <3>3 DEF Shift
    <3>5. ASSUME NEW m \in 1..Len(recent), m # p
          PROVE  \E j \in 1..Len(recent) - 1 : Shift(p, j) = m
      <4>1. CASE m < p
        <5>1. m \in 1..Len(recent) - 1 /\ Shift(p, m) = m
          BY <1>0, <3>1, <4>1 DEF Shift
        <5> QED
          BY <5>1
      <4>2. CASE m > p
        <5>1. m - 1 \in 1..Len(recent) - 1 /\ Shift(p, m - 1) = m
          BY <1>0, <3>1, <4>2 DEF Shift
        <5> QED
          BY <5>1
      <4> QED
        BY <1>0, <3>1, <3>5, <4>1, <4>2
    <3>6. ASSUME NEW i \in 1..Len(rest), NEW j \in 1..Len(rest), rest[i] = rest[j]
          PROVE  i = j
      <4>1. Shift(p, i) = Shift(p, j)
        BY <3>3, <3>4, <3>6 DEF OrderOK
      <4> QED
        BY <1>0, <3>1, <3>3, <4>1 DEF Shift
    <3>7. \A i \in 1..Len(rest) : rest[i] # k
      BY <3>1, <3>3, <3>4 DEF OrderOK
    <3>8. ASSUME NEW x \in Keys, x # k, Within(recent, x) PROVE Within(rest, x)
      <4>1. PICK a \in 1..Len(recent) : recent[a] = x
        BY <3>8 DEF Within
      <4>2. PICK j \in 1..Len(recent) - 1 : Shift(p, j) = a
        BY <3>1, <3>5, <3>8, <4>1
      <4>3. j \in 1..Len(rest) /\ rest[j] = x
        BY <3>3, <3>4, <4>1, <4>2
      <4> QED
        BY <4>3 DEF Within
    <3>9. ASSUME NEW x \in Keys, NEW y \in Keys, x # k, y # k, Before(recent, x, y)
          PROVE  Before(rest, x, y)
      <4>1. PICK a \in 1..Len(recent) : \E b \in 1..Len(recent) :
              a < b /\ recent[a] = x /\ recent[b] = y
        BY <3>9 DEF Before
      <4>2. PICK b \in 1..Len(recent) : a < b /\ recent[a] = x /\ recent[b] = y
        BY <4>1
      <4>3. PICK i \in 1..Len(recent) - 1 : Shift(p, i) = a
        BY <3>1, <3>5, <3>9, <4>2
      <4>4. PICK j \in 1..Len(recent) - 1 : Shift(p, j) = b
        BY <3>1, <3>5, <3>9, <4>2
      <4>5. i < j
        BY <1>0, <3>1, <4>2, <4>3, <4>4, ShiftGrows
      <4>6. i \in 1..Len(rest) /\ j \in 1..Len(rest) /\ rest[i] = x /\ rest[j] = y
        BY <3>3, <3>4, <4>2, <4>3, <4>4
      <4> QED
        BY <4>5, <4>6 DEF Before
    <3>10. Len(rest) \in Nat
      BY <1>0, <3>1, <3>3
    <3> QED
      BY <3>3, <3>6, <3>7, <3>8, <3>9, <3>10
  <2> QED
    BY <2>1, <2>2
<1>2. Used(k) = all
  BY DEF Used
<1> HIDE DEF rest
<1>3. /\ all \in Seq(Keys) /\ Len(all) = Len(rest) + 1
      /\ \A j \in 1..Len(rest) + 1 : all[j] = IF j = 1 THEN k ELSE rest[j - 1]
  BY <1>1, Pushed
<1> HIDE DEF all
<1>4. /\ 1 \in 1..Len(all) /\ all[1] = k
      /\ \A j \in 1..Len(rest) : j + 1 \in 1..Len(all) /\ all[j + 1] = rest[j] /\ 1 < j + 1
  BY <1>1, <1>3
<1>5. ASSUME NEW i \in 1..Len(all), NEW j \in 1..Len(all), all[i] = all[j]
      PROVE  i = j
  <2>1. CASE i = 1 /\ j # 1
    <3>1. j - 1 \in 1..Len(rest) /\ all[j] = rest[j - 1]
      BY <1>1, <1>3, <2>1
    <3> QED
      BY <1>1, <1>4, <1>5, <2>1, <3>1
  <2>2. CASE i # 1 /\ j = 1
    <3>1. i - 1 \in 1..Len(rest) /\ all[i] = rest[i - 1]
      BY <1>1, <1>3, <2>2
    <3> QED
      BY <1>1, <1>4, <1>5, <2>2, <3>1
  <2>3. CASE i # 1 /\ j # 1
    <3>1. i - 1 \in 1..Len(rest) /\ all[i] = rest[i - 1]
      BY <1>1, <1>3, <2>3
    <3>2. j - 1 \in 1..Len(rest) /\ all[j] = rest[j - 1]
      BY <1>1, <1>3, <2>3
    <3>3. i - 1 = j - 1
      BY <1>1, <1>5, <3>1, <3>2
    <3> QED
      BY <1>1, <1>3, <3>3
  <2> QED
    BY <2>1, <2>2, <2>3
<1>6. OrderOK(all) /\ Within(all, k)
  BY <1>3, <1>4, <1>5 DEF OrderOK, Within
<1>7. ASSUME NEW x \in Keys, x # k, Within(recent, x)
      PROVE  Within(all, x) /\ Before(all, k, x)
  <2>1. PICK a \in 1..Len(rest) : rest[a] = x
    BY <1>1, <1>7 DEF Within
  <2>2. a + 1 \in 1..Len(all) /\ all[a + 1] = x /\ 1 < a + 1
    BY <1>4, <2>1
  <2> QED
    BY <1>4, <2>2 DEF Within, Before
<1>8. ASSUME NEW x \in Keys, NEW y \in Keys, x # k, y # k, Before(recent, x, y)
      PROVE  Before(all, x, y)
  <2>1. PICK a \in 1..Len(rest) : \E b \in 1..Len(rest) : a < b /\ rest[a] = x /\ rest[b] = y
    BY <1>1, <1>8 DEF Before
  <2>2. PICK b \in 1..Len(rest) : a < b /\ rest[a] = x /\ rest[b] = y
    BY <2>1
  <2>3. a + 1 < b + 1 /\ all[a + 1] = x /\ all[b + 1] = y
    BY <1>1, <1>4, <2>2
  <2>4. a + 1 \in 1..Len(all) /\ b + 1 \in 1..Len(all)
    BY <1>4
  <2> QED
    BY <2>3, <2>4 DEF Before
<1> QED
  BY <1>2, <1>6, <1>7, <1>8

RecentInv ==
  /\ OrderOK(recent) /\ Ordered(lru_, entries_, recent)
  /\ \A k \in DOMAIN entries_ : Within(recent, k)

-----------------------------------------------------------------------------

\* A part of a list, in the same order, with some of the entries.
LEMMA OrderedPart ==
  ASSUME NEW list, NEW entries, NEW order, Ordered(list, entries, order),
         NEW part, NEW some, NEW place,
         \A j \in 1..Len(part) : place[j] \in 1..Len(list) /\ part[j] = list[place[j]],
         \A i \in 1..Len(part) : \A j \in 1..Len(part) : i < j => place[i] < place[j],
         \A k \in DOMAIN some : k \in DOMAIN entries /\ some[k] = entries[k]
  PROVE  Ordered(part, some, order)
<1> SUFFICES ASSUME NEW i \in 1..Len(part), NEW j \in 1..Len(part),
                    NEW k \in DOMAIN some, NEW m \in DOMAIN some,
                    i < j, PointsTo(some, k, part[i]), PointsTo(some, m, part[j])
             PROVE  Before(order, k, m)
  BY DEF Ordered
<1>1. PointsTo(entries, k, list[place[i]]) /\ PointsTo(entries, m, list[place[j]])
  BY DEF PointsTo
<1> QED
  BY <1>1 DEF Ordered

LEMMA ErasedOrdered ==
  ASSUME NEW list, NodesOK(list), NEW i \in 1..Len(list), NEW entries, NEW order,
         Ordered(list, entries, order), NEW some,
         \A k \in DOMAIN some : k \in DOMAIN entries /\ some[k] = entries[k]
  PROVE  Ordered(RemoveAt(list, i), some, order)
<1> DEFINE part  == RemoveAt(list, i)
           place == [j \in 1..Len(part) |-> Shift(i, j)]
<1>1. Len(list) \in Nat
  BY NodesTyped
<1>2. /\ Len(part) = Len(list) - 1
      /\ \A j \in 1..Len(list) - 1 :
           Shift(i, j) \in 1..Len(list) /\ part[j] = list[Shift(i, j)]
  <2>1. /\ Len(part) = Len(list) - 1
        /\ \A j \in 1..Len(list) - 1 :
             /\ Shift(i, j) \in 1..Len(list) /\ Shift(i, j) # i
             /\ part[j] = list[Shift(i, j)]
    BY ErasedFrom
  <2> HIDE DEF part
  <2> QED
    BY <2>1
<1> HIDE DEF part
<1>3. \A j \in 1..Len(part) : place[j] = Shift(i, j)
  OBVIOUS
<1> HIDE DEF place
<1>4. \A j \in 1..Len(part) : place[j] \in 1..Len(list) /\ part[j] = list[place[j]]
  BY <1>2, <1>3
<1>5. \A j \in 1..Len(part) : \A m \in 1..Len(part) : j < m => place[j] < place[m]
  <2>1. \A j \in 1..Len(list) - 1 : \A m \in 1..Len(list) - 1 :
          j < m => Shift(i, j) < Shift(i, m)
    BY <1>1, ShiftGrows
  <2> QED
    BY <1>2, <1>3, <2>1
<1>6. Ordered(part, some, order)
  BY <1>4, <1>5, OrderedPart
<1> QED
  BY <1>6 DEF part

LEMMA PoppedOrdered ==
  ASSUME NEW list, NodesOK(list), NEW n \in 0..Len(list), NEW entries, EntriesOK(entries),
         NEW order, Ordered(list, entries, order)
  PROVE  Ordered(Popped(list, n), Survivors(entries, list, n), order)
<1> DEFINE part  == Popped(list, n)
           some  == Survivors(entries, list, n)
           place == [j \in 1..Len(part) |-> j]
<1>1. Len(list) \in Nat /\ list \in Seq(Node)
  BY NodesTyped DEF NodesOK
<1>2. Len(part) = Len(list) - n /\ \A j \in 1..Len(list) - n : part[j] = list[j]
  BY <1>1, Shortened
<1>3. \A k \in DOMAIN some : k \in DOMAIN entries /\ some[k] = entries[k]
  BY DEF Survivors, Restrict
<1> HIDE DEF part, some
<1>4. \A j \in 1..Len(part) : place[j] = j
  OBVIOUS
<1> HIDE DEF place
<1>5. \A j \in 1..Len(part) : place[j] \in 1..Len(list) /\ part[j] = list[place[j]]
  BY <1>1, <1>2, <1>4
<1>6. \A i \in 1..Len(part) : \A j \in 1..Len(part) : i < j => place[i] < place[j]
  BY <1>4
<1>7. Ordered(part, some, order)
  BY <1>3, <1>5, <1>6, OrderedPart
<1> QED
  BY <1>7 DEF part, some

\* The node of an image that is used, at the front of the others.
LEMMA PushedOrdered ==
  ASSUME OrderOK(recent), NEW list, NodesOK(list), NEW entries, DOMAIN entries \subseteq Keys,
         Ordered(list, entries, recent), \A x \in DOMAIN entries : Within(recent, x),
         NEW node \in Node, \A j \in 1..Len(list) : list[j].id # node.id,
         NEW k \in Keys, node.key = k, NEW more, PointsTo(more, k, node),
         \A x \in DOMAIN more : x # k => x \in DOMAIN entries /\ more[x] = entries[x]
  PROVE  /\ Ordered(<<node>> \o list, more, Used(k))
         /\ \A x \in DOMAIN more : Within(Used(k), x)
<1> DEFINE all == <<node>> \o list
<1>1. /\ Len(all) = Len(list) + 1 /\ all[1] = node
      /\ \A j \in 1..Len(list) : all[j + 1] = list[j]
  BY PushedNodes
<1>2. Len(list) \in Nat
  BY NodesTyped
<1>3. /\ Within(Used(k), k)
      /\ \A x \in Keys : x # k /\ Within(recent, x) => Within(Used(k), x) /\ Before(Used(k), k, x)
      /\ \A x \in Keys : \A y \in Keys :
           x # k /\ y # k /\ Before(recent, x, y) => Before(Used(k), x, y)
  BY UsedOrder
<1> HIDE DEF all
<1>4. ASSUME NEW j \in 1..Len(all), j # 1, NEW x \in DOMAIN more, PointsTo(more, x, all[j])
      PROVE  /\ j - 1 \in 1..Len(list) /\ x # k /\ x \in DOMAIN entries /\ x \in Keys
             /\ PointsTo(entries, x, list[j - 1])
  <2>1. j - 1 \in 1..Len(list) /\ all[j] = list[j - 1]
    <3>1. j - 1 \in 1..Len(list) /\ (j - 1) + 1 = j
      BY <1>1, <1>2, <1>4
    <3> QED
      BY <1>1, <3>1
  <2>2. x # k
    BY <1>4, <2>1 DEF PointsTo
  <2> QED
    BY <1>4, <2>1, <2>2 DEF PointsTo
<1>5. ASSUME NEW i \in 1..Len(all), NEW j \in 1..Len(all), NEW x \in DOMAIN more, NEW y \in DOMAIN more,
             i < j, PointsTo(more, x, all[i]), PointsTo(more, y, all[j])
      PROVE  Before(Used(k), x, y)
  <2>1. /\ j # 1 /\ j - 1 \in 1..Len(list) /\ y # k /\ y \in DOMAIN entries /\ y \in Keys
        /\ PointsTo(entries, y, list[j - 1])
    <3>1. j # 1
      BY <1>1, <1>2, <1>5
    <3> QED
      BY <1>4, <1>5, <3>1
  <2>2. CASE i = 1
    <3>1. x = k
      BY <1>1, <1>5, <2>2 DEF PointsTo
    <3> QED
      BY <1>3, <2>1, <3>1
  <2>3. CASE i # 1
    <3>1. /\ i - 1 \in 1..Len(list) /\ x # k /\ x \in DOMAIN entries /\ x \in Keys
          /\ PointsTo(entries, x, list[i - 1])
      BY <1>4, <1>5, <2>3
    <3>2. i - 1 < j - 1
      BY <1>1, <1>2, <1>5
    <3>3. Before(recent, x, y)
      BY <2>1, <3>1, <3>2 DEF Ordered
    <3> QED
      BY <1>3, <2>1, <3>1, <3>3
  <2> QED
    BY <2>2, <2>3
<1>6. ASSUME NEW x \in DOMAIN more PROVE Within(Used(k), x)
  BY <1>3
<1>7. Ordered(all, more, Used(k))
  BY <1>5 DEF Ordered
<1> QED
  BY <1>6, <1>7 DEF all

\* A node without an entry, at the front of the others.
LEMMA OrphanOrdered ==
  ASSUME NEW list, NodesOK(list), NEW entries, NEW order, Ordered(list, entries, order),
         NEW node \in Node, \A j \in 1..Len(list) : list[j].id # node.id,
         node.key \notin DOMAIN entries
  PROVE  Ordered(<<node>> \o list, entries, order)
<1> DEFINE all == <<node>> \o list
<1>1. /\ Len(all) = Len(list) + 1 /\ all[1] = node
      /\ \A j \in 1..Len(list) : all[j + 1] = list[j]
  BY PushedNodes
<1>2. Len(list) \in Nat
  BY NodesTyped
<1> HIDE DEF all
<1>3. ASSUME NEW j \in 1..Len(all), NEW x \in DOMAIN entries, PointsTo(entries, x, all[j])
      PROVE  j - 1 \in 1..Len(list) /\ PointsTo(entries, x, list[j - 1])
  <2>1. j # 1
    BY <1>1, <1>3 DEF PointsTo
  <2>2. j - 1 \in 1..Len(list) /\ (j - 1) + 1 = j
    BY <1>1, <1>2, <2>1
  <2> QED
    BY <1>1, <1>3, <2>2
<1>4. ASSUME NEW i \in 1..Len(all), NEW j \in 1..Len(all),
             NEW x \in DOMAIN entries, NEW y \in DOMAIN entries,
             i < j, PointsTo(entries, x, all[i]), PointsTo(entries, y, all[j])
      PROVE  Before(order, x, y)
  <2>1. /\ i - 1 \in 1..Len(list) /\ PointsTo(entries, x, list[i - 1])
        /\ j - 1 \in 1..Len(list) /\ PointsTo(entries, y, list[j - 1])
    BY <1>3, <1>4
  <2>2. i - 1 < j - 1
    BY <1>1, <1>2, <1>4
  <2> QED
    BY <2>1, <2>2 DEF Ordered
<1>5. Ordered(all, entries, order)
  BY <1>4 DEF Ordered
<1> QED
  BY <1>5 DEF all

LEMMA DroppedOrdered ==
  ASSUME IInv, RecentInv, NEW k
  PROVE  /\ Ordered(Dropped(k).list, Dropped(k).entries, recent)
         /\ DOMAIN Dropped(k).entries = DOMAIN entries_ \ {k}
         /\ \A x \in DOMAIN Dropped(k).entries : Within(recent, x)
<1>1. NodesOK(lru_) /\ Linked(lru_, entries_) /\ Ordered(lru_, entries_, recent)
      /\ \A x \in DOMAIN entries_ : Within(recent, x)
  BY DEF IInv, CacheOK, RecentInv
<1>2. CASE k \notin DOMAIN entries_
  <2>1. Dropped(k) = [list |-> lru_, entries |-> entries_, used |-> used_bytes_]
    BY <1>2 DEF Dropped
  <2>2. Dropped(k).list = lru_ /\ Dropped(k).entries = entries_
    BY <2>1
  <2> QED
    BY <1>1, <1>2, <2>2
<1>3. CASE k \in DOMAIN entries_
  <2> DEFINE i    == Place(lru_, entries_[k].lru_iterator)
             rest == RemoveAt(lru_, i)
             kept == Restrict(entries_, DOMAIN entries_ \ {k})
  <2>1. i \in 1..Len(lru_)
    BY <1>1, <1>3, PlaceFound
  <2>2. /\ \A x \in DOMAIN kept : x \in DOMAIN entries_ /\ kept[x] = entries_[x]
        /\ DOMAIN kept = DOMAIN entries_ \ {k}
    BY DEF Restrict
  <2>3. Dropped(k) = [list |-> rest, entries |-> kept, used |-> used_bytes_ - entries_[k].bytes]
    BY <1>3 DEF Dropped
  <2> HIDE DEF kept, i
  <2>4. Ordered(rest, kept, recent)
    BY <1>1, <2>1, <2>2, ErasedOrdered
  <2> HIDE DEF rest
  <2>5. Dropped(k).list = rest /\ Dropped(k).entries = kept
    BY <2>3
  <2> QED
    BY <1>1, <2>2, <2>4, <2>5
<1> QED
  BY <1>2, <1>3

LEMMA FindOrdered ==
  ASSUME IInv, RecentInv, NEW w \in Workers, NEW k \in Keys, Find(w, k)
  PROVE  RecentInv'
<1>0. /\ NodesOK(lru_) /\ Linked(lru_, entries_) /\ DOMAIN entries_ \subseteq Keys
      /\ OrderOK(recent) /\ Ordered(lru_, entries_, recent)
      /\ \A x \in DOMAIN entries_ : Within(recent, x)
  BY DEF IInv, CacheOK, EntriesOK, RecentInv
<1>1. CASE k \in DOMAIN entries_
  <2> DEFINE i    == Place(lru_, entries_[k].lru_iterator)
             rest == RemoveAt(lru_, i)
  <2>1. lru_' = <<lru_[i]>> \o rest /\ entries_' = entries_ /\ recent' = Used(k)
    BY <1>1 DEF Find
  <2>2. i \in 1..Len(lru_) /\ PointsTo(entries_, k, lru_[i])
    BY <1>0, <1>1, PlaceFound
  <2> HIDE DEF i
  <2>3. NodesOK(rest) /\ \A j \in 1..Len(rest) : rest[j].id # lru_[i].id
    BY <1>0, <2>2, ErasedNodes
  <2>4. Ordered(rest, entries_, recent)
    BY <1>0, <2>2, ErasedOrdered
  <2>5. lru_[i] \in Node /\ lru_[i].key = k
    BY <1>0, <2>2, NodesTyped DEF PointsTo
  <2> HIDE DEF rest
  <2>6. /\ Ordered(<<lru_[i]>> \o rest, entries_, Used(k))
        /\ \A x \in DOMAIN entries_ : Within(Used(k), x)
    BY <1>0, <2>2, <2>3, <2>4, <2>5, PushedOrdered
  <2>7. OrderOK(Used(k))
    BY <1>0, UsedOrder
  <2>8. OrderOK(recent') /\ Ordered(lru_', entries_', recent')
        /\ \A x \in DOMAIN entries_' : Within(recent', x)
    BY <2>1, <2>6, <2>7
  <2> QED
    BY <2>8 DEF RecentInv, OrderOK, Ordered, PointsTo, Before, Within
<1>2. CASE k \notin DOMAIN entries_
  <2>1. UNCHANGED <<lru_, entries_, recent>>
    BY <1>2 DEF Find
  <2> QED
    BY <2>1 DEF RecentInv, OrderOK, Ordered, PointsTo, Before, Within
<1> QED
  BY <1>1, <1>2

LEMMA InsertOrdered ==
  ASSUME IInv, RecentInv, NEW w \in Workers, Insert(w)
  PROVE  RecentInv'
<1> DEFINE k    == sample[w]
           old  == Dropped(k)
           n    == Evictions(old.used, old.entries, old.list, Size[k])
           rest == Popped(old.list, n)
           kept == Survivors(old.entries, old.list, n)
           left == UsedAfter(old.used, old.entries, old.list, n)
           node == NewNode(rest, k)
           more == Emplaced(kept, k, node)
<1>0. k \in Keys /\ Size[k] \in Nat /\ OrderOK(recent)
  BY SizeIsNat DEF IInv, SamplesOK, Insert, RecentInv
<1>1. /\ CacheOK(old.list, old.entries, old.used) /\ k \notin DOMAIN old.entries
      /\ Ordered(old.list, old.entries, recent)
      /\ \A x \in DOMAIN old.entries : Within(recent, x)
  BY DroppedKeeps, DroppedOrdered DEF IInv
<1>2. ASSUME Size[k] <= Capacity
      PROVE  /\ CacheOK(rest, kept, left) /\ Ordered(rest, kept, recent)
             /\ DOMAIN kept \subseteq DOMAIN old.entries
  <2> HIDE DEF old, k
  <2>1. n \in 0..Len(old.list)
    BY <1>0, <1>1, <1>2, EvictionsFit
  <2> HIDE DEF n
  <2>2. CacheOK(rest, kept, left)
    BY <1>1, <2>1, PoppedKeeps
  <2>3. NodesOK(old.list) /\ EntriesOK(old.entries)
    BY <1>1 DEF CacheOK
  <2>4. Ordered(rest, kept, recent)
    BY <1>1, <2>1, <2>3, PoppedOrdered
  <2>5. DOMAIN kept \subseteq DOMAIN old.entries
    BY DEF Survivors, Restrict
  <2> QED
    BY <2>2, <2>4, <2>5
<1>3. ASSUME Size[k] <= Capacity
      PROVE  /\ Ordered(<<node>> \o rest, more, Used(k)) /\ \A x \in DOMAIN more : Within(Used(k), x)
             /\ Ordered(<<node>> \o rest, kept, recent) /\ \A x \in DOMAIN kept : Within(recent, x)
             /\ Ordered(rest, kept, recent)
  <2>1. /\ NodesOK(rest) /\ DOMAIN kept \subseteq Keys /\ Ordered(rest, kept, recent)
        /\ k \notin DOMAIN kept /\ \A x \in DOMAIN kept : Within(recent, x)
    BY <1>1, <1>2, <1>3 DEF CacheOK, EntriesOK
  <2> HIDE DEF rest, kept, k
  <2>2. node \in Node /\ node.key = k /\ \A j \in 1..Len(rest) : rest[j].id # node.id
    BY <1>0, <2>1, Fresh
  <2> HIDE DEF node
  <2>3. /\ PointsTo(more, k, node)
        /\ \A x \in DOMAIN more : x # k => x \in DOMAIN kept /\ more[x] = kept[x]
    BY <2>2 DEF Emplaced, PointsTo
  <2> HIDE DEF more
  <2>4. Ordered(<<node>> \o rest, more, Used(k)) /\ \A x \in DOMAIN more : Within(Used(k), x)
    BY <1>0, <2>1, <2>2, <2>3, PushedOrdered
  <2>5. Ordered(<<node>> \o rest, kept, recent)
    BY <2>1, <2>2, OrphanOrdered, Zenon
  <2> QED
    BY <2>1, <2>4, <2>5
<1>4. \/ UNCHANGED cacheVars
      \/ /\ Size[k] <= Capacity /\ lru_' = <<node>> \o rest
         /\ entries_' = more /\ recent' = Used(k)
      \/ /\ Size[k] <= Capacity /\ lru_' \in {rest, <<node>> \o rest}
         /\ entries_' = kept /\ UNCHANGED recent
  BY DEF Insert
<1>5. OrderOK(Used(k))
  BY <1>0, UsedOrder
<1> HIDE DEF rest, kept, node, more, k
<1>6. /\ OrderOK(recent') /\ Ordered(lru_', entries_', recent')
      /\ \A x \in DOMAIN entries_' : Within(recent', x)
  <2>1. CASE UNCHANGED cacheVars
    BY <2>1 DEF RecentInv, cacheVars
  <2>2. CASE /\ Size[k] <= Capacity /\ lru_' = <<node>> \o rest
             /\ entries_' = more /\ recent' = Used(k)
    BY <1>3, <1>5, <2>2
  <2>3. CASE /\ Size[k] <= Capacity /\ lru_' \in {rest, <<node>> \o rest}
             /\ entries_' = kept /\ UNCHANGED recent
    BY <1>0, <1>3, <2>3
  <2> QED
    BY <1>4, <2>1, <2>2, <2>3
<1> QED
  BY <1>6 DEF RecentInv, OrderOK, Ordered, PointsTo, Before, Within

LEMMA RecentInvStep == IInv /\ RecentInv /\ [Next]_vars => RecentInv'
<1> SUFFICES ASSUME IInv, RecentInv, [Next]_vars PROVE RecentInv'
  OBVIOUS
<1>1. ASSUME UNCHANGED <<lru_, entries_, recent>> PROVE RecentInv'
  BY <1>1 DEF RecentInv, OrderOK, Ordered, PointsTo, Before, Within
<1>2. CASE UNCHANGED vars
  BY <1>1, <1>2 DEF vars, cacheVars
<1>3. CASE Next
  <2>1. PICK w \in Workers : (\E k \in Keys : Find(w, k)) \/ Decode(w) \/ Insert(w)
    BY <1>3 DEF Next
  <2>2. CASE \E k \in Keys : Find(w, k)
    BY <2>2, FindOrdered
  <2>3. CASE Decode(w)
    BY <1>1, <2>3 DEF Decode, cacheVars
  <2>4. CASE Insert(w)
    BY <2>4, InsertOrdered
  <2> QED
    BY <2>1, <2>2, <2>3, <2>4
<1> QED
  BY <1>2, <1>3

\* Nodes with an entry stand in the order in which their images were last used.
THEOREM RecencyKept == Spec => [](IInv /\ RecentInv)
<1>1. Init => RecentInv
  <2> SUFFICES ASSUME Init PROVE RecentInv
    OBVIOUS
  <2>1. recent = <<>> /\ DOMAIN entries_ = {}
    BY DEF Init
  <2>2. recent \in Seq(Keys) /\ Len(recent) = 0
    BY <2>1, EmptySeq
  <2> QED
    BY <2>1, <2>2 DEF RecentInv, OrderOK, Ordered
<1>2. Init => IInv
  BY EmptyCache
<1>3. IInv /\ RecentInv /\ [Next]_vars => IInv' /\ RecentInv'
  BY IInvStep, RecentInvStep
<1> QED
  BY <1>1, <1>2, <1>3, PTL DEF Spec

-----------------------------------------------------------------------------
(* Eviction by recency. *)

NoOrphans(list, entries) ==
  \A i \in 1..Len(list) : \E k \in DOMAIN entries : entries[k].lru_iterator = list[i].id

LEMMA AllLinked ==
  ASSUME NEW list, NodesOK(list), NEW entries, Linked(list, entries), NoOrphans(list, entries),
         NEW i \in 1..Len(list)
  PROVE  list[i].key \in DOMAIN entries /\ PointsTo(entries, list[i].key, list[i])
<1>1. PICK k \in DOMAIN entries : entries[k].lru_iterator = list[i].id
  BY DEF NoOrphans
<1>2. PICK j \in 1..Len(list) : PointsTo(entries, k, list[j])
  BY DEF Linked
<1>3. j = i
  BY <1>1, <1>2 DEF PointsTo, NodesOK, IdsDistinct
<1> QED
  BY <1>2, <1>3 DEF PointsTo

LEMMA DroppedNoOrphans ==
  ASSUME IInv, NoOrphans(lru_, entries_), NEW k
  PROVE  NoOrphans(Dropped(k).list, Dropped(k).entries)
<1>1. NodesOK(lru_) /\ Linked(lru_, entries_)
  BY DEF IInv, CacheOK
<1>2. CASE k \notin DOMAIN entries_
  <2>1. Dropped(k) = [list |-> lru_, entries |-> entries_, used |-> used_bytes_]
    BY <1>2 DEF Dropped
  <2>2. Dropped(k).list = lru_ /\ Dropped(k).entries = entries_
    BY <2>1
  <2> QED
    BY <2>2
<1>3. CASE k \in DOMAIN entries_
  <2> DEFINE i    == Place(lru_, entries_[k].lru_iterator)
             rest == RemoveAt(lru_, i)
             kept == Restrict(entries_, DOMAIN entries_ \ {k})
  <2>1. i \in 1..Len(lru_) /\ PointsTo(entries_, k, lru_[i])
    BY <1>1, <1>3, PlaceFound
  <2>2. /\ \A x \in DOMAIN kept : x \in DOMAIN entries_ /\ kept[x] = entries_[x]
        /\ DOMAIN kept = DOMAIN entries_ \ {k}
    BY DEF Restrict
  <2>3. Dropped(k) = [list |-> rest, entries |-> kept, used |-> used_bytes_ - entries_[k].bytes]
    BY <1>3 DEF Dropped
  <2> HIDE DEF kept, i
  <2>4. /\ Len(rest) = Len(lru_) - 1
        /\ \A j \in 1..Len(lru_) - 1 :
             /\ Shift(i, j) \in 1..Len(lru_) /\ Shift(i, j) # i
             /\ rest[j] = lru_[Shift(i, j)]
    BY <1>1, <2>1, ErasedFrom
  <2> HIDE DEF rest
  <2>5. ASSUME NEW j \in 1..Len(rest)
        PROVE  \E x \in DOMAIN kept : kept[x].lru_iterator = rest[j].id
    <3> DEFINE a == Shift(i, j)
    <3>1. a \in 1..Len(lru_) /\ a # i /\ rest[j] = lru_[a]
      BY <2>4
    <3> HIDE DEF a
    <3>2. lru_[a].key \in DOMAIN entries_ /\ PointsTo(entries_, lru_[a].key, lru_[a])
      BY <1>1, <3>1, AllLinked
    <3>3. lru_[a].key # k
      BY <1>1, <2>1, <3>1, <3>2 DEF PointsTo, NodesOK, IdsDistinct
    <3> QED
      BY <2>2, <3>1, <3>2, <3>3 DEF PointsTo
  <2>6. Dropped(k).list = rest /\ Dropped(k).entries = kept
    BY <2>3
  <2> QED
    BY <2>5, <2>6 DEF NoOrphans
<1> QED
  BY <1>2, <1>3

\* The keys popped were used before the keys that stay.
LEMMA PoppedAreOlder ==
  ASSUME NEW list, NodesOK(list), NEW entries, Linked(list, entries), NoOrphans(list, entries),
         NEW order, Ordered(list, entries, order), NEW n \in 0..Len(list),
         NEW x \in KeysPopped(list, n), NEW y \in DOMAIN entries, y \notin KeysPopped(list, n)
  PROVE  Before(order, y, x)
<1>0. Len(list) \in Nat
  BY NodesTyped
<1>1. PICK p \in (Len(list) - n + 1)..Len(list) : list[p].key = x
  BY DEF KeysPopped
<1>2. p \in 1..Len(list)
  BY <1>0
<1>3. x \in DOMAIN entries /\ PointsTo(entries, x, list[p])
  BY <1>1, <1>2, AllLinked
<1>4. PICK j \in 1..Len(list) : PointsTo(entries, y, list[j])
  BY DEF Linked
<1>5. j \notin (Len(list) - n + 1)..Len(list)
  BY <1>4 DEF KeysPopped, PointsTo
<1>6. j < p
  BY <1>0, <1>5
<1> QED
  BY <1>2, <1>3, <1>4, <1>6 DEF Ordered

\* The key popped last was used after those popped before it.
LEMMA PoppedLast ==
  ASSUME NEW list, NodesOK(list), NEW entries, Linked(list, entries), NoOrphans(list, entries),
         NEW order, Ordered(list, entries, order), NEW n \in 1..Len(list),
         NEW z, z = list[Len(list) - n + 1].key
  PROVE  /\ z \in DOMAIN entries
         /\ KeysPopped(list, n) = KeysPopped(list, n - 1) \cup {z}
         /\ z \notin KeysPopped(list, n - 1)
         /\ \A x \in KeysPopped(list, n - 1) : Before(order, z, x)
<1> DEFINE first == Len(list) - n + 1
<1>0. Len(list) \in Nat /\ first \in 1..Len(list) /\ Len(list) - (n - 1) + 1 = first + 1
  BY NodesTyped
<1>1. z = list[first].key
  OBVIOUS
<1>2. /\ KeysPopped(list, n) = {list[i].key : i \in first..Len(list)}
      /\ KeysPopped(list, n - 1) = {list[i].key : i \in first + 1..Len(list)}
  <2>1. KeysPopped(list, n) = {list[i].key : i \in first..Len(list)}
    BY DEF KeysPopped
  <2>2. KeysPopped(list, n - 1) = {list[i].key : i \in (Len(list) - (n - 1) + 1)..Len(list)}
    BY Zenon DEF KeysPopped
  <2> HIDE DEF first
  <2> QED
    BY <1>0, <2>1, <2>2
<1> HIDE DEF first
<1>3. first..Len(list) = {first} \cup (first + 1..Len(list))
  BY <1>0
<1>4. KeysPopped(list, n) = KeysPopped(list, n - 1) \cup {z}
  BY <1>1, <1>2, <1>3
<1>5. z \in DOMAIN entries /\ PointsTo(entries, z, list[first])
  BY <1>0, <1>1, AllLinked
<1>6. ASSUME NEW x \in KeysPopped(list, n - 1) PROVE x # z /\ Before(order, z, x)
  <2>1. PICK i \in first + 1..Len(list) : list[i].key = x
    BY <1>2
  <2>2. i \in 1..Len(list) /\ first < i
    BY <1>0
  <2>3. x \in DOMAIN entries /\ PointsTo(entries, x, list[i])
    BY <2>1, <2>2, AllLinked
  <2>4. x # z
    BY <1>0, <1>5, <2>2, <2>3 DEF PointsTo, NodesOK, IdsDistinct
  <2> QED
    BY <1>0, <1>5, <2>2, <2>3, <2>4 DEF Ordered
<1> QED
  BY <1>4, <1>5, <1>6

LEMMA EarlierIsYounger ==
  ASSUME OrderOK(recent), NEW k, NEW m, Before(recent, k, m)
  PROVE  Age(k) \in Nat /\ Age(m) \in Nat /\ Age(k) < Age(m)
<1>1. PICK a \in 1..Len(recent) : \E b \in 1..Len(recent) : a < b /\ recent[a] = k /\ recent[b] = m
  BY DEF Before
<1>2. PICK b \in 1..Len(recent) : a < b /\ recent[a] = k /\ recent[b] = m
  BY <1>1
<1>3. Age(k) \in 1..Len(recent) /\ recent[Age(k)] = k
  BY <1>2, Zenon DEF Age
<1>4. Age(m) \in 1..Len(recent) /\ recent[Age(m)] = m
  BY <1>2, Zenon DEF Age
<1>5. Age(k) = a /\ Age(m) = b
  BY <1>2, <1>3, <1>4 DEF OrderOK
<1> QED
  BY <1>2, <1>5

\* One more entry than those that stay.
LEMMA OneMore ==
  ASSUME NEW keys \in SUBSET Keys, IsFiniteSet(keys), NEW z \in Keys, z \notin keys
  PROVE  /\ Total(keys \cup {z}) = Total(keys) + Size[z]
         /\ Total(keys) \in Nat /\ Size[z] \in Nat
<1>1. \A x \in keys \cup {z} : Size[x] \in Int
  BY SizeIsNat
<1>2. SumFunctionOnSet(Size, keys \cup {z}) = Size[z] + SumFunctionOnSet(Size, keys)
  BY <1>1, SumWith
<1>3. Total(keys) \in Nat /\ Size[z] \in Nat
  BY TotalIsNat, SizeIsNat
<1> QED
  BY <1>2, <1>3 DEF Total

\* The bytes that were too many before the last node was popped.
LEMMA LastWasNeeded ==
  ASSUME NEW list, NEW entries, NEW used, CacheOK(list, entries, used), NoOrphans(list, entries),
         NEW order, Ordered(list, entries, order), NEW bytes \in Nat,
         NEW n, n = Evictions(used, entries, list, bytes), n # 0,
         NEW z, z = list[Len(list) - n + 1].key
  PROVE  Total(DOMAIN Survivors(entries, list, n)) + Size[z] + bytes > Capacity
<1>1. NodesOK(list) /\ Linked(list, entries) /\ EntriesOK(entries) /\ used = Total(DOMAIN entries)
  BY DEF CacheOK
<1>2. Len(list) \in Nat
  BY <1>1, NodesTyped
<1>3. /\ n \in 0..Len(list)
      /\ \A m \in 0..Len(list) : m < n => ~(UsedAfter(used, entries, list, m) + bytes <= Capacity)
  BY <1>1, EvictionsLeast
<1>4. n \in 1..Len(list) /\ n - 1 \in 0..Len(list) /\ n - 1 < n
  BY <1>2, <1>3
<1>5. ~(UsedAfter(used, entries, list, n - 1) + bytes <= Capacity)
  BY <1>3, <1>4
<1>6. /\ z \in DOMAIN entries /\ z \notin KeysPopped(list, n - 1)
      /\ KeysPopped(list, n) = KeysPopped(list, n - 1) \cup {z}
  BY <1>1, <1>4, PoppedLast
<1> DEFINE kept == DOMAIN entries \ KeysPopped(list, n)
<1>7. DOMAIN Survivors(entries, list, n) = kept
  BY Surviving
<1>8. UsedAfter(used, entries, list, n - 1) = Total(DOMAIN entries \ KeysPopped(list, n - 1))
  BY <1>1, LeftAfter
<1>9. DOMAIN entries \ KeysPopped(list, n - 1) = kept \cup {z} /\ z \notin kept
  BY <1>6
<1>10. kept \in SUBSET Keys /\ IsFiniteSet(kept) /\ z \in Keys
  BY <1>1, <1>6, FS_Subset DEF EntriesOK
<1>11. Total(kept \cup {z}) = Total(kept) + Size[z] /\ Total(kept) \in Nat /\ Size[z] \in Nat
  BY <1>9, <1>10, OneMore
<1> HIDE DEF kept
<1>12. ~(Total(kept) + Size[z] + bytes <= Capacity)
  BY <1>5, <1>8, <1>9, <1>11
<1> QED
  BY <1>7, <1>11, <1>12, CacheAssumption

\* What the property asks of a step.
EvictionStep ==
  \A k \in Evicted :
    /\ \A j \in DOMAIN entries_ \ Evicted : j = Head(recent') \/ Age(j) < Age(k)
    /\ (\A j \in Evicted : Age(k) <= Age(j)) => Bytes(entries_') + Size[k] > Capacity

LEMMA InsertEvicts ==
  ASSUME IInv, IInv', RecentInv, NoOrphans(lru_, entries_), NEW w \in Workers, Insert(w),
         recent' # recent
  PROVE  EvictionStep
<1> DEFINE k    == sample[w]
           old  == Dropped(k)
           n    == Evictions(old.used, old.entries, old.list, Size[k])
           kept == Survivors(old.entries, old.list, n)
           node == NewNode(Popped(old.list, n), k)
           popped == KeysPopped(old.list, n)
<1>0. k \in Keys /\ Size[k] \in Nat /\ OrderOK(recent)
  BY SizeIsNat DEF IInv, SamplesOK, Insert, RecentInv
<1>1. Size[k] <= Capacity /\ entries_' = Emplaced(kept, k, node) /\ recent' = Used(k)
  BY DEF Insert, cacheVars
<1>2. /\ CacheOK(old.list, old.entries, old.used) /\ k \notin DOMAIN old.entries
      /\ DOMAIN old.entries = DOMAIN entries_ \ {k}
      /\ Ordered(old.list, old.entries, recent) /\ NoOrphans(old.list, old.entries)
  BY DroppedKeeps, DroppedOrdered, DroppedNoOrphans DEF IInv
<1>3. /\ NodesOK(old.list) /\ Linked(old.list, old.entries) /\ EntriesOK(old.entries)
      /\ old.used = Total(DOMAIN old.entries)
  BY <1>2 DEF CacheOK
<1> HIDE DEF old, k
<1>4. n \in 0..Len(old.list) /\ Len(old.list) \in Nat
  BY <1>3, EvictionsLeast, NodesTyped
<1>5. DOMAIN kept = DOMAIN old.entries \ popped
  BY <1>3, LeftAfter
<1>6. DOMAIN entries_' = DOMAIN kept \cup {k}
  BY <1>1 DEF Emplaced
<1>7. Evicted = DOMAIN old.entries \cap popped
  BY <1>2, <1>5, <1>6 DEF Evicted
<1>8. Head(recent') = k
  BY <1>1 DEF Used
<1>9. ASSUME NEW x \in Evicted, NEW j \in DOMAIN entries_ \ Evicted, j # k
      PROVE  Age(j) < Age(x)
  <2>1. x \in popped /\ j \in DOMAIN old.entries /\ j \notin popped
    BY <1>2, <1>7, <1>9
  <2> HIDE DEF n
  <2>2. Before(recent, j, x)
    BY <1>2, <1>3, <1>4, <2>1, PoppedAreOlder
  <2> QED
    BY <1>0, <2>2, EarlierIsYounger
<1>10. ASSUME NEW x \in Evicted, \A j \in Evicted : Age(x) <= Age(j)
       PROVE  Bytes(entries_') + Size[x] > Capacity
  <2> DEFINE z == old.list[Len(old.list) - n + 1].key
  <2>1. x \in popped /\ n # 0
    <3>1. x \in popped
      BY <1>7
    <3>2. ASSUME n = 0 PROVE popped = {}
      <4>1. (Len(old.list) - n + 1)..Len(old.list) = {}
        BY <1>4, <3>2
      <4> QED
        BY <4>1 DEF KeysPopped
    <3> QED
      BY <3>1, <3>2
  <2>2. Total(DOMAIN kept) + Size[z] + Size[k] > Capacity
    BY <1>0, <1>2, <2>1, LastWasNeeded
  <2>3. n \in 1..Len(old.list)
    BY <1>4, <2>1
  <2> HIDE DEF n
  <2>4. /\ z \in DOMAIN old.entries /\ popped = KeysPopped(old.list, n - 1) \cup {z}
        /\ \A y \in KeysPopped(old.list, n - 1) : Before(recent, z, y)
    BY <1>2, <1>3, <2>3, PoppedLast
  <2> HIDE DEF z
  <2>5. x = z
    <3> SUFFICES ASSUME x # z PROVE FALSE
      OBVIOUS
    <3>1. Before(recent, z, x)
      BY <2>1, <2>4
    <3>2. Age(z) \in Nat /\ Age(x) \in Nat /\ Age(z) < Age(x)
      BY <1>0, <3>1, EarlierIsYounger
    <3>3. z \in Evicted
      BY <1>7, <2>4
    <3>4. Age(x) <= Age(z)
      BY <1>10, <3>3
    <3> QED
      BY <3>2, <3>4
  <2>6. Bytes(entries_') = Total(DOMAIN kept \cup {k})
    <3>1. EntriesOK(entries_)'
      BY DEF IInv, CacheOK
    <3>2. EntriesOK(entries_')
      BY <3>1 DEF EntriesOK
    <3>3. Bytes(entries_') = Total(DOMAIN entries_')
      BY <3>2, BytesTotal
    <3> QED
      BY <1>6, <3>3
  <2>7. DOMAIN kept \in SUBSET Keys /\ IsFiniteSet(DOMAIN kept) /\ k \notin DOMAIN kept
    BY <1>2, <1>3, <1>5, FS_Subset DEF EntriesOK
  <2>8. Size[z] \in Nat
    BY <1>3, <2>4, SizeIsNat DEF EntriesOK
  <2> HIDE DEF kept
  <2>9. Total(DOMAIN kept \cup {k}) = Total(DOMAIN kept) + Size[k] /\ Total(DOMAIN kept) \in Nat
    BY <1>0, <2>7, OneMore
  <2> QED
    BY <1>0, <2>2, <2>5, <2>6, <2>8, <2>9, CacheAssumption
<1> QED
  BY <1>8, <1>9, <1>10 DEF EvictionStep

\* An insertion evicts in the order of the last use, hits included, and no
\* more than it needs, as long as no failed insertion has left a node behind
\* (DecodedImageCache::insert, evict_until_fits and the splice in find).
THEOREM OldestEvicted == Spec => EvictsLeastRecentlyUsed
<1>1. IInv /\ IInv' /\ RecentInv /\ [Next]_vars
        => [Orphans = {} /\ recent' # recent => EvictionStep]_vars
  <2> SUFFICES ASSUME IInv, IInv', RecentInv, Next, Orphans = {}, recent' # recent
               PROVE  EvictionStep
    BY DEF vars, cacheVars
  <2>1. NoOrphans(lru_, entries_)
    BY DEF Orphans, NoOrphans
  <2>2. PICK w \in Workers : (\E k \in Keys : Find(w, k)) \/ Decode(w) \/ Insert(w)
    BY DEF Next
  <2>3. CASE \E k \in Keys : Find(w, k)
    <3>1. Evicted = {}
      BY <2>3 DEF Find, Evicted
    <3> QED
      BY <3>1 DEF EvictionStep
  <2>4. CASE Decode(w)
    BY <2>4 DEF Decode, cacheVars
  <2>5. CASE Insert(w)
    BY <2>1, <2>5, InsertEvicts
  <2> QED
    BY <2>2, <2>3, <2>4, <2>5
<1>2. IInv /\ IInv' /\ RecentInv /\ [Next]_vars
        => [Orphans = {} /\ recent' # recent =>
              \A k \in Evicted :
                /\ \A j \in DOMAIN entries_ \ Evicted : j = Head(recent') \/ Age(j) < Age(k)
                /\ (\A j \in Evicted : Age(k) <= Age(j)) => Bytes(entries_') + Size[k] > Capacity]_vars
  BY <1>1 DEF EvictionStep
<1> QED
  BY <1>2, RecencyKept, PTL DEF Spec, EvictsLeastRecentlyUsed

=============================================================================
