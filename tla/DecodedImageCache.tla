------------------------- MODULE DecodedImageCache -------------------------
(***************************************************************************)
(* kl::DecodedImageCache and the workers that share it: for each sample a  *)
(* worker looks its image up, decodes it when it is missing and inserts    *)
(* it.  find and insert hold mutex_ and are one action each; decoding runs *)
(* between them unlocked, so several workers may miss, decode and insert   *)
(* one image.                                                              *)
(*                                                                         *)
(* The list lru_ and the map entries_ refer to each other: an entry has an *)
(* iterator into the list, a list node has the key of an entry.  Nodes have*)
(* an identity, as an insertion that runs out of memory leaves a node      *)
(* without an entry.  An image is known by its key, the normalised path.   *)
(***************************************************************************)
EXTENDS Integers, Sequences, FiniteSets, FiniteSetsExt, SequencesExt, Functions

CONSTANTS
  Workers,   \* the loader workers
  Keys,      \* normalised paths of the dataset's files
  Size,      \* bytes of each decoded image
  Capacity,  \* capacity_bytes_
  MayFail    \* decoding throws, or insert runs out of memory

ASSUME CacheAssumption ==
  /\ Size \in [Keys -> Nat] /\ Capacity \in Nat /\ MayFail \in BOOLEAN

VARIABLES
  lru_,         \* list nodes [key, id], the most recently used first
  entries_,     \* cached keys -> [bytes, lru_iterator], the iterator a node id
  used_bytes_,
  pc,           \* "idle", "decode", "insert" or, once it threw, "stopped"
  sample,       \* the key each worker is preparing
  recent        \* history: keys in the order of their last use, latest first

cacheVars == <<lru_, entries_, used_bytes_, recent>>
vars == <<cacheVars, pc, sample>>

-----------------------------------------------------------------------------
Goto(w, label) == pc' = [pc EXCEPT ![w] = label]

\* The place of k among the keys used, 1 for the latest.
Age(k) == CHOOSE i \in 1..Len(recent) : recent[i] = k

\* k becomes the most recently used key.
Used(k) == <<k>> \o (IF k \in ToSet(recent) THEN RemoveAt(recent, Age(k)) ELSE recent)

\* Where in the list the iterator with this identity points.
Place(list, id) == CHOOSE i \in 1..Len(list) : list[i].id = id

\* list.push_front(k): the new node differs from all live ones.
NewNode(list, k) ==
  [key |-> k, id |-> CHOOSE i \in 0..Len(list) : \A n \in ToSet(list) : n.id # i]

\* entries_.emplace(k), the iterator pointing to node.
Emplaced(entries, k, node) ==
  [x \in DOMAIN entries \cup {k} |->
     IF x = k THEN [bytes |-> Size[k], lru_iterator |-> node.id] ELSE entries[x]]

Bytes(entries) ==
  SumFunctionOnSet([k \in DOMAIN entries |-> entries[k].bytes], DOMAIN entries)

\* What is left of a list and its entries after n nodes were popped from the
\* back of the list.
Popped(list, n) == SubSeq(list, 1, Len(list) - n)
KeysPopped(list, n) == {list[i].key : i \in (Len(list) - n + 1)..Len(list)}
Survivors(entries, list, n) == Restrict(entries, DOMAIN entries \ KeysPopped(list, n))

\* used_bytes_ once the entries of the popped keys are gone.
UsedAfter(used, entries, list, n) ==
  used - Bytes(Restrict(entries, DOMAIN entries \cap KeysPopped(list, n)))

\* evict_until_fits: how many nodes it pops.
Evictions(used, entries, list, bytes) ==
  Min({n \in 0..Len(list) : \/ n = Len(list)
                            \/ UsedAfter(used, entries, list, n) + bytes <= Capacity})

-----------------------------------------------------------------------------
\* Mutant: a hit does not move the image to the front.
FindInPlace(w, k) ==
  /\ pc[w] = "idle"
  /\ \/ /\ k \in DOMAIN entries_ /\ recent' = Used(k) /\ UNCHANGED <<lru_, pc, sample>>
     \/ /\ k \notin DOMAIN entries_
        /\ Goto(w, "decode") /\ sample' = [sample EXCEPT ![w] = k]
        /\ UNCHANGED <<lru_, recent>>
  /\ UNCHANGED <<entries_, used_bytes_>>

\* find: a hit is spliced to the front of the list; after a miss the worker
\* decodes the image.
Find(w, k) ==
  /\ pc[w] = "idle"
  /\ \/ /\ k \in DOMAIN entries_
        /\ LET i == Place(lru_, entries_[k].lru_iterator)
           IN lru_' = <<lru_[i]>> \o RemoveAt(lru_, i)
        /\ recent' = Used(k) /\ UNCHANGED <<pc, sample>>
     \/ /\ k \notin DOMAIN entries_
        /\ Goto(w, "decode") /\ sample' = [sample EXCEPT ![w] = k]
        /\ UNCHANGED <<lru_, recent>>
  /\ UNCHANGED <<entries_, used_bytes_>>

Decode(w) ==
  /\ pc[w] = "decode"
  /\ Goto(w, "insert") \/ (MayFail /\ Goto(w, "stopped"))
  /\ UNCHANGED <<cacheVars, sample>>

\* Mutant: the bytes of the entry that is replaced stay counted.
DroppedCounted(k) ==
  IF k \notin DOMAIN entries_ THEN [list |-> lru_, entries |-> entries_, used |-> used_bytes_]
  ELSE [list    |-> RemoveAt(lru_, Place(lru_, entries_[k].lru_iterator)),
        entries |-> Restrict(entries_, DOMAIN entries_ \ {k}),
        used    |-> used_bytes_]

\* Mutant: the node at the back of the list is erased in its place.
DroppedOldest(k) ==
  IF k \notin DOMAIN entries_ THEN [list |-> lru_, entries |-> entries_, used |-> used_bytes_]
  ELSE [list    |-> Front(lru_),
        entries |-> Restrict(entries_, DOMAIN entries_ \ {k}),
        used    |-> used_bytes_ - entries_[k].bytes]

\* insert first drops the entry that k already has.
Dropped(k) ==
  IF k \notin DOMAIN entries_ THEN [list |-> lru_, entries |-> entries_, used |-> used_bytes_]
  ELSE [list    |-> RemoveAt(lru_, Place(lru_, entries_[k].lru_iterator)),
        entries |-> Restrict(entries_, DOMAIN entries_ \ {k}),
        used    |-> used_bytes_ - entries_[k].bytes]

\* insert: an image larger than the cache is not kept; otherwise entries are
\* evicted until it fits and it becomes the most recently used one.  When
\* push_front throws the evictions stay done; when emplace throws, the list
\* keeps the new node as well.  The worker then stops.
Insert(w) ==
  LET k    == sample[w]
      old  == Dropped(k)
      n    == Evictions(old.used, old.entries, old.list, Size[k])
      rest == Popped(old.list, n)
      kept == Survivors(old.entries, old.list, n)
      left == UsedAfter(old.used, old.entries, old.list, n)
      node == NewNode(rest, k)
  IN
  /\ pc[w] = "insert"
  /\ \/ /\ Capacity = 0 \/ Size[k] > Capacity
        /\ Goto(w, "idle") /\ UNCHANGED cacheVars
     \/ /\ Capacity # 0 /\ Size[k] <= Capacity
        /\ lru_' = <<node>> \o rest
        /\ entries_' = Emplaced(kept, k, node)
        /\ used_bytes_' = left + Size[k] /\ recent' = Used(k)
        /\ Goto(w, "idle")
     \/ /\ MayFail /\ Capacity # 0 /\ Size[k] <= Capacity
        /\ lru_' \in {rest, <<node>> \o rest}
        /\ entries_' = kept /\ used_bytes_' = left
        /\ Goto(w, "stopped") /\ UNCHANGED recent
  /\ UNCHANGED sample

Init ==
  /\ lru_ = <<>> /\ entries_ = <<>> /\ used_bytes_ = 0 /\ recent = <<>>
  /\ pc = [w \in Workers |-> "idle"]
  /\ sample \in [Workers -> {CHOOSE k \in Keys : TRUE}]

Next == \E w \in Workers : (\E k \in Keys : Find(w, k)) \/ Decode(w) \/ Insert(w)

Spec == Init /\ [][Next]_vars

-----------------------------------------------------------------------------
(* Properties. *)

\* The bytes counted are those of the cached images, and they stay within
\* the capacity the budget granted, however workers that missed the same
\* image insert it and wherever an insertion fails.
BytesAccounted == used_bytes_ = Bytes(entries_) /\ used_bytes_ <= Capacity

\* The iterator of every entry points to a live list node with its key, so
\* that splice and erase are defined; a node that a failed insertion left
\* behind is never mistaken for it.
IteratorsValid ==
  \A k \in DOMAIN entries_ :
    \E i \in 1..Len(lru_) : lru_[i] = [key |-> k, id |-> entries_[k].lru_iterator]

\* List nodes without an image, left behind by failed insertions.
Orphans == {i \in 1..Len(lru_) : \A k \in DOMAIN entries_ : entries_[k].lru_iterator # lru_[i].id}

Evicted == DOMAIN entries_ \ DOMAIN entries_'

\* While no failed insertion has left a node behind, an insertion takes images
\* from the cache in the order of their last use, hits included, and only when
\* the new image does not fit beside them: with the last one evicted the cache
\* would be over capacity.
EvictsLeastRecentlyUsed ==
  [][Orphans = {} /\ recent' # recent =>
       \A k \in Evicted :
         /\ \A j \in DOMAIN entries_ \ Evicted : j = Head(recent') \/ Age(j) < Age(k)
         /\ (\A j \in Evicted : Age(k) <= Age(j)) => Bytes(entries_') + Size[k] > Capacity]_vars

=============================================================================
