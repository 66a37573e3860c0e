---------------------------- MODULE MemoryBudget ----------------------------
(***************************************************************************)
(* How DataLoaders share memory: the registry of one default               *)
(* DataLoaderMemoryBudget per device (a weak_ptr each), the reservations   *)
(* its loaders make while they are constructed, and their release.  The    *)
(* methods of a budget hold its mutex and those of the registry another,   *)
(* so each is one action; obtaining a budget, reserving from it, finishing *)
(* the constructor, releasing and dropping the budget are separate steps   *)
(* of a loader, which interleave with those of other loaders.              *)
(***************************************************************************)
EXTENDS Integers, FiniteSets, Functions

CONSTANTS
  Loaders,            \* DataLoader::Impl objects, constructed by any threads
  Devices, Cpu,       \* device types, and the one without device storage
  Budgets, NoBudget,  \* BOUND: budget objects; nullptr
  Counts,             \* BOUND: arguments of set_expected_loader_count
  Capacities,         \* BOUND: capacities a new budget may find it can use
  Requests,           \* BOUND: what loaders ask for
  MaxHostPrefetch, MaxDevicePrefetch,  \* the policy's maximum batch counts
  SizeMax             \* the largest std::size_t

Kinds == {"cache", "host", "device"}

\* options_: automatic_memory_planning, the bytes of a batch, loader_workers
\* and, for manual planning, the requested bytes and batch counts.
Sizes   == 0..SizeMax
Request == [auto : BOOLEAN, bytes : Sizes, workers : Sizes, cache : Sizes, host : Sizes,
            device : Sizes]

ASSUME SizesAssumption ==
  /\ Counts \subseteq Nat \ {0}
  /\ Capacities \subseteq [Kinds -> Sizes]
  /\ Requests \subseteq Request
  /\ SizeMax \in Nat \ {0}
  /\ MaxHostPrefetch \in Nat \ {0} /\ MaxDevicePrefetch \in Nat \ {0}

ASSUME BudgetsAssumption == NoBudget \notin Budgets /\ Cpu \in Devices

VARIABLES
  expected,   \* expected_loader_count_storage()
  slot,       \* default_budget_storage(d), NoBudget when empty or expired
  count,      \* expected_loader_count_ of each budget
  capacity,   \* its *_capacity_bytes_
  reserved,   \* its reserved_*_bytes_
  lost,       \* what failed constructors reserved and nobody will release
  state,      \* where each loader is in its life
  device, budget,    \* its device_ and memory_budget_
  request,           \* its options_
  reservation,       \* its memory_reservation_, bytes by kind
  batches            \* the plan's prefetch batches, by kind

budgetVars == <<expected, slot, count, capacity, reserved, lost>>
loaderVars == <<state, device, budget, request, reservation, batches>>
vars == <<budgetVars, loaderVars>>

Nil == [k \in Kinds |-> 0]
NoRequest == [auto |-> FALSE, bytes |-> 0, workers |-> 0, cache |-> 0, host |-> 0, device |-> 0]

-----------------------------------------------------------------------------
(* std::shared_ptr and std::weak_ptr *)

Alive(b) == \E l \in Loaders : budget[l] = b

\* slot.lock() returns nullptr once the budget is destroyed; Unreferenced
\* empties the slot at that moment.
Lock(d) == slot[d]

\* Loader l gives its reference up, having lost what it reserved or not: with
\* the last reference the budget goes and every weak_ptr to it expires.
Unreferenced(l, leak) ==
  LET b == budget[l]
      last == \A m \in Loaders \ {l} : budget[m] # b
      Gone(f, x) == IF last THEN [f EXCEPT ![b] = x] ELSE f
  IN /\ slot' = [d \in Devices |-> IF last /\ slot[d] = b THEN NoBudget ELSE slot[d]]
     /\ count' = Gone(count, 1) /\ capacity' = Gone(capacity, Nil)
     /\ reserved' = Gone(reserved, Nil)
     /\ lost' = Gone([lost EXCEPT ![b] = [k \in Kinds |-> @[k] + leak[k]]], Nil)

\* make_shared for the default budget of device d: its count is the one in
\* force and its capacities depend on the memory available now.
Create(d, b) ==
  /\ ~Alive(b)
  /\ slot' = [slot EXCEPT ![d] = b]
  /\ count' = [count EXCEPT ![b] = expected]
  /\ \E c \in Capacities :
       capacity' = [capacity EXCEPT ![b] = IF d = Cpu THEN [c EXCEPT !["device"] = 0] ELSE c]
  /\ reserved' = [reserved EXCEPT ![b] = Nil] /\ lost' = [lost EXCEPT ![b] = Nil]

-----------------------------------------------------------------------------
(* The arithmetic of a budget b.  Sums wrap; products are checked. *)

AtMost(x, y) == IF x <= y THEN x ELSE y

Plus(x, y) == (x + y) % (SizeMax + 1)

\* Mutant: the capacity is not compared with what is reserved.
RemainingIgnoringReserved(b, k) == capacity[b][k]

Remaining(b, k) ==
  IF reserved[b][k] >= capacity[b][k] THEN 0 ELSE capacity[b][k] - reserved[b][k]

\* Mutant: a loader may take the whole capacity.
FairAll(b, k) == capacity[b][k]

Fair(b, k) == capacity[b][k] \div count[b]

\* calculate_auto_prefetch_batches: it throws, giving the empty set, unless
\* the share pays for one batch more than the extra ones.
AutoPrefetch(share, bytes, extra, most) ==
  IF Plus(extra, 1) * bytes > SizeMax \/ share < Plus(extra, 1) * bytes THEN {}
  ELSE LET n == AtMost((share \div bytes) - extra, most)
       IN {IF n < 1 THEN 1 ELSE n}

\* checked_batch_bytes and the comparison that follows it: the bytes of n
\* batches can be computed and remain.
Affordable(b, k, n, bytes) == n * bytes <= SizeMax /\ n * bytes <= Remaining(b, k)

\* The prefetch counts the plan chooses, or is given, for a stage.
HostBatches(b, r) ==
  IF r.auto
  THEN AutoPrefetch(AtMost(Fair(b, "host"), Remaining(b, "host")), r.bytes, r.workers, MaxHostPrefetch)
  ELSE {r.host} \ {0}

DeviceBatches(b, r, d) ==
  CASE d = Cpu            -> {0}
    [] d # Cpu /\ r.auto  -> AutoPrefetch(AtMost(Fair(b, "device"), Remaining(b, "device")),
                                          r.bytes, 1, MaxDevicePrefetch)
    [] d # Cpu /\ ~r.auto -> {r.device} \ {0}

CacheBytes(b, r) ==
  AtMost(IF r.auto THEN Fair(b, "cache") ELSE r.cache, Remaining(b, "cache"))

\* Mutant: the storages the workers fill are not paid for.
PrefetchOnly(k, n, r) == n

\* Batches a reservation pays for: n prefetched ones, one per worker on the
\* host and one for the transfer worker on the device.
PaidBatches(k, n, r) == IF k = "host" THEN Plus(n, r.workers) ELSE Plus(n, 1)

\* The counts the budget can pay for.
PaidHost(b, r) ==
  {n \in HostBatches(b, r) : Affordable(b, "host", PaidBatches("host", n, r), r.bytes)}

PaidDevice(b, r, d) ==
  {n \in DeviceBatches(b, r, d) :
     d = Cpu \/ Affordable(b, "device", PaidBatches("device", n, r), r.bytes)}

\* A MemoryPlan with h and v prefetched batches, and the bytes it reserves.
Plan(b, r, d, h, v) ==
  [batches |-> [k \in Kinds |-> CASE k = "cache" -> 0 [] k = "host" -> h [] k = "device" -> v],
   bytes   |-> [k \in Kinds |-> CASE k = "cache"  -> CacheBytes(b, r)
                                 [] k = "host"   -> PaidBatches("host", h, r) * r.bytes
                                 [] k = "device" -> IF d = Cpu THEN 0
                                                    ELSE PaidBatches("device", v, r) * r.bytes]]

\* What reserve_auto and reserve_manual return to a loader on device d that
\* asks for r: the set is empty when they throw.
Plans(b, r, d) ==
  IF r.bytes = 0 \/ r.workers = 0 THEN {}
  ELSE {Plan(b, r, d, h, v) : h \in PaidHost(b, r), v \in PaidDevice(b, r, d)}

-----------------------------------------------------------------------------
\* Mutant: the count may change while a default budget is in use.
SetExpectedAnytime(n) ==
  /\ expected' = n
  /\ UNCHANGED <<slot, count, capacity, reserved, lost, loaderVars>>

\* set_expected_loader_count throws while a default budget is alive.
SetExpectedLoaderCount(n) ==
  /\ \A d \in Devices : Lock(d) = NoBudget
  /\ expected' = n
  /\ UNCHANGED <<slot, count, capacity, reserved, lost, loaderVars>>

\* Mutant: every loader gets a budget of its own.
ObtainNew(l, d, r) ==
  /\ state[l] = "none"
  /\ \E b \in Budgets : Create(d, b) /\ budget' = [budget EXCEPT ![l] = b]
  /\ state' = [state EXCEPT ![l] = "constructing"]
  /\ device' = [device EXCEPT ![l] = d] /\ request' = [request EXCEPT ![l] = r]
  /\ UNCHANGED <<expected, reservation, batches>>

\* default_data_loader_memory_budget: the device's budget, or a new one.
Obtain(l, d, r) ==
  /\ state[l] = "none"
  /\ \/ /\ Lock(d) # NoBudget
        /\ budget' = [budget EXCEPT ![l] = Lock(d)]
        /\ UNCHANGED <<slot, count, capacity, reserved, lost>>
     \/ /\ Lock(d) = NoBudget
        /\ \E b \in Budgets : Create(d, b) /\ budget' = [budget EXCEPT ![l] = b]
  /\ state' = [state EXCEPT ![l] = "constructing"]
  /\ device' = [device EXCEPT ![l] = d] /\ request' = [request EXCEPT ![l] = r]
  /\ UNCHANGED <<expected, reservation, batches>>

\* reserve_auto or reserve_manual succeeds.
Reserve(l) ==
  /\ state[l] = "constructing"
  /\ \E p \in Plans(budget[l], request[l], device[l]) :
       /\ reserved' = [reserved EXCEPT ![budget[l]] = [k \in Kinds |-> @[k] + p.bytes[k]]]
       /\ reservation' = [reservation EXCEPT ![l] = p.bytes]
       /\ batches' = [batches EXCEPT ![l] = p.batches]
  /\ state' = [state EXCEPT ![l] = "reserved"]
  /\ UNCHANGED <<expected, slot, count, capacity, lost, device, budget, request>>

\* The loader's members are gone, its reference to the budget with them.
Vanish(l, leak) ==
  /\ Unreferenced(l, leak)
  /\ state' = [state EXCEPT ![l] = "none"]
  /\ budget' = [budget EXCEPT ![l] = NoBudget]
  /\ reservation' = [reservation EXCEPT ![l] = Nil]
  /\ batches' = [batches EXCEPT ![l] = Nil]
  /\ device' = [device EXCEPT ![l] = Cpu]
  /\ request' = [request EXCEPT ![l] = NoRequest]
  /\ UNCHANGED expected

\* The reservation is refused, so the constructor throws.
Refuse(l) ==
  /\ state[l] = "constructing"
  /\ Plans(budget[l], request[l], device[l]) = {}
  /\ Vanish(l, Nil)

\* A queue, a pool or the transfer stream cannot be created: ~Impl does not
\* run for an object whose constructor throws, and nothing releases.
ConstructionFails(l) ==
  /\ state[l] = "reserved"
  /\ Vanish(l, reservation[l])

\* The capacities of the pools the constructor creates from the plan.
PoolCapacity(l, k) ==
  CASE k = "host"                    -> Plus(batches[l]["host"], request[l].workers)
    [] k # "host" /\ device[l] # Cpu -> Plus(batches[l]["device"], 1)
    [] k # "host" /\ device[l] = Cpu -> 0

\* A pool refuses a capacity of zero, which a wrapped sum may give.
ConstructionEnds(l) ==
  /\ state[l] = "reserved" /\ PoolCapacity(l, "host") > 0
  /\ state' = [state EXCEPT ![l] = "live"]
  /\ UNCHANGED <<budgetVars, device, budget, request, reservation, batches>>

\* Mutant: the bytes are given back twice.
ReleaseTwice(l) ==
  /\ state[l] = "live"
  /\ reserved' = [reserved EXCEPT ![budget[l]] = [k \in Kinds |-> @[k] - 2 * reservation[l][k]]]
  /\ state' = [state EXCEPT ![l] = "released"]
  /\ UNCHANGED <<expected, slot, count, capacity, lost, device, budget, request, reservation, batches>>

\* Mutant: the bytes of device storages are not given back.
ReleaseWithoutDevice(l) ==
  /\ state[l] = "live"
  /\ reserved' = [reserved EXCEPT ![budget[l]] =
       [k \in Kinds |-> IF k = "device" THEN @[k] ELSE @[k] - reservation[l][k]]]
  /\ state' = [state EXCEPT ![l] = "released"]
  /\ UNCHANGED <<expected, slot, count, capacity, lost, device, budget, request, reservation, batches>>

\* ~Impl after stop_workers: release, which clamps at zero.
Release(l) ==
  /\ state[l] = "live"
  /\ reserved' = [reserved EXCEPT ![budget[l]] =
       [k \in Kinds |-> IF reservation[l][k] > @[k] THEN 0 ELSE @[k] - reservation[l][k]]]
  /\ state' = [state EXCEPT ![l] = "released"]
  /\ UNCHANGED <<expected, slot, count, capacity, lost, device, budget, request, reservation, batches>>

\* The members of Impl are destroyed: pools, cache and the budget reference.
Destroyed(l) == state[l] = "released" /\ Vanish(l, Nil)

Init ==
  /\ expected = 1
  /\ slot = [d \in Devices |-> NoBudget]
  /\ count = [b \in Budgets |-> 1] /\ capacity = [b \in Budgets |-> Nil]
  /\ reserved = [b \in Budgets |-> Nil] /\ lost = [b \in Budgets |-> Nil]
  /\ state = [l \in Loaders |-> "none"] /\ budget = [l \in Loaders |-> NoBudget]
  /\ device = [l \in Loaders |-> Cpu]
  /\ request = [l \in Loaders |-> NoRequest]
  /\ reservation = [l \in Loaders |-> Nil] /\ batches = [l \in Loaders |-> Nil]

LoaderStep(l) ==
  \/ \E d \in Devices, r \in Requests : Obtain(l, d, r)
  \/ Reserve(l) \/ Refuse(l) \/ ConstructionFails(l) \/ ConstructionEnds(l)
  \/ Release(l) \/ Destroyed(l)

Next ==
  \/ \E n \in Counts : SetExpectedLoaderCount(n)
  \/ \E l \in Loaders : LoaderStep(l)

Spec == Init /\ [][Next]_vars

-----------------------------------------------------------------------------
(* Properties. *)

\* Types of the variables.
TypeOK ==
  /\ expected \in Nat \ {0}
  /\ slot \in [Devices -> Budgets \cup {NoBudget}]
  /\ count \in [Budgets -> Nat \ {0}]
  /\ capacity \in [Budgets -> [Kinds -> Nat]] /\ reserved \in [Budgets -> [Kinds -> Nat]]
  /\ lost \in [Budgets -> [Kinds -> Nat]]
  /\ state \in [Loaders -> {"none", "constructing", "reserved", "live", "released"}]
  /\ device \in [Loaders -> Devices] /\ budget \in [Loaders -> Budgets \cup {NoBudget}]
  /\ request \in [Loaders -> Request]
  /\ reservation \in [Loaders -> [Kinds -> Nat]] /\ batches \in [Loaders -> [Kinds -> Nat]]

\* The loaders whose reservation from b stands.
Holders(b) == {l \in Loaders : budget[l] = b /\ state[l] \in {"reserved", "live"}}

\* Whatever loaders race for a budget, it never promises more than it has
\* (the remaining_* tests of reserve_auto and reserve_manual).
WithinCapacity ==
  \A b \in Budgets, k \in Kinds : Alive(b) => reserved[b][k] <= capacity[b][k]

\* What a budget counts as reserved is exactly what standing reservations
\* took, plus what constructors that failed half-way took with them; so
\* release never has to clamp, and memory comes back.
ReservedIsHeld ==
  \A b \in Budgets, k \in Kinds : Alive(b) =>
    reserved[b][k] = lost[b][k]
      + SumFunctionOnSet([l \in Loaders |-> reservation[l][k]], Holders(b))

\* The storages that the pools of live loaders may allocate fit together
\* within the memory the budget found available, on the host and on the
\* device.
StorageFits ==
  \A b \in Budgets, k \in {"host", "device"} : Alive(b) =>
    SumFunctionOnSet([l \in Loaders |-> PoolCapacity(l, k) * request[l].bytes], Holders(b))
      <= capacity[b][k]

\* Two loaders on a device share its budget while either lives, so their
\* reservations are charged to the same capacity (the weak_ptr slots of the
\* registry, read and filled under one mutex).
OneBudgetPerDevice ==
  \A l, m \in Loaders :
    state[l] # "none" /\ state[m] # "none" /\ device[l] = device[m] => budget[l] = budget[m]

\* A live budget divides its capacity by the count in force: the setter is
\* refused while one exists, on any device.
CountInForce == \A b \in Budgets : Alive(b) => count[b] = expected

\* A share that pays for the smallest plan of r.
ShareFits(b, r, d) ==
  /\ Fair(b, "host") >= (r.workers + 1) * r.bytes
  /\ d # Cpu => Fair(b, "device") >= 2 * r.bytes

\* What expected_loader_count is for: as long as only automatic loaders hold
\* reservations, none was lost and fewer than the expected number are held,
\* the next automatic loader whose smallest plan fits its share is served.
ExpectedLoadersServed ==
  \A l \in Loaders :
    LET b == budget[l] IN
    /\ state[l] = "constructing" /\ request[l].auto
    /\ request[l].bytes > 0 /\ request[l].workers > 0
    /\ lost[b] = Nil
    /\ \A m \in Holders(b) : request[m].auto
    /\ Cardinality(Holders(b)) < count[b]
    /\ ShareFits(b, request[l], device[l])
    => Plans(b, request[l], device[l]) # {}

=============================================================================
