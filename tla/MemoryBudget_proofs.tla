------------------------ MODULE MemoryBudget_proofs ------------------------
(***************************************************************************)
(* For any numbers of loaders, devices and budget objects, any requests    *)
(* and any capacities: a budget never promises more than it has, loaders   *)
(* on one device share one budget, the expected loader count does not      *)
(* change while a budget that divides by it is in use, what is reserved is *)
(* what standing reservations took, the pools they pay for fit together,   *)
(* and the expected number of automatic loaders is served.                 *)
(***************************************************************************)
EXTENDS MemoryBudget, Counting

\* A loader refers to a budget from the moment it obtained it until its
\* members are destroyed, and while it does its device's slot names it.
SlotsAgree ==
  \A l \in Loaders :
    /\ state[l] = "none" <=> budget[l] = NoBudget
    /\ state[l] # "none" => slot[device[l]] = budget[l]

\* A slot that has not expired names a budget somebody refers to, and no
\* two slots name the same one.
SlotsAlive ==
  /\ \A d \in Devices : slot[d] # NoBudget => Alive(slot[d])
  /\ \A d, e \in Devices : slot[d] = slot[e] /\ slot[d] # NoBudget => d = e

Fits == \A b \in Budgets, k \in Kinds : reserved[b][k] <= capacity[b][k]

IInv == TypeOK /\ SlotsAgree /\ SlotsAlive /\ Fits /\ CountInForce

-----------------------------------------------------------------------------
LEMMA NilType == Nil \in [Kinds -> Nat]
BY DEF Nil

LEMMA CapacitiesType == Capacities \subseteq [Kinds -> Nat]
BY SizesAssumption DEF Sizes

\* What remains of a capacity fits beside what is reserved.
LEMMA RemainingFits ==
  ASSUME TypeOK, Fits, NEW b \in Budgets, NEW k \in Kinds
  PROVE  Remaining(b, k) \in Nat /\ reserved[b][k] + Remaining(b, k) <= capacity[b][k]
BY DEF TypeOK, Fits, Remaining

\* The bytes of a plan are numbers and fit in what remains, kind by kind:
\* the cache is cut to it, storage is compared with it.
LEMMA PlanFits ==
  ASSUME TypeOK, Fits, NEW b \in Budgets, NEW r \in Request, NEW d \in Devices,
         NEW p \in Plans(b, r, d)
  PROVE  /\ p.bytes \in [Kinds -> Nat] /\ p.batches \in [Kinds -> Nat]
         /\ \A k \in Kinds : p.bytes[k] <= Remaining(b, k)
<1>. r.bytes \in Nat /\ r.workers \in Nat /\ r.cache \in Nat /\ r.host \in Nat /\ r.device \in Nat
     /\ r.auto \in BOOLEAN
  BY SizesAssumption DEF Request, Sizes
<1>1. PICK h \in PaidHost(b, r), v \in PaidDevice(b, r, d) : p = Plan(b, r, d, h, v)
  BY DEF Plans
<1>2. \A k \in Kinds : Remaining(b, k) \in Nat /\ Fair(b, k) \in Nat
  <2>. TAKE k \in Kinds
  <2>1. Remaining(b, k) \in Nat BY RemainingFits
  <2>2. capacity[b][k] \in Nat /\ count[b] \in Nat \ {0} BY DEF TypeOK
  <2>3. Fair(b, k) \in Nat BY <2>2 DEF Fair
  <2>. QED BY <2>1, <2>3
<1>3. "cache" \in Kinds /\ "host" \in Kinds /\ "device" \in Kinds BY DEF Kinds
<1>4. ASSUME NEW s \in Nat, NEW x \in Nat, NEW m \in Nat \ {0}, r.bytes # 0
      PROVE  AutoPrefetch(s, r.bytes, x, m) \subseteq Nat
  <2>1. s \div r.bytes \in Nat BY <1>4
  <2>. DEFINE n == AtMost((s \div r.bytes) - x, m)
  <2>2. n \in Int BY <1>4, <2>1 DEF AtMost
  <2>3. (IF n < 1 THEN 1 ELSE n) \in Nat BY <2>2
  <2>. HIDE DEF n
  <2>4. AutoPrefetch(s, r.bytes, x, m) \subseteq {IF n < 1 THEN 1 ELSE n}
    BY DEF AutoPrefetch, n
  <2>. QED BY <2>3, <2>4
<1>5. r.bytes # 0 BY DEF Plans
<1>6. h \in Nat
  <2>1. AtMost(Fair(b, "host"), Remaining(b, "host")) \in Nat BY <1>2, <1>3 DEF AtMost
  <2>. QED BY <1>1, <1>4, <1>5, <2>1, SizesAssumption DEF PaidHost, HostBatches
<1>7. v \in Nat
  <2>1. AtMost(Fair(b, "device"), Remaining(b, "device")) \in Nat BY <1>2, <1>3 DEF AtMost
  <2>. QED BY <1>1, <1>4, <1>5, <2>1, SizesAssumption, SMTT(30) DEF PaidDevice, DeviceBatches
<1>8. PaidBatches("host", h, r) \in Nat /\ PaidBatches("device", v, r) \in Nat
  BY <1>6, <1>7, SizesAssumption DEF PaidBatches, Plus
<1>9. /\ PaidBatches("host", h, r) * r.bytes \in Nat
      /\ PaidBatches("device", v, r) * r.bytes \in Nat
  BY <1>8
<1>10. CacheBytes(b, r) \in Nat /\ CacheBytes(b, r) <= Remaining(b, "cache")
  BY <1>2, <1>3 DEF CacheBytes, AtMost
<1>11. PaidBatches("host", h, r) * r.bytes <= Remaining(b, "host")
  BY <1>1 DEF PaidHost, Affordable
<1>12. d # Cpu => PaidBatches("device", v, r) * r.bytes <= Remaining(b, "device")
  BY <1>1 DEF PaidDevice, Affordable
<1>13. p.batches \in [Kinds -> Nat] BY <1>1, <1>6, <1>7 DEF Plan, Kinds
<1>14. /\ p.bytes["cache"] = CacheBytes(b, r)
       /\ p.bytes["host"] = PaidBatches("host", h, r) * r.bytes
       /\ p.bytes["device"] = IF d = Cpu THEN 0 ELSE PaidBatches("device", v, r) * r.bytes
  BY <1>1, <1>3 DEF Plan
<1>15. \A k \in Kinds : p.bytes[k] \in Nat /\ p.bytes[k] <= Remaining(b, k)
  BY <1>2, <1>9, <1>10, <1>11, <1>12, <1>14 DEF Kinds
<1>16. p.bytes \in [Kinds -> Nat] BY <1>1, <1>9, <1>10 DEF Plan, Kinds
<1>. QED BY <1>13, <1>15, <1>16

-----------------------------------------------------------------------------
LEMMA InitInvariant == Init => IInv
<1>. SUFFICES ASSUME Init PROVE IInv OBVIOUS
<1>1. NoRequest \in Request BY SizesAssumption DEF NoRequest, Request, Sizes
<1>2. TypeOK BY <1>1, NilType, BudgetsAssumption DEF Init, TypeOK
<1>3. SlotsAgree BY DEF Init, SlotsAgree
<1>4. SlotsAlive BY DEF Init, SlotsAlive
<1>5. Fits BY DEF Init, Fits, Nil
<1>6. CountInForce BY BudgetsAssumption DEF Init, CountInForce, Alive
<1>. QED BY <1>2, <1>3, <1>4, <1>5, <1>6 DEF IInv

\* The setter runs only while no budget is alive.
LEMMA SetExpectedStep ==
  ASSUME IInv, NEW n \in Counts, SetExpectedLoaderCount(n)
  PROVE  IInv'
<1>. USE DEF IInv, SetExpectedLoaderCount, loaderVars
<1>1. TypeOK' BY SizesAssumption DEF TypeOK
<1>2. SlotsAgree' BY DEF SlotsAgree
<1>3. SlotsAlive' BY DEF SlotsAlive, Alive
<1>4. Fits' BY DEF Fits
<1>5. \A l \in Loaders : budget[l] = NoBudget
  BY DEF SlotsAgree, Lock, TypeOK
<1>6. CountInForce' BY <1>5, BudgetsAssumption DEF CountInForce, Alive
<1>. QED BY <1>1, <1>2, <1>3, <1>4, <1>6

\* The slot of the device names the budget the loader gets, alive or new.
LEMMA ObtainStep ==
  ASSUME IInv, NEW l \in Loaders, NEW d \in Devices, NEW r \in Requests, Obtain(l, d, r)
  PROVE  IInv'
<1>. USE DEF IInv
<1>1. PICK b \in Budgets :
        /\ budget' = [budget EXCEPT ![l] = b]
        /\ \/ b = slot[d] /\ slot[d] # NoBudget /\ UNCHANGED <<slot, count, capacity, reserved, lost>>
           \/ slot[d] = NoBudget /\ Create(d, b)
  BY DEF Obtain, Lock, TypeOK
<1>2. /\ state[l] = "none" /\ state' = [state EXCEPT ![l] = "constructing"]
      /\ device' = [device EXCEPT ![l] = d] /\ request' = [request EXCEPT ![l] = r]
      /\ UNCHANGED <<expected, reservation, batches>>
  BY DEF Obtain
<1>3. budget[l] = NoBudget BY <1>2 DEF SlotsAgree
<1>4. b # NoBudget BY BudgetsAssumption
<1>5. CASE b = slot[d] /\ slot[d] # NoBudget /\ UNCHANGED <<slot, count, capacity, reserved, lost>>
  <2>1. TypeOK' BY <1>1, <1>2, <1>5, SizesAssumption DEF TypeOK
  <2>2. SlotsAgree' BY <1>1, <1>2, <1>4, <1>5 DEF SlotsAgree, TypeOK
  <2>3. \A c \in Budgets : Alive(c) => Alive(c)'
    BY <1>1, <1>3, BudgetsAssumption DEF Alive, TypeOK
  <2>4. SlotsAlive' BY <1>5, <2>3 DEF SlotsAlive, TypeOK
  <2>5. Fits' BY <1>5 DEF Fits
  <2>6. \A c \in Budgets : Alive(c)' => Alive(c)
    BY <1>1, <1>5 DEF Alive, TypeOK, SlotsAlive
  <2>7. CountInForce' BY <1>2, <1>5, <2>6 DEF CountInForce
  <2>. QED BY <2>1, <2>2, <2>4, <2>5, <2>7
<1>6. CASE slot[d] = NoBudget /\ Create(d, b)
  <2>1. PICK c \in Capacities :
          capacity' = [capacity EXCEPT ![b] = IF d = Cpu THEN [c EXCEPT !["device"] = 0] ELSE c]
    BY <1>6 DEF Create
  <2>2. c \in [Kinds -> Nat] /\ [c EXCEPT !["device"] = 0] \in [Kinds -> Nat]
    BY CapacitiesType
  <2>3. /\ ~Alive(b) /\ slot' = [slot EXCEPT ![d] = b] /\ count' = [count EXCEPT ![b] = expected]
        /\ reserved' = [reserved EXCEPT ![b] = Nil] /\ lost' = [lost EXCEPT ![b] = Nil]
    BY <1>6 DEF Create
  <2>4. slot' \in [Devices -> Budgets \cup {NoBudget}] /\ capacity' \in [Budgets -> [Kinds -> Nat]]
        /\ count' \in [Budgets -> Nat \ {0}] /\ reserved' \in [Budgets -> [Kinds -> Nat]]
        /\ lost' \in [Budgets -> [Kinds -> Nat]]
    BY <2>1, <2>2, <2>3, NilType DEF TypeOK
  <2>5. TypeOK' BY <1>1, <1>2, <2>4, SizesAssumption DEF TypeOK
  <2>6. \A m \in Loaders \ {l} : state[m] # "none" => device[m] # d
    BY <1>6 DEF SlotsAgree, TypeOK
  <2>7. SlotsAgree' BY <1>1, <1>2, <1>4, <2>3, <2>6 DEF SlotsAgree, TypeOK
  <2>8. \A e \in Devices : slot[e] # b
    BY <1>4, <2>3 DEF SlotsAlive, TypeOK
  <2>9. \A x \in Budgets : Alive(x) => Alive(x)'
    BY <1>1, <1>3, BudgetsAssumption DEF Alive, TypeOK
  <2>10. Alive(b)' BY <1>1 DEF Alive, TypeOK
  <2>11. SlotsAlive'
    BY <2>3, <2>8, <2>9, <2>10 DEF SlotsAlive, TypeOK
  <2>12. Fits'
    <3>. SUFFICES ASSUME NEW x \in Budgets, NEW k \in Kinds
         PROVE  reserved'[x][k] <= capacity'[x][k]
      BY DEF Fits
    <3>1. CASE x = b BY <2>1, <2>2, <2>3, <3>1 DEF Nil, TypeOK
    <3>2. CASE x # b BY <2>1, <2>3, <3>2 DEF Fits, TypeOK
    <3>. QED BY <3>1, <3>2
  <2>13. \A x \in Budgets \ {b} : Alive(x)' => Alive(x) BY <1>1 DEF Alive, TypeOK
  <2>14. CountInForce' BY <1>2, <2>3, <2>13 DEF CountInForce, TypeOK
  <2>. QED BY <2>5, <2>7, <2>11, <2>12, <2>14
<1>. QED BY <1>1, <1>5, <1>6

\* A plan fits in what remains, so adding it fits in the capacity.
LEMMA ReserveStep ==
  ASSUME IInv, NEW l \in Loaders, Reserve(l)
  PROVE  IInv'
<1>. USE DEF IInv
<1>. DEFINE b == budget[l]
<1>1. b \in Budgets BY DEF Reserve, SlotsAgree, TypeOK
<1>2. PICK p \in Plans(b, request[l], device[l]) :
        /\ reserved' = [reserved EXCEPT ![b] = [k \in Kinds |-> @[k] + p.bytes[k]]]
        /\ reservation' = [reservation EXCEPT ![l] = p.bytes]
        /\ batches' = [batches EXCEPT ![l] = p.batches]
  BY DEF Reserve
<1>3. /\ state[l] = "constructing" /\ state' = [state EXCEPT ![l] = "reserved"]
      /\ UNCHANGED <<expected, slot, count, capacity, lost, device, budget, request>>
  BY DEF Reserve
<1>4. /\ p.bytes \in [Kinds -> Nat] /\ p.batches \in [Kinds -> Nat]
      /\ \A k \in Kinds : p.bytes[k] <= Remaining(b, k)
  <2>1. request[l] \in Request /\ device[l] \in Devices BY DEF TypeOK
  <2>. QED BY <1>1, <2>1, PlanFits
<1>5. reserved' \in [Budgets -> [Kinds -> Nat]] BY <1>1, <1>2, <1>4 DEF TypeOK
<1>6. TypeOK' BY <1>2, <1>3, <1>4, <1>5 DEF TypeOK
<1>7. Fits'
  <2>. SUFFICES ASSUME NEW x \in Budgets, NEW k \in Kinds
       PROVE  reserved'[x][k] <= capacity'[x][k]
    BY DEF Fits
  <2>1. CASE x = b
    <3>1. reserved'[b][k] = reserved[b][k] + p.bytes[k] BY <1>1, <1>2 DEF TypeOK
    <3>2. Remaining(b, k) \in Nat /\ reserved[b][k] + Remaining(b, k) <= capacity[b][k]
      BY <1>1, RemainingFits
    <3>3. reserved[b][k] \in Nat /\ p.bytes[k] \in Nat /\ capacity[b][k] \in Nat
      BY <1>1, <1>4 DEF TypeOK
    <3>. QED BY <1>3, <1>4, <2>1, <3>1, <3>2, <3>3
  <2>2. CASE x # b BY <1>2, <1>3, <2>2 DEF Fits, TypeOK
  <2>. QED BY <2>1, <2>2
<1>8. SlotsAgree' BY <1>3 DEF SlotsAgree, TypeOK
<1>9. SlotsAlive' BY <1>3 DEF SlotsAlive, Alive
<1>10. CountInForce' BY <1>3 DEF CountInForce, Alive
<1>. QED BY <1>6, <1>7, <1>8, <1>9, <1>10

\* A loader that goes takes a budget with it only if it was the last one.
LEMMA VanishStep ==
  ASSUME IInv, NEW l \in Loaders, state[l] # "none",
         NEW leak \in [Kinds -> Nat], Vanish(l, leak)
  PROVE  IInv'
<1>. USE DEF IInv
<1>. DEFINE b == budget[l]
            last == \A m \in Loaders \ {l} : budget[m] # b
<1>1. b \in Budgets /\ b # NoBudget BY BudgetsAssumption DEF SlotsAgree, TypeOK
<1>2. /\ slot' = [d \in Devices |-> IF last /\ slot[d] = b THEN NoBudget ELSE slot[d]]
      /\ count' = IF last THEN [count EXCEPT ![b] = 1] ELSE count
      /\ capacity' = IF last THEN [capacity EXCEPT ![b] = Nil] ELSE capacity
      /\ reserved' = IF last THEN [reserved EXCEPT ![b] = Nil] ELSE reserved
  BY DEF Vanish, Unreferenced
<1>3. lost' \in [Budgets -> [Kinds -> Nat]]
  <2>. DEFINE more == [lost EXCEPT ![b] = [k \in Kinds |-> @[k] + leak[k]]]
  <2>1. more \in [Budgets -> [Kinds -> Nat]] BY <1>1 DEF TypeOK
  <2>2. lost' = IF last THEN [more EXCEPT ![b] = Nil] ELSE more BY DEF Vanish, Unreferenced
  <2>. HIDE DEF more, last
  <2>. QED BY <2>1, <2>2, NilType
<1>4. /\ state' = [state EXCEPT ![l] = "none"] /\ budget' = [budget EXCEPT ![l] = NoBudget]
      /\ reservation' = [reservation EXCEPT ![l] = Nil] /\ batches' = [batches EXCEPT ![l] = Nil]
      /\ device' = [device EXCEPT ![l] = Cpu] /\ request' = [request EXCEPT ![l] = NoRequest]
      /\ expected' = expected
  BY DEF Vanish
<1>5. \A m \in Loaders \ {l} : last => budget[m] # b OBVIOUS
<1>6. ~last => \E m \in Loaders \ {l} : budget[m] = b OBVIOUS
<1>. HIDE DEF last
<1>7. TypeOK'
  <2>1. NoRequest \in Request BY SizesAssumption DEF NoRequest, Request, Sizes
  <2>2. slot' \in [Devices -> Budgets \cup {NoBudget}] BY <1>2 DEF TypeOK
  <2>3. count' \in [Budgets -> Nat \ {0}]
    <3>1. CASE last
      <4>1. count \in [Budgets -> Nat \ {0}] /\ 1 \in Nat \ {0} BY DEF TypeOK
      <4>2. count' = [count EXCEPT ![b] = 1] BY <1>2, <3>1
      <4>. HIDE DEF b
      <4>. QED BY <4>1, <4>2
    <3>2. CASE ~last BY <1>2, <3>2 DEF TypeOK
    <3>. QED BY <3>1, <3>2
  <2>4. capacity' \in [Budgets -> [Kinds -> Nat]] /\ reserved' \in [Budgets -> [Kinds -> Nat]]
    BY <1>2, NilType DEF TypeOK
  <2>. QED BY <1>3, <1>4, <2>1, <2>2, <2>3, <2>4, NilType, BudgetsAssumption DEF TypeOK
<1>8. SlotsAgree' BY <1>1, <1>2, <1>4, <1>5 DEF SlotsAgree, TypeOK
<1>9. \A x \in Budgets : Alive(x)' => Alive(x) /\ (x = b => ~last)
  BY <1>4, <1>5, BudgetsAssumption DEF Alive, TypeOK
<1>10. \A x \in Budgets : Alive(x) /\ (x = b => ~last) => Alive(x)'
  BY <1>4, <1>6 DEF Alive, TypeOK
<1>11. SlotsAlive'
  BY <1>2, <1>10 DEF SlotsAlive, TypeOK
<1>12. Fits'
  <2>. SUFFICES ASSUME NEW x \in Budgets, NEW k \in Kinds
       PROVE  reserved'[x][k] <= capacity'[x][k]
    BY DEF Fits
  <2>1. CASE last /\ x = b BY <1>2, <2>1 DEF Nil, TypeOK
  <2>2. CASE ~(last /\ x = b) BY <1>2, <2>2 DEF Fits, TypeOK
  <2>. QED BY <2>1, <2>2
<1>13. CountInForce' BY <1>2, <1>4, <1>9 DEF CountInForce, TypeOK
<1>. QED BY <1>7, <1>8, <1>11, <1>12, <1>13

\* What is given back never raises what is reserved.
LEMMA ReleaseStep ==
  ASSUME IInv, NEW l \in Loaders, Release(l)
  PROVE  IInv'
<1>. USE DEF IInv, Release
<1>. DEFINE b == budget[l]
            Left(x, k) == IF reservation[l][k] > x THEN 0 ELSE x - reservation[l][k]
<1>1. b \in Budgets BY DEF SlotsAgree, TypeOK
<1>2. reserved' = [reserved EXCEPT ![b] = [k \in Kinds |-> Left(@[k], k)]] OBVIOUS
<1>3. \A x \in Nat, k \in Kinds : Left(x, k) \in Nat /\ Left(x, k) <= x BY DEF TypeOK
<1>. HIDE DEF Left
<1>4. reserved' \in [Budgets -> [Kinds -> Nat]] BY <1>1, <1>2, <1>3 DEF TypeOK
<1>5. TypeOK' BY <1>4 DEF TypeOK
<1>6. Fits'
  <2>. SUFFICES ASSUME NEW x \in Budgets, NEW k \in Kinds
       PROVE  reserved'[x][k] <= capacity'[x][k]
    BY DEF Fits
  <2>1. CASE x = b
    <3>1. reserved'[b][k] = Left(reserved[b][k], k) BY <1>1, <1>2 DEF TypeOK
    <3>2. reserved[b][k] \in Nat /\ capacity[b][k] \in Nat /\ reserved[b][k] <= capacity[b][k]
      BY <1>1 DEF TypeOK, Fits
    <3>3. Left(reserved[b][k], k) \in Nat /\ Left(reserved[b][k], k) <= reserved[b][k]
      BY <1>3, <3>2
    <3>. QED BY <2>1, <3>1, <3>2, <3>3
  <2>2. CASE x # b BY <1>2, <2>2 DEF Fits, TypeOK
  <2>. QED BY <2>1, <2>2
<1>7. SlotsAgree' BY DEF SlotsAgree, TypeOK
<1>8. SlotsAlive' BY DEF SlotsAlive, Alive
<1>9. CountInForce' BY DEF CountInForce, Alive
<1>. QED BY <1>5, <1>6, <1>7, <1>8, <1>9

LEMMA StepInvariant == IInv /\ [Next]_vars => IInv'
<1>. SUFFICES ASSUME IInv, [Next]_vars PROVE IInv' OBVIOUS
<1>1. CASE UNCHANGED vars
  BY <1>1 DEF vars, budgetVars, loaderVars, IInv, TypeOK, SlotsAgree, SlotsAlive, Fits, CountInForce,
              Alive
<1>2. ASSUME NEW n \in Counts, SetExpectedLoaderCount(n) PROVE IInv'
  BY <1>2, SetExpectedStep
<1>3. ASSUME NEW l \in Loaders, LoaderStep(l) PROVE IInv'
  <2>1. ASSUME NEW d \in Devices, NEW r \in Requests, Obtain(l, d, r) PROVE IInv'
    BY <2>1, ObtainStep
  <2>2. CASE Reserve(l) BY <2>2, ReserveStep
  <2>3. CASE Refuse(l) BY <2>3, VanishStep, NilType DEF Refuse
  <2>4. CASE ConstructionFails(l)
    <3>1. reservation[l] \in [Kinds -> Nat] BY DEF IInv, TypeOK
    <3>. QED BY <2>4, <3>1, VanishStep DEF ConstructionFails
  <2>5. CASE ConstructionEnds(l)
    <3>. USE <2>5 DEF ConstructionEnds, IInv, budgetVars
    <3>1. TypeOK' BY DEF TypeOK
    <3>2. SlotsAgree' BY DEF SlotsAgree, TypeOK
    <3>3. SlotsAlive' BY DEF SlotsAlive, Alive
    <3>4. Fits' /\ CountInForce' BY DEF Fits, CountInForce, Alive
    <3>. QED BY <3>1, <3>2, <3>3, <3>4
  <2>6. CASE Release(l) BY <2>6, ReleaseStep
  <2>7. CASE Destroyed(l) BY <2>7, VanishStep, NilType DEF Destroyed
  <2>. QED BY <1>3, <2>1, <2>2, <2>3, <2>4, <2>5, <2>6, <2>7 DEF LoaderStep
<1>. QED BY <1>1, <1>2, <1>3 DEF Next

-----------------------------------------------------------------------------
\* The inductive invariant holds in every reachable state of any instance.
THEOREM BudgetInvariant == Spec => []IInv
BY InitInvariant, StepInvariant, PTL DEF Spec

\* The variables have the types the code declares.
THEOREM BudgetTypeCorrect == Spec => []TypeOK
<1>1. IInv => TypeOK BY DEF IInv
<1>. QED BY <1>1, BudgetInvariant, PTL

\* No interleaving of constructions, failures and destructions makes a
\* budget promise more bytes of any kind than its capacity.
THEOREM NeverOverpromised == Spec => []WithinCapacity
<1>1. IInv => WithinCapacity BY DEF IInv, Fits, WithinCapacity
<1>. QED BY <1>1, BudgetInvariant, PTL

\* Loaders that live together on one device share one budget.
THEOREM BudgetShared == Spec => []OneBudgetPerDevice
<1>1. IInv => OneBudgetPerDevice BY DEF IInv, SlotsAgree, OneBudgetPerDevice
<1>. QED BY <1>1, BudgetInvariant, PTL

\* A live budget divides by the expected count in force.
THEOREM CountStays == Spec => []CountInForce
<1>1. IInv => CountInForce BY DEF IInv
<1>. QED BY <1>1, BudgetInvariant, PTL

-----------------------------------------------------------------------------
(* What is reserved is what is held. *)

\* The function of the loaders that ReservedIsHeld sums, and the sum.
Part(k) == [l \in Loaders |-> reservation[l][k]]
Held(b, k) == SumFunctionOnSet(Part(k), Holders(b))

\* Only a loader that reserved holds, so the holders of a budget can be
\* counted however many loaders there are.
HoldersFinite == \A b \in Budgets : IsFiniteSet(Holders(b))

HeldInv == HoldersFinite /\ ReservedIsHeld

LEMMA HeldIsNat ==
  ASSUME TypeOK, HoldersFinite, NEW b \in Budgets, NEW k \in Kinds
  PROVE  Held(b, k) \in Nat
<1>1. \A l \in Holders(b) : Part(k)[l] \in Nat
  BY DEF TypeOK, Holders, Part
<1>2. IsFiniteSet(Holders(b))
  BY DEF HoldersFinite
<1>. QED BY <1>1, <1>2, SumIsNat DEF Held

\* The holders and what they hold stay.
LEMMA HeldKept ==
  ASSUME TypeOK, HoldersFinite, NEW b \in Budgets, NEW k \in Kinds, Holders(b)' = Holders(b),
         \A l \in Holders(b) : reservation'[l] = reservation[l]
  PROVE  Held(b, k)' = Held(b, k)
<1>1. \A l \in Holders(b) : /\ Part(k)[l] \in Int
                            /\ Part(k)[l] = Part(k)'[l]
  BY DEF TypeOK, Holders, Part
<1>2. IsFiniteSet(Holders(b))
  BY DEF HoldersFinite
<1>3. SumFunctionOnSet(Part(k), Holders(b)) = SumFunctionOnSet(Part(k)', Holders(b))
  BY <1>1, <1>2, SumEqual
<1>. QED BY <1>3 DEF Held

\* One holder more adds what it reserved.
LEMMA HeldGrows ==
  ASSUME TypeOK, TypeOK', HoldersFinite, NEW b \in Budgets, NEW k \in Kinds,
         NEW l \in Loaders \ Holders(b), Holders(b)' = Holders(b) \cup {l},
         \A m \in Holders(b) : reservation'[m] = reservation[m]
  PROVE  Held(b, k)' = Held(b, k) + reservation'[l][k]
<1>1. \A m \in Holders(b) : /\ Part(k)[m] \in Int
                            /\ Part(k)[m] = Part(k)'[m]
  BY DEF TypeOK, Holders, Part
<1>2. IsFiniteSet(Holders(b))
  BY DEF HoldersFinite
<1>3. SumFunctionOnSet(Part(k), Holders(b)) = SumFunctionOnSet(Part(k)', Holders(b))
  BY <1>1, <1>2, SumEqual
<1>4. Part(k)'[l] = reservation'[l][k] /\ Part(k)'[l] \in Int
  BY DEF TypeOK, Part
<1>5. SumFunctionOnSet(Part(k)', Holders(b) \cup {l})
      = Part(k)'[l] + SumFunctionOnSet(Part(k)', Holders(b))
  <2>1. \A m \in Holders(b) \cup {l} : Part(k)'[m] \in Int
    BY <1>1, <1>4
  <2>. QED BY <1>2, <2>1, SumWith
<1>6. SumFunctionOnSet(Part(k)', Holders(b)) \in Int
  BY <1>1, <1>2, SumIsInt
<1>. QED BY <1>3, <1>4, <1>5, <1>6 DEF Held

\* One holder less takes what it reserved away.
LEMMA HeldShrinks ==
  ASSUME TypeOK, HoldersFinite, NEW b \in Budgets, NEW k \in Kinds,
         NEW l \in Holders(b), Holders(b)' = Holders(b) \ {l},
         \A m \in Holders(b) \ {l} : reservation'[m] = reservation[m]
  PROVE  Held(b, k) = reservation[l][k] + Held(b, k)' /\ Held(b, k)' \in Nat
<1>0. \A m \in Holders(b) : m \in Loaders /\ Part(k)[m] = reservation[m][k] /\ Part(k)[m] \in Nat
  BY DEF TypeOK, Holders, Part
<1>1. \A m \in Holders(b) \ {l} : Part(k)[m] \in Nat /\ Part(k)[m] = Part(k)'[m]
  BY DEF TypeOK, Holders, Part
<1>2. IsFiniteSet(Holders(b)) /\ IsFiniteSet(Holders(b) \ {l})
  BY CountWithout DEF HoldersFinite
<1>3. SumFunctionOnSet(Part(k), Holders(b) \ {l}) = SumFunctionOnSet(Part(k)', Holders(b) \ {l})
  BY <1>1, <1>2, SumEqual
<1>4. SumFunctionOnSet(Part(k), Holders(b) \ {l}) \in Nat
  BY <1>1, <1>2, SumIsNat
<1>5. SumFunctionOnSet(Part(k), Holders(b))
      = Part(k)[l] + SumFunctionOnSet(Part(k), Holders(b) \ {l})
  BY <1>0, <1>2, SumWithout
<1>. QED BY <1>0, <1>3, <1>4, <1>5 DEF Held

LEMMA ReservedIsHeldIs ==
  /\ ReservedIsHeld <=> \A b \in Budgets, k \in Kinds :
                           Alive(b) => reserved[b][k] = lost[b][k] + Held(b, k)
  /\ ReservedIsHeld' <=> \A b \in Budgets, k \in Kinds :
                           Alive(b)' => reserved'[b][k] = lost'[b][k] + Held(b, k)'
<1>1. ReservedIsHeld <=> \A b \in Budgets, k \in Kinds :
                           Alive(b) => reserved[b][k] = lost[b][k] + Held(b, k)
  BY DEF ReservedIsHeld, Held, Part
<1>2. ReservedIsHeld' <=> \A b \in Budgets, k \in Kinds :
                           Alive(b)' => reserved'[b][k] = lost'[b][k] + Held(b, k)'
  BY DEF ReservedIsHeld, Held, Part
<1>. QED BY <1>1, <1>2

\* Budgets nobody starts or stops holding of.
LEMMA HeldStays ==
  ASSUME TypeOK, HeldInv,
         \A b \in Budgets : /\ Holders(b)' = Holders(b)
                            /\ \A l \in Holders(b) : reservation'[l] = reservation[l],
         \A b \in Budgets : Alive(b)' =>
           \/ Alive(b) /\ reserved'[b] = reserved[b] /\ lost'[b] = lost[b]
           \/ Holders(b) = {} /\ reserved'[b] = Nil /\ lost'[b] = Nil
  PROVE  HeldInv'
<1>1. HoldersFinite' BY DEF HeldInv, HoldersFinite
<1>2. ASSUME NEW b \in Budgets, NEW k \in Kinds, Alive(b)'
      PROVE  reserved'[b][k] = lost'[b][k] + Held(b, k)'
  <2>1. Held(b, k)' = Held(b, k) BY HeldKept DEF HeldInv
  <2>2. CASE Alive(b) /\ reserved'[b] = reserved[b] /\ lost'[b] = lost[b]
    BY <2>1, <2>2, ReservedIsHeldIs DEF HeldInv
  <2>3. CASE Holders(b) = {} /\ reserved'[b] = Nil /\ lost'[b] = Nil
    <3>1. Held(b, k) = 0 BY <2>3, SumEmpty DEF Held
    <3>. QED BY <2>1, <2>3, <3>1 DEF Nil
  <2>. QED BY <1>2, <2>2, <2>3
<1>3. ReservedIsHeld' BY <1>2, ReservedIsHeldIs
<1>. QED BY <1>1, <1>3 DEF HeldInv

LEMMA ObtainHeld ==
  ASSUME IInv, HeldInv, NEW l \in Loaders, NEW d \in Devices, NEW r \in Requests, Obtain(l, d, r)
  PROVE  HeldInv'
<1>1. PICK b \in Budgets :
        /\ budget' = [budget EXCEPT ![l] = b]
        /\ \/ b = slot[d] /\ slot[d] # NoBudget /\ UNCHANGED <<slot, count, capacity, reserved, lost>>
           \/ slot[d] = NoBudget /\ Create(d, b)
  BY DEF Obtain, Lock, IInv, TypeOK
<1>2. /\ state[l] = "none" /\ state' = [state EXCEPT ![l] = "constructing"]
      /\ reservation' = reservation
  BY DEF Obtain
<1>3. TypeOK BY DEF IInv
<1>4. \A x \in Budgets : Holders(x)' = Holders(x)
  BY <1>1, <1>2, <1>3 DEF Holders, TypeOK
<1>5. ASSUME NEW x \in Budgets, Alive(x)'
      PROVE  \/ Alive(x) /\ reserved'[x] = reserved[x] /\ lost'[x] = lost[x]
             \/ Holders(x) = {} /\ reserved'[x] = Nil /\ lost'[x] = Nil
  <2>1. CASE b = slot[d] /\ slot[d] # NoBudget /\ UNCHANGED <<slot, count, capacity, reserved, lost>>
    <3>1. Alive(x)
      BY <1>1, <1>3, <1>5, <2>1 DEF IInv, Alive, TypeOK, SlotsAlive
    <3>. QED BY <2>1, <3>1
  <2>2. CASE Create(d, b)
    <3>1. /\ ~Alive(b) /\ reserved' = [reserved EXCEPT ![b] = Nil]
          /\ lost' = [lost EXCEPT ![b] = Nil]
      BY <2>2 DEF Create
    <3>2. CASE x = b BY <1>3, <3>1, <3>2 DEF Alive, Holders, TypeOK
    <3>3. CASE x # b
      <4>1. Alive(x) BY <1>1, <1>3, <1>5, <3>3 DEF Alive, TypeOK
      <4>. QED BY <1>3, <3>1, <3>3, <4>1 DEF TypeOK
    <3>. QED BY <3>2, <3>3
  <2>. QED BY <1>1, <2>1, <2>2
<1>. QED BY <1>2, <1>3, <1>4, <1>5, HeldStays

LEMMA ReserveHeld ==
  ASSUME IInv, HeldInv, NEW l \in Loaders, Reserve(l)
  PROVE  HeldInv'
<1>0. budget[l] \in Budgets BY DEF IInv, Reserve, SlotsAgree, TypeOK
<1>. PICK b \in Budgets : b = budget[l] BY <1>0
<1>1. TypeOK /\ TypeOK'
  <2>1. IInv' BY ReserveStep
  <2>. QED BY <2>1 DEF IInv
<1>2. PICK p \in Plans(b, request[l], device[l]) :
        /\ reserved' = [reserved EXCEPT ![b] = [k \in Kinds |-> @[k] + p.bytes[k]]]
        /\ reservation' = [reservation EXCEPT ![l] = p.bytes]
  BY DEF Reserve
<1>3. /\ state[l] = "constructing" /\ state' = [state EXCEPT ![l] = "reserved"]
      /\ UNCHANGED <<lost, budget>>
  BY DEF Reserve
<1>4. \A x \in Budgets : Alive(x)' <=> Alive(x) BY <1>3 DEF Alive
<1>5. /\ Holders(b)' = Holders(b) \cup {l} /\ l \notin Holders(b)
      /\ \A x \in Budgets \ {b} : Holders(x)' = Holders(x) /\ l \notin Holders(x)
  BY <1>1, <1>3 DEF Holders, TypeOK
<1>6. \A m \in Loaders \ {l} : reservation'[m] = reservation[m]
  BY <1>1, <1>2 DEF TypeOK
<1>7. reservation'[l] = p.bytes BY <1>1, <1>2 DEF TypeOK
<1>8. HoldersFinite'
  <2>1. IsFiniteSet(Holders(b)') BY <1>1, <1>5, CountWith DEF HeldInv, HoldersFinite
  <2>. QED BY <1>5, <2>1 DEF HeldInv, HoldersFinite
<1>9. ASSUME NEW x \in Budgets, NEW k \in Kinds, Alive(x)'
      PROVE  reserved'[x][k] = lost'[x][k] + Held(x, k)'
  <2>1. reserved[x][k] = lost[x][k] + Held(x, k)
    BY <1>4, <1>9, ReservedIsHeldIs DEF HeldInv
  <2>2. /\ lost[x][k] \in Nat /\ reserved[x][k] \in Nat /\ Held(x, k) \in Nat
        /\ reservation'[l][k] \in Nat
    <3>1. Held(x, k) \in Nat BY <1>1, HeldIsNat DEF HeldInv
    <3>. QED BY <1>1, <3>1 DEF TypeOK
  <2>3. CASE x = b
    <3>1. Held(b, k)' = Held(b, k) + reservation'[l][k]
      <4>1. \A m \in Holders(b) : reservation'[m] = reservation[m] BY <1>5, <1>6 DEF Holders
      <4>. QED BY <1>1, <1>5, <4>1, HeldGrows DEF HeldInv
    <3>2. reserved'[b][k] = reserved[b][k] + p.bytes[k] BY <1>1, <1>2 DEF TypeOK
    <3>. QED BY <1>3, <1>7, <2>1, <2>2, <2>3, <3>1, <3>2
  <2>4. CASE x # b
    <3>1. \A m \in Holders(x) : reservation'[m] = reservation[m] BY <1>5, <1>6, <2>4 DEF Holders
    <3>2. Held(x, k)' = Held(x, k) BY <1>1, <1>5, <2>4, <3>1, HeldKept DEF HeldInv
    <3>3. reserved'[x] = reserved[x] BY <1>1, <1>2, <2>4 DEF TypeOK
    <3>. QED BY <1>3, <2>1, <3>2, <3>3
  <2>. QED BY <2>3, <2>4
<1>10. ReservedIsHeld' BY <1>9, ReservedIsHeldIs
<1>. QED BY <1>8, <1>10 DEF HeldInv

\* A released reservation was part of what is reserved, so release takes it
\* off and never clamps.
LEMMA ReleaseHeld ==
  ASSUME IInv, HeldInv, NEW l \in Loaders, Release(l)
  PROVE  HeldInv'
<1>0. budget[l] \in Budgets BY DEF IInv, Release, SlotsAgree, TypeOK
<1>. PICK b \in Budgets : b = budget[l] BY <1>0
<1>1. TypeOK BY DEF IInv
<1>2. /\ state[l] = "live" /\ state' = [state EXCEPT ![l] = "released"]
      /\ UNCHANGED <<lost, budget, reservation>>
      /\ reserved' = [reserved EXCEPT ![b] =
           [k \in Kinds |-> IF reservation[l][k] > @[k] THEN 0 ELSE @[k] - reservation[l][k]]]
  BY DEF Release
<1>3. \A x \in Budgets : Alive(x)' <=> Alive(x) BY <1>2 DEF Alive
<1>4. /\ Holders(b)' = Holders(b) \ {l} /\ l \in Holders(b)
      /\ \A x \in Budgets \ {b} : Holders(x)' = Holders(x)
  BY <1>1, <1>2 DEF Holders, TypeOK
<1>5. HoldersFinite'
  <2>1. IsFiniteSet(Holders(b)') BY <1>1, <1>4, CountWithout DEF HeldInv, HoldersFinite
  <2>. QED BY <1>4, <2>1 DEF HeldInv, HoldersFinite
<1>6. ASSUME NEW x \in Budgets, NEW k \in Kinds, Alive(x)'
      PROVE  reserved'[x][k] = lost'[x][k] + Held(x, k)'
  <2>1. reserved[x][k] = lost[x][k] + Held(x, k)
    BY <1>3, <1>6, ReservedIsHeldIs DEF HeldInv
  <2>2. CASE x = b
    <3>1. Held(b, k) = reservation[l][k] + Held(b, k)' /\ Held(b, k)' \in Nat
      <4>. QED BY <1>1, <1>2, <1>4, HeldShrinks DEF HeldInv
    <3>2. lost[b][k] \in Nat /\ reservation[l][k] \in Nat /\ reserved[b][k] \in Nat
      BY <1>1 DEF TypeOK
    <3>3. ~(reservation[l][k] > reserved[b][k])
      BY <2>1, <2>2, <3>1, <3>2
    <3>4. reserved'[b][k] = reserved[b][k] - reservation[l][k]
      BY <1>1, <1>2, <3>3 DEF TypeOK
    <3>. QED BY <1>2, <2>1, <2>2, <3>1, <3>2, <3>4
  <2>3. CASE x # b
    <3>1. Held(x, k)' = Held(x, k) BY <1>1, <1>2, <1>4, <2>3, HeldKept DEF HeldInv
    <3>2. reserved'[x] = reserved[x] BY <1>1, <1>2, <2>3 DEF TypeOK
    <3>. QED BY <1>2, <2>1, <3>1, <3>2
  <2>. QED BY <2>2, <2>3
<1>7. ReservedIsHeld' BY <1>6, ReservedIsHeldIs
<1>. QED BY <1>5, <1>7 DEF HeldInv

\* A loader that goes holds nothing, or loses what it holds with it.
LEMMA VanishHeld ==
  ASSUME IInv, HeldInv, NEW l \in Loaders, state[l] # "none", NEW leak, Vanish(l, leak),
         IF state[l] = "reserved" THEN leak = reservation[l] ELSE state[l] # "live" /\ leak = Nil
  PROVE  HeldInv'
<1>0. budget[l] \in Budgets BY DEF IInv, SlotsAgree, TypeOK
<1>. PICK b \in Budgets : b = budget[l] BY <1>0
<1>1. TypeOK BY DEF IInv
<1>2. /\ state' = [state EXCEPT ![l] = "none"] /\ budget' = [budget EXCEPT ![l] = NoBudget]
      /\ reservation' = [reservation EXCEPT ![l] = Nil]
  BY DEF Vanish
<1>3. /\ \A x \in Budgets : Alive(x)' => Alive(x)
      /\ Alive(b)' => \E m \in Loaders \ {l} : budget[m] = b
  BY <1>1, <1>2, BudgetsAssumption DEF Alive, TypeOK
<1>4. /\ Holders(b)' = Holders(b) \ {l}
      /\ \A x \in Budgets \ {b} : Holders(x)' = Holders(x)
      /\ l \in Holders(b) <=> state[l] \in {"reserved", "live"}
      /\ \A x \in Budgets \ {b} : l \notin Holders(x)
  BY <1>1, <1>2, BudgetsAssumption DEF Holders, TypeOK
<1>5. \A m \in Loaders \ {l} : reservation'[m] = reservation[m]
  BY <1>1, <1>2 DEF TypeOK
<1>6. ASSUME NEW x \in Budgets, Alive(x)'
      PROVE  /\ reserved'[x] = reserved[x]
             /\ lost'[x] = IF x = b THEN [k \in Kinds |-> lost[b][k] + leak[k]] ELSE lost[x]
  <2>. DEFINE last == \A m \in Loaders \ {l} : budget[m] # budget[l]
              more == [lost EXCEPT ![budget[l]] = [k \in Kinds |-> @[k] + leak[k]]]
  <2>1. /\ reserved' = IF last THEN [reserved EXCEPT ![budget[l]] = Nil] ELSE reserved
        /\ lost' = IF last THEN [more EXCEPT ![budget[l]] = Nil] ELSE more
    BY DEF Vanish, Unreferenced
  <2>2. x = b => ~last BY <1>3, <1>6
  <2>3. more[x] = IF x = b THEN [k \in Kinds |-> lost[b][k] + leak[k]] ELSE lost[x]
    BY <1>1 DEF TypeOK
  <2>4. more \in [Budgets -> {more[y] : y \in Budgets}] BY <1>1 DEF TypeOK
  <2>. HIDE DEF last, more
  <2>. QED BY <1>1, <2>1, <2>2, <2>3, <2>4 DEF TypeOK
<1>7. HoldersFinite'
  <2>1. IsFiniteSet(Holders(b)')
    BY <1>4, CountOrdered DEF HeldInv, HoldersFinite
  <2>. QED BY <1>4, <2>1 DEF HeldInv, HoldersFinite
<1>8. ASSUME NEW x \in Budgets, NEW k \in Kinds, Alive(x)'
      PROVE  reserved'[x][k] = lost'[x][k] + Held(x, k)'
  <2>1. reserved[x][k] = lost[x][k] + Held(x, k)
    BY <1>3, <1>8, ReservedIsHeldIs DEF HeldInv
  <2>2. Held(x, k) \in Nat /\ lost[x][k] \in Nat
    <3>1. Held(x, k) \in Nat BY <1>1, HeldIsNat DEF HeldInv
    <3>. QED BY <1>1, <3>1 DEF TypeOK
  <2>3. CASE x # b
    <3>1. \A m \in Holders(x) : reservation'[m] = reservation[m] BY <1>4, <1>5, <2>3 DEF Holders
    <3>2. Held(x, k)' = Held(x, k) BY <1>1, <1>4, <2>3, <3>1, HeldKept DEF HeldInv
    <3>. QED BY <1>6, <1>8, <2>1, <2>3, <3>2
  <2>4. CASE x = b /\ state[l] = "reserved"
    <3>1. leak = reservation[l] BY <2>4
    <3>2. \A m \in Holders(b) \ {l} : reservation'[m] = reservation[m] BY <1>5 DEF Holders
    <3>3. Held(b, k) = reservation[l][k] + Held(b, k)' /\ Held(b, k)' \in Nat
      BY <1>1, <1>4, <2>4, <3>2, HeldShrinks DEF HeldInv
    <3>4. reservation[l][k] \in Nat BY <1>1 DEF TypeOK
    <3>5. lost'[b][k] = lost[b][k] + reservation[l][k]
      <4>1. lost'[b] = [j \in Kinds |-> lost[b][j] + leak[j]] BY <1>6, <1>8, <2>4
      <4>. QED BY <3>1, <4>1
    <3>6. reserved'[b][k] = reserved[b][k] BY <1>6, <1>8, <2>4
    <3>. QED BY <2>1, <2>2, <2>4, <3>3, <3>4, <3>5, <3>6
  <2>5. CASE x = b /\ state[l] # "reserved"
    <3>1. leak = Nil /\ l \notin Holders(b) BY <1>4, <2>5
    <3>2. Holders(b)' = Holders(b) BY <1>4, <3>1
    <3>3. \A m \in Holders(b) : reservation'[m] = reservation[m] BY <1>5, <3>1 DEF Holders
    <3>4. Held(b, k)' = Held(b, k) BY <1>1, <3>2, <3>3, HeldKept DEF HeldInv
    <3>5. lost'[b][k] = lost[b][k] + 0
      <4>1. lost'[b] = [j \in Kinds |-> lost[b][j] + leak[j]] BY <1>6, <1>8, <2>5
      <4>. QED BY <3>1, <4>1 DEF Nil
    <3>6. reserved'[b][k] = reserved[b][k] BY <1>6, <1>8, <2>5
    <3>. QED BY <2>1, <2>2, <2>5, <3>4, <3>5, <3>6
  <2>. QED BY <2>3, <2>4, <2>5
<1>9. ReservedIsHeld' BY <1>8, ReservedIsHeldIs
<1>. QED BY <1>7, <1>9 DEF HeldInv

\* Reservations and the loaders that hold them agree in every reachable
\* state, and the holders of a budget are finitely many.
THEOREM HeldInvariant == Spec => []HeldInv
<1>1. Init => HeldInv
  <2>. SUFFICES ASSUME Init PROVE HeldInv OBVIOUS
  <2>1. \A b \in Budgets : ~Alive(b) /\ Holders(b) = {}
    BY BudgetsAssumption DEF Init, Alive, Holders
  <2>. QED BY <2>1, CountEmpty DEF HeldInv, HoldersFinite, ReservedIsHeld
<1>2. IInv /\ HeldInv /\ [Next]_vars => HeldInv'
  <2>. SUFFICES ASSUME IInv, HeldInv, [Next]_vars PROVE HeldInv' OBVIOUS
  <2>0. TypeOK BY DEF IInv
  <2>1. ASSUME UNCHANGED <<reserved, lost, reservation, budget>>,
               \A l \in Loaders : state'[l] \in {"reserved", "live"}
                                    <=> state[l] \in {"reserved", "live"}
        PROVE  HeldInv'
    BY <2>0, <2>1, HeldStays DEF Alive, Holders
  <2>2. CASE UNCHANGED vars BY <2>1, <2>2 DEF vars, budgetVars, loaderVars
  <2>3. ASSUME NEW n \in Counts, SetExpectedLoaderCount(n) PROVE HeldInv'
    BY <2>1, <2>3 DEF SetExpectedLoaderCount, loaderVars
  <2>4. ASSUME NEW l \in Loaders, LoaderStep(l) PROVE HeldInv'
    <3>1. CASE \E d \in Devices, r \in Requests : Obtain(l, d, r) BY <3>1, ObtainHeld
    <3>2. CASE Reserve(l) BY <3>2, ReserveHeld
    <3>3. CASE Release(l) BY <3>3, ReleaseHeld
    <3>4. CASE Refuse(l) BY <3>4, VanishHeld DEF Refuse
    <3>5. CASE ConstructionFails(l) BY <3>5, VanishHeld DEF ConstructionFails
    <3>6. CASE Destroyed(l) BY <3>6, VanishHeld DEF Destroyed
    <3>7. CASE ConstructionEnds(l)
      <4>1. \A m \in Loaders : state'[m] \in {"reserved", "live"}
                                 <=> state[m] \in {"reserved", "live"}
        BY <2>0, <3>7 DEF ConstructionEnds, TypeOK
      <4>. QED BY <2>1, <3>7, <4>1 DEF ConstructionEnds, budgetVars
    <3>. QED BY <2>4, <3>1, <3>2, <3>3, <3>4, <3>5, <3>6, <3>7 DEF LoaderStep
  <2>. QED BY <2>2, <2>3, <2>4 DEF Next
<1>. QED BY <1>1, <1>2, BudgetInvariant, PTL DEF Spec

\* The bytes a budget counts as reserved are those of the reservations that
\* stand and those that failed constructors took with them: release never
\* clamps at zero, and no byte comes back twice or to nobody.
THEOREM NothingReservedForNobody == Spec => []ReservedIsHeld
<1>1. HeldInv => ReservedIsHeld BY DEF HeldInv
<1>. QED BY <1>1, HeldInvariant, PTL

-----------------------------------------------------------------------------
(* What a plan pays for, and the shares. *)

\* Sums that fit in a std::size_t do not wrap.
LEMMA PlusFits ==
  ASSUME NEW x \in Nat, NEW y \in Nat
  PROVE  /\ Plus(x, y) \in Nat
         /\ x + y <= SizeMax => Plus(x, y) = x + y
         /\ x + y = SizeMax + 1 => Plus(x, y) = 0
<1>1. SizeMax + 1 \in Nat \ {0} BY SizesAssumption
<1>2. ASSUME NEW z \in Nat, NEW m \in Nat \ {0}
      PROVE  z % m \in Nat /\ (z < m => z % m = z) /\ (z = m => z % m = 0)
  BY <1>2, Z3
<1>3. x + y \in Nat /\ (x + y <= SizeMax => x + y < SizeMax + 1) BY SizesAssumption
<1>. QED BY <1>1, <1>2, <1>3 DEF Plus

LEMMA DivisionBounds ==
  ASSUME NEW x \in Nat, NEW y \in Nat \ {0}
  PROVE  /\ x \div y \in Nat /\ (x \div y) * y <= x /\ x \div y <= x
         /\ \A n \in Nat : n * y <= x => n <= x \div y
<1>1. x \div y \in Nat /\ (x \div y) * y <= x /\ x < (x \div y) * y + y BY Z3
<1>2. x \div y <= x
  <2>1. (x \div y) * 1 <= (x \div y) * y BY <1>1, Z3
  <2>. QED BY <1>1, <2>1
<1>3. ASSUME NEW n \in Nat, n * y <= x PROVE n <= x \div y
  <2>. PICK q \in Nat : q = x \div y BY <1>1
  <2>. SUFFICES ASSUME q + 1 <= n PROVE FALSE BY <1>1
  <2>1. (q + 1) * y <= n * y BY ProductGrows
  <2>2. (q + 1) * y = q * y + y /\ q * y \in Nat /\ n * y \in Nat OBVIOUS
  <2>. QED BY <1>1, <1>3, <2>1, <2>2
<1>. QED BY <1>1, <1>2, <1>3

\* Automatic planning never asks for more bytes than its share, the wrapped
\* sum included, and asks for something whenever the share pays for a batch.
LEMMA AutoPrefetchFits ==
  ASSUME NEW share \in Sizes, NEW bytes \in Nat \ {0}, NEW extra \in Sizes, NEW most \in Nat \ {0}
  PROVE  /\ \A n \in AutoPrefetch(share, bytes, extra, most) :
              n \in Nat \ {0} /\ Plus(n, extra) * bytes <= share
         /\ (extra + 1) * bytes <= share => AutoPrefetch(share, bytes, extra, most) # {}
<1>0. SizeMax \in Nat /\ share \in Nat /\ share <= SizeMax /\ extra \in Nat /\ extra <= SizeMax
  BY SizesAssumption DEF Sizes
<1>. PICK q \in Nat : q = share \div bytes BY <1>0, DivisionBounds
<1>1. q * bytes <= share /\ q <= share /\ \A n \in Nat : n * bytes <= share => n <= q
  BY <1>0, DivisionBounds
<1>. DEFINE n0 == AtMost(q - extra, most)
            n1 == IF n0 < 1 THEN 1 ELSE n0
<1>2. n0 \in Int /\ n0 <= q - extra /\ (q - extra >= 1 => n0 >= 1) /\ n1 \in Nat \ {0}
  BY <1>0 DEF AtMost
<1>3. AutoPrefetch(share, bytes, extra, most)
      = IF Plus(extra, 1) * bytes > SizeMax \/ share < Plus(extra, 1) * bytes THEN {} ELSE {n1}
  BY DEF AutoPrefetch
<1>. HIDE DEF n0
<1>4. ASSUME ~(share < Plus(extra, 1) * bytes) PROVE Plus(n1, extra) * bytes <= share
  <2>1. CASE extra < SizeMax
    <3>1. Plus(extra, 1) = extra + 1 BY <1>0, <2>1, PlusFits
    <3>2. (extra + 1) * bytes <= share
      <4>1. (extra + 1) * bytes \in Nat BY <1>0
      <4>. QED BY <1>0, <1>4, <3>1, <4>1
    <3>3. extra + 1 <= q BY <1>0, <1>1, <3>2
    <3>4. n1 = n0 /\ n1 + extra <= q BY <1>0, <1>2, <3>3
    <3>5. Plus(n1, extra) = n1 + extra BY <1>0, <1>1, <1>2, <3>4, PlusFits
    <3>6. (n1 + extra) * bytes <= q * bytes /\ (n1 + extra) * bytes \in Nat /\ q * bytes \in Nat
      <4>1. n1 + extra \in Nat BY <1>0, <1>2
      <4>. HIDE DEF n1
      <4>. QED BY <3>4, <4>1, ProductGrows
    <3>. QED BY <1>0, <1>1, <3>5, <3>6
  <2>2. CASE extra = SizeMax
    <3>1. n0 < 1
      <4>1. q - extra <= 0 BY <1>0, <1>1, <2>2
      <4>. HIDE DEF n1
      <4>. QED BY <1>0, <1>2, <4>1
    <3>2. n1 = 1 BY <3>1
    <3>. HIDE DEF n1
    <3>3. Plus(n1, extra) = 0
      <4>1. n1 + extra = SizeMax + 1 /\ n1 \in Nat BY <1>0, <2>2, <3>2
      <4>. QED BY <1>0, <4>1, PlusFits
    <3>4. Plus(n1, extra) * bytes = 0 BY <3>3
    <3>. QED BY <1>0, <3>4
  <2>. QED BY <1>0, <2>1, <2>2
<1>5. ASSUME (extra + 1) * bytes <= share
      PROVE  AutoPrefetch(share, bytes, extra, most) # {}
  <2>1. extra + 1 <= q BY <1>0, <1>1, <1>5
  <2>2. Plus(extra, 1) = extra + 1 BY <1>0, <1>1, <2>1, PlusFits
  <2>3. (extra + 1) * bytes \in Nat BY <1>0
  <2>4. ~(Plus(extra, 1) * bytes > SizeMax) /\ ~(share < Plus(extra, 1) * bytes)
    BY <1>0, <1>5, <2>2, <2>3
  <2>. QED BY <1>3, <2>4
<1>. HIDE DEF n1
<1>. QED BY <1>2, <1>3, <1>4, <1>5

\* Capacities are std::size_t values, of whatever becomes of a budget.
CapacitySizes == \A b \in Budgets, k \in Kinds : capacity[b][k] \in Sizes

\* A reservation that stands pays for exactly what the pools may allocate,
\* and one that was planned automatically is at most the share.
Storages == {"host", "device"}
Standing(l) ==
  state[l] \in {"reserved", "live"} => \A k \in Storages :
    /\ PoolCapacity(l, k) * request[l].bytes = reservation[l][k]
    /\ request[l].auto => reservation[l][k] <= Fair(budget[l], k)

StandingInv == CapacitySizes /\ \A l \in Loaders : Standing(l)

LEMMA ShareIsSize ==
  ASSUME TypeOK, Fits, CapacitySizes, NEW b \in Budgets, NEW k \in Kinds
  PROVE  /\ Fair(b, k) \in Nat /\ Remaining(b, k) \in Nat
         /\ AtMost(Fair(b, k), Remaining(b, k)) \in Sizes
         /\ AtMost(Fair(b, k), Remaining(b, k)) <= Fair(b, k)
         /\ AtMost(Fair(b, k), Remaining(b, k)) <= Remaining(b, k)
<1>1. /\ capacity[b][k] \in Nat /\ capacity[b][k] <= SizeMax /\ reserved[b][k] \in Nat
      /\ count[b] \in Nat \ {0} /\ SizeMax \in Nat
  BY SizesAssumption DEF TypeOK, CapacitySizes, Sizes
<1>2. Fair(b, k) \in Nat BY <1>1, DivisionBounds DEF Fair
<1>3. Remaining(b, k) \in Nat /\ Remaining(b, k) <= capacity[b][k] BY <1>1 DEF Remaining
<1>. QED BY <1>1, <1>2, <1>3 DEF AtMost, Sizes

LEMMA PlanPays ==
  ASSUME TypeOK, Fits, CapacitySizes, NEW b \in Budgets, NEW r \in Request, NEW d \in Devices,
         NEW p \in Plans(b, r, d)
  PROVE  /\ p.bytes["host"] = Plus(p.batches["host"], r.workers) * r.bytes
         /\ p.bytes["device"] = IF d = Cpu THEN 0 ELSE Plus(p.batches["device"], 1) * r.bytes
         /\ r.auto => p.bytes["host"] <= Fair(b, "host") /\ p.bytes["device"] <= Fair(b, "device")
<1>0. /\ r.bytes \in Nat \ {0} /\ r.workers \in Sizes
      /\ "cache" \in Kinds /\ "host" \in Kinds /\ "device" \in Kinds /\ 1 \in Sizes
  BY SizesAssumption DEF Plans, Request, Sizes, Kinds
<1>1. PICK h \in PaidHost(b, r), v \in PaidDevice(b, r, d) : p = Plan(b, r, d, h, v)
  BY DEF Plans
<1>2. /\ p.batches["host"] = h /\ p.batches["device"] = v
      /\ p.bytes["host"] = Plus(h, r.workers) * r.bytes
      /\ p.bytes["device"] = IF d = Cpu THEN 0 ELSE Plus(v, 1) * r.bytes
  BY <1>0, <1>1 DEF Plan, PaidBatches
<1>3. /\ Fair(b, "host") \in Nat /\ Fair(b, "device") \in Nat
      /\ AtMost(Fair(b, "host"), Remaining(b, "host")) \in Sizes
      /\ AtMost(Fair(b, "device"), Remaining(b, "device")) \in Sizes
      /\ AtMost(Fair(b, "host"), Remaining(b, "host")) <= Fair(b, "host")
      /\ AtMost(Fair(b, "device"), Remaining(b, "device")) <= Fair(b, "device")
  BY <1>0, ShareIsSize
<1>4. Sizes \subseteq Nat BY SizesAssumption DEF Sizes
<1>5. ASSUME NEW n \in Nat PROVE Plus(n, r.workers) * r.bytes \in Nat /\ Plus(n, 1) * r.bytes \in Nat
  <2>1. Plus(n, r.workers) \in Nat /\ Plus(n, 1) \in Nat BY <1>0, <1>4, PlusFits
  <2>. QED BY <1>0, <2>1
<1>6. ASSUME r.auto PROVE p.bytes["host"] <= Fair(b, "host")
  <2>1. h \in AutoPrefetch(AtMost(Fair(b, "host"), Remaining(b, "host")), r.bytes, r.workers,
                           MaxHostPrefetch)
    BY <1>6 DEF PaidHost, HostBatches
  <2>2. h \in Nat /\ Plus(h, r.workers) * r.bytes <= AtMost(Fair(b, "host"), Remaining(b, "host"))
    BY <1>0, <1>3, <2>1, AutoPrefetchFits, SizesAssumption
  <2>. PICK paid \in Nat : paid = Plus(h, r.workers) * r.bytes BY <1>5, <2>2
  <2>. PICK share \in Nat : share = AtMost(Fair(b, "host"), Remaining(b, "host")) BY <1>3, <1>4
  <2>3. paid <= share /\ share <= Fair(b, "host") BY <1>3, <2>2
  <2>. QED BY <1>2, <1>3, <2>3
<1>7. ASSUME r.auto PROVE p.bytes["device"] <= Fair(b, "device")
  <2>1. CASE d = Cpu BY <1>2, <1>3, <2>1
  <2>2. CASE d # Cpu
    <3>1. v \in AutoPrefetch(AtMost(Fair(b, "device"), Remaining(b, "device")), r.bytes, 1,
                             MaxDevicePrefetch)
      BY <1>7, <2>2 DEF PaidDevice, DeviceBatches
    <3>2. v \in Nat /\ Plus(v, 1) * r.bytes <= AtMost(Fair(b, "device"), Remaining(b, "device"))
      BY <1>0, <1>3, <3>1, AutoPrefetchFits, SizesAssumption
    <3>. PICK paid \in Nat : paid = Plus(v, 1) * r.bytes BY <1>5, <3>2
    <3>. PICK share \in Nat : share = AtMost(Fair(b, "device"), Remaining(b, "device"))
      BY <1>3, <1>4
    <3>3. paid <= share /\ share <= Fair(b, "device") BY <1>3, <3>2
    <3>. QED BY <1>2, <1>3, <2>2, <3>3
  <2>. QED BY <2>1, <2>2
<1>. QED BY <1>2, <1>6, <1>7

\* A loader that does not move, and whose budget stays as it was.
LEMMA StandingKept ==
  ASSUME NEW m \in Loaders, Standing(m),
         /\ state'[m] = state[m] /\ device'[m] = device[m] /\ budget'[m] = budget[m]
         /\ request'[m] = request[m] /\ reservation'[m] = reservation[m] /\ batches'[m] = batches[m],
         state[m] \in {"reserved", "live"} =>
           capacity'[budget[m]] = capacity[budget[m]] /\ count'[budget[m]] = count[budget[m]]
  PROVE  Standing(m)'
<1>. SUFFICES ASSUME state[m] \in {"reserved", "live"}, NEW k \in Storages
     PROVE  /\ PoolCapacity(m, k)' * request'[m].bytes = reservation'[m][k]
            /\ request'[m].auto => reservation'[m][k] <= Fair(budget[m], k)'
  BY DEF Standing
<1>1. PoolCapacity(m, k)' = PoolCapacity(m, k) BY DEF PoolCapacity
<1>2. Fair(budget[m], k)' = Fair(budget[m], k) BY DEF Fair
<1>. QED BY <1>1, <1>2 DEF Standing

LEMMA StandingOfPlan ==
  ASSUME IInv, StandingInv, NEW l \in Loaders, Reserve(l)
  PROVE  Standing(l)'
<1>0. TypeOK /\ Fits BY DEF IInv
<1>. PICK b \in Budgets, r \in Request, d \in Devices :
       b = budget[l] /\ r = request[l] /\ d = device[l]
  BY <1>0 DEF IInv, Reserve, SlotsAgree, TypeOK
<1>1. PICK p \in Plans(b, r, d) :
        /\ reservation' = [reservation EXCEPT ![l] = p.bytes]
        /\ batches' = [batches EXCEPT ![l] = p.batches]
  BY DEF Reserve
<1>2. /\ p.bytes["host"] = Plus(p.batches["host"], r.workers) * r.bytes
      /\ p.bytes["device"] = IF d = Cpu THEN 0 ELSE Plus(p.batches["device"], 1) * r.bytes
      /\ r.auto => p.bytes["host"] <= Fair(b, "host") /\ p.bytes["device"] <= Fair(b, "device")
  BY <1>0, PlanPays DEF StandingInv
<1>3. /\ reservation'[l] = p.bytes /\ batches'[l] = p.batches
      /\ UNCHANGED <<count, capacity, device, budget, request>>
  BY <1>0, <1>1 DEF Reserve, TypeOK
<1>4. ASSUME NEW k \in Storages
      PROVE  /\ PoolCapacity(l, k)' * request'[l].bytes = reservation'[l][k]
             /\ request'[l].auto => reservation'[l][k] <= Fair(budget[l], k)'
  <2>1. Fair(budget[l], k)' = Fair(b, k) BY <1>3 DEF Fair
  <2>2. CASE k = "host"
    <3>1. PoolCapacity(l, k)' = Plus(p.batches["host"], r.workers) BY <1>3, <2>2 DEF PoolCapacity
    <3>. QED BY <1>2, <1>3, <2>1, <2>2, <3>1
  <2>3. CASE k = "device" /\ d # Cpu
    <3>1. PoolCapacity(l, k)' = Plus(p.batches["device"], 1) BY <1>3, <2>3 DEF PoolCapacity
    <3>. QED BY <1>2, <1>3, <2>1, <2>3, <3>1
  <2>4. CASE k = "device" /\ d = Cpu
    <3>1. PoolCapacity(l, k)' = 0 BY <1>3, <2>4 DEF PoolCapacity
    <3>2. r.bytes \in Nat BY SizesAssumption DEF Request, Sizes
    <3>. QED BY <1>2, <1>3, <2>1, <2>4, <3>1, <3>2
  <2>. QED BY <2>2, <2>3, <2>4 DEF Storages
<1>. QED BY <1>3, <1>4 DEF Standing

\* Loaders other than the one that moves keep what they had, and a budget
\* that one of them refers to is neither created nor destroyed.
LEMMA StandingOthers ==
  ASSUME IInv, StandingInv, NEW l \in Loaders, LoaderStep(l), NEW m \in Loaders \ {l}
  PROVE  Standing(m)'
<1>0. TypeOK /\ SlotsAgree BY DEF IInv
<1>1. /\ state'[m] = state[m] /\ device'[m] = device[m] /\ budget'[m] = budget[m]
      /\ request'[m] = request[m] /\ reservation'[m] = reservation[m] /\ batches'[m] = batches[m]
  BY <1>0 DEF LoaderStep, Obtain, Reserve, Refuse, ConstructionFails, ConstructionEnds, Release,
              Destroyed, Vanish, TypeOK
<1>2. ASSUME state[m] \in {"reserved", "live"}
      PROVE  capacity'[budget[m]] = capacity[budget[m]] /\ count'[budget[m]] = count[budget[m]]
  <2>1. budget[m] \in Budgets /\ Alive(budget[m])
    BY <1>0, <1>2 DEF SlotsAgree, TypeOK, Alive
  <2>2. ASSUME NEW b \in Budgets, NEW d \in Devices, Create(d, b)
        PROVE  capacity'[budget[m]] = capacity[budget[m]] /\ count'[budget[m]] = count[budget[m]]
    <3>1. budget[m] # b BY <2>1, <2>2 DEF Create
    <3>. QED BY <1>0, <2>1, <2>2, <3>1 DEF Create, TypeOK
  <2>3. ASSUME NEW leak, Vanish(l, leak)
        PROVE  capacity'[budget[m]] = capacity[budget[m]] /\ count'[budget[m]] = count[budget[m]]
    <3>. DEFINE last == \A x \in Loaders \ {l} : budget[x] # budget[l]
    <3>1. /\ count' = IF last THEN [count EXCEPT ![budget[l]] = 1] ELSE count
          /\ capacity' = IF last THEN [capacity EXCEPT ![budget[l]] = Nil] ELSE capacity
      BY <2>3 DEF Vanish, Unreferenced
    <3>2. last => budget[m] # budget[l] OBVIOUS
    <3>. HIDE DEF last
    <3>. QED BY <1>0, <2>1, <3>1, <3>2 DEF TypeOK
  <2>4. CASE \E d \in Devices, r \in Requests : Obtain(l, d, r)
    BY <2>2, <2>4 DEF Obtain
  <2>5. CASE Refuse(l) \/ ConstructionFails(l) \/ Destroyed(l)
    BY <2>3, <2>5 DEF Refuse, ConstructionFails, Destroyed
  <2>6. CASE Reserve(l) \/ ConstructionEnds(l) \/ Release(l)
    BY <2>6 DEF Reserve, ConstructionEnds, Release, budgetVars
  <2>. QED BY <2>4, <2>5, <2>6 DEF LoaderStep
<1>. QED BY <1>1, <1>2, StandingKept DEF StandingInv

LEMMA CapacityStaysSize ==
  ASSUME IInv, CapacitySizes, [Next]_vars
  PROVE  CapacitySizes'
<1>0. TypeOK /\ SlotsAgree /\ 0 \in Sizes BY SizesAssumption DEF IInv, Sizes
<1>1. CASE UNCHANGED capacity BY <1>1 DEF CapacitySizes
<1>2. ASSUME NEW b \in Budgets, NEW d \in Devices, Create(d, b) PROVE CapacitySizes'
  <2>1. PICK c \in Capacities :
          capacity' = [capacity EXCEPT ![b] = IF d = Cpu THEN [c EXCEPT !["device"] = 0] ELSE c]
    BY <1>2 DEF Create
  <2>2. c \in [Kinds -> Sizes] /\ [c EXCEPT !["device"] = 0] \in [Kinds -> Sizes]
    BY <1>0, SizesAssumption
  <2>. QED BY <1>0, <2>1, <2>2 DEF CapacitySizes, TypeOK
<1>3. ASSUME NEW l \in Loaders, NEW leak, Vanish(l, leak) PROVE CapacitySizes'
  <2>. DEFINE last == \A x \in Loaders \ {l} : budget[x] # budget[l]
  <2>1. capacity' = IF last THEN [capacity EXCEPT ![budget[l]] = Nil] ELSE capacity
    BY <1>3 DEF Vanish, Unreferenced
  <2>. HIDE DEF last
  <2>. QED BY <1>0, <2>1 DEF CapacitySizes, TypeOK, Nil
<1>4. ASSUME NEW n \in Counts, SetExpectedLoaderCount(n) PROVE CapacitySizes'
  BY <1>1, <1>4 DEF SetExpectedLoaderCount
<1>5. ASSUME NEW l \in Loaders, LoaderStep(l) PROVE CapacitySizes'
  <2>1. CASE \E d \in Devices, r \in Requests : Obtain(l, d, r) BY <1>1, <1>2, <2>1 DEF Obtain
  <2>2. CASE Refuse(l) \/ ConstructionFails(l) \/ Destroyed(l)
    BY <1>3, <2>2 DEF Refuse, ConstructionFails, Destroyed
  <2>3. CASE Reserve(l) \/ ConstructionEnds(l) \/ Release(l)
    BY <1>1, <2>3 DEF Reserve, ConstructionEnds, Release, budgetVars
  <2>. QED BY <1>5, <2>1, <2>2, <2>3 DEF LoaderStep
<1>. QED BY <1>1, <1>4, <1>5 DEF Next, vars, budgetVars

LEMMA StandingStep ==
  ASSUME IInv, StandingInv, [Next]_vars
  PROVE  StandingInv'
<1>0. TypeOK BY DEF IInv
<1>1. CapacitySizes' BY CapacityStaysSize DEF StandingInv
<1>2. CASE UNCHANGED <<loaderVars, capacity, count>>
  BY <1>1, <1>2, StandingKept DEF StandingInv, loaderVars
<1>3. ASSUME NEW n \in Counts, SetExpectedLoaderCount(n) PROVE StandingInv'
  BY <1>2, <1>3 DEF SetExpectedLoaderCount
<1>4. ASSUME NEW l \in Loaders, LoaderStep(l) PROVE StandingInv'
  <2>1. Standing(l)'
    <3>1. CASE state'[l] \notin {"reserved", "live"} BY <3>1 DEF Standing
    <3>2. CASE Reserve(l) BY <3>2, StandingOfPlan
    <3>3. CASE ConstructionEnds(l)
      <4>1. Standing(l) BY DEF StandingInv
      <4>2. \A k \in Storages : PoolCapacity(l, k)' = PoolCapacity(l, k)
                                /\ Fair(budget[l], k)' = Fair(budget[l], k)
        BY <3>3 DEF ConstructionEnds, PoolCapacity, Fair, budgetVars
      <4>. QED BY <3>3, <4>1, <4>2 DEF ConstructionEnds, Standing
    <3>4. CASE (\E d \in Devices, r \in Requests : Obtain(l, d, r)) \/ Refuse(l)
               \/ ConstructionFails(l) \/ Release(l) \/ Destroyed(l)
      BY <1>0, <3>1, <3>4
         DEF Obtain, Refuse, ConstructionFails, Release, Destroyed, Vanish, TypeOK
    <3>. QED BY <1>4, <3>2, <3>3, <3>4 DEF LoaderStep
  <2>2. \A m \in Loaders \ {l} : Standing(m)' BY <1>4, StandingOthers
  <2>. QED BY <1>1, <2>1, <2>2 DEF StandingInv
<1>. QED BY <1>2, <1>3, <1>4 DEF Next, vars, budgetVars

\* Reservations and the pools they pay for agree, and automatic ones respect
\* the fair share, in every reachable state.
THEOREM ReservationsPay == Spec => []StandingInv
<1>1. Init => StandingInv
  BY SizesAssumption DEF Init, StandingInv, CapacitySizes, Standing, Nil, Sizes
<1>. QED BY <1>1, StandingStep, BudgetInvariant, PTL DEF Spec

LEMMA HolderStands ==
  ASSUME IInv, HeldInv, StandingInv, NEW b \in Budgets, NEW m \in Holders(b), NEW k \in Storages
  PROVE  /\ Part(k)[m] \in Nat /\ m \in Loaders
         /\ PoolCapacity(m, k) * request[m].bytes = Part(k)[m]
         /\ request[m].auto => Part(k)[m] <= Fair(b, k)
<1>1. /\ m \in Loaders /\ budget[m] = b /\ state[m] \in {"reserved", "live"} /\ k \in Kinds
  BY DEF Holders, Storages, Kinds
<1>2. Part(k)[m] = reservation[m][k] /\ reservation[m][k] \in Nat
  BY <1>1 DEF Part, IInv, TypeOK
<1>. QED BY <1>1, <1>2 DEF StandingInv, Standing

\* The pools of all the loaders of a budget, full, fit in its capacity.
THEOREM StorageAlwaysFits == Spec => []StorageFits
<1>1. IInv /\ HeldInv /\ StandingInv => StorageFits
  <2>. SUFFICES ASSUME IInv, HeldInv, StandingInv,
                       NEW b \in Budgets, NEW k \in Storages, Alive(b)
       PROVE  SumFunctionOnSet([l \in Loaders |-> PoolCapacity(l, k) * request[l].bytes], Holders(b))
                <= capacity[b][k]
    BY DEF StorageFits, Storages
  <2>. DEFINE full == [l \in Loaders |-> PoolCapacity(l, k) * request[l].bytes]
  <2>1. k \in Kinds /\ TypeOK /\ Fits BY DEF Storages, Kinds, IInv
  <2>2. \A m \in Holders(b) : full[m] \in Int /\ full[m] = Part(k)[m] BY HolderStands
  <2>. HIDE DEF full
  <2>3. SumFunctionOnSet(full, Holders(b)) = Held(b, k)
    BY <2>2, SumEqual DEF Held, HeldInv, HoldersFinite
  <2>4. reserved[b][k] = lost[b][k] + Held(b, k) BY <2>1, ReservedIsHeldIs DEF HeldInv
  <2>5. Held(b, k) \in Nat BY <2>1, HeldIsNat DEF HeldInv
  <2>6. /\ lost[b][k] \in Nat /\ reserved[b][k] \in Nat /\ capacity[b][k] \in Nat
        /\ reserved[b][k] <= capacity[b][k]
    BY <2>1 DEF TypeOK, Fits
  <2>7. SumFunctionOnSet(full, Holders(b)) <= capacity[b][k] BY <2>3, <2>4, <2>5, <2>6
  <2>. QED BY <2>7 DEF full
<1>. QED BY <1>1, BudgetInvariant, HeldInvariant, ReservationsPay, PTL

\* With fewer automatic holders than expected, a whole share remains: they
\* hold at most one each, and count times the share is within the capacity.
LEMMA ShareRemains ==
  ASSUME IInv, HeldInv, StandingInv, NEW b \in Budgets, Alive(b), NEW k \in Storages,
         lost[b] = Nil, \A m \in Holders(b) : request[m].auto,
         Cardinality(Holders(b)) < count[b]
  PROVE  Fair(b, k) \in Nat /\ AtMost(Fair(b, k), Remaining(b, k)) = Fair(b, k)
<1>0. k \in Kinds /\ TypeOK BY DEF Storages, Kinds, IInv
<1>. PICK n \in Nat, c \in Nat \ {0}, x \in Nat, y \in Nat :
       n = Cardinality(Holders(b)) /\ c = count[b] /\ x = capacity[b][k] /\ y = reserved[b][k]
  BY <1>0, CountIsNat DEF TypeOK, HeldInv, HoldersFinite
<1>. PICK f \in Nat : f = x \div c BY DivisionBounds
<1>1. f = Fair(b, k) BY DEF Fair
<1>2. f * c <= x BY DivisionBounds
<1>3. Held(b, k) <= n * f
  <2>1. \A m \in Holders(b) : Part(k)[m] \in Nat /\ Part(k)[m] <= f BY <1>1, HolderStands
  <2>. QED BY <2>1, SumBounded DEF Held, HeldInv, HoldersFinite
<1>4. y = Held(b, k)
  <2>1. y = lost[b][k] + Held(b, k) BY <1>0, ReservedIsHeldIs DEF HeldInv
  <2>2. lost[b][k] = 0 BY <1>0 DEF Nil
  <2>3. Held(b, k) \in Nat BY <1>0, HeldIsNat DEF HeldInv
  <2>. QED BY <2>1, <2>2, <2>3
<1>5. (n + 1) * f <= c * f BY ProductGrows
<1>6. n * f \in Nat /\ c * f = f * c /\ (n + 1) * f = n * f + f /\ f * c \in Nat OBVIOUS
<1>7. y + f <= x BY <1>2, <1>3, <1>4, <1>5, <1>6
<1>8. Remaining(b, k) = IF y >= x THEN 0 ELSE x - y BY DEF Remaining
<1>. QED BY <1>1, <1>7, <1>8 DEF AtMost

\* A whole share that pays for the smallest plan pays for the one chosen.
LEMMA ShareServes ==
  ASSUME IInv, StandingInv, NEW b \in Budgets, NEW k \in Storages,
         AtMost(Fair(b, k), Remaining(b, k)) = Fair(b, k),
         NEW bytes \in Nat \ {0}, NEW extra \in Sizes, NEW most \in Nat \ {0},
         (extra + 1) * bytes <= Fair(b, k)
  PROVE  \E n \in AutoPrefetch(AtMost(Fair(b, k), Remaining(b, k)), bytes, extra, most) :
            Affordable(b, k, Plus(n, extra), bytes)
<1>0. k \in Kinds /\ TypeOK /\ Fits /\ CapacitySizes
  BY DEF Storages, Kinds, IInv, StandingInv
<1>. PICK share \in Sizes : share = AtMost(Fair(b, k), Remaining(b, k)) BY <1>0, ShareIsSize
<1>1. share \in Nat /\ share <= SizeMax /\ SizeMax \in Nat BY SizesAssumption DEF Sizes
<1>2. Remaining(b, k) \in Nat /\ share <= Remaining(b, k) BY <1>0, ShareIsSize
<1>3. (extra + 1) * bytes <= share OBVIOUS
<1>4. PICK n \in AutoPrefetch(share, bytes, extra, most) :
         n \in Nat \ {0} /\ Plus(n, extra) * bytes <= share
  BY <1>3, AutoPrefetchFits
<1>5. Affordable(b, k, Plus(n, extra), bytes)
  <2>1. extra \in Nat BY SizesAssumption DEF Sizes
  <2>2. Plus(n, extra) \in Nat BY <1>4, <2>1, PlusFits
  <2>. PICK paid \in Nat : paid = Plus(n, extra) * bytes BY <2>2
  <2>3. paid <= SizeMax /\ paid <= Remaining(b, k) BY <1>1, <1>2, <1>4
  <2>. QED BY <2>3 DEF Affordable
<1>. QED BY <1>4, <1>5

\* The promise of expected_loader_count: whatever was constructed, refused
\* and destroyed before, the next of the expected automatic loaders gets a
\* plan if its smallest one fits an equal share of the capacity.
THEOREM ExpectedAreServed == Spec => []ExpectedLoadersServed
<1>1. IInv /\ HeldInv /\ StandingInv => ExpectedLoadersServed
  <2>. SUFFICES ASSUME IInv, HeldInv, StandingInv, NEW l \in Loaders,
                       state[l] = "constructing", request[l].auto,
                       request[l].bytes > 0, request[l].workers > 0,
                       lost[budget[l]] = Nil,
                       \A m \in Holders(budget[l]) : request[m].auto,
                       Cardinality(Holders(budget[l])) < count[budget[l]],
                       ShareFits(budget[l], request[l], device[l])
       PROVE  Plans(budget[l], request[l], device[l]) # {}
    BY DEF ExpectedLoadersServed
  <2>0. TypeOK BY DEF IInv
  <2>. PICK b \in Budgets, r \in Request, d \in Devices :
         b = budget[l] /\ r = request[l] /\ d = device[l]
    BY <2>0 DEF IInv, SlotsAgree, TypeOK
  <2>1. /\ r.bytes \in Nat \ {0} /\ r.workers \in Sizes /\ r.workers # 0 /\ 1 \in Sizes
        /\ "host" \in Storages /\ "device" \in Storages
        /\ MaxHostPrefetch \in Nat \ {0} /\ MaxDevicePrefetch \in Nat \ {0}
    BY SizesAssumption DEF Request, Sizes, Storages
  <2>2. \A k \in Storages : AtMost(Fair(b, k), Remaining(b, k)) = Fair(b, k)
    <3>1. Alive(b) BY DEF Alive
    <3>. QED BY <3>1, ShareRemains
  <2>3. PaidHost(b, r) # {}
    <3>1. (r.workers + 1) * r.bytes <= Fair(b, "host")
      <4>1. Fair(b, "host") >= (r.workers + 1) * r.bytes BY DEF ShareFits
      <4>. QED BY <4>1
    <3>2. \E n \in HostBatches(b, r) : Affordable(b, "host", Plus(n, r.workers), r.bytes)
      BY <2>1, <2>2, <3>1, ShareServes DEF HostBatches
    <3>. QED BY <3>2 DEF PaidHost, PaidBatches
  <2>4. PaidDevice(b, r, d) # {}
    <3>1. CASE d = Cpu BY <3>1 DEF PaidDevice, DeviceBatches
    <3>2. CASE d # Cpu
      <4>1. (1 + 1) * r.bytes <= Fair(b, "device")
        <5>1. Fair(b, "device") >= 2 * r.bytes BY <3>2 DEF ShareFits
        <5>. QED BY <5>1
      <4>2. \E n \in AutoPrefetch(AtMost(Fair(b, "device"), Remaining(b, "device")), r.bytes, 1,
                                  MaxDevicePrefetch) :
               Affordable(b, "device", Plus(n, 1), r.bytes)
        BY <2>1, <2>2, <4>1, ShareServes
      <4>3. \E n \in DeviceBatches(b, r, d) : Affordable(b, "device", Plus(n, 1), r.bytes)
        BY <3>2, <4>2 DEF DeviceBatches
      <4>. QED BY <3>2, <4>3 DEF PaidDevice, PaidBatches
    <3>. QED BY <3>1, <3>2
  <2>. QED BY <2>1, <2>3, <2>4 DEF Plans
<1>. QED BY <1>1, BudgetInvariant, HeldInvariant, ReservationsPay, PTL

=============================================================================
