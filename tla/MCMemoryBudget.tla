--------------------------- MODULE MCMemoryBudget ---------------------------
(* MemoryBudget on a host and one accelerator.  The requests are one        *)
(* automatic loader of each batch size and a manual loader whose batch count *)
(* overflows or not; the capacities let two loaders fit, or only one.       *)
EXTENDS MemoryBudget, TLC

Auto(bytes, workers) ==
  [auto |-> TRUE, bytes |-> bytes, workers |-> workers, cache |-> 0, host |-> 0, device |-> 0]

Manual(bytes, workers, cache, host, dev) ==
  [auto |-> FALSE, bytes |-> bytes, workers |-> workers, cache |-> cache, host |-> host,
   device |-> dev]

MCRequests == {Auto(2, 1), Auto(1, 2), Manual(2, 1, 2, 2, 1), Manual(1, 1, 0, 31, 1)}

Space(cache, host, dev) ==
  [k \in Kinds |-> CASE k = "cache" -> cache [] k = "host" -> host [] k = "device" -> dev]

MCCapacities == {Space(3, 8, 8)}

BudgetSymmetry == Permutations(Loaders) \cup Permutations(Budgets)
=============================================================================
