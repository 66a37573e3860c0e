---------------------------- MODULE MCDataLoader ----------------------------
(* DataLoader on small instances. *)
EXTENDS DataLoader, TLC

\* The loader workers are interchangeable (safety runs only).
WorkerSymmetry == Permutations(Workers)

=============================================================================
