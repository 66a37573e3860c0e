--------------------------- MODULE MCBlockingQueue ---------------------------
(* BlockingQueueImpl on small instances; the threads run the same code but  *)
(* liveness is checked, so no symmetry is declared.                         *)
EXTENDS BlockingQueueImpl

=============================================================================
