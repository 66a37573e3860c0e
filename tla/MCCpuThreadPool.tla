-------------------------- MODULE MCCpuThreadPool --------------------------
(* CpuThreadPool on small instances: with three workers, four indices make  *)
(* two chunks and leave the third empty, and one index is run by the caller.*)
EXTENDS CpuThreadPool

MCRanges == {<<0, 4>>, <<3, 4>>, <<2, 2>>}

=============================================================================
