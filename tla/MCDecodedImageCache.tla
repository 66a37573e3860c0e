------------------------ MODULE MCDecodedImageCache ------------------------
(* DecodedImageCache with images of several sizes: one fills the cache, one *)
(* is too large for it.                                                     *)
EXTENDS DecodedImageCache, TLC

CONSTANTS k1, k2, k3, k4, k5

MCKeys == {k1, k2, k3, k4, k5}
MCSize == (k1 :> 1) @@ (k2 :> 2) @@ (k3 :> 2) @@ (k4 :> 4) @@ (k5 :> 5)

WorkerSymmetry == Permutations(Workers)
=============================================================================
