------------------------- MODULE MCDynPatternCache -------------------------
(***************************************************************************)
(* A small instance of DynPatternCache: a cache of two entries for three   *)
(* sources, two of which share a bucket.                                   *)
(***************************************************************************)
EXTENDS DynPatternCache, TLC

CONSTANTS s1, s2, s3, o1, o2, o3, o4

MCSources == {s1, s2, s3}
MCObjects == {o1, o2, o3, o4}
MCBucket  == (s1 :> 0) @@ (s2 :> 1) @@ (s3 :> 0)
Addresses == Permutations(MCObjects)
=============================================================================
