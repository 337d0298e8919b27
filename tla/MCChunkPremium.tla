--------------------------- MODULE MCChunkPremium ---------------------------
(* Instances of ChunkPremium for TLC.                                      *)
EXTENDS ChunkPremium, TLC

CONSTANTS s1, s2, b1

(* A large and a small seller, and a buyer of either.                      *)
UnequalSellers == (s1 :> {4}) @@ (s2 :> {2}) @@ (b1 :> {2, 4})
=============================================================================
