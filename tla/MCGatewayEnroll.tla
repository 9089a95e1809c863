--------------------------- MODULE MCGatewayEnroll ---------------------------
(* Instances of GatewayEnroll for TLC. *)
EXTENDS GatewayEnroll, TLC

CONSTANTS r1, r2, r3, r4, d1, i1, i2, i3, i4

\* Three requests of one account, and one that names none.
Overlapping == (r1 :> d1 @@ r2 :> d1 @@ r3 :> d1 @@ r4 :> NoAccount)

IdSymmetry == Permutations(Ids)
=============================================================================
