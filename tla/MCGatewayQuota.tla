--------------------------- MODULE MCGatewayQuota ---------------------------
(* Instances of GatewayQuota for TLC. *)
EXTENDS GatewayQuota, TLC

CONSTANTS r1, r2, r3, s1

OneStudent == (r1 :> s1 @@ r2 :> s1 @@ r3 :> s1)

Symmetric == Permutations({r1, r2, r3})
=============================================================================
