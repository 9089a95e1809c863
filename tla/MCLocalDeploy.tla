--------------------------- MODULE MCLocalDeploy ---------------------------
(* Instances of LocalDeploy for TLC. *)
EXTENDS LocalDeploy, TLC

CONSTANTS d1, d2, d3, k1, k2, p1, p2, p3

\* Deployments, rollbacks and plans are interchangeable.
Symmetry == Permutations(Deploys) \cup Permutations(Rollbacks) \cup Permutations(Plans)
=============================================================================
