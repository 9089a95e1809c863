-------------------------- MODULE MCAuditedRoutes --------------------------
(* Instances of AuditedRoutes for TLC. *)
EXTENDS AuditedRoutes, TLC

CONSTANTS t1, t2, t3
=============================================================================
