-------------------------- MODULE MCCoreSingleton --------------------------
(* Instances of CoreSingleton for TLC. *)
EXTENDS CoreSingleton

CONSTANTS c1, c2, c3, w1, w2
=============================================================================
