---------------------------- MODULE MCRelayQueue ----------------------------
(* Instances of RelayQueue for TLC. *)
EXTENDS RelayQueue, TLC

CONSTANTS w1, w2
=============================================================================
