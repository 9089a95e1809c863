-------------------------- MODULE MCApprovalVoting --------------------------
(* Instances of ApprovalVoting for TLC. *)
EXTENDS ApprovalVoting, TLC

CONSTANTS u1, u2, u3, p1, p2
=============================================================================
