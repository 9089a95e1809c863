-------------------------- MODULE MCOrgMembership --------------------------
(* Instances of OrgMembership for TLC. *)
EXTENDS OrgMembership, TLC

CONSTANTS u1, u2, u3, k1, k2, p1, p2

\* One temp_token each for the first two users.
TwoTokens == (k1 :> u1 @@ k2 :> u2)

\* Nobody yet; two owners; an organization whose owners are gone.
Nobody == [u \in Users |-> None]
TwoOwners == [Nobody EXCEPT ![u1] = "owner", ![u2] = "owner"]
OneAdmin == [Nobody EXCEPT ![u1] = "admin"]
Starts == {Nobody, TwoOwners, OneAdmin}

SessionSymmetry == Permutations(Sessions)
=============================================================================
