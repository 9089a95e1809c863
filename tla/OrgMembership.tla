--------------------------- MODULE OrgMembership ---------------------------
(***************************************************************************)
(* Membership of one organization: services/org_service.py behind          *)
(* api/routes/orgs.py, and the first enrollment of an empty organization   *)
(* with its single-use temp_token (api/routes/auth.py, enroll_device).     *)
(*                                                                         *)
(* Each session is one HTTP request in one PostgreSQL transaction at READ  *)
(* COMMITTED.  Its SELECTs see what is committed when each of them runs;   *)
(* an UPDATE, a DELETE or an INSERT of the same unique key waits for the   *)
(* transaction that wrote the row, and acts on the row as it then is.  An  *)
(* INSERT that refers to the organization (org_members, devices) shares    *)
(* the organization's row until its transaction ends, and waits for one    *)
(* that has locked that row.  Where waiting closes a cycle PostgreSQL ends *)
(* one of the transactions: a Crash or an EnrollError here.                *)
(***************************************************************************)
EXTENDS Naturals, FiniteSets

CONSTANTS Users,
          Sessions,      \* requests in flight at the same time
          Roles,         \* the roles requests may grant
          Tokens,        \* temp_tokens issued by the OIDC callback
          TokenUser,     \* whose temp_token it is
          FirstMembers,  \* the membership tables to start from
          MaxRequests    \* bound on the requests a session serves

AllRoles == {"viewer", "auditor", "approver", "developer", "admin", "owner"}
None == "none"
Free == "free"

ASSUME MembershipAssumption ==
    /\ IsFiniteSet(Users) /\ Users # {} /\ Tokens # {}
    /\ Free \notin Sessions
    /\ Roles \subseteq AllRoles
    /\ TokenUser \in [Tokens -> Users]
    /\ FirstMembers \subseteq [Users -> Roles \cup {None}]
    /\ MaxRequests \in Nat

VARIABLES member,   \* committed org_members: the role of each user
          lock,     \* which session has written, or locks, a member row
          orglock,  \* which session locks the organization row
          token,    \* the temp_token store: "stored", "claimed" or "expired"
          device,   \* number of devices committed with each temp_token
          session,
          served,   \* requests each session has finished
          stale,    \* sessions whose target's row was deleted after they read it
          overtaken \* history: sessions during whose request the owners changed

vars == <<member, lock, orglock, token, device, session, served, stale, overtaken>>

\* seen: the target's role as this request read it.
Idle == [pc |-> "idle", op |-> "none", who |-> CHOOSE u \in Users : TRUE,
         target |-> CHOOSE u \in Users : TRUE, role |-> "viewer", seen |-> None,
         token |-> CHOOSE k \in Tokens : TRUE]

Init ==
    /\ member \in FirstMembers
    /\ lock = [u \in Users |-> Free]
    /\ orglock = Free
    /\ token = [k \in Tokens |-> "stored"]
    /\ device = [k \in Tokens |-> 0]
    /\ session = [p \in Sessions |-> Idle]
    /\ served = [p \in Sessions |-> 0]
    /\ stale = {} /\ overtaken = {}

-----------------------------------------------------------------------------
\* models/schemas.py ROLE_RANK; -1 and 99 of the code for a missing role.
Rank(role) ==
    CASE role = "viewer" -> 0 [] role = "auditor" -> 1 [] role = "approver" -> 2
      [] role = "developer" -> 2 [] role = "admin" -> 3 [] role = "owner" -> 4

Owners == {u \in Users : member[u] = "owner"}
Members == {u \in Users : member[u] # None}

\* MEMBER_MANAGE (add, change) and DEVICE_REVOKE (remove): admins and owners.
Manages(u) == member[u] \in {"admin", "owner"}

At(p, pc) == session[p].pc = pc
Goto(p, pc) == session' = [session EXCEPT ![p].pc = pc]

\* The request goes on and has written nothing more.
GoOn(p, pc) ==
    /\ Goto(p, pc)
    /\ UNCHANGED <<member, lock, orglock, token, device, served, stale, overtaken>>

\* q has read the row of its target, which is there no more once p has
\* committed; a new row of the same user has another member_id.
LosesRow(q) ==
    /\ session[q].pc \in {"delete", "rank", "count", "update"}
    /\ member[session[q].target] # None /\ member'[session[q].target] = None

\* The request is over: locks are released and the session serves another one.
Finish(p) ==
    /\ lock' = [u \in Users |-> IF lock[u] = p THEN Free ELSE lock[u]]
    /\ orglock' = IF orglock = p THEN Free ELSE orglock
    /\ session' = [session EXCEPT ![p] = Idle]
    /\ served' = [served EXCEPT ![p] = @ + 1]
    /\ stale' = {q \in Sessions \ {p} : q \in stale \/ LosesRow(q)}
    /\ overtaken' = IF Owners' = Owners THEN overtaken \ {p}
                    ELSE {q \in Sessions \ {p} : ~At(q, "idle")}

\* An exception: get_db rolls back, nothing of the request remains.
Refuse(p) == UNCHANGED <<member, token, device>> /\ Finish(p)

\* require_permission of add_member, remove_member and change_role.
Open(p, op, who, target, role) ==
    /\ At(p, "idle") /\ served[p] < MaxRequests
    /\ Manages(who)
    /\ session' = [session EXCEPT ![p] = [Idle EXCEPT !.pc = op, !.op = op,
                      !.who = who, !.target = target, !.role = role]]
    /\ UNCHANGED <<member, lock, orglock, token, device, served, stale, overtaken>>

\* A new row that refers to the organization waits for the lock of another.
CanShare(p) == orglock \in {Free, p}

-----------------------------------------------------------------------------
(* add_member *)

\* _enforce_role_ceiling, and the target must not be a member yet.
CheckInvite(p) ==
    LET s == session[p] IN
    /\ At(p, "add")
    /\ IF /\ member[s.who] # None /\ Rank(s.role) <= Rank(member[s.who])
          /\ member[s.target] = None
       THEN GoOn(p, "insert")
       ELSE Refuse(p)

\* INSERT: waits for another insert of the same (org, user), and fails on
\* uq_org_member when that one commits.
InsertMember(p) ==
    LET u == session[p].target IN
    /\ At(p, "insert") /\ lock[u] = Free /\ CanShare(p)
    /\ IF member[u] = None
       THEN /\ lock' = [lock EXCEPT ![u] = p]
            /\ Goto(p, "inserted")
            /\ UNCHANGED <<member, orglock, token, device, served, stale, overtaken>>
       ELSE Refuse(p)

CommitInsert(p) ==
    /\ At(p, "inserted")
    /\ member' = [member EXCEPT ![session[p].target] = session[p].role]
    /\ Finish(p)
    /\ UNCHANGED <<token, device>>

-----------------------------------------------------------------------------
(* remove_member *)

\* A missing member is a 404, the owner is not removed.
Removable(role) == role \notin {None, "owner"}

CheckRemove(p) ==
    /\ At(p, "remove")
    /\ IF Removable(member[session[p].target])
       THEN GoOn(p, "delete")
       ELSE Refuse(p)

\* DELETE by primary key: whatever role the row has by now; nothing, if the row
\* has gone.
DeleteMember(p) ==
    LET u == session[p].target IN
    /\ At(p, "delete") /\ lock[u] = Free
    /\ IF p \notin stale
       THEN /\ lock' = [lock EXCEPT ![u] = p]
            /\ Goto(p, "deleted")
            /\ UNCHANGED <<member, orglock, token, device, served, stale, overtaken>>
       ELSE Refuse(p)

CommitDelete(p) ==
    /\ At(p, "deleted")
    /\ member' = [member EXCEPT ![session[p].target] = None]
    /\ Finish(p)
    /\ UNCHANGED <<token, device>>

-----------------------------------------------------------------------------
(* change_role *)

ReadTarget(p) ==
    LET s == session[p] IN
    /\ At(p, "change")
    /\ IF member[s.target] = None THEN Refuse(p)
       ELSE /\ session' = [session EXCEPT ![p] = [session[p] EXCEPT !.pc = "rank",
                                                                    !.seen = member[s.target]]]
            /\ UNCHANGED <<member, lock, orglock, token, device, served, stale, overtaken>>

\* The requester's role, read again; a request about oneself gets the row that
\* is already loaded, if it still exists.
RequesterRole(p) ==
    LET s == session[p] IN IF s.who = s.target /\ p \notin stale THEN s.seen ELSE member[s.who]

\* Nobody grants more than their own rank, or touches a peer or a superior.
MayChange(p) ==
    LET s == session[p] IN
    /\ RequesterRole(p) # None
    /\ Rank(s.role) <= Rank(RequesterRole(p))
    /\ s.who # s.target => Rank(s.seen) < Rank(RequesterRole(p))

DemotesOwner(s) == s.seen = "owner" /\ s.role # "owner"

\* A role equal to the one read leaves nothing to flush.
CheckRanks(p) ==
    /\ At(p, "rank")
    /\ IF MayChange(p) /\ session[p].role # session[p].seen
       THEN IF DemotesOwner(session[p]) THEN GoOn(p, "count") ELSE GoOn(p, "update")
       ELSE Refuse(p)

\* Variant: the demoted owner is counted among the owners who stay.
OwnerLeft == Cardinality(Owners) > 0

\* len(owners) <= 1 is refused.
AnotherOwner == Cardinality(Owners) > 1

CountOwners(p) ==
    /\ At(p, "count")
    /\ IF AnotherOwner
       THEN GoOn(p, "update")
       ELSE Refuse(p)

\* UPDATE by primary key; a row that has gone is a StaleDataError.
UpdateRole(p) ==
    LET u == session[p].target IN
    /\ At(p, "update") /\ lock[u] = Free
    /\ IF p \notin stale
       THEN /\ lock' = [lock EXCEPT ![u] = p]
            /\ Goto(p, "updated")
            /\ UNCHANGED <<member, orglock, token, device, served, stale, overtaken>>
       ELSE Refuse(p)

CommitUpdate(p) ==
    /\ At(p, "updated")
    /\ member' = [member EXCEPT ![session[p].target] = session[p].role]
    /\ Finish(p)
    /\ UNCHANGED <<token, device>>

-----------------------------------------------------------------------------
(* enroll_device *)

StartEnroll(p, k) ==
    session' = [session EXCEPT ![p] = [Idle EXCEPT !.pc = "enroll", !.op = "enroll",
                   !.who = TokenUser[k], !.target = TokenUser[k], !.token = k]]

\* Variant: get() now, pop() after the enrollment.
GetToken(p, k) ==
    /\ At(p, "idle") /\ served[p] < MaxRequests
    /\ token[k] = "stored"
    /\ StartEnroll(p, k)
    /\ UNCHANGED <<member, lock, orglock, token, device, served, stale, overtaken>>

\* _TEMP_TOKEN_STORE.claim: valid, and gone with the same operation.
ClaimToken(p, k) ==
    /\ At(p, "idle") /\ served[p] < MaxRequests
    /\ token[k] = "stored"
    /\ token' = [token EXCEPT ![k] = "claimed"]
    /\ StartEnroll(p, k)
    /\ UNCHANGED <<member, lock, orglock, device, served, stale, overtaken>>

\* An exception in the handler puts the token back; an expired one stays dead.
EnrollFails(p) ==
    LET k == session[p].token IN
    /\ token' = [token EXCEPT ![k] = IF @ = "claimed" THEN "stored" ELSE @]
    /\ UNCHANGED <<member, device>>
    /\ Finish(p)

ReadRole(p) ==
    /\ At(p, "enroll")
    /\ IF member[session[p].who] # None THEN GoOn(p, "device") ELSE GoOn(p, "bootstrap")

\* A stranger to an organization that has members.
Uninvited(p) == member[session[p].who] = None /\ Members # {}

\* Somebody else made the user a member meanwhile, or the user is the first.
Invited(p) ==
    /\ Goto(p, IF member[session[p].who] # None THEN "device" ELSE "first")
    /\ UNCHANGED <<member, lock, token, device, served, stale, overtaken>>

\* Variant: the organization row is not locked.
BootstrapUnlocked(p) ==
    /\ At(p, "bootstrap")
    /\ IF Uninvited(p) THEN EnrollFails(p)
       ELSE Invited(p) /\ UNCHANGED orglock

\* SELECT ... FOR UPDATE of the organization, which waits for those who have
\* inserted a member; then the role again, and only an empty organization is
\* joined without an invitation.
Bootstrap(p) ==
    /\ At(p, "bootstrap") /\ orglock = Free /\ ~\E q \in Sessions : At(q, "inserted")
    /\ IF Uninvited(p) THEN EnrollFails(p)
       ELSE Invited(p) /\ orglock' = p

\* The flush of the first membership; a member by now fails on uq_org_member.
InsertFirst(p) ==
    LET u == session[p].who IN
    /\ At(p, "first") /\ lock[u] = Free
    /\ IF member[u] = None
       THEN /\ lock' = [lock EXCEPT ![u] = p]
            /\ Goto(p, "firstdevice")
            /\ UNCHANGED <<member, orglock, token, device, served, stale, overtaken>>
       ELSE EnrollFails(p)

\* The device row, its audit event, and the first membership.
CommitDevice(p) ==
    LET s == session[p] IN
    /\ s.pc \in {"device", "firstdevice"} /\ CanShare(p)
    /\ device' = [device EXCEPT ![s.token] = @ + 1]
    /\ member' = IF s.pc = "device" THEN member
                 ELSE [member EXCEPT ![s.who] = "developer"]
    /\ Finish(p)
    /\ UNCHANGED token

\* The database fails inside the handler.
EnrollError(p) ==
    /\ session[p].pc \in {"enroll", "bootstrap", "first", "device", "firstdevice"}
    /\ EnrollFails(p)

\* The process dies, or the commit after the handler fails.
Crash(p) ==
    /\ session[p].pc # "idle"
    /\ Refuse(p)

\* Five minutes have passed.
ExpireToken(k) ==
    /\ token[k] # "expired"
    /\ token' = [token EXCEPT ![k] = "expired"]
    /\ UNCHANGED <<member, lock, orglock, device, session, served, stale, overtaken>>

-----------------------------------------------------------------------------
Manage(p) ==
    \/ \E who, target \in Users, role \in Roles :
         Open(p, "add", who, target, role) \/ Open(p, "change", who, target, role)
    \/ \E who, target \in Users : Open(p, "remove", who, target, "viewer")
    \/ CheckInvite(p) \/ InsertMember(p) \/ CommitInsert(p)
    \/ CheckRemove(p) \/ DeleteMember(p) \/ CommitDelete(p)
    \/ ReadTarget(p) \/ CheckRanks(p) \/ CountOwners(p) \/ UpdateRole(p) \/ CommitUpdate(p)

Enroll(p) ==
    \/ \E k \in Tokens : ClaimToken(p, k)
    \/ ReadRole(p) \/ Bootstrap(p) \/ InsertFirst(p) \/ CommitDevice(p) \/ EnrollError(p)

Next ==
    \/ \E p \in Sessions : Manage(p) \/ Enroll(p) \/ Crash(p)
    \/ \E k \in Tokens : ExpireToken(k)

Spec == Init /\ [][Next]_vars

-----------------------------------------------------------------------------
(* Properties *)

TypeOK ==
    /\ member \in [Users -> AllRoles \cup {None}]
    /\ lock \in [Users -> Sessions \cup {Free}]
    /\ orglock \in Sessions \cup {Free}
    /\ token \in [Tokens -> {"stored", "claimed", "expired"}]
    /\ device \in [Tokens -> Nat]
    /\ session \in [Sessions ->
         [pc : {"idle", "add", "insert", "inserted", "remove", "delete", "deleted",
                "change", "rank", "count", "update", "updated",
                "enroll", "bootstrap", "first", "device", "firstdevice"},
          op : {"none", "add", "remove", "change", "enroll"},
          who : Users, target : Users, role : AllRoles,
          seen : AllRoles \cup {None}, token : Tokens]]
    /\ served \in [Sessions -> 0..MaxRequests]
    /\ stale \subseteq Sessions /\ overtaken \subseteq Sessions

\* org_service.py:199 and 226 promise one owner at least.  A request keeps that
\* promise if the owners do not change while it goes on: only one whose checks
\* another commit has overtaken, as when two owners step down at once (259), may
\* leave an organization that had an owner without one.
OwnerKept ==
    [][\A p \in Sessions :
          session'[p] # session[p] /\ Owners # {} /\ Owners' = {} => p \in overtaken]_vars

\* auth.py:454-457: of several users who enroll in an empty organization at
\* once, one becomes its first member, and nobody gets in that way later, however
\* many requests add, remove and change members meanwhile.
BootstrapsEmptyOrganization ==
    [][\A p \in Sessions : At(p, "firstdevice") /\ member' # member => Members = {}]_vars

\* auth.py:433-437: one temp_token registers one device, whatever fails, is
\* retried or is sent twice, and a token that can still be claimed has
\* registered none.
OneDevicePerToken ==
    \A k \in Tokens : /\ device[k] <= 1
                      /\ token[k] = "stored" => device[k] = 0
=============================================================================
