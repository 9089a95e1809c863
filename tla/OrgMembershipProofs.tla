------------------------ MODULE OrgMembershipProofs ------------------------
(***************************************************************************)
(* Proofs about OrgMembership, for any users, sessions, tokens and start.  *)
(*                                                                         *)
(* A temp_token: while a session enrolls with it nobody else does, it is   *)
(* no longer stored and has registered nothing, and only a session that    *)
(* enrolls registers a device or puts the token back.                      *)
(*                                                                         *)
(* The members, however many sessions manage them: who has written a       *)
(* member row holds its lock; who joins as the first member has locked the *)
(* organization when it was empty and nobody had inserted a member, so     *)
(* nobody can; and what a request has read of the owners stays true until  *)
(* a commit changes them, which the history variable records.              *)
(***************************************************************************)
EXTENDS OrgMembership, FiniteSetTheorems, TLAPS

Adding == {"add", "insert", "inserted"}
Removing == {"remove", "delete", "deleted"}
Changing == {"change", "rank", "count", "update", "updated"}
ManagingAt == Adding \cup Removing \cup Changing
EnrollingAt == {"enroll", "bootstrap", "first", "device", "firstdevice"}

SessionStates ==
    [pc : {"idle"} \cup ManagingAt \cup EnrollingAt,
     op : {"none", "add", "remove", "change", "enroll"},
     who : Users, target : Users, role : AllRoles,
     seen : AllRoles \cup {None}, token : Tokens]

Enrolling(p) == session[p].pc \in EnrollingAt

\* A session that is busy has not used up its bound.
ServedBound == \A p \in Sessions : ~At(p, "idle") => served[p] < MaxRequests

IType == TypeOK /\ ServedBound

LEMMA SessionType == TypeOK => session \in [Sessions -> SessionStates]
  BY DEF TypeOK, SessionStates, ManagingAt, Adding, Removing, Changing, EnrollingAt

LEMMA IdleType == Idle \in SessionStates /\ Idle.pc = "idle"
  <1>1. (CHOOSE u \in Users : TRUE) \in Users /\ (CHOOSE k \in Tokens : TRUE) \in Tokens
    BY MembershipAssumption
  <1> QED
    BY <1>1 DEF Idle, SessionStates, AllRoles, None

LEMMA TypeInit == Init => IType
  <1> SUFFICES ASSUME Init PROVE IType
    OBVIOUS
  <1>1. session \in [Sessions -> SessionStates] /\ \A p \in Sessions : At(p, "idle")
    BY IdleType DEF Init, At
  <1>2. member \in [Users -> AllRoles \cup {None}]
    BY MembershipAssumption DEF Init
  <1> QED
    BY <1>1, <1>2, MembershipAssumption
    DEF Init, IType, TypeOK, ServedBound, SessionStates, ManagingAt, Adding,
        Removing, Changing, EnrollingAt

\* One way of putting TypeOK and ServedBound back together after a step of p.
LEMMA StepOf ==
    ASSUME IType, NEW p \in Sessions, NEW s \in SessionStates,
           session' = [session EXCEPT ![p] = s],
           s.pc # "idle" => served'[p] < MaxRequests,
           \A q \in Sessions : q # p => served'[q] = served[q],
           served' \in [Sessions -> 0..MaxRequests],
           member' \in [Users -> AllRoles \cup {None}],
           lock' \in [Users -> Sessions \cup {Free}],
           orglock' \in Sessions \cup {Free},
           token' \in [Tokens -> {"stored", "claimed", "expired"}],
           device' \in [Tokens -> Nat],
           stale' \subseteq Sessions, overtaken' \subseteq Sessions
    PROVE  IType'
  <1>1. session \in [Sessions -> SessionStates]
    BY SessionType DEF IType
  <1>2. /\ session' \in [Sessions -> SessionStates]
        /\ session'[p] = s
        /\ \A q \in Sessions : q # p => session'[q] = session[q]
    BY <1>1
  <1>3. ServedBound'
    BY <1>2 DEF IType, ServedBound, At
  <1> QED
    BY <1>2, <1>3
    DEF IType, TypeOK, SessionStates, ManagingAt, Adding, Removing, Changing, EnrollingAt

\* The state a step that goes on leaves behind.
LEMMA GotoType ==
    ASSUME IType, NEW p \in Sessions, NEW pc \in ManagingAt \cup EnrollingAt,
           ~At(p, "idle"), Goto(p, pc), UNCHANGED <<served, stale, overtaken>>,
           member' \in [Users -> AllRoles \cup {None}],
           lock' \in [Users -> Sessions \cup {Free}],
           orglock' \in Sessions \cup {Free},
           token' \in [Tokens -> {"stored", "claimed", "expired"}],
           device' \in [Tokens -> Nat]
    PROVE  IType'
  <1>1. session[p] \in SessionStates
    BY SessionType DEF IType
  <1> DEFINE s == [session[p] EXCEPT !.pc = pc]
  <1>2. s \in SessionStates
    BY <1>1 DEF SessionStates
  <1>3. session' = [session EXCEPT ![p] = s]
    BY DEF Goto
  <1>4. /\ served[p] < MaxRequests /\ served \in [Sessions -> 0..MaxRequests]
        /\ stale \subseteq Sessions /\ overtaken \subseteq Sessions
    BY DEF IType, ServedBound, TypeOK
  <1> HIDE DEF s
  <1> QED
    BY <1>2, <1>3, <1>4, StepOf

LEMMA GoOnType ==
    ASSUME IType, NEW p \in Sessions, NEW pc \in ManagingAt \cup EnrollingAt,
           ~At(p, "idle"), GoOn(p, pc)
    PROVE  IType'
  BY GotoType DEF GoOn, IType, TypeOK

LEMMA FinishType ==
    ASSUME IType, NEW p \in Sessions, ~At(p, "idle"), Finish(p),
           member' \in [Users -> AllRoles \cup {None}],
           token' \in [Tokens -> {"stored", "claimed", "expired"}],
           device' \in [Tokens -> Nat]
    PROVE  IType'
  <1>1. served[p] < MaxRequests /\ served \in [Sessions -> 0..MaxRequests]
    BY DEF IType, ServedBound, TypeOK
  <1>2. /\ served' \in [Sessions -> 0..MaxRequests]
        /\ \A q \in Sessions : q # p => served'[q] = served[q]
    BY <1>1, MembershipAssumption DEF Finish
  <1>3. /\ lock' \in [Users -> Sessions \cup {Free}]
        /\ orglock' \in Sessions \cup {Free}
    BY DEF Finish, IType, TypeOK
  <1>4. session' = [session EXCEPT ![p] = Idle]
    BY DEF Finish
  <1>5. stale' \subseteq Sessions /\ overtaken' \subseteq Sessions
    BY DEF Finish, IType, TypeOK
  <1> QED
    BY <1>2, <1>3, <1>4, <1>5, IdleType, StepOf

LEMMA RefuseType ==
    ASSUME IType, NEW p \in Sessions, ~At(p, "idle"), Refuse(p)
    PROVE  IType'
  BY FinishType DEF Refuse, IType, TypeOK

\* An enrollment that fails gives its token back at most.
LEMMA EnrollFailsType ==
    ASSUME IType, NEW p \in Sessions, ~At(p, "idle"), EnrollFails(p)
    PROVE  IType'
  <1>1. token' \in [Tokens -> {"stored", "claimed", "expired"}]
    BY DEF EnrollFails, IType, TypeOK
  <1> QED
    BY <1>1, FinishType DEF EnrollFails, IType, TypeOK

\* A session starts a request.
LEMMA StartType ==
    ASSUME IType, NEW p \in Sessions, NEW s \in SessionStates,
           served[p] < MaxRequests, session' = [session EXCEPT ![p] = s],
           UNCHANGED <<member, lock, orglock, device, served, stale, overtaken>>,
           token' \in [Tokens -> {"stored", "claimed", "expired"}]
    PROVE  IType'
  BY StepOf DEF IType, TypeOK

LEMMA ManageType ==
    ASSUME IType, NEW p \in Sessions, Manage(p)
    PROVE  IType'
  <1> USE DEF ManagingAt, Adding, Removing, Changing, At
  <1>1. ASSUME NEW op \in {"add", "remove", "change"}, NEW who \in Users,
               NEW target \in Users, NEW role \in AllRoles, Open(p, op, who, target, role)
        PROVE  IType'
    <2> DEFINE s == [Idle EXCEPT !.pc = op, !.op = op, !.who = who,
                                 !.target = target, !.role = role]
    <2>1. s \in SessionStates
      BY IdleType DEF SessionStates
    <2>2. /\ session' = [session EXCEPT ![p] = s]
          /\ served[p] < MaxRequests
          /\ UNCHANGED <<member, lock, orglock, token, device, served, stale, overtaken>>
      BY <1>1 DEF Open
    <2> HIDE DEF s
    <2> QED
      BY <2>1, <2>2, StartType DEF IType, TypeOK
  <1>2. \A r \in Roles : r \in AllRoles
    BY MembershipAssumption
  <1>3. "viewer" \in AllRoles
    BY DEF AllRoles
  <1>4. CASE CheckInvite(p)
    BY <1>4, RefuseType, GoOnType DEF CheckInvite
  <1>5. CASE InsertMember(p)
    <2>1. [lock EXCEPT ![session[p].target] = p] \in [Users -> Sessions \cup {Free}]
      BY DEF IType, TypeOK
    <2> QED
      BY <1>5, <2>1, RefuseType, GotoType DEF InsertMember, IType, TypeOK
  <1>6. CASE CommitInsert(p)
    <2>1. session[p].role \in AllRoles
      BY DEF IType, TypeOK
    <2>2. member' \in [Users -> AllRoles \cup {None}]
      BY <1>6, <2>1 DEF CommitInsert, IType, TypeOK
    <2> QED
      BY <1>6, <2>2, FinishType DEF CommitInsert, IType, TypeOK
  <1>7. CASE CheckRemove(p)
    BY <1>7, RefuseType, GoOnType DEF CheckRemove
  <1>8. CASE DeleteMember(p)
    <2>1. [lock EXCEPT ![session[p].target] = p] \in [Users -> Sessions \cup {Free}]
      BY DEF IType, TypeOK
    <2> QED
      BY <1>8, <2>1, RefuseType, GotoType DEF DeleteMember, IType, TypeOK
  <1>9. CASE CommitDelete(p)
    <2>1. member' \in [Users -> AllRoles \cup {None}]
      BY <1>9 DEF CommitDelete, IType, TypeOK
    <2> QED
      BY <1>9, <2>1, FinishType DEF CommitDelete, IType, TypeOK
  <1>10. CASE ReadTarget(p)
    <2>1. CASE member[session[p].target] = None
      BY <1>10, <2>1, RefuseType DEF ReadTarget
    <2>2. CASE member[session[p].target] # None
      <3> DEFINE s == [session[p] EXCEPT !.pc = "rank", !.seen = member[session[p].target]]
      <3>1. session[p] \in SessionStates /\ member[session[p].target] \in AllRoles \cup {None}
        BY SessionType DEF IType, TypeOK
      <3>2. s \in SessionStates
        BY <3>1 DEF SessionStates
      <3>3. /\ session' = [session EXCEPT ![p] = s]
            /\ UNCHANGED <<member, lock, orglock, token, device, served, stale, overtaken>>
        BY <1>10, <2>2 DEF ReadTarget
      <3>4. served[p] < MaxRequests
        BY <1>10 DEF ReadTarget, IType, ServedBound
      <3> HIDE DEF s
      <3> QED
        BY <3>2, <3>3, <3>4, StartType DEF IType, TypeOK
    <2> QED
      BY <2>1, <2>2
  <1>11. CASE CheckRanks(p)
    BY <1>11, RefuseType, GoOnType DEF CheckRanks
  <1>12. CASE CountOwners(p)
    BY <1>12, RefuseType, GoOnType DEF CountOwners
  <1>13. CASE UpdateRole(p)
    <2>1. [lock EXCEPT ![session[p].target] = p] \in [Users -> Sessions \cup {Free}]
      BY DEF IType, TypeOK
    <2> QED
      BY <1>13, <2>1, RefuseType, GotoType DEF UpdateRole, IType, TypeOK
  <1>14. CASE CommitUpdate(p)
    <2>1. session[p].role \in AllRoles
      BY DEF IType, TypeOK
    <2>2. member' \in [Users -> AllRoles \cup {None}]
      BY <1>14, <2>1 DEF CommitUpdate, IType, TypeOK
    <2> QED
      BY <1>14, <2>2, FinishType DEF CommitUpdate, IType, TypeOK
  <1> QED
    BY <1>1, <1>2, <1>3, <1>4, <1>5, <1>6, <1>7, <1>8, <1>9, <1>10, <1>11, <1>12,
       <1>13, <1>14 DEF Manage

LEMMA EnrollType ==
    ASSUME IType, NEW p \in Sessions, Enroll(p) \/ Crash(p)
    PROVE  IType'
  <1> USE DEF EnrollingAt, At
  <1>1. ASSUME NEW k \in Tokens, ClaimToken(p, k) PROVE IType'
    <2> DEFINE s == [Idle EXCEPT !.pc = "enroll", !.op = "enroll", !.who = TokenUser[k],
                                 !.target = TokenUser[k], !.token = k]
    <2>1. TokenUser[k] \in Users
      BY MembershipAssumption
    <2>2. s \in SessionStates
      BY <2>1, IdleType DEF SessionStates
    <2>3. /\ session' = [session EXCEPT ![p] = s]
          /\ served[p] < MaxRequests
          /\ UNCHANGED <<member, lock, orglock, device, served, stale, overtaken>>
          /\ token' \in [Tokens -> {"stored", "claimed", "expired"}]
      BY <1>1 DEF ClaimToken, StartEnroll, IType, TypeOK
    <2> HIDE DEF s
    <2> QED
      BY <2>2, <2>3, StartType
  <1>2. CASE ReadRole(p)
    BY <1>2, GoOnType DEF ReadRole
  <1>3. CASE Bootstrap(p)
    BY <1>3, EnrollFailsType, GotoType DEF Bootstrap, Invited, IType, TypeOK
  <1>4. CASE InsertFirst(p)
    <2>1. [lock EXCEPT ![session[p].who] = p] \in [Users -> Sessions \cup {Free}]
      BY DEF IType, TypeOK
    <2> QED
      BY <1>4, <2>1, EnrollFailsType, GotoType DEF InsertFirst, IType, TypeOK
  <1>5. CASE CommitDevice(p)
    <2>1. /\ member' \in [Users -> AllRoles \cup {None}]
          /\ device' \in [Tokens -> Nat]
      BY <1>5 DEF CommitDevice, IType, TypeOK, AllRoles
    <2> QED
      BY <1>5, <2>1, FinishType DEF CommitDevice, IType, TypeOK
  <1>6. CASE EnrollError(p)
    BY <1>6, EnrollFailsType DEF EnrollError
  <1>7. CASE Crash(p)
    BY <1>7, RefuseType DEF Crash
  <1> QED
    BY <1>1, <1>2, <1>3, <1>4, <1>5, <1>6, <1>7 DEF Enroll

LEMMA TypeStep == IType /\ [Next]_vars => IType'
  <1> SUFFICES ASSUME IType, [Next]_vars PROVE IType'
    OBVIOUS
  <1>1. ASSUME NEW p \in Sessions, Manage(p) \/ Enroll(p) \/ Crash(p) PROVE IType'
    BY <1>1, ManageType, EnrollType
  <1>2. ASSUME NEW k \in Tokens, ExpireToken(k) PROVE IType'
    BY <1>2 DEF ExpireToken, IType, TypeOK, ServedBound, At
  <1>3. CASE UNCHANGED vars
    BY <1>3 DEF vars, IType, TypeOK, ServedBound, At
  <1> QED
    BY <1>1, <1>2, <1>3 DEF Next

\* Every reachable state of the members, the locks, the tokens and the requests
\* is well typed.
THEOREM TypeCorrect == Spec => []TypeOK
  <1>1. Spec => []IType
    BY TypeInit, TypeStep, PTL DEF Spec
  <1> QED
    BY <1>1, PTL DEF IType
-----------------------------------------------------------------------------
(* temp_tokens *)

\* The token of a session that enrolls is out of the store and has registered
\* nothing.
HeldTokenUnused ==
    \A p \in Sessions : Enrolling(p) =>
        /\ token[session[p].token] # "stored"
        /\ device[session[p].token] = 0

\* No two sessions enroll with the same token.
TokenHeldOnce ==
    \A p, q \in Sessions :
        Enrolling(p) /\ Enrolling(q) /\ session[p].token = session[q].token => p = q

TokenInv == IType /\ HeldTokenUnused /\ TokenHeldOnce /\ OneDevicePerToken

LEMMA TokenInit == Init => TokenInv
  <1> SUFFICES ASSUME Init PROVE TokenInv
    OBVIOUS
  <1>1. \A p \in Sessions : ~Enrolling(p)
    BY IdleType DEF Init, Enrolling, EnrollingAt
  <1>2. OneDevicePerToken
    BY DEF Init, OneDevicePerToken
  <1> QED
    BY <1>1, <1>2, TypeInit DEF TokenInv, HeldTokenUnused, TokenHeldOnce

\* A step that leaves the tokens and the devices alone, and lets no session
\* begin to enroll.
LEMMA TokensAlone ==
    ASSUME TokenInv, IType', UNCHANGED <<token, device>>,
           \A q \in Sessions : Enrolling(q)' =>
               Enrolling(q) /\ session'[q].token = session[q].token
    PROVE  TokenInv'
  <1>1. HeldTokenUnused' /\ TokenHeldOnce'
    BY DEF TokenInv, HeldTokenUnused, TokenHeldOnce
  <1>2. OneDevicePerToken'
    BY DEF TokenInv, OneDevicePerToken
  <1> QED
    BY <1>1, <1>2 DEF TokenInv

\* Where a session that goes on or finishes is afterwards.
LEMMA GotoEffect ==
    ASSUME IType, NEW p \in Sessions, NEW pc, Goto(p, pc)
    PROVE  /\ session'[p].pc = pc
           /\ session'[p].op = session[p].op
           /\ session'[p].who = session[p].who
           /\ session'[p].target = session[p].target
           /\ session'[p].role = session[p].role
           /\ session'[p].seen = session[p].seen
           /\ session'[p].token = session[p].token
           /\ \A q \in Sessions : q # p => session'[q] = session[q]
  <1>1. session \in [Sessions -> SessionStates] /\ session[p] \in SessionStates
    BY SessionType DEF IType
  <1> QED
    BY <1>1 DEF Goto, SessionStates

LEMMA FinishEffect ==
    ASSUME IType, NEW p \in Sessions, Finish(p)
    PROVE  /\ session'[p].pc = "idle"
           /\ \A q \in Sessions : q # p => session'[q] = session[q]
           /\ orglock # p => orglock' = orglock
           /\ orglock = p => orglock' = Free
  <1>1. session \in [Sessions -> SessionStates]
    BY SessionType DEF IType
  <1> QED
    BY <1>1, IdleType DEF Finish

\* A failed enrollment ends, and its token is all it may change.
LEMMA EnrollFailsToken ==
    ASSUME TokenInv, IType', NEW p \in Sessions, Enrolling(p), EnrollFails(p)
    PROVE  TokenInv'
  <1> DEFINE k == session[p].token
  <1>1. k \in Tokens /\ token \in [Tokens -> {"stored", "claimed", "expired"}]
    BY SessionType DEF TokenInv, IType, TypeOK, SessionStates
  <1>2. /\ \A q \in Sessions : q # p => session'[q] = session[q]
        /\ ~Enrolling(p)'
    BY FinishEffect DEF EnrollFails, TokenInv, Enrolling, EnrollingAt
  <1>3. /\ device' = device
        /\ \A j \in Tokens : j # k => token'[j] = token[j]
    BY <1>1 DEF EnrollFails
  <1>4. \A q \in Sessions : Enrolling(q)' =>
            q # p /\ Enrolling(q) /\ session'[q].token = session[q].token
    BY <1>2 DEF Enrolling
  <1>5. \A q \in Sessions : Enrolling(q) => session[q].token \in Tokens
    BY SessionType DEF TokenInv, IType, SessionStates
  <1>6. HeldTokenUnused'
    BY <1>3, <1>4, <1>5 DEF TokenInv, HeldTokenUnused, TokenHeldOnce
  <1>7. TokenHeldOnce'
    BY <1>4 DEF TokenInv, TokenHeldOnce
  <1>8. OneDevicePerToken'
    <2>1. device[k] = 0
      BY DEF TokenInv, HeldTokenUnused
    <2> QED
      BY <2>1, <1>3 DEF TokenInv, OneDevicePerToken
  <1> QED
    BY <1>6, <1>7, <1>8 DEF TokenInv

\* A step of p after which p does not enroll.
NoEnrollment(p) ==
    /\ ~Enrolling(p)'
    /\ \A q \in Sessions : q # p => session'[q] = session[q]

LEMMA ManageToken ==
    ASSUME TokenInv, IType', NEW p \in Sessions, Manage(p) \/ Crash(p)
    PROVE  TokenInv'
  <1>1. UNCHANGED <<token, device>>
    BY DEF Manage, Crash, Refuse, GoOn, Open, CheckInvite, InsertMember, CommitInsert,
           CheckRemove, DeleteMember, CommitDelete, ReadTarget, CheckRanks,
           CountOwners, UpdateRole, CommitUpdate
  <1>2. IType /\ session \in [Sessions -> SessionStates] /\ session[p] \in SessionStates
    BY SessionType DEF TokenInv, IType
  <1>3. NoEnrollment(p)
    <2>1. CASE Finish(p)
      BY <2>1, <1>2, FinishEffect DEF NoEnrollment, Enrolling, EnrollingAt
    <2>2. ASSUME NEW pc \in ManagingAt, Goto(p, pc)
          PROVE  NoEnrollment(p)
      BY <2>2, <1>2, GotoEffect
      DEF NoEnrollment, Enrolling, EnrollingAt, ManagingAt, Adding, Removing, Changing
    <2>3. ASSUME NEW op \in {"add", "remove", "change"}, NEW who, NEW target, NEW role,
                 Open(p, op, who, target, role)
          PROVE  NoEnrollment(p)
      <3>1. session' = [session EXCEPT ![p] = [Idle EXCEPT !.pc = op, !.op = op,
                      !.who = who, !.target = target, !.role = role]]
        BY <2>3 DEF Open
      <3>2. session'[p].pc = op
        BY <3>1, <1>2, IdleType DEF SessionStates
      <3> QED
        BY <3>1, <3>2, <1>2 DEF NoEnrollment, Enrolling, EnrollingAt
    <2>4. CASE ReadTarget(p) /\ ~Refuse(p)
      <3>1. session' = [session EXCEPT ![p] = [session[p] EXCEPT !.pc = "rank",
                                          !.seen = member[session[p].target]]]
        BY <2>4 DEF ReadTarget
      <3> QED
        BY <3>1, <1>2 DEF SessionStates, NoEnrollment, Enrolling, EnrollingAt
    <2>5. ASSUME NEW op \in {"add", "change"}, NEW who \in Users, NEW target \in Users,
                 NEW role \in Roles, Open(p, op, who, target, role)
          PROVE  NoEnrollment(p)
      BY <2>5, <2>3
    <2>6. ASSUME NEW who \in Users, NEW target \in Users,
                 Open(p, "remove", who, target, "viewer")
          PROVE  NoEnrollment(p)
      BY <2>6, <2>3
    <2>7. CASE CheckInvite(p) \/ InsertMember(p) \/ CommitInsert(p)
      BY <2>7, <2>1, <2>2 DEF CheckInvite, InsertMember, CommitInsert, Refuse, GoOn,
                              ManagingAt, Adding
    <2>8. CASE CheckRemove(p) \/ DeleteMember(p) \/ CommitDelete(p)
      BY <2>8, <2>1, <2>2 DEF CheckRemove, DeleteMember, CommitDelete, Refuse, GoOn,
                              ManagingAt, Removing
    <2>9. CASE CheckRanks(p) \/ CountOwners(p) \/ UpdateRole(p) \/ CommitUpdate(p)
      BY <2>9, <2>1, <2>2 DEF CheckRanks, CountOwners, UpdateRole, CommitUpdate, Refuse, GoOn,
                              ManagingAt, Changing
    <2>10. CASE ReadTarget(p) \/ Crash(p)
      BY <2>10, <2>1, <2>4 DEF Crash, Refuse
    <2> QED
      BY <2>5, <2>6, <2>7, <2>8, <2>9, <2>10 DEF Manage
  <1> QED
    BY <1>1, <1>3, TokensAlone DEF NoEnrollment, Enrolling

LEMMA EnrollToken ==
    ASSUME TokenInv, IType', NEW p \in Sessions, Enroll(p)
    PROVE  TokenInv'
  <1>1. IType /\ session \in [Sessions -> SessionStates] /\ session[p] \in SessionStates
    BY SessionType DEF TokenInv, IType
  <1>2. ASSUME NEW pc \in EnrollingAt, Enrolling(p), Goto(p, pc), UNCHANGED <<token, device>>
        PROVE  TokenInv'
    BY <1>1, <1>2, GotoEffect, TokensAlone DEF Enrolling
  <1>3. ASSUME NEW k \in Tokens, ClaimToken(p, k) PROVE TokenInv'
    <2>1. /\ token[k] = "stored" /\ token' = [token EXCEPT ![k] = "claimed"]
          /\ device' = device
          /\ session' = [session EXCEPT ![p] = [Idle EXCEPT !.pc = "enroll", !.op = "enroll",
                   !.who = TokenUser[k], !.target = TokenUser[k], !.token = k]]
      BY <1>3 DEF ClaimToken, StartEnroll
    <2>2. /\ session'[p].token = k
          /\ \A q \in Sessions : q # p => session'[q] = session[q]
      BY <2>1, <1>1, IdleType DEF SessionStates
    <2>3. \A q \in Sessions : q # p /\ Enrolling(q)' =>
              /\ Enrolling(q) /\ session'[q].token = session[q].token
              /\ session[q].token # k /\ session[q].token \in Tokens
      BY <2>1, <2>2, <1>1 DEF Enrolling, TokenInv, HeldTokenUnused, SessionStates
    <2>4. token \in [Tokens -> {"stored", "claimed", "expired"}]
      BY <1>1 DEF IType, TypeOK
    <2>5. device[k] = 0 /\ token'[k] = "claimed"
      BY <2>1, <2>4 DEF TokenInv, OneDevicePerToken
    <2>6. HeldTokenUnused'
      BY <2>1, <2>2, <2>3, <2>4, <2>5 DEF TokenInv, HeldTokenUnused
    <2>7. TokenHeldOnce'
      BY <2>2, <2>3 DEF TokenInv, TokenHeldOnce
    <2>8. OneDevicePerToken'
      BY <2>1, <2>4 DEF TokenInv, OneDevicePerToken
    <2> QED
      BY <2>6, <2>7, <2>8 DEF TokenInv
  <1>4. CASE ReadRole(p)
    BY <1>4, <1>2 DEF ReadRole, GoOn, At, Enrolling, EnrollingAt
  <1>5. CASE Bootstrap(p)
    BY <1>5, <1>2, EnrollFailsToken DEF Bootstrap, Invited, At, Enrolling, EnrollingAt
  <1>6. CASE InsertFirst(p)
    BY <1>6, <1>2, EnrollFailsToken DEF InsertFirst, At, Enrolling, EnrollingAt
  <1>7. CASE CommitDevice(p)
    <2> DEFINE k == session[p].token
    <2>1. Enrolling(p) /\ k \in Tokens
      BY <1>7, <1>1 DEF CommitDevice, Enrolling, EnrollingAt, SessionStates
    <2>2. /\ token' = token /\ Finish(p)
          /\ device' = [device EXCEPT ![k] = @ + 1]
      BY <1>7 DEF CommitDevice
    <2>3. \A q \in Sessions : Enrolling(q)' =>
              q # p /\ Enrolling(q) /\ session'[q].token = session[q].token
      BY <2>2, <1>1, FinishEffect DEF Enrolling, EnrollingAt
    <2>4. token[k] # "stored" /\ device[k] = 0 /\ device \in [Tokens -> Nat]
      BY <2>1, <1>1 DEF TokenInv, HeldTokenUnused, IType, TypeOK
    <2>5. device'[k] = 1 /\ \A j \in Tokens : j # k => device'[j] = device[j]
      BY <2>1, <2>2, <2>4
    <2>6. \A q \in Sessions : Enrolling(q)' =>
              session[q].token # k /\ session[q].token \in Tokens
      BY <2>1, <2>3, <1>1 DEF TokenInv, TokenHeldOnce, SessionStates
    <2>7. HeldTokenUnused'
      BY <2>2, <2>3, <2>5, <2>6 DEF TokenInv, HeldTokenUnused
    <2>8. TokenHeldOnce'
      BY <2>3 DEF TokenInv, TokenHeldOnce
    <2>9. OneDevicePerToken'
      BY <2>2, <2>4, <2>5 DEF TokenInv, OneDevicePerToken
    <2> QED
      BY <2>7, <2>8, <2>9 DEF TokenInv
  <1>8. CASE EnrollError(p)
    BY <1>8, EnrollFailsToken DEF EnrollError, Enrolling, EnrollingAt
  <1> QED
    BY <1>3, <1>4, <1>5, <1>6, <1>7, <1>8 DEF Enroll

LEMMA TokenStep == TokenInv /\ [Next]_vars => TokenInv'
  <1> SUFFICES ASSUME TokenInv, [Next]_vars PROVE TokenInv'
    OBVIOUS
  <1>1. IType'
    BY TypeStep DEF TokenInv
  <1>2. ASSUME NEW p \in Sessions, Manage(p) \/ Enroll(p) \/ Crash(p) PROVE TokenInv'
    BY <1>1, <1>2, ManageToken, EnrollToken
  <1>3. ASSUME NEW k \in Tokens, ExpireToken(k) PROVE TokenInv'
    <2>1. UNCHANGED <<session, device>> /\ token' = [token EXCEPT ![k] = "expired"]
      BY <1>3 DEF ExpireToken
    <2>2. \A j \in Tokens : token'[j] \in {token[j], "expired"}
      BY <2>1 DEF TokenInv, IType, TypeOK
    <2>3. \A q \in Sessions : session[q].token \in Tokens
      BY SessionType DEF TokenInv, IType, SessionStates
    <2>4. HeldTokenUnused' /\ TokenHeldOnce'
      BY <2>1, <2>2, <2>3 DEF TokenInv, HeldTokenUnused, TokenHeldOnce, Enrolling
    <2>5. OneDevicePerToken'
      BY <2>1, <2>2 DEF TokenInv, OneDevicePerToken
    <2> QED
      BY <1>1, <2>4, <2>5 DEF TokenInv
  <1>4. CASE UNCHANGED vars
    BY <1>1, <1>4, TokensAlone DEF vars, Enrolling
  <1> QED
    BY <1>2, <1>3, <1>4 DEF Next

\* enroll_device: one temp_token registers one device, whatever fails or is sent
\* twice, however many sessions and tokens there are.
THEOREM OneDevicePerTokenCorrect == Spec => []OneDevicePerToken
  <1>1. Spec => []TokenInv
    BY TokenInit, TokenStep, PTL DEF Spec
  <1> QED
    BY <1>1, PTL DEF TokenInv
-----------------------------------------------------------------------------
(* The members, however many sessions manage them *)

JoiningFirst == {"first", "firstdevice"}

\* Who has written a member row holds its lock; the row written is missing or
\* there as the statement found it.
WrittenRow(p) ==
    LET s == session[p] IN
    /\ s.pc \in {"inserted", "deleted", "updated"} => lock[s.target] = p
    /\ s.pc = "firstdevice" => lock[s.who] = p
    /\ s.pc = "inserted" => member[s.target] = None
    /\ s.pc \in {"deleted", "updated"} => member[s.target] # None

\* A row that was read is there until its deletion is noted.
ReadRow(p) ==
    session[p].pc \in {"delete", "rank", "count", "update"} /\ p \notin stale =>
        member[session[p].target] # None

\* Whoever joins as the first member has locked the organization row, the
\* organization is empty, and nobody has inserted a member.
FirstIsAlone(p) ==
    session[p].pc \in JoiningFirst =>
        orglock = p /\ Members = {} /\ \A q \in Sessions : ~At(q, "inserted")

\* What a request has read of the owners is true unless they have changed.
OwnersRead(p) ==
    LET s == session[p] IN
    p \notin overtaken =>
        /\ s.pc \in {"delete", "deleted"} => s.target \notin Owners
        /\ s.pc \in {"rank", "count", "update", "updated"} =>
               (s.seen = "owner" <=> s.target \in Owners)
        /\ s.pc \in {"update", "updated"} /\ DemotesOwner(s) => AnotherOwner

SessionInv(p) == WrittenRow(p) /\ ReadRow(p) /\ FirstIsAlone(p) /\ OwnersRead(p)

MemberInv == IType /\ \A p \in Sessions : SessionInv(p)

\* The states of a request that rely on no member row.
Careless == {"idle", "add", "insert", "remove", "change", "enroll", "bootstrap", "device"}

LEMMA Outside ==
    ASSUME NEW p \in Sessions, session[p].pc \in Careless
    PROVE  SessionInv(p)
  BY DEF SessionInv, WrittenRow, ReadRow, FirstIsAlone, OwnersRead, Careless, JoiningFirst

LEMMA OutsideAfter ==
    ASSUME NEW p \in Sessions, session'[p].pc \in Careless
    PROVE  SessionInv(p)'
  BY DEF SessionInv, WrittenRow, ReadRow, FirstIsAlone, OwnersRead, Careless, JoiningFirst

LEMMA MemberInit == Init => MemberInv
  <1> SUFFICES ASSUME Init PROVE MemberInv
    OBVIOUS
  <1>1. ASSUME NEW p \in Sessions PROVE session[p].pc \in Careless
    BY IdleType DEF Init, Careless
  <1> QED
    BY <1>1, Outside, TypeInit DEF MemberInv

\* Steps that leave the members alone disturb only the session that takes them.
LEMMA OthersKept ==
    ASSUME MemberInv, IType', NEW p \in Sessions, UNCHANGED member,
           \A q \in Sessions : q # p =>
               /\ session'[q] = session[q]
               /\ orglock = q => orglock' = q
               /\ \A u \in Users : lock[u] = q => lock'[u] = q
               /\ q \in stale' <=> q \in stale
               /\ q \in overtaken' <=> q \in overtaken,
           session'[p].pc = "inserted" =>
               \A q \in Sessions : q # p => session[q].pc \notin JoiningFirst,
           SessionInv(p)'
    PROVE  MemberInv'
  <1>1. ASSUME NEW q \in Sessions, q # p PROVE SessionInv(q)'
    <2>1. SessionInv(q) /\ session'[q] = session[q]
      BY <1>1 DEF MemberInv
    <2>2. session[q].target \in Users /\ session[q].who \in Users
      BY SessionType DEF MemberInv, IType, SessionStates
    <2>3. WrittenRow(q)'
      BY <1>1, <2>1, <2>2 DEF SessionInv, WrittenRow
    <2>4. ReadRow(q)'
      BY <1>1, <2>1 DEF SessionInv, ReadRow
    <2>5. FirstIsAlone(q)'
      BY <1>1, <2>1 DEF SessionInv, FirstIsAlone, Members, At
    <2>6. OwnersRead(q)'
      BY <1>1, <2>1 DEF SessionInv, OwnersRead, Owners, AnotherOwner, DemotesOwner
    <2> QED
      BY <2>3, <2>4, <2>5, <2>6 DEF SessionInv
  <1> QED
    BY <1>1 DEF MemberInv

\* A request that ends without a write.
LEMMA FinishMember ==
    ASSUME MemberInv, IType', NEW p \in Sessions, Finish(p), UNCHANGED member
    PROVE  MemberInv'
  <1>1. /\ session'[p].pc = "idle"
        /\ \A q \in Sessions : q # p => session'[q] = session[q]
        /\ \A q \in Sessions : q # p => (orglock = q => orglock' = q)
    BY FinishEffect DEF MemberInv
  <1>2. \A q \in Sessions : q # p =>
            \A u \in Users : lock[u] = q => lock'[u] = q
    BY DEF Finish
  <1>3. Owners' = Owners /\ \A q \in Sessions : ~LosesRow(q)
    BY DEF Owners, LosesRow
  <1>4. stale' = {q \in Sessions \ {p} : q \in stale} /\ overtaken' = overtaken \ {p}
    BY <1>3 DEF Finish
  <1>5. SessionInv(p)'
    BY <1>1, OutsideAfter DEF Careless
  <1> QED
    BY <1>1, <1>2, <1>4, <1>5, OthersKept

LEMMA RefuseMember ==
    ASSUME MemberInv, IType', NEW p \in Sessions, Refuse(p) \/ EnrollFails(p)
    PROVE  MemberInv'
  BY FinishMember DEF Refuse, EnrollFails

\* A request that goes on and locks at most its target.
LEMMA GotoMember ==
    ASSUME MemberInv, IType', NEW p \in Sessions, NEW pc, Goto(p, pc),
           UNCHANGED <<member, orglock, stale, overtaken>>,
           \A q \in Sessions, u \in Users : q # p /\ lock[u] = q => lock'[u] = q,
           pc = "inserted" => \A q \in Sessions : q # p => session[q].pc \notin JoiningFirst,
           SessionInv(p)'
    PROVE  MemberInv'
  <1>1. session'[p].pc = pc /\ \A q \in Sessions : q # p => session'[q] = session[q]
    BY GotoEffect DEF MemberInv
  <1> QED
    BY <1>1, OthersKept

\* The commit of a member row: nobody joins first meanwhile, and who has read
\* the owners notices that they have changed.
LEMMA CommitMember ==
    ASSUME MemberInv, IType', NEW p \in Sessions, Finish(p),
           NEW u \in Users, NEW role, member' = [member EXCEPT ![u] = role], lock[u] = p,
           \A q \in Sessions : q # p => session[q].pc \notin JoiningFirst
    PROVE  MemberInv'
  <1>1. /\ session'[p].pc = "idle"
        /\ \A q \in Sessions : q # p => session'[q] = session[q]
    BY FinishEffect DEF MemberInv
  <1>2. SessionInv(p)'
    BY <1>1, OutsideAfter DEF Careless
  <1>3. /\ member \in [Users -> AllRoles \cup {None}]
        /\ lock \in [Users -> Sessions \cup {Free}]
        /\ Free \notin Sessions
    BY MembershipAssumption DEF MemberInv, IType, TypeOK
  <1>4. ASSUME NEW q \in Sessions, q # p PROVE SessionInv(q)'
    <2>1. SessionInv(q) /\ session'[q] = session[q]
      BY <1>1, <1>4 DEF MemberInv
    <2>2. session[q].target \in Users /\ session[q].who \in Users
      BY SessionType DEF MemberInv, IType, SessionStates
    <2>3. \A v \in Users : lock[v] = q => lock'[v] = q /\ member'[v] = member[v]
      BY <1>3, <1>4 DEF Finish
    <2>4. WrittenRow(q)'
      BY <2>1, <2>2, <2>3 DEF SessionInv, WrittenRow
    <2>5. ReadRow(q)'
      <3>1. q \notin stale' => q \notin stale /\ ~LosesRow(q)
        BY <1>4 DEF Finish
      <3> QED
        BY <2>1, <3>1 DEF SessionInv, ReadRow, LosesRow
    <2>6. FirstIsAlone(q)'
      BY <1>4, <2>1 DEF FirstIsAlone
    <2>7. OwnersRead(q)'
      <3>1. CASE At(q, "idle")
        BY <2>1, <3>1 DEF At, OwnersRead
      <3>2. CASE ~At(q, "idle") /\ q \notin overtaken'
        <4>1. Owners' = Owners /\ q \notin overtaken
          BY <1>4, <3>2 DEF Finish
        <4> QED
          BY <2>1, <4>1 DEF SessionInv, OwnersRead, AnotherOwner, DemotesOwner
      <3>3. CASE q \in overtaken'
        BY <3>3 DEF OwnersRead
      <3> QED
        BY <3>1, <3>2, <3>3
    <2> QED
      BY <2>4, <2>5, <2>6, <2>7 DEF SessionInv
  <1> QED
    BY <1>2, <1>4 DEF MemberInv

\* No two sessions join as the first member, and none while another has a
\* member row of its own.
LEMMA JoinerAlone ==
    ASSUME MemberInv, NEW p \in Sessions, NEW q \in Sessions, q # p,
           session[p].pc \in {"inserted", "deleted", "updated"} \cup JoiningFirst
    PROVE  session[q].pc \notin JoiningFirst
  <1> SUFFICES ASSUME session[q].pc \in JoiningFirst PROVE FALSE
    OBVIOUS
  <1>1. orglock = q /\ Members = {} /\ ~At(p, "inserted")
    BY DEF MemberInv, SessionInv, FirstIsAlone
  <1>2. session[p].pc \notin JoiningFirst
    BY <1>1 DEF MemberInv, SessionInv, FirstIsAlone
  <1>3. session[p].target \in Users
    BY SessionType DEF MemberInv, IType, SessionStates
  <1>4. session[p].pc \notin {"deleted", "updated"}
    BY <1>1, <1>3 DEF MemberInv, SessionInv, WrittenRow, Members
  <1> QED
    BY <1>1, <1>2, <1>4 DEF At

LEMMA ManageMember ==
    ASSUME MemberInv, IType', NEW p \in Sessions, Manage(p)
    PROVE  MemberInv'
  <1>1. IType /\ session \in [Sessions -> SessionStates] /\ session[p] \in SessionStates
    BY SessionType DEF MemberInv, IType
  <1>2. /\ session[p].target \in Users
        /\ member \in [Users -> AllRoles \cup {None}]
        /\ lock \in [Users -> Sessions \cup {Free}] /\ Free \notin Sessions
    BY <1>1, MembershipAssumption DEF SessionStates, IType, TypeOK
  <1>3. ASSUME NEW op \in {"add", "remove", "change"}, NEW who, NEW target, NEW role,
               Open(p, op, who, target, role)
        PROVE  MemberInv'
    <2>1. /\ session' = [session EXCEPT ![p] = [Idle EXCEPT !.pc = op, !.op = op,
                   !.who = who, !.target = target, !.role = role]]
          /\ UNCHANGED <<member, lock, orglock, stale, overtaken>>
      BY <1>3 DEF Open
    <2>2. /\ session'[p].pc = op
          /\ \A q \in Sessions : q # p => session'[q] = session[q]
      BY <2>1, <1>1, IdleType DEF SessionStates
    <2>3. SessionInv(p)'
      BY <2>2, OutsideAfter DEF Careless
    <2> QED
      BY <2>1, <2>2, <2>3, OthersKept
  <1>4. CASE Refuse(p)
    BY <1>4, RefuseMember
  <1> USE DEF At
  <1>5. CASE CheckInvite(p) /\ ~Refuse(p)
    <2>1. GoOn(p, "insert")
      BY <1>5 DEF CheckInvite
    <2>2. SessionInv(p)'
      BY <2>1, <1>1, GotoEffect, OutsideAfter DEF GoOn, Careless
    <2> QED
      BY <2>1, <2>2, GotoMember DEF GoOn
  <1>6. CASE InsertMember(p) /\ ~Refuse(p)
    <2>1. /\ lock[session[p].target] = Free /\ member[session[p].target] = None
          /\ CanShare(p) /\ session[p].pc = "insert"
          /\ lock' = [lock EXCEPT ![session[p].target] = p] /\ Goto(p, "inserted")
          /\ UNCHANGED <<member, orglock, stale, overtaken>>
      BY <1>6 DEF InsertMember
    <2>2. session'[p].pc = "inserted" /\ session'[p].target = session[p].target
      BY <2>1, <1>1, GotoEffect
    <2>3. SessionInv(p)'
      BY <2>1, <2>2, <1>2 DEF SessionInv, WrittenRow, ReadRow, FirstIsAlone, OwnersRead,
                              JoiningFirst
    <2>4. \A q \in Sessions : q # p => session[q].pc \notin JoiningFirst
      BY <2>1, <1>2 DEF CanShare, MemberInv, SessionInv, FirstIsAlone
    <2>5. \A q \in Sessions, u \in Users : q # p /\ lock[u] = q => lock'[u] = q
      BY <2>1, <1>2
    <2> QED
      BY <2>1, <2>3, <2>4, <2>5, GotoMember
  <1>7. CASE CheckRemove(p) /\ ~Refuse(p)
    <2>1. GoOn(p, "delete") /\ member[session[p].target] \notin {None, "owner"}
      BY <1>7 DEF CheckRemove, Removable
    <2>2. session'[p].pc = "delete" /\ session'[p].target = session[p].target
      BY <2>1, <1>1, GotoEffect DEF GoOn
    <2>3. SessionInv(p)'
      BY <2>1, <2>2 DEF GoOn, SessionInv, WrittenRow, ReadRow, FirstIsAlone, OwnersRead,
                        JoiningFirst, Owners
    <2> QED
      BY <2>1, <2>3, GotoMember DEF GoOn
  <1>8. CASE DeleteMember(p) /\ ~Refuse(p)
    <2>1. /\ lock[session[p].target] = Free /\ p \notin stale /\ session[p].pc = "delete"
          /\ lock' = [lock EXCEPT ![session[p].target] = p] /\ Goto(p, "deleted")
          /\ UNCHANGED <<member, orglock, stale, overtaken>>
      BY <1>8 DEF DeleteMember
    <2>2. session'[p].pc = "deleted" /\ session'[p].target = session[p].target
      BY <2>1, <1>1, GotoEffect
    <2>3. /\ member[session[p].target] # None
          /\ p \notin overtaken => session[p].target \notin Owners
      BY <2>1 DEF MemberInv, SessionInv, ReadRow, OwnersRead
    <2>4. SessionInv(p)'
      BY <2>1, <2>2, <2>3, <1>2 DEF SessionInv, WrittenRow, ReadRow, FirstIsAlone, OwnersRead,
                                    JoiningFirst, Owners
    <2>5. \A q \in Sessions, u \in Users : q # p /\ lock[u] = q => lock'[u] = q
      BY <2>1, <1>2
    <2> QED
      BY <2>1, <2>4, <2>5, GotoMember
  <1>9. CASE ReadTarget(p) /\ ~Refuse(p)
    <2>1. /\ session' = [session EXCEPT ![p] = [session[p] EXCEPT !.pc = "rank",
                                                   !.seen = member[session[p].target]]]
          /\ member[session[p].target] # None
          /\ UNCHANGED <<member, lock, orglock, stale, overtaken>>
      BY <1>9 DEF ReadTarget
    <2>2. /\ session'[p].pc = "rank"
          /\ session'[p].target = session[p].target
          /\ session'[p].seen = member[session[p].target]
          /\ \A q \in Sessions : q # p => session'[q] = session[q]
      BY <2>1, <1>1 DEF SessionStates
    <2>3. SessionInv(p)'
      BY <2>1, <2>2, <1>2 DEF SessionInv, WrittenRow, ReadRow, FirstIsAlone, OwnersRead,
                              JoiningFirst, Owners
    <2> QED
      BY <2>1, <2>2, <2>3, OthersKept
  <1>10. CASE (CheckRanks(p) \/ CountOwners(p)) /\ ~Refuse(p)
    <2>1. /\ session[p].pc \in {"rank", "count"}
          /\ \/ GoOn(p, "count")
             \/ GoOn(p, "update") /\ (DemotesOwner(session[p]) => AnotherOwner)
      <3>1. CASE CheckRanks(p) /\ DemotesOwner(session[p])
        BY <1>10, <3>1 DEF CheckRanks
      <3>2. CASE CheckRanks(p) /\ ~DemotesOwner(session[p])
        BY <1>10, <3>2 DEF CheckRanks
      <3>3. CASE CountOwners(p)
        BY <1>10, <3>3 DEF CountOwners
      <3> QED
        BY <1>10, <3>1, <3>2, <3>3
    <2>2. SessionInv(p)
      BY DEF MemberInv
    <2>3. ASSUME NEW pc \in {"count", "update"}, GoOn(p, pc),
                 pc = "update" /\ DemotesOwner(session[p]) => AnotherOwner
          PROVE  MemberInv'
      <3>1. /\ session'[p].pc = pc /\ session'[p].target = session[p].target
            /\ session'[p].seen = session[p].seen /\ session'[p].role = session[p].role
        BY <2>3, <1>1, GotoEffect DEF GoOn
      <3>2. UNCHANGED <<member, lock, orglock, stale, overtaken>> /\ Goto(p, pc)
        BY <2>3 DEF GoOn
      <3>3. SessionInv(p)'
        BY <2>1, <2>2, <2>3, <3>1, <3>2
           DEF SessionInv, WrittenRow, ReadRow, FirstIsAlone, OwnersRead, JoiningFirst, Owners,
               AnotherOwner, DemotesOwner
      <3> QED
        BY <3>2, <3>3, GotoMember
    <2> QED
      BY <2>1, <2>3
  <1>11. CASE UpdateRole(p) /\ ~Refuse(p)
    <2>1. /\ lock[session[p].target] = Free /\ p \notin stale /\ session[p].pc = "update"
          /\ lock' = [lock EXCEPT ![session[p].target] = p] /\ Goto(p, "updated")
          /\ UNCHANGED <<member, orglock, stale, overtaken>>
      BY <1>11 DEF UpdateRole
    <2>2. /\ session'[p].pc = "updated" /\ session'[p].target = session[p].target
          /\ session'[p].seen = session[p].seen /\ session'[p].role = session[p].role
      BY <2>1, <1>1, GotoEffect
    <2>3. SessionInv(p) /\ member[session[p].target] # None
      BY <2>1 DEF MemberInv, SessionInv, ReadRow
    <2>4. SessionInv(p)'
      BY <2>1, <2>2, <2>3, <1>2
         DEF SessionInv, WrittenRow, ReadRow, FirstIsAlone, OwnersRead, JoiningFirst, Owners,
             AnotherOwner, DemotesOwner
    <2>5. \A q \in Sessions, u \in Users : q # p /\ lock[u] = q => lock'[u] = q
      BY <2>1, <1>2
    <2> QED
      BY <2>1, <2>4, <2>5, GotoMember
  <1>12. CASE CommitInsert(p) \/ CommitDelete(p) \/ CommitUpdate(p)
    <2>1. /\ session[p].pc \in {"inserted", "deleted", "updated"} /\ Finish(p)
          /\ \E role : member' = [member EXCEPT ![session[p].target] = role]
      BY <1>12 DEF CommitInsert, CommitDelete, CommitUpdate
    <2>2. lock[session[p].target] = p
      BY <2>1 DEF MemberInv, SessionInv, WrittenRow
    <2>3. \A q \in Sessions : q # p => session[q].pc \notin JoiningFirst
      BY <2>1, JoinerAlone
    <2> QED
      BY <2>1, <2>2, <2>3, <1>2, CommitMember
  <1>13. ASSUME NEW op \in {"add", "change"}, NEW who \in Users, NEW target \in Users,
                NEW role \in Roles, Open(p, op, who, target, role)
         PROVE  MemberInv'
    BY <1>13, <1>3
  <1>14. ASSUME NEW who \in Users, NEW target \in Users, Open(p, "remove", who, target, "viewer")
         PROVE  MemberInv'
    BY <1>14, <1>3
  <1> QED
    BY <1>4, <1>5, <1>6, <1>7, <1>8, <1>9, <1>10, <1>11, <1>12, <1>13, <1>14 DEF Manage

LEMMA EnrollMember ==
    ASSUME MemberInv, IType', NEW p \in Sessions, Enroll(p) \/ Crash(p)
    PROVE  MemberInv'
  <1>1. IType /\ session \in [Sessions -> SessionStates] /\ session[p] \in SessionStates
    BY SessionType DEF MemberInv, IType
  <1>2. /\ session[p].who \in Users /\ session[p].target \in Users
        /\ lock \in [Users -> Sessions \cup {Free}] /\ Free \notin Sessions
    BY <1>1, MembershipAssumption DEF SessionStates, IType, TypeOK
  <1> USE DEF At
  <1>3. ASSUME NEW k \in Tokens, ClaimToken(p, k) PROVE MemberInv'
    <2>1. /\ UNCHANGED <<member, lock, orglock, stale, overtaken>>
          /\ session' = [session EXCEPT ![p] = [Idle EXCEPT !.pc = "enroll", !.op = "enroll",
                   !.who = TokenUser[k], !.target = TokenUser[k], !.token = k]]
      BY <1>3 DEF ClaimToken, StartEnroll
    <2>2. /\ session'[p].pc = "enroll"
          /\ \A q \in Sessions : q # p => session'[q] = session[q]
      BY <2>1, <1>1, IdleType DEF SessionStates
    <2>3. SessionInv(p)'
      BY <2>2, OutsideAfter DEF Careless
    <2> QED
      BY <2>1, <2>2, <2>3, OthersKept
  <1>4. CASE ReadRole(p)
    <2>1. PICK pc \in {"device", "bootstrap"} : GoOn(p, pc)
      <3>1. CASE member[session[p].who] # None
        BY <1>4, <3>1 DEF ReadRole, GoOn, Goto
      <3>2. CASE member[session[p].who] = None
        BY <1>4, <3>2 DEF ReadRole, GoOn, Goto
      <3> QED
        BY <3>1, <3>2
    <2>2. SessionInv(p)'
      BY <2>1, <1>1, GotoEffect, OutsideAfter DEF GoOn, Careless
    <2> QED
      BY <2>1, <2>2, GotoMember DEF GoOn
  <1>5. CASE Bootstrap(p)
    <2>1. CASE EnrollFails(p)
      BY <2>1, RefuseMember
    <2>2. CASE ~Uninvited(p) /\ Invited(p) /\ orglock' = p
      <3>1. /\ orglock = Free /\ \A q \in Sessions : ~At(q, "inserted")
            /\ UNCHANGED <<member, lock, stale, overtaken>>
            /\ \/ Goto(p, "device")
               \/ Goto(p, "first") /\ member[session[p].who] = None
        BY <1>5, <2>2 DEF Bootstrap, Invited, Goto
      <3>2. \A q \in Sessions : q # p =>
                session'[q] = session[q] /\ (orglock = q => orglock' = q)
        BY <1>1, <1>2, <3>1, GotoEffect
      <3>3. CASE Goto(p, "device")
        <4>1. SessionInv(p)' /\ session'[p].pc = "device"
          BY <3>3, <1>1, GotoEffect, OutsideAfter DEF Careless
        <4> QED
          BY <3>1, <3>2, <4>1, OthersKept
      <3>4. CASE Goto(p, "first") /\ member[session[p].who] = None
        <4>1. session'[p].pc = "first"
          BY <3>4, <1>1, GotoEffect
        <4>2. Members' = {}
          BY <2>2, <3>1, <3>4 DEF Uninvited, Members
        <4>3. SessionInv(p)'
          BY <2>2, <3>1, <3>2, <4>1, <4>2
             DEF SessionInv, WrittenRow, ReadRow, FirstIsAlone, OwnersRead
        <4> QED
          BY <3>1, <3>2, <4>1, <4>3, OthersKept
      <3> QED
        BY <3>1, <3>3, <3>4
    <2> QED
      BY <1>5, <2>1, <2>2 DEF Bootstrap
  <1>6. CASE InsertFirst(p)
    <2>1. CASE EnrollFails(p)
      BY <2>1, RefuseMember
    <2>2. CASE ~EnrollFails(p)
      <3>1. /\ Goto(p, "firstdevice") /\ UNCHANGED <<member, orglock, stale, overtaken>>
            /\ session[p].pc = "first" /\ lock[session[p].who] = Free
            /\ lock' = [lock EXCEPT ![session[p].who] = p]
        BY <1>6, <2>2 DEF InsertFirst
      <3>2. /\ session'[p].pc = "firstdevice" /\ session'[p].who = session[p].who
            /\ \A q \in Sessions : q # p => session'[q] = session[q]
        BY <3>1, <1>1, GotoEffect
      <3>3. orglock = p /\ Members = {} /\ \A q \in Sessions : ~At(q, "inserted")
        BY <3>1 DEF MemberInv, SessionInv, FirstIsAlone, JoiningFirst
      <3>4. Members' = {}
        BY <3>1, <3>3 DEF Members
      <3>5. SessionInv(p)'
        BY <3>1, <3>2, <3>3, <3>4, <1>2
           DEF SessionInv, WrittenRow, ReadRow, FirstIsAlone, OwnersRead
      <3>6. \A q \in Sessions, u \in Users : q # p /\ lock[u] = q => lock'[u] = q
        BY <3>1, <1>2
      <3> QED
        BY <3>1, <3>5, <3>6, GotoMember
    <2> QED
      BY <2>1, <2>2
  <1>7. CASE CommitDevice(p)
    <2>1. CASE session[p].pc = "device"
      BY <1>7, <2>1, FinishMember DEF CommitDevice
    <2>2. CASE session[p].pc = "firstdevice"
      <3>1. Finish(p) /\ member' = [member EXCEPT ![session[p].who] = "developer"]
        BY <1>7, <2>2 DEF CommitDevice
      <3>2. lock[session[p].who] = p
        BY <2>2 DEF MemberInv, SessionInv, WrittenRow
      <3>3. \A q \in Sessions : q # p => session[q].pc \notin JoiningFirst
        BY <2>2, JoinerAlone DEF JoiningFirst
      <3> QED
        BY <3>1, <3>2, <3>3, <1>2, CommitMember
    <2> QED
      BY <1>7, <2>1, <2>2 DEF CommitDevice
  <1>8. CASE EnrollError(p) \/ Crash(p)
    BY <1>8, RefuseMember DEF EnrollError, Crash
  <1> QED
    BY <1>3, <1>4, <1>5, <1>6, <1>7, <1>8 DEF Enroll

LEMMA MemberStep == MemberInv /\ [Next]_vars => MemberInv'
  <1> SUFFICES ASSUME MemberInv, [Next]_vars PROVE MemberInv'
    OBVIOUS
  <1>1. IType'
    BY TypeStep DEF MemberInv
  <1>2. ASSUME NEW p \in Sessions, Manage(p) \/ Enroll(p) \/ Crash(p) PROVE MemberInv'
    BY <1>1, <1>2, ManageMember, EnrollMember
  <1>3. CASE UNCHANGED <<member, lock, orglock, session, stale, overtaken>>
    BY <1>1, <1>3 DEF MemberInv, SessionInv, WrittenRow, ReadRow, FirstIsAlone, OwnersRead,
       At, DemotesOwner, AnotherOwner, Owners, Members
  <1> QED
    BY <1>2, <1>3 DEF Next, ExpireToken, vars

\* Two owners at least: one remains when any of them goes.
LEMMA OwnerRemains ==
    ASSUME AnotherOwner, NEW u
    PROVE  \E v \in Owners : v # u
  <1> SUFFICES ASSUME Owners \subseteq {u} PROVE FALSE
    OBVIOUS
  <1>1. Cardinality(Owners) <= Cardinality({u})
    BY FS_Subset, FS_Singleton
  <1>2. Cardinality({u}) = 1
    BY FS_Singleton
  <1>3. IsFiniteSet(Owners)
    BY FS_Subset, FS_Singleton
  <1>4. Cardinality(Owners) \in Nat
    BY <1>3, FS_CardinalityType
  <1> QED
    BY <1>1, <1>2, <1>4 DEF AnotherOwner

\* A step is a step of one session.
LEMMA OneMoves ==
    ASSUME MemberInv, NEW p \in Sessions, Manage(p) \/ Enroll(p) \/ Crash(p),
           NEW q \in Sessions, q # p
    PROVE  session'[q] = session[q]
  <1> session \in [Sessions -> SessionStates]
    BY SessionType DEF MemberInv, IType
  <1>1. \E s : session' = [session EXCEPT ![p] = s]
    <2>1. CASE Finish(p)
      BY <2>1 DEF Finish
    <2>2. ASSUME NEW pc, Goto(p, pc) PROVE \E s : session' = [session EXCEPT ![p] = s]
      BY <2>2 DEF Goto
    <2>3. CASE Manage(p)
      BY <2>1, <2>2, <2>3
      DEF Manage, Open, CheckInvite, InsertMember, CommitInsert, CheckRemove, DeleteMember,
          CommitDelete, ReadTarget, CheckRanks, CountOwners, UpdateRole, CommitUpdate, Refuse,
          GoOn
    <2>4. CASE Enroll(p) \/ Crash(p)
      BY <2>1, <2>2, <2>4
      DEF Enroll, Crash, Refuse, ClaimToken, StartEnroll, ReadRole, Bootstrap, Invited,
          InsertFirst, CommitDevice, EnrollError, EnrollFails, GoOn
    <2> QED
      BY <2>3, <2>4
  <1> QED
    BY <1>1

\* A request that no change of the owners has overtaken leaves an owner.
LEMMA OwnerStays ==
    ASSUME MemberInv, NEW p \in Sessions, Manage(p) \/ Enroll(p) \/ Crash(p),
           p \notin overtaken, Owners # {}
    PROVE  Owners' # {}
  <1>1. session[p].target \in Users /\ SessionInv(p)
    BY SessionType DEF MemberInv, IType, SessionStates
  <1>2. member \in [Users -> AllRoles \cup {None}]
    BY DEF MemberInv, IType, TypeOK
  <1>3. CASE UNCHANGED member
    BY <1>3 DEF Owners
  <1>4. ASSUME NEW u \in Users, NEW role, member' = [member EXCEPT ![u] = role],
               \E v \in Owners : v # u
        PROVE  Owners' # {}
    BY <1>4, <1>2 DEF Owners
  <1>5. ASSUME NEW u \in Users, NEW role, member' = [member EXCEPT ![u] = role],
               member[u] # "owner"
        PROVE  Owners' # {}
    BY <1>5, <1>4 DEF Owners
  <1>6. CASE CommitInsert(p)
    BY <1>6, <1>1, <1>5 DEF CommitInsert, SessionInv, WrittenRow, At, None
  <1>7. CASE CommitDelete(p)
    BY <1>7, <1>1, <1>5 DEF CommitDelete, SessionInv, OwnersRead, At, Owners
  <1>8. CASE CommitUpdate(p)
    <2> DEFINE s == session[p]
    <2>1. /\ s.target \in Users /\ (s.seen = "owner" <=> s.target \in Owners)
          /\ DemotesOwner(s) => AnotherOwner
      BY <1>8, <1>1 DEF CommitUpdate, At, SessionInv, OwnersRead
    <2>2. member' = [member EXCEPT ![s.target] = s.role]
      BY <1>8 DEF CommitUpdate
    <2>3. CASE s.seen # "owner"
      BY <2>1, <2>2, <2>3, <1>5 DEF Owners
    <2>4. CASE s.seen = "owner" /\ s.role = "owner"
      BY <2>1, <2>2, <2>4, <1>2 DEF Owners
    <2>5. CASE DemotesOwner(s)
      BY <2>1, <2>2, <2>5, <1>4, OwnerRemains
    <2> QED
      BY <2>3, <2>4, <2>5 DEF DemotesOwner
  <1>9. CASE CommitDevice(p)
    <2>1. CASE session[p].pc = "device"
      BY <1>9, <2>1, <1>3 DEF CommitDevice
    <2>2. CASE session[p].pc = "firstdevice"
      BY <2>2, <1>1 DEF SessionInv, FirstIsAlone, JoiningFirst, Members, Owners, None
    <2> QED
      BY <1>9, <2>1, <2>2 DEF CommitDevice
  <1>10. CASE Manage(p)
    BY <1>10, <1>3, <1>6, <1>7, <1>8
    DEF Manage, Open, CheckInvite, InsertMember, CheckRemove, DeleteMember, ReadTarget,
        CheckRanks, CountOwners, UpdateRole, Refuse, GoOn
  <1>11. CASE Enroll(p) \/ Crash(p)
    BY <1>11, <1>3, <1>9
    DEF Enroll, Crash, Refuse, ClaimToken, ReadRole, Bootstrap, Invited, InsertFirst,
        EnrollError, EnrollFails, GoOn
  <1> QED
    BY <1>10, <1>11

LEMMA OwnerStep ==
    ASSUME MemberInv, [Next]_vars, NEW p \in Sessions, session'[p] # session[p],
           Owners # {}, Owners' = {}
    PROVE  p \in overtaken
  <1>1. CASE UNCHANGED member
    BY <1>1 DEF Owners
  <1>2. ASSUME NEW q \in Sessions, Manage(q) \/ Enroll(q) \/ Crash(q)
        PROVE  p \in overtaken
    <2>1. q = p
      BY <1>2, OneMoves
    <2> QED
      BY <1>2, <2>1, OwnerStays
  <1> QED
    BY <1>1, <1>2 DEF Next, ExpireToken, vars

\* remove_member and change_role: however many requests manage the members, and
\* whatever enrolls, fails or crashes meanwhile, only a request during which the
\* owners changed may take the last owner from an organization.
THEOREM OwnerKeptCorrect == Spec => OwnerKept
  <1>1. MemberInv /\ [Next]_vars =>
          [\A p \in Sessions :
              session'[p] # session[p] /\ Owners # {} /\ Owners' = {} => p \in overtaken]_vars
    BY OwnerStep
  <1> QED
    BY <1>1, MemberInit, MemberStep, PTL DEF Spec, OwnerKept

\* enroll_device of an empty organization: however many requests manage the
\* members meanwhile, whoever is let in without an invitation is the first member.
THEOREM BootstrapsEmptyOrganizationCorrect == Spec => BootstrapsEmptyOrganization
  <1>1. MemberInv => \A p \in Sessions : At(p, "firstdevice") => Members = {}
    BY DEF MemberInv, SessionInv, FirstIsAlone, JoiningFirst, At
  <1>2. MemberInv /\ [Next]_vars =>
          [\A p \in Sessions : At(p, "firstdevice") /\ member' # member => Members = {}]_vars
    BY <1>1
  <1> QED
    BY <1>2, MemberInit, MemberStep, PTL DEF Spec, BootstrapsEmptyOrganization
=============================================================================
