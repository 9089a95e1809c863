--------------------------- MODULE AuditedRoutes ---------------------------
(***************************************************************************)
(* The routes that administer one organization's policy and one of its     *)
(* devices, composed with the audit log they write in the same database    *)
(* transaction (module AuditChain):                                        *)
(*   publish      routes/policy.py create_bundle (policy_service.py)       *)
(*   revoke, lose routes/devices.py revoke_device, mark_lost or not        *)
(*   rotate       routes/devices.py rotate_device_token (identity.py)      *)
(*   sync         routes/audit.py, the offline queue of the device         *)
(* Each writes its own rows first and records its event last; at READ      *)
(* COMMITTED a plain SELECT sees what is committed, and a written or       *)
(* locked row makes others wait until the transaction ends.                *)
(*                                                                         *)
(* Heartbeats are left out (they write last_heartbeat_at and nothing       *)
(* else), and so is the age of a token.                                    *)
(***************************************************************************)
EXTENDS AuditChain

VARIABLES device,      \* committed row of the device
          devicelock,  \* transaction that has written it
          bundles,     \* committed rows of policy_bundles
          orglock,     \* transaction that locks the organization row
          job          \* the routes' own state

routeVars == <<device, devicelock, bundles, orglock, job>>
allVars == <<vars, routeVars>>

Ops == {"publish", "revoke", "lose", "rotate", "sync"}
Statuses == {"active", "revoked", "lost"}

\* get_db and the except clauses of the routes: an audit failure is raised, is
\* logged, or rejects one event of the queue.
KindOf(op) == CASE op \in {"publish", "revoke", "lose"} -> "hard"
                [] op = "rotate" -> "soft"
                [] op = "sync" -> "sync"

\* seen: the status of the device as this transaction loaded it; version: that
\* of the bundle it publishes; old: the bundles it switches off.
NoJob == [op |-> "sync", at |-> "idle", seen |-> "active", version |-> 0, old |-> {}]

RoutesInit ==
    /\ Init
    /\ device = [status |-> "active", token |-> Free, by |-> Free]
    /\ devicelock = Free
    /\ bundles = {}
    /\ orglock = Free
    /\ job = [t \in Txns |-> NoJob]

-----------------------------------------------------------------------------
At(t, at) == txn[t].pc = "open" /\ job[t].at = at
Goto(t, at) == job' = [job EXCEPT ![t].at = at]

\* Rows are unlocked by a commit and by a rollback.
Unlock(t) ==
    /\ devicelock' = IF devicelock = t THEN Free ELSE devicelock
    /\ orglock' = IF orglock = t THEN Free ELSE orglock

\* An exception of the route: get_db rolls back.
Refuse(t) ==
    /\ Abort(t) /\ Unlock(t)
    /\ job' = [job EXCEPT ![t] = NoJob]
    /\ UNCHANGED <<device, bundles>>

\* A request arrives; the other device or this one has been authenticated.
Request(t) ==
    /\ Begin(t)
    /\ \E op \in Ops :
         /\ txn'[t].kind = KindOf(op)
         /\ job' = [job EXCEPT ![t] = [NoJob EXCEPT !.op = op, !.at = "read"]]
    /\ UNCHANGED <<device, devicelock, bundles, orglock>>

\* Variant: nobody locks the organization.
PublishUnlocked(t) ==
    /\ At(t, "read") /\ job[t].op = "publish"
    /\ Goto(t, "latest")
    /\ UNCHANGED <<vars, device, devicelock, bundles, orglock>>

\* _organization_version_lock: SELECT ... FOR UPDATE of the organization.
LockOrganization(t) ==
    /\ At(t, "read") /\ job[t].op = "publish"
    /\ orglock = Free /\ \A u \in Txns : ~Shares(u)
    /\ orglock' = t
    /\ Goto(t, "latest")
    /\ UNCHANGED <<vars, device, devicelock, bundles>>

Active == {b \in bundles : b.active}

\* _next_version: v1.0.0, then the patch number is raised.
NextVersion(latest) == IF latest = {} THEN 1 ELSE (CHOOSE b \in latest : TRUE).version + 1

\* The newest active bundle is read; it is switched off, the next is added.
ReadLatest(t) ==
    /\ At(t, "latest")
    /\ LET latest == {b \in Active : \A c \in Active : c.version <= b.version} IN
       job' = [job EXCEPT ![t] = [@ EXCEPT !.at = "write",
                                           !.version = NextVersion(latest),
                                           !.old = latest]]
    /\ UNCHANGED <<vars, device, devicelock, bundles, orglock>>

\* Versions of the bundles that transactions in progress have inserted.
Inserted ==
    {job[u].version : u \in {v \in Txns : /\ txn[v].pc \in Working
                                          /\ job[v].at = "written" /\ job[v].op = "publish"}}

\* uq_policy_bundle_version: the INSERT waits for one of the same version, and
\* is refused when that commits.
VersionTaken(version) == \E b \in bundles : b.version = version

InsertBundle(t) ==
    /\ At(t, "write") /\ job[t].op = "publish" /\ job[t].version \notin Inserted
    /\ IF VersionTaken(job[t].version) THEN Refuse(t)
       ELSE Goto(t, "written") /\ UNCHANGED <<vars, device, devicelock, bundles, orglock>>

\* The route loads the device.  A rotation needs an active one, a queue is taken
\* from an active or a lost one, and any can be revoked.
Admitted(op, status) ==
    CASE op = "rotate" -> status = "active"
      [] op = "sync" -> status \in {"active", "lost"}
      [] op \in {"revoke", "lose"} -> TRUE

LoadDevice(t) ==
    /\ At(t, "read") /\ job[t].op # "publish"
    /\ IF Admitted(job[t].op, device.status)
       THEN /\ job' = [job EXCEPT ![t] = [@ EXCEPT !.seen = device.status,
                                                   !.at = IF job[t].op = "sync" THEN "written" ELSE "write"]]
            /\ UNCHANGED <<vars, device, devicelock, bundles, orglock>>
       ELSE Refuse(t)

\* The flush of the route: UPDATE devices ... WHERE device_id.
UpdateDevice(t) ==
    /\ At(t, "write") /\ job[t].op \in {"revoke", "lose", "rotate"}
    /\ devicelock = Free /\ devicelock' = t
    /\ Goto(t, "written")
    /\ UNCHANGED <<vars, device, bundles, orglock>>

\* FOR KEY SHARE conflicts with the FOR UPDATE of a publisher.
CanShare(t) == orglock \in {Free, t}

\* record() and what follows from it.
Audit(t) ==
    /\ job[t].at = "written"
    /\ \/ RecordAgain(t) \/ RecordLocked(t) \/ CounterMissing(t) \/ CreateCounter(t)
       \/ CanShare(t) /\ (CounterCreated(t) \/ Flush(t))
       \/ RejectRest(t) \/ CommitFails(t)
    /\ UNCHANGED routeVars

\* An event of the queue is refused before its flush.
RefuseEvent(t) == RejectEvent(t) /\ UNCHANGED routeVars

\* A failed statement has rolled the database transaction back, whatever the
\* route does with the exception.
Lose(t, failure) ==
    /\ job[t].at = "written"
    /\ failure
    /\ Unlock(t) /\ UNCHANGED <<device, bundles, job>>

\* The publisher waits for the counter, whose owner waits for the organization.
\* PostgreSQL finds the cycle and makes one of the two fail.
Deadlocked(p, x) ==
    /\ orglock = p /\ owner = x /\ p # x
    /\ txn[x].pc \in {"creating", "counted"}
    /\ job[p].at = "written"
    /\ \/ ToRecord(p) /\ counter.exists
       \/ txn[p].pc = "inserting"

BreakDeadlock(t) ==
    /\ \E u \in Txns : Deadlocked(t, u) \/ Deadlocked(u, t)
    /\ Lose(t, RecordFails(t))

StatusOf(op) == CASE op = "revoke" -> "revoked" [] op = "lose" -> "lost"

\* Variant: the UPDATE of a rotation writes the whole row as it was loaded.
WholeRow(t) ==
    CASE job[t].op = "rotate" -> [status |-> job[t].seen, token |-> t, by |-> t]
      [] job[t].op \in {"revoke", "lose"} ->
            [device EXCEPT !.status = StatusOf(job[t].op), !.by = t]
      [] OTHER -> device

\* Only attributes that differ from what was loaded are written.
DeviceRow(t) ==
    CASE job[t].op = "rotate" -> [device EXCEPT !.token = t, !.by = t]
      [] job[t].op \in {"revoke", "lose"} ->
            [device EXCEPT !.by = t, !.status = IF StatusOf(job[t].op) = job[t].seen THEN @
                                                ELSE StatusOf(job[t].op)]
      [] OTHER -> device

BundleRows(t) ==
    IF job[t].op # "publish" THEN bundles
    ELSE {[b EXCEPT !.active = @ /\ b.version \notin {o.version : o \in job[t].old}] :
             b \in bundles}
         \cup {[version |-> job[t].version, active |-> TRUE, by |-> t]}

\* Variant: a failed record() leaves the session usable, and the route commits.
CommitUnrecorded(t) ==
    /\ job[t].at = "written"
    /\ \/ Commit(t)
       \/ /\ txn[t].pc = "poisoned" /\ txn[t].left = 0
          /\ txn' = [txn EXCEPT ![t].pc = "committed"]
          /\ effect' = effect \cup {t}
          /\ UNCHANGED <<events, counter, owner>>
    /\ device' = DeviceRow(t)
    /\ bundles' = BundleRows(t)
    /\ Unlock(t)
    /\ UNCHANGED job

\* get_db: the rows of the route and its events at once.
CommitAll(t) ==
    /\ job[t].at = "written"
    /\ Commit(t)
    /\ device' = DeviceRow(t)
    /\ bundles' = BundleRows(t)
    /\ Unlock(t)
    /\ UNCHANGED job

Serve(t) ==
    \/ LockOrganization(t) \/ ReadLatest(t) \/ InsertBundle(t)
    \/ LoadDevice(t) \/ UpdateDevice(t) \/ Audit(t) \/ CommitAll(t)
    \/ Lose(t, CreateConflict(t)) \/ BreakDeadlock(t)

\* What nobody is owed.
Mishap(t) == RefuseEvent(t) \/ Lose(t, RecordFails(t)) \/ Refuse(t)

RoutesNext == \E t \in Txns : Request(t) \/ Serve(t) \/ Mishap(t)

RoutesSpec == RoutesInit /\ [][RoutesNext]_allVars

\* The event loop resumes a request whose statement has finished, and PostgreSQL
\* hands a free lock to who waits for it.
FairRoutesSpec == RoutesSpec /\ \A t \in Txns : WF_allVars(Serve(t))

-----------------------------------------------------------------------------
(* Properties *)

RoutesTypeOK ==
    /\ TypeOK
    /\ device \in [status : Statuses, token : Txns \cup {Free}, by : Txns \cup {Free}]
    /\ devicelock \in Txns \cup {Free} /\ orglock \in Txns \cup {Free}
    /\ bundles \subseteq [version : Nat, active : BOOLEAN, by : Txns]
    /\ job \in [Txns -> [op : Ops, at : {"idle", "read", "latest", "write", "written"},
                         seen : Statuses, version : Nat,
                         old : SUBSET [version : Nat, active : BOOLEAN, by : Txns]]]

\* identity.py:259: a device that was revoked or lost never becomes active again,
\* whichever rotations had loaded it before: validate_token refuses it for good.
RevokedStaysOut == [][device.status # "active" => device'.status # "active"]_allVars

\* policy_service.py:216-219: of administrators who publish at once none is refused
\* for a version in use; versions are counted without a gap and never used twice,
\* and one bundle, the newest, is active.
PublishedInOrder ==
    /\ \A t \in Txns : At(t, "write") /\ job[t].op = "publish" =>
          ~VersionTaken(job[t].version) /\ job[t].version \notin Inserted
    /\ \A b, c \in bundles : b.version = c.version => b = c
    /\ \A b \in bundles : b.version = 1 \/ \E c \in bundles : c.version + 1 = b.version
    /\ \A b \in bundles : b.active <=> \A c \in bundles : c.version <= b.version

SeqOf(t) == (CHOOSE e \in events : e.body[2] = t).seq

\* The last event about the device, if there is any, is by who wrote its row.
DeviceEvents == {t \in effect : job[t].op \in {"revoke", "lose", "rotate"}}

\* Whoever reads the audit log reads the history of the rows it is about: each
\* bundle and each change of the device has its event, the events of the bundles
\* follow their versions, and the last one about the device is by its last writer.
LogTellsHistory ==
    /\ RecordedWithEffect
    /\ {b.by : b \in bundles} = {t \in effect : job[t].op = "publish"}
    /\ \A b, c \in bundles : b.version < c.version => SeqOf(b.by) < SeqOf(c.by)
    /\ DeviceEvents = {} <=> device.by = Free
    /\ \A t \in DeviceEvents : SeqOf(t) <= SeqOf(device.by)
=============================================================================
