----------------------------- MODULE LocalDeploy -----------------------------
(***************************************************************************)
(* Deployments and rollbacks of one local Docker container                 *)
(* (core/api/routes/deploy.py), the monitors that watch a release for five *)
(* minutes after it went up (core/preflight/continuous_verification.py)    *)
(* and the durable records both of them write (core/local_deploy_store.py).*)
(*                                                                         *)
(* Requests are coroutines of one event loop: what stands between two      *)
(* awaits is one step.  A request replaces the container under a lock per  *)
(* container; the monitors run next to it and change the records without   *)
(* that lock, from their callbacks.  They start and stop under a lock of   *)
(* their own, which the ending monitor takes as well.                      *)
(*                                                                         *)
(* A member of Deploys is one call of execute_deployment: it is also the   *)
(* deployment id of the record it writes and the id of the image it builds.*)
(* As in the product, every plan builds the same tag (<folder>:latest), so *)
(* the tag always moves to the last build, and an image that neither the   *)
(* tag, a pin nor the container refers to is collected at once (the image  *)
(* store that deploy.py:474-483 is written for).                           *)
(***************************************************************************)
EXTENDS Naturals, FiniteSets

CONSTANTS
    Deploys,     \* calls of execute_deployment
    Rollbacks,   \* calls of rollback
    Plans,       \* deployment plans
    PinKeep,     \* _ROLLBACK_PIN_KEEP: how many pins of a repository are kept
    Ext,         \* the image of a container made by hand; it has its own tag
    None,
    MaxFaults    \* bound: Docker calls that fail, saves that fail, and restarts
                 \* of the Core

ASSUME DeployAssumption ==
    /\ None \notin Deploys \cup Rollbacks \cup {Ext}
    /\ Ext \notin Deploys /\ Deploys \cap Rollbacks = {}
    /\ None \notin {"pin", "id", "record"} \X (Deploys \cup {Ext})
    /\ IsFiniteSet(Deploys)
    /\ PinKeep \in Nat /\ MaxFaults \in Nat

Requests == Deploys \cup Rollbacks
Images == Deploys \cup {Ext}

VARIABLES
    plan,        \* plan[p]: _deployment_plans, and why a plan is gone
    records,     \* records[d]: _deployment_records
    saved,       \* the records in local_deployments.json
    pins,        \* the deployments whose image has a pin tag
    tag,         \* the image the tag of the plans refers to
    container,   \* the image the container runs
    built,       \* built[d]: the place of d's build in the order of builds
    lock,        \* who holds the container's lock
    vlock,       \* who holds the verifier's lock across an await
    monitor,     \* monitor[d]: the verification task of a deployment
    request,     \* request[r]: the coroutine of a request
    faults, crashes,
    drift,       \* history: a monitor changed records while an image was built
    loose        \* history: a rollback ran that require_current would refuse

vars == <<plan, records, saved, pins, tag, container, built, lock, vlock,
          monitor, request, faults, crashes, drift, loose>>

dockerVars == <<pins, tag, container, built>>
verifierVars == <<vlock, monitor>>
historyVars == <<crashes, drift, loose>>

NoRecord == [plan |-> None, status |-> "absent", eligible |-> FALSE,
             id |-> FALSE, pinned |-> FALSE, target |-> None, source |-> None,
             rollback |-> "none"]

\* target, source, restore: what a deployment selected on its way.
\* prior: the container the request found (history).  what: the deployment
\* whose monitor is started; for a rollback, of: the record it rolls back.
Idle == [pc |-> "idle", plan |-> None, target |-> None, source |-> None,
         restore |-> None, prior |-> None, stops |-> {}, wait |-> None,
         what |-> None, of |-> None, eligible |-> FALSE, ok |-> FALSE,
         raised |-> FALSE]
Done == [Idle EXCEPT !.pc = "done"]

Init ==
    /\ plan = [p \in Plans |-> "ready"]
    /\ records = [d \in Deploys |-> NoRecord]
    /\ saved = records
    /\ pins = {} /\ tag = None /\ built = [d \in Deploys |-> 0]
    /\ container \in {None, Ext}
    /\ lock = None /\ vlock = None
    /\ monitor = [d \in Deploys |-> "off"]
    /\ request = [r \in Requests |-> Idle]
    /\ faults = 0 /\ crashes = 0
    /\ drift = FALSE /\ loose = FALSE

-----------------------------------------------------------------------------
(* References to images, and the selection of what to go back to. *)

\* The lock orders the builds of the container and with them the times of its
\* records and of its images: built is deployed_at and CreatedAt at once.

\* A reference is <<"pin", d>> or <<"id", i>>; it resolves to an image or to
\* None once nothing keeps the image.
Kept(i) == i = Ext \/ tag = i \/ i \in pins \/ container = i

Resolve(ref) ==
    IF ref = None \/ ~Kept(ref[2]) THEN None
    ELSE IF ref[1] = "pin" /\ ref[2] \notin pins THEN None
    ELSE ref[2]

\* _stable_image_ref: the pin, or else the image id.
StableRef(rec, d) ==
    IF rec[d].pinned THEN <<"pin", d>>
    ELSE IF rec[d].id THEN <<"id", d>>
    ELSE None

Recorded == {d \in Deploys : records[d].status # "absent"}
Newest(S) == CHOOSE d \in S : \A e \in S : built[e] <= built[d]
NewestOf(S) == IF S = {} THEN None ELSE Newest(S)

\* The deployments that may be gone back to.  All plans have one tag, so one
\* without a stable reference would start the image just built.
Eligible == {d \in Recorded : /\ records[d].status = "success"
                              /\ records[d].eligible
                              /\ StableRef(records, d) # None}

PreviousImage ==
    LET d == NewestOf(Eligible) IN
    IF d = None THEN None ELSE StableRef(records, d)

RollbackSource == NewestOf(Eligible)

-----------------------------------------------------------------------------
(* The records on disk, and the steps of a request. *)

\* save_records replaces the file as a whole; when it cannot, it only says so.
Save ==
    \/ saved' = records' /\ UNCHANGED faults
    \/ faults + crashes < MaxFaults /\ faults' = faults + 1 /\ UNCHANGED saved

Fault == faults + crashes < MaxFaults /\ faults' = faults + 1

Become(r, x) == request' = [request EXCEPT ![r] = x]

Goto(r, pc) == Become(r, [request[r] EXCEPT !.pc = pc])

\* A request that raises or returns early lets go of the container's lock.
Leave(r) == lock' = None /\ Become(r, Done)

Active(d) == monitor[d] # "off"

\* The names of a running request: the plan it executes under the lock.
Executing(p) == \E d \in Deploys : lock = d /\ request[d].plan = p

-----------------------------------------------------------------------------
(* execute_deployment up to the replacement of the container. *)

\* The plan is looked up before the lock is asked for.  Two requests may hold
\* one plan: a second click, or a retry after the client's time-out.
Execute(d, p) ==
    /\ request[d].pc = "idle" /\ plan[p] = "ready"
    /\ Become(d, [Idle EXCEPT !.pc = "wait", !.plan = p])
    /\ UNCHANGED <<plan, records, saved, faults, lock>>
    /\ UNCHANGED <<dockerVars, verifierVars, historyVars>>

\* approved = false removes the plan, whoever may be executing it.
CancelPlan(p) ==
    /\ plan[p] = "ready"
    /\ plan' = [plan EXCEPT ![p] = IF Executing(p) THEN "cut" ELSE "cancelled"]
    /\ UNCHANGED <<records, saved, faults, lock, request>>
    /\ UNCHANGED <<dockerVars, verifierVars, historyVars>>

\* Variant: the plan is not looked up again under the lock.
EnterUnchecked(d) ==
    /\ request[d].pc = "wait" /\ lock = None
    /\ lock' = d
    /\ Become(d, [request[d] EXCEPT !.pc = "build", !.target = PreviousImage])
    /\ UNCHANGED <<plan, records, saved, faults>>
    /\ UNCHANGED <<dockerVars, verifierVars, historyVars>>

\* Variant: nobody waits for the container's lock.
EnterUnlocked(d) ==
    /\ request[d].pc = "wait" /\ plan[request[d].plan] = "ready"
    /\ lock' = d
    /\ Become(d, [request[d] EXCEPT !.pc = "build", !.target = PreviousImage])
    /\ UNCHANGED <<plan, records, saved, faults>>
    /\ UNCHANGED <<dockerVars, verifierVars, historyVars>>

\* Under the lock the plan must still be there; then the target is taken anew.
Enter(d) ==
    /\ request[d].pc = "wait" /\ lock = None
    /\ IF plan[request[d].plan] = "ready"
       THEN /\ lock' = d
            /\ Become(d, [request[d] EXCEPT !.pc = "build",
                                         !.target = PreviousImage])
       ELSE Leave(d)
    /\ UNCHANGED <<plan, records, saved, faults>>
    /\ UNCHANGED <<dockerVars, verifierVars, historyVars>>

\* A scan of the sources, a missing setting or the build stops the request
\* before it touched Docker; a scan of the image or the database after it
\* moved the tag.  The plan stays for another attempt.
RefuseBuild(d) ==
    /\ request[d].pc = "build"
    /\ \/ UNCHANGED <<tag, built>>
       \/ tag' = d /\ UNCHANGED built
    /\ Leave(d)
    /\ UNCHANGED <<plan, records, saved, faults, pins, container>>
    /\ UNCHANGED <<verifierVars, historyVars>>

Build(d) ==
    /\ request[d].pc = "build"
    /\ tag' = d
    /\ built' = [built EXCEPT ![d] = 1 + Cardinality({e \in Deploys : built[e] > 0})]
    /\ Become(d, [request[d] EXCEPT !.pc = "capture", !.source = RollbackSource])
    /\ UNCHANGED <<plan, records, saved, faults, pins, container, lock>>
    /\ UNCHANGED <<verifierVars, historyVars>>

\* What to put back if the new container fails: the source on record, or else
\* the container that runs now, by its image id.
ToPutBack(d) ==
    IF request[d].source # None THEN <<"record", request[d].source>>
    ELSE IF container # None THEN <<"id", container>>
    ELSE None

\* Variant: only what is on record is put back.
CaptureRecorded(d) ==
    /\ request[d].pc = "capture"
    /\ Become(d, [request[d] EXCEPT !.pc = "stop", !.prior = container,
           !.restore = IF request[d].source # None
                       THEN <<"record", request[d].source>> ELSE None,
           !.stops = {m \in Recorded : Active(m)}])
    /\ UNCHANGED <<plan, records, saved, faults, lock>>
    /\ UNCHANGED <<dockerVars, verifierVars, historyVars>>

\* Variant: the monitors of the earlier releases go on.
CaptureUnwatched(d) ==
    /\ request[d].pc = "capture"
    /\ Become(d, [request[d] EXCEPT !.pc = "stop", !.prior = container,
                                   !.restore = ToPutBack(d)])
    /\ UNCHANGED <<plan, records, saved, faults, lock>>
    /\ UNCHANGED <<dockerVars, verifierVars, historyVars>>

\* The way back is fixed before the container is touched; then the monitors to
\* stop are listed.
Capture(d) ==
    /\ request[d].pc = "capture"
    /\ Become(d, [request[d] EXCEPT !.pc = "stop", !.prior = container,
                                   !.restore = ToPutBack(d),
                                   !.stops = {m \in Recorded : Active(m)}])
    /\ UNCHANGED <<plan, records, saved, faults, lock>>
    /\ UNCHANGED <<dockerVars, verifierVars, historyVars>>

-----------------------------------------------------------------------------
(* The verifier: start and stop of a monitor (ContinuousVerifier). *)

\* stop reads the task under the verifier's lock, cancels it and awaits it.
StopMonitor(r, m) ==
    /\ request[r].pc = "stop" /\ request[r].wait = None
    /\ m \in request[r].stops /\ vlock = None
    /\ IF Active(m)
       THEN /\ monitor' = [monitor EXCEPT ![m] = "cancelled"]
            /\ Become(r, [request[r] EXCEPT !.stops = @ \ {m}, !.wait = m])
       ELSE /\ Become(r, [request[r] EXCEPT !.stops = @ \ {m}])
            /\ UNCHANGED monitor
    /\ UNCHANGED <<plan, records, saved, faults, lock, vlock>>
    /\ UNCHANGED <<dockerVars, historyVars>>

\* What follows once the monitor of request[r].what runs.  A rollback has let
\* go of the container's lock already.
AfterStart(r) ==
    IF r \in Rollbacks
    THEN Become(r, Done) /\ UNCHANGED lock
    ELSE IF request[r].what = r \/ request[r].raised
    THEN Leave(r)
    ELSE /\ Become(r, [request[r] EXCEPT !.pc = "record", !.wait = None])
         /\ UNCHANGED lock

\* start keeps the verifier's lock while it awaits a task that still runs.
StartMonitor(r) ==
    /\ request[r].pc = "start" /\ request[r].wait = None /\ vlock = None
    /\ LET m == request[r].what IN
       IF Active(m)
       THEN /\ vlock' = r
            /\ monitor' = [monitor EXCEPT ![m] = "cancelled"]
            /\ Become(r, [request[r] EXCEPT !.wait = m])
            /\ UNCHANGED lock
       ELSE /\ monitor' = [monitor EXCEPT ![m] = "running"]
            /\ AfterStart(r)
            /\ UNCHANGED vlock
    /\ UNCHANGED <<plan, records, saved, faults>>
    /\ UNCHANGED <<dockerVars, historyVars>>

\* The awaited task has ended.
Joined(r) ==
    /\ request[r].wait # None /\ ~Active(request[r].wait)
    /\ IF request[r].pc = "start"
       THEN /\ monitor' = [monitor EXCEPT ![request[r].what] = "running"]
            /\ vlock' = None
            /\ AfterStart(r)
       ELSE /\ Become(r, [request[r] EXCEPT !.wait = None])
            /\ UNCHANGED <<monitor, vlock, lock>>
    /\ UNCHANGED <<plan, records, saved, faults>>
    /\ UNCHANGED <<dockerVars, historyVars>>

Stopped(r) == request[r].pc = "stop" /\ request[r].stops = {} /\ request[r].wait = None

-----------------------------------------------------------------------------
(* execute_deployment from the replacement of the container on. *)

Replace(d) ==
    /\ d \in Deploys /\ Stopped(d)
    /\ container' = None
    /\ Goto(d, "run")
    /\ UNCHANGED <<plan, records, saved, faults, pins, tag, built, lock>>
    /\ UNCHANGED <<verifierVars, historyVars>>

Run(d) ==
    /\ d \in Deploys /\ request[d].pc = "run"
    /\ container' = d
    /\ Goto(d, "verdict")
    /\ UNCHANGED <<plan, records, saved, faults, pins, tag, built, lock>>
    /\ UNCHANGED <<verifierVars, historyVars>>

\* docker run answers with an error, or a call of Docker raises (a time-out).
RunFails(d) ==
    /\ d \in Deploys /\ request[d].pc = "run"
    /\ \E raised \in BOOLEAN :
         IF request[d].restore = None /\ raised
         THEN Leave(d)
         ELSE /\ Become(d, [request[d] EXCEPT !.raised = raised,
                  !.pc = IF request[d].restore = None THEN "record" ELSE "restore"])
              /\ UNCHANGED lock
    /\ UNCHANGED <<plan, records, saved, faults>>
    /\ UNCHANGED <<dockerVars, verifierVars, historyVars>>

\* The release answers its health check, or it is up and slow to answer.
Serves(d) ==
    /\ d \in Deploys /\ request[d].pc = "verdict"
    /\ \E healthy \in BOOLEAN :
         Become(d, [request[d] EXCEPT !.pc = "record", !.ok = TRUE,
                                    !.eligible = healthy])
    /\ UNCHANGED <<plan, records, saved, faults, lock>>
    /\ UNCHANGED <<dockerVars, verifierVars, historyVars>>

\* It died while starting (nothing to put back: it is halted), or its first
\* screen is not shown (nothing to put back: it stays).
Fails(d) ==
    /\ d \in Deploys /\ request[d].pc = "verdict"
    /\ IF request[d].restore # None
       THEN Goto(d, "restore") /\ UNCHANGED container
       ELSE Goto(d, "record") /\ container' \in {None, container}
    /\ UNCHANGED <<plan, records, saved, faults, pins, tag, built, lock>>
    /\ UNCHANGED <<verifierVars, historyVars>>

RestoreImage(r) ==
    LET ref == request[r].restore IN
    IF ref[1] = "record" THEN Resolve(StableRef(records, ref[2])) ELSE Resolve(ref)

\* _restore_prior_local_container, in a deployment or in a rollback: removes
\* what is there, starts the image and checks its health.  A deployment
\* resumes the monitor of the source when that succeeds.
Restore(r) ==
    /\ request[r].pc = "restore"
    /\ container' = RestoreImage(r)
    /\ \E healthy \in IF RestoreImage(r) = None THEN {FALSE} ELSE BOOLEAN :
         IF r \in Rollbacks
         THEN Goto(r, "end") /\ UNCHANGED lock
         ELSE IF healthy /\ request[r].source # None
         THEN /\ Become(r, [request[r] EXCEPT !.pc = "start",
                                              !.what = request[r].source])
              /\ UNCHANGED lock
         ELSE IF request[r].raised
         THEN Leave(r)
         ELSE Goto(r, "record") /\ UNCHANGED lock
    /\ UNCHANGED <<plan, records, saved, faults, pins, tag, built>>
    /\ UNCHANGED <<verifierVars, historyVars>>

\* Docker does not start what is put back.
RestoreFails(r) ==
    /\ request[r].pc = "restore" /\ Fault
    /\ container' = None
    /\ IF r \in Rollbacks THEN Goto(r, "end") /\ UNCHANGED lock
       ELSE IF request[r].raised THEN Leave(r)
       ELSE Goto(r, "record") /\ UNCHANGED lock
    /\ UNCHANGED <<plan, records, saved, pins, tag, built>>
    /\ UNCHANGED <<verifierVars, historyVars>>

NewRecord(d, known) ==
    [plan |-> request[d].plan,
     status |-> IF ~request[d].ok THEN "failed"
                ELSE IF request[d].eligible THEN "success" ELSE "pending",
     eligible |-> request[d].eligible, id |-> known, pinned |-> FALSE,
     target |-> request[d].target, source |-> request[d].source,
     rollback |-> "none"]

\* The record is written, then the plan is deleted: when it was cancelled
\* meanwhile, that raises and the rest (pin, monitor) never happens.
Record(d) ==
    /\ request[d].pc = "record"
    /\ \E known \in {request[d].ok, FALSE} :
         /\ records' = [records EXCEPT ![d] = NewRecord(d, known)]
         /\ IF known = request[d].ok THEN Save ELSE Fault /\ saved' = records'
    /\ IF plan[request[d].plan] = "ready"
       THEN /\ plan' = [plan EXCEPT ![request[d].plan] = "used"]
            /\ IF request[d].ok THEN Goto(d, "pin") /\ UNCHANGED lock ELSE Leave(d)
       ELSE Leave(d) /\ UNCHANGED plan
    /\ UNCHANGED <<dockerVars, verifierVars, historyVars>>

\* _pin_rollback_image
Pin(d) ==
    /\ request[d].pc = "pin"
    /\ \/ /\ pins' = pins \cup {d}
          /\ records' = [records EXCEPT ![d].pinned = TRUE]
          /\ UNCHANGED faults
       \/ Fault /\ UNCHANGED <<pins, records>>
    /\ Goto(d, "prune")
    /\ UNCHANGED <<plan, saved, tag, container, built, lock>>
    /\ UNCHANGED <<verifierVars, historyVars>>

\* Variant: the rollback target is not protected.
PruneUnprotected(d) ==
    pins \cap ({d} \cup {p \in pins :
        Cardinality({q \in pins : built[q] > built[p]}) < PinKeep - 1})

\* _prune_old_rollback_pins keeps the newest PinKeep pins, the new one and the
\* target of the new deployment.
Surviving(d) ==
    {p \in pins : \/ p = d \/ request[d].target = <<"pin", p>>
                  \/ Cardinality({q \in pins : built[q] > built[p]}) < PinKeep}

Prune(d) ==
    /\ request[d].pc = "prune"
    /\ pins' = Surviving(d)
    /\ UNCHANGED records /\ Save
    /\ \E verified \in BOOLEAN :  \* enable_continuous_verification
         IF verified
         THEN /\ Become(d, [request[d] EXCEPT !.pc = "start", !.what = d])
              /\ UNCHANGED lock
         ELSE Leave(d)
    /\ UNCHANGED <<plan, tag, container, built>>
    /\ UNCHANGED <<verifierVars, historyVars>>

-----------------------------------------------------------------------------
(* rollback *)

\* The target must be there before anything is touched: otherwise the answer
\* is container_untouched.  This is looked at before the lock is asked for.
AskRollback(k, d, pc) ==
    /\ request[k].pc = "idle" /\ d \in Recorded /\ pc \in {"ask", "askCurrent"}
    /\ records[d].target # None
    /\ IF Resolve(records[d].target) = None THEN Become(k, Done)
       ELSE Become(k, [Idle EXCEPT !.pc = pc, !.of = d])
    /\ UNCHANGED <<plan, records, saved, faults, lock>>
    /\ UNCHANGED <<dockerVars, verifierVars, historyVars>>

\* require_current: the newest record, not rolled back yet, and its image runs.
IsCurrent(d) ==
    /\ d = NewestOf(Recorded)
    /\ records[d].status # "rolled_back"
    /\ records[d].rollback \notin {"running", "succeeded", "unknown"}
    /\ records[d].id /\ container = d

EnterRollback(k) ==
    /\ request[k].pc \in {"ask", "askCurrent"} /\ lock = None
    /\ LET d == request[k].of IN
       IF request[k].pc = "askCurrent" /\ ~IsCurrent(d)
       THEN /\ Become(k, Done)
            /\ UNCHANGED <<lock, records, saved, faults, loose>>
       ELSE /\ lock' = k
            /\ records' = [records EXCEPT ![d].rollback = "running"]
            /\ Save
            /\ Become(k, [request[k] EXCEPT !.pc = "stop",
                                            !.stops = IF Active(d) THEN {d} ELSE {}])
            /\ loose' = (loose \/ ~IsCurrent(d))
    /\ UNCHANGED <<plan, crashes, drift>>
    /\ UNCHANGED <<dockerVars, verifierVars>>

ReplaceForRollback(k) ==
    /\ k \in Rollbacks /\ Stopped(k)
    /\ container' = None
    /\ Become(k, [request[k] EXCEPT !.pc = "run", !.prior = container,
           !.restore = IF container = None THEN None ELSE <<"id", container>>])
    /\ UNCHANGED <<plan, records, saved, faults, pins, tag, built, lock>>
    /\ UNCHANGED <<verifierVars, historyVars>>

TargetImage(k) == Resolve(records[request[k].of].target)

RunTarget(k) ==
    /\ k \in Rollbacks /\ request[k].pc = "run" /\ TargetImage(k) # None
    /\ container' = TargetImage(k)
    /\ Become(k, [request[k] EXCEPT !.pc = "end", !.ok = TRUE])
    /\ UNCHANGED <<plan, records, saved, faults, pins, tag, built, lock>>
    /\ UNCHANGED <<verifierVars, historyVars>>

\* The target does not start, or it starts and fails its health check.
RunTargetFails(k) ==
    /\ k \in Rollbacks /\ request[k].pc = "run"
    /\ container' \in {None, TargetImage(k)}
    /\ Goto(k, IF request[k].restore = None THEN "end" ELSE "restore")
    /\ UNCHANGED <<plan, records, saved, faults, pins, tag, built, lock>>
    /\ UNCHANGED <<verifierVars, historyVars>>

\* A call of Docker raises: the rollback is failed and nothing is put back.
RunTargetRaises(k) ==
    /\ k \in Rollbacks /\ request[k].pc = "run" /\ Fault
    /\ records' = [records EXCEPT ![request[k].of].rollback = "failed"]
    /\ saved' = records'
    /\ Leave(k)
    /\ UNCHANGED plan
    /\ UNCHANGED <<dockerVars, verifierVars, historyVars>>

\* The outcome is recorded, the lock released and, with no await in between
\* unless another request holds the verifier's lock, the monitor of the
\* release that is back is started (_resume_verification_for).
EndRollback(k) ==
    /\ request[k].pc = "end"
    /\ LET d == request[k].of
           s == records[d].source
       IN
       /\ records' = [records EXCEPT ![d] = [@ EXCEPT
              !.status = IF request[k].ok THEN "rolled_back" ELSE "failed",
              !.rollback = IF request[k].ok THEN "succeeded" ELSE "failed"]]
       /\ Save
       /\ lock' = None
       /\ IF ~request[k].ok \/ s \notin Recorded
          THEN Become(k, Done) /\ UNCHANGED verifierVars
          ELSE IF vlock # None
          THEN /\ Become(k, [Done EXCEPT !.pc = "start", !.what = s])
               /\ UNCHANGED verifierVars
          ELSE IF Active(s)
          THEN /\ vlock' = k
               /\ monitor' = [monitor EXCEPT ![s] = "cancelled"]
               /\ Become(k, [Done EXCEPT !.pc = "start", !.what = s, !.wait = s])
          ELSE /\ monitor' = [monitor EXCEPT ![s] = "running"]
               /\ Become(k, Done)
               /\ UNCHANGED vlock
    /\ UNCHANGED plan
    /\ UNCHANGED <<dockerVars, historyVars>>

-----------------------------------------------------------------------------
(* The monitors, and restarts of the Core. *)

Building == \E d \in Deploys : request[d].pc = "build"

Judge(d, rec) ==
    /\ records' = IF d \in Recorded THEN [records EXCEPT ![d] = rec] ELSE records
    /\ Save
    /\ drift' = (drift \/ Building)

\* A threshold is exceeded: _mark_rollback_candidate_unhealthy.
Anomaly(d) ==
    /\ monitor[d] = "running"
    /\ monitor' = [monitor EXCEPT ![d] = "flagged"]
    /\ Judge(d, [records[d] EXCEPT !.eligible = FALSE])
    /\ UNCHANGED <<plan, lock, vlock, request, crashes, loose>>
    /\ UNCHANGED dockerVars

\* Five minutes are over, or the monitor itself failed: the task takes the
\* verifier's lock to sign off, then _update_rollback_candidate_after_verification.
MonitorEnds(d) ==
    /\ monitor[d] \in {"running", "flagged"} /\ vlock = None
    /\ monitor' = [monitor EXCEPT ![d] = "off"]
    /\ \E stable \in {monitor[d] = "running", FALSE} :
         Judge(d, [records[d] EXCEPT !.eligible = stable,
                       !.status = IF stable THEN "success" ELSE "failed"])
    /\ UNCHANGED <<plan, lock, vlock, request, crashes, loose>>
    /\ UNCHANGED dockerVars

\* A cancelled task signs off as well; its record keeps what it says.
MonitorCancelled(d) ==
    /\ monitor[d] = "cancelled" /\ vlock = None
    /\ monitor' = [monitor EXCEPT ![d] = "off"]
    /\ UNCHANGED records /\ Save
    /\ UNCHANGED <<plan, lock, vlock, request>>
    /\ UNCHANGED <<dockerVars, historyVars>>

\* POST /api/deploy/verification/{deployment_id}/stop
StopRequested(d) ==
    /\ monitor[d] \in {"running", "flagged"} /\ vlock = None
    /\ monitor' = [monitor EXCEPT ![d] = "cancelled"]
    /\ UNCHANGED <<plan, records, saved, faults, lock, vlock, request>>
    /\ UNCHANGED <<dockerVars, historyVars>>

\* Variant: a rollback that was running stays so.
LoadAsSaved(d) == saved[d]

\* load_records: the outcome of a rollback that was running is not known.
Loaded(d) == IF saved[d].rollback = "running"
             THEN [saved[d] EXCEPT !.rollback = "unknown"] ELSE saved[d]

\* The Core goes and comes back: plans, tasks, locks and requests are gone,
\* the container goes on.  A plan that no request holds stands for one that is
\* made after the restart.
Restart ==
    /\ faults + crashes < MaxFaults /\ crashes' = crashes + 1
    /\ records' = [d \in Deploys |-> Loaded(d)]
    /\ plan' = [p \in Plans |->
                   IF plan[p] = "ready" /\ \E d \in Deploys : request[d].plan = p
                   THEN "lost" ELSE plan[p]]
    /\ lock' = None /\ vlock' = None
    /\ monitor' = [d \in Deploys |-> "off"]
    /\ request' = [r \in Requests |-> IF request[r].pc = "idle" THEN Idle ELSE Done]
    /\ UNCHANGED <<saved, faults, drift, loose>>
    /\ UNCHANGED dockerVars

-----------------------------------------------------------------------------
DeployStep(d) ==
    \/ Enter(d) \/ RefuseBuild(d) \/ Build(d) \/ Capture(d)
    \/ Replace(d) \/ Run(d) \/ RunFails(d) \/ Serves(d) \/ Fails(d)
    \/ Record(d) \/ Pin(d) \/ Prune(d)

RollbackStep(k) ==
    \/ EnterRollback(k) \/ ReplaceForRollback(k)
    \/ RunTarget(k) \/ RunTargetFails(k) \/ RunTargetRaises(k)
    \/ EndRollback(k)

SharedStep(r) ==
    \/ \E m \in Deploys : StopMonitor(r, m)
    \/ StartMonitor(r) \/ Joined(r)
    \/ Restore(r) \/ RestoreFails(r)

SignOff(d) == MonitorEnds(d) \/ MonitorCancelled(d)

Next ==
    \/ \E d \in Deploys : DeployStep(d) \/ (\E p \in Plans : Execute(d, p))
    \/ \E k \in Rollbacks : \/ RollbackStep(k)
                            \/ \E d \in Deploys, pc \in {"ask", "askCurrent"} :
                                 AskRollback(k, d, pc)
    \/ \E r \in Requests : SharedStep(r)
    \/ \E d \in Deploys : Anomaly(d) \/ SignOff(d) \/ StopRequested(d)
    \/ \E p \in Plans : CancelPlan(p)
    \/ Restart

Spec == Init /\ [][Next]_vars

\* The event loop runs what can run, and a monitor ends after its five
\* minutes.  Nobody need ask for anything, and nothing need fail.
Fairness ==
    /\ \A d \in Deploys : WF_vars(DeployStep(d)) /\ WF_vars(SignOff(d))
    /\ \A k \in Rollbacks : WF_vars(RollbackStep(k))
    /\ \A r \in Requests : WF_vars(SharedStep(r))

FairSpec == Spec /\ Fairness

-----------------------------------------------------------------------------
(* Properties. *)

Pcs == {"idle", "wait", "build", "capture", "stop", "run", "verdict", "restore",
        "record", "pin", "prune", "start", "ask", "askCurrent", "end", "done"}
Targets == {"pin", "id"} \X Deploys \cup {None}
PutBacks == ({"record"} \X Deploys) \cup ({"id"} \X Images) \cup {None}
Statuses == {"absent", "success", "pending", "failed", "rolled_back"}
Outcomes == {"none", "running", "succeeded", "failed", "unknown"}
DeployOrNone == Deploys \cup {None}
ImageOrNone == Images \cup {None}

RequestType ==
    [pc : Pcs, plan : Plans \cup {None}, target : Targets, source : DeployOrNone,
     restore : PutBacks, prior : ImageOrNone, stops : SUBSET Deploys,
     wait : DeployOrNone, what : DeployOrNone, of : DeployOrNone,
     eligible : BOOLEAN, ok : BOOLEAN, raised : BOOLEAN]

RecordType ==
    [plan : Plans \cup {None}, status : Statuses, eligible : BOOLEAN,
     id : BOOLEAN, pinned : BOOLEAN, target : Targets, source : DeployOrNone,
     rollback : Outcomes]

\* The types of all variables.
TypeOK ==
    /\ plan \in [Plans -> {"ready", "used", "cancelled", "cut", "lost"}]
    /\ records \in [Deploys -> RecordType]
    /\ saved \in [Deploys -> RecordType]
    /\ pins \subseteq Deploys
    /\ tag \in Deploys \cup {None}
    /\ container \in Images \cup {None}
    /\ built \in [Deploys -> Nat]
    /\ lock \in Requests \cup {None}
    /\ vlock \in Requests \cup {None}
    /\ monitor \in [Deploys -> {"off", "running", "flagged", "cancelled"}]
    /\ request \in [Requests -> RequestType]
    /\ faults \in 0 .. MaxFaults /\ crashes \in 0 .. MaxFaults
    /\ drift \in BOOLEAN /\ loose \in BOOLEAN

\* What a deployment finds healthy and then records and pins is its own
\* release: from the health check until the pin nobody replaces the container
\* (the critical section of deploy.py:4740-4755, against every other
\* deployment and rollback).
VerdictIsOwn ==
    \A d \in Deploys :
        \/ request[d].pc \in {"verdict", "pin", "prune"}
        \/ request[d].pc = "record" /\ request[d].ok
        => lock = d /\ container = d

\* A plan is carried out once, whoever clicks twice, retries after a time-out
\* or restarts the Core, and never after it was cancelled, except that a
\* cancellation does not stop the request that is executing the plan.
PlanOnce ==
    /\ \A d, e \in Recorded : records[d].plan = records[e].plan => d = e
    /\ \A d \in Recorded : plan[records[d].plan] # "cancelled"

\* No record says that its rollback is running when nothing rolls it back:
\* not after an exception, not after a restart of the Core.
RollbackSettles ==
    \A d \in Deploys : records[d].rollback = "running" =>
        \E k \in Rollbacks : lock = k /\ request[k].of = d

NewerThan(d) == {e \in Deploys : built[e] > built[d]}

\* While every call of Docker does its work, what a failing deployment would
\* put back can be put back: pruning and collecting images spare it.  Not so
\* after a plan was cancelled while it was carried out (its release has no pin),
\* nor once PinKeep newer releases are all known to be bad.
SourceKept ==
    faults = 0 /\ crashes = 0 /\ (\A p \in Plans : plan[p] # "cut") /\ Building =>
        LET d == RollbackSource IN
        d # None /\ Cardinality(NewerThan(d)) < PinKeep =>
            Resolve(StableRef(records, d)) # None

\* A monitor judges the release it was started for: it never watches another
\* deployment's container, as long as no rollback runs that require_current
\* would refuse and no deployment has a target and a source that differ (then
\* its rollback starts the one and watches the other).
MonitorWatchesOwn ==
    ~loose /\ ~drift => \A d \in Deploys : Active(d) => container = d

\* A deployment or rollback that found a container leaves one behind, whatever
\* fails in between, unless Docker fails on what is put back or the Core dies.
\* The image found, and the one a deployment puts back, must be pinned or have a
\* tag of its own: one that only the moving tag named is collected with its
\* container, before it is put back (a release has no pin when its plan was
\* cancelled while it was carried out, or the Core ended before the pin).
ServiceKept ==
    [][ \A r \in Requests :
          /\ lock = r /\ lock' # r /\ faults' = 0 /\ crashes' = crashes
          /\ request[r].prior \in pins \cup {Ext}
          /\ request[r].source \in pins \cup {None}
          => container' # None ]_vars

\* continuous_verification.py: a monitor that already runs for the deployment
\* is cancelled cleanly by start; so every request ends.
StartCancelsCleanly ==
    \A r \in Requests : (request[r].pc # "idle") ~> (request[r].pc = "done")
=============================================================================
