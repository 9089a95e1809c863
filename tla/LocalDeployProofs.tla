------------------------- MODULE LocalDeployProofs -------------------------
(***************************************************************************)
(* Proofs about LocalDeploy: all its safety and action properties, for any *)
(* number of deployments, rollbacks and plans, any number of pins kept and *)
(* any number of faults and restarts.                                      *)
(*                                                                         *)
(* The inductive invariant says what a request knows at each of its places *)
(* (PlacesOK), that it is there only with the lock (LockedOne), and on top *)
(* of that what the records, plans, pins, monitors and the container have  *)
(* to do with it.  To keep the proof of a step small, the Move operators   *)
(* state what an action does to the request that takes it, field by field, *)
(* and KeepsReleases, RecordsRelease and LoadsReleases what it does to the *)
(* records.                                                                *)
(***************************************************************************)
EXTENDS LocalDeploy, FiniteSetTheorems, TLAPS

\* The places of a deployment and of a rollback.
DeployPcs == {"idle", "wait", "build", "capture", "stop", "run", "verdict",
              "restore", "record", "pin", "prune", "start", "done"}
RollbackPcs == {"idle", "ask", "askCurrent", "stop", "run", "restore", "end",
                "start", "done"}

-----------------------------------------------------------------------------
(* The inductive invariant. *)

\* Where a request holds the container's lock.  A rollback starts the monitor
\* after it let go of it.
Critical(r) ==
    \/ request[r].pc \in {"build", "capture", "stop", "run", "verdict", "restore",
                          "record", "pin", "prune", "end"}
    \/ request[r].pc = "start" /\ r \in Deploys

\* The lock is held by whoever is in between, and by nobody else.
LockedOne == \A r \in Requests : Critical(r) <=> lock = r

\* What a request knows at its place.
Placed(r) ==
    /\ request[r].pc = "restore" => request[r].restore # None
    /\ request[r].pc = "start" => request[r].what \in Deploys
    /\ request[r].wait # None => request[r].pc \in {"stop", "start"}

DeployPlaced(d) ==
    /\ request[d].pc \in DeployPcs
    /\ request[d].pc \notin {"idle", "done"} => request[d].plan \in Plans
    /\ request[d].pc \in {"pin", "prune"} => request[d].ok
    /\ request[d].ok => \/ request[d].pc \in {"record", "pin", "prune"}
                        \/ request[d].pc = "start" /\ request[d].what = d
    /\ request[d].pc \in {"idle", "wait", "build"} => built[d] = 0
    /\ request[d].pc \in {"idle", "wait", "build", "capture", "stop", "run",
                          "verdict", "restore", "record"} => d \notin Recorded
    /\ request[d].pc \in {"pin", "prune"} => d \in Recorded
    /\ request[d].pc = "start" /\ request[d].what # d => d \notin Recorded
    /\ request[d].source \in Recorded \cup {None}
    /\ request[d].pc = "start" => request[d].what \in Recorded
    /\ /\ request[d].pc \in {"stop", "run", "verdict", "restore"}
       /\ request[d].source # None
       => request[d].restore = <<"record", request[d].source>>

RollbackPlaced(k) ==
    /\ request[k].pc \in RollbackPcs
    /\ request[k].pc \notin {"idle", "start", "done"} => request[k].of \in Recorded
    /\ request[k].ok => request[k].pc = "end"

PlacesOK ==
    /\ \A r \in Requests : Placed(r)
    /\ \A d \in Deploys : DeployPlaced(d)
    /\ \A k \in Rollbacks : RollbackPlaced(k)

\* What is on disk has been in memory.
SavedKnown ==
    \A d \in Deploys :
        saved[d].status # "absent" => d \in Recorded /\ saved[d].plan = records[d].plan

\* After its docker run a deployment runs its own image, or it has put an image
\* back and starts the monitor of that.
OwnContainer ==
    \A d \in Deploys :
        /\ \/ request[d].pc \in {"verdict", "pin", "prune"}
           \/ request[d].pc = "record" /\ request[d].ok
           => container = d
        /\ request[d].pc = "start" => container = request[d].what

\* The plan of a record is used up; that of a deployment which has no record
\* yet is in no record.
Carried(d) ==
    \/ request[d].pc \in {"build", "capture", "stop", "run", "verdict", "restore",
                          "record"}
    \/ request[d].pc = "start" /\ request[d].what # d

PlansUsed ==
    /\ \A d \in Recorded : /\ records[d].plan \in Plans
                           /\ plan[records[d].plan] \in {"used", "cut"}
    /\ \A d, e \in Recorded : records[d].plan = records[e].plan => d = e
    /\ \A d \in Deploys : Carried(d) =>
           /\ plan[request[d].plan] \in {"ready", "cut"}
           /\ \A e \in Recorded : records[e].plan # request[d].plan

-----------------------------------------------------------------------------
\* A target and a source that belong to the same deployment.
Agree(x) == IF x.source = None THEN x.target = None
            ELSE x.target # None /\ x.target[2] = x.source

\* The target is taken under the lock, the source after the build.
TargetCurrent(d) == request[d].pc = "build" => request[d].target = PreviousImage
TargetOfSource(d) == Carried(d) /\ request[d].pc # "build" => Agree(request[d])
ReleasesAgree ==
    \A d \in Deploys : /\ d \in Recorded => Agree(records[d])
                       /\ saved[d].status # "absent" => Agree(saved[d])

\* A rollback that succeeded runs the target of its record.
RolledBack(k) ==
    request[k].pc = "end" /\ request[k].ok =>
        /\ records[request[k].of].target # None
        /\ container = records[request[k].of].target[2]

\* Unless a monitor changed the records during a build.
TargetsAgree ==
    ~drift => /\ \A d \in Deploys : TargetCurrent(d) /\ TargetOfSource(d)
              /\ ReleasesAgree
              /\ \A k \in Rollbacks : RolledBack(k)

\* Where no monitor is active.
Unwatched(r) ==
    \/ request[r].pc \in {"run", "verdict", "restore", "pin", "prune", "start", "end"}
    \/ request[r].pc = "record" /\ request[r].ok

\* A monitor watches what runs, and a request that replaces it stops it first.
Watched(m) ==
    Active(m) => /\ container = m /\ m \in Recorded
                 /\ \A r \in Requests :
                      /\ ~Unwatched(r)
                      /\ request[r].pc = "stop" =>
                           m \in request[r].stops \cup {request[r].wait}

\* Nobody holds the verifier's lock across an await, or is to start a monitor
\* after its rollback.
NoneStarts == vlock = None /\ \A k \in Rollbacks : request[k].pc # "start"

MonitorsStopped == ~loose /\ ~drift => NoneStarts /\ \A m \in Deploys : Watched(m)

-----------------------------------------------------------------------------
\* The hypotheses of ServiceKept.
PutBackKept(r) ==
    /\ lock = r /\ faults = 0
    /\ request[r].prior \in pins \cup {Ext}
    /\ request[r].source \in pins \cup {None}

\* A source has a pin or an image id on record.
SourcesStable ==
    \A d \in Deploys :
        request[d].source # None => StableRef(records, request[d].source) # None

\* The container a request found is what it would put back.
PriorFound(r) ==
    /\ request[r].pc \in {"idle", "wait", "ask", "askCurrent", "build", "capture"}
          => request[r].prior = None
    /\ r \in Rollbacks => request[r].source = None
    /\ r \in Rollbacks /\ request[r].pc = "stop" => request[r].prior = None
    /\ /\ request[r].pc \in {"stop", "run", "verdict", "restore"}
       /\ request[r].source = None /\ request[r].prior # None
       => request[r].restore = <<"id", request[r].prior>>

\* When it comes to the end, something is up.
UpAtEnd(r) ==
    PutBackKept(r) /\ request[r].pc \in {"record", "end"} => container # None

PriorsHeld == \A r \in Requests : PriorFound(r) /\ UpAtEnd(r)

-----------------------------------------------------------------------------
\* The hypotheses of SourceKept.
NoTrouble == faults = 0 /\ crashes = 0 /\ \A p \in Plans : plan[p] # "cut"

\* Only a release on record has an image id or a pin on record.
PinsRecorded ==
    \A d \in Deploys :
        /\ records[d].pinned \/ records[d].id => d \in Recorded
        /\ saved[d].pinned \/ saved[d].id => saved[d].status # "absent"

\* A release whose image id is known has a pin on record, and the pin is there
\* unless it is out of the newest PinKeep.
PinKept(d) ==
    /\ records[d].id => records[d].pinned \/ request[d].pc = "pin"
    /\ records[d].pinned => d \in pins \/ Cardinality(NewerThan(d)) >= PinKeep

PinsKept == PinsRecorded /\ (NoTrouble => \A d \in Deploys : PinKept(d))

\* The inductive invariant.
IInv == /\ TypeOK /\ LockedOne /\ PlacesOK /\ SavedKnown /\ OwnContainer
        /\ PlansUsed /\ RollbackSettles /\ TargetsAgree /\ MonitorsStopped
        /\ SourcesStable /\ PriorsHeld /\ PinsKept

-----------------------------------------------------------------------------
(* Selections and references. *)

\* A finite, non-empty set of numbered elements has a newest one.
LEMMA HasNewest ==
    ASSUME NEW S, IsFiniteSet(S), S # {}, NEW v, \A d \in S : v[d] \in Nat
    PROVE  \E d \in S : \A e \in S : v[e] <= v[d]
<1> DEFINE Above(d) == {x \in S : v[x] > v[d]}
           R == StrictSubsetOrdering(S)
           T == {Above(d) : d \in S}
<1>1. T \subseteq FiniteSubsetsOf(S) /\ T # {}
  <2>1. \A d \in S : IsFiniteSet(Above(d)) /\ Above(d) \subseteq S
    BY FS_Subset
  <2> QED
    BY <2>1 DEF FiniteSubsetsOf
<1>2. IsWellFoundedOn(R, FiniteSubsetsOf(S))
  BY FS_StrictSubsetOrderingWellFounded
<1>3. PICK U \in T : \A W \in T : <<W, U>> \notin R
  <2> HIDE DEF T, R
  <2> QED BY <1>1, <1>2, WFMin
<1>4. PICK d \in S : U = Above(d)
  OBVIOUS
<1>5. ASSUME NEW x \in Above(d) PROVE FALSE
  <2>1. Above(x) \subseteq Above(d) /\ x \notin Above(x) /\ x \in S
    OBVIOUS
  <2>2. <<Above(x), Above(d)>> \in R
    BY <2>1 DEF StrictSubsetOrdering
  <2> QED BY <1>3, <1>4, <2>1, <2>2
<1> QED BY <1>5

\* The newest of some deployments is one of them.
LEMMA NewestOfIn ==
    ASSUME NEW S \in SUBSET Deploys, built \in [Deploys -> Nat]
    PROVE  IF S = {} THEN NewestOf(S) = None ELSE NewestOf(S) \in S
<1>1. IsFiniteSet(S)
  BY FS_Subset, DeployAssumption
<1>2. S # {} => \E d \in S : \A e \in S : built[e] <= built[d]
  BY <1>1, HasNewest
<1> QED
  BY <1>2 DEF NewestOf, Newest

\* The source on record is a release that may be gone back to, and the target
\* is the reference to its image.
LEMMA SourceAndTarget ==
    ASSUME built \in [Deploys -> Nat]
    PROVE  /\ RollbackSource # None => RollbackSource \in Eligible
           /\ PreviousImage = IF RollbackSource = None THEN None
                               ELSE StableRef(records, RollbackSource)
<1>1. Eligible \in SUBSET Deploys
  BY DEF Eligible, Recorded
<1>2. RollbackSource # None => RollbackSource \in Eligible
  BY <1>1, NewestOfIn DEF RollbackSource
<1> QED
  BY <1>2 DEF RollbackSource, PreviousImage

\* A stable reference names the deployment it is taken from.
LEMMA StableRefNames ==
    \A d \in Deploys : \/ StableRef(records, d) = None
                       \/ /\ StableRef(records, d) \in {"pin", "id"} \X Deploys
                          /\ StableRef(records, d)[2] = d
BY DEF StableRef

\* A reference resolves to the image it names or to nothing.
LEMMA ResolveNames ==
    \A ref : Resolve(ref) # None => ref # None /\ Resolve(ref) = ref[2]
BY DEF Resolve

\* What is in the named sets of the types.
LEMMA TypeFacts ==
    /\ "idle" \in Pcs /\ "wait" \in Pcs /\ "build" \in Pcs /\ "capture" \in Pcs
    /\ "stop" \in Pcs /\ "run" \in Pcs /\ "verdict" \in Pcs /\ "restore" \in Pcs
    /\ "record" \in Pcs /\ "pin" \in Pcs /\ "prune" \in Pcs /\ "start" \in Pcs
    /\ "ask" \in Pcs /\ "askCurrent" \in Pcs /\ "end" \in Pcs /\ "done" \in Pcs
    /\ None \in Targets /\ None \in PutBacks /\ None \in DeployOrNone
    /\ None \in ImageOrNone
    /\ Deploys \subseteq DeployOrNone /\ Deploys \subseteq ImageOrNone
BY DEF Pcs, Targets, PutBacks, DeployOrNone, ImageOrNone, Images

\* A request that has not begun, or is done, is of its type.
LEMMA IdleTyped == Idle \in RequestType /\ Done \in RequestType
BY TypeFacts DEF Idle, Done, RequestType

\* What the selections return is of the right type.
LEMMA SelectionsTyped ==
    ASSUME TypeOK
    PROVE  RollbackSource \in DeployOrNone /\ PreviousImage \in Targets
<1>1. RollbackSource \in DeployOrNone
  BY SourceAndTarget DEF DeployOrNone, Eligible, Recorded, TypeOK
<1>2. PreviousImage \in Targets
  BY <1>1, SourceAndTarget, StableRefNames DEF Targets, DeployOrNone, TypeOK
<1> QED
  BY <1>1, <1>2

\* The parts of TypeOK.
RequestTyped == request \in [Requests -> RequestType]
RecordsTyped ==
    /\ records \in [Deploys -> RecordType] /\ saved \in [Deploys -> RecordType]
DockerTyped ==
    /\ pins \subseteq Deploys /\ tag \in Deploys \cup {None}
    /\ container \in Images \cup {None} /\ built \in [Deploys -> Nat]
OthersTyped ==
    /\ plan \in [Plans -> {"ready", "used", "cancelled", "cut", "lost"}]
    /\ lock \in Requests \cup {None} /\ vlock \in Requests \cup {None}
    /\ monitor \in [Deploys -> {"off", "running", "flagged", "cancelled"}]
    /\ faults \in 0 .. MaxFaults /\ crashes \in 0 .. MaxFaults
    /\ drift \in BOOLEAN /\ loose \in BOOLEAN

\* A request that becomes something of its type keeps the type.
LEMMA BecomeTyped ==
    ASSUME request \in [Requests -> RequestType], NEW r \in Requests,
           NEW x \in RequestType, Become(r, x)
    PROVE  RequestTyped'
BY DEF Become, RequestTyped

-----------------------------------------------------------------------------
(* The types. *)

\* What is in the named sets of a record.
LEMMA RecordFacts ==
    /\ "absent" \in Statuses /\ "success" \in Statuses /\ "pending" \in Statuses
    /\ "failed" \in Statuses /\ "rolled_back" \in Statuses
    /\ "none" \in Outcomes /\ "running" \in Outcomes /\ "succeeded" \in Outcomes
    /\ "failed" \in Outcomes /\ "unknown" \in Outcomes
BY DEF Statuses, Outcomes

\* The requests keep their type.
LEMMA RequestTypeStep ==
    ASSUME TypeOK, PlacesOK, [Next]_vars
    PROVE  RequestTyped'
<1> USE TypeFacts, IdleTyped DEF RequestTyped, dockerVars, verifierVars, historyVars
<1>0. request \in [Requests -> RequestType] /\ \A r \in Requests : request[r] \in RequestType
  BY DEF TypeOK
<1>a. Deploys \subseteq Requests /\ Rollbacks \subseteq Requests
  BY DEF Requests
<1> USE <1>0, <1>a
<1>1. ASSUME NEW d \in Deploys, NEW p \in Plans, Execute(d, p) PROVE RequestTyped'
  BY <1>1, <1>0 DEF Execute, Idle, RequestType, Become, Requests
<1>2. ASSUME NEW d \in Deploys, Enter(d) PROVE RequestTyped'
  <2>1. CASE plan[request[d].plan] = "ready"
    <3>1. Become(d, [request[d] EXCEPT !.pc = "build", !.target = PreviousImage])
      BY <1>2, <2>1 DEF Enter
    <3>2. [request[d] EXCEPT !.pc = "build", !.target = PreviousImage] \in RequestType
      BY SelectionsTyped DEF RequestType
    <3> QED
      BY <3>1, <3>2, BecomeTyped
  <2>2. CASE plan[request[d].plan] # "ready"
    BY <1>2, <2>2, BecomeTyped DEF Enter, Leave
  <2> QED
    BY <2>1, <2>2
<1>3. ASSUME NEW d \in Deploys, RefuseBuild(d) PROVE RequestTyped'
  BY <1>3, <1>0 DEF RefuseBuild, Leave, RequestType, Become, Requests
<1>4. ASSUME NEW d \in Deploys, Build(d) PROVE RequestTyped'
  <2>1. [request[d] EXCEPT !.pc = "capture", !.source = RollbackSource] \in RequestType
    BY SelectionsTyped DEF RequestType
  <2> QED
    BY <1>4, <2>1, BecomeTyped DEF Build
<1>5. ASSUME NEW d \in Deploys, Capture(d) PROVE RequestTyped'
  <2>1. ToPutBack(d) \in PutBacks
    BY DEF ToPutBack, PutBacks, RequestType, TypeOK, ImageOrNone, DeployOrNone
  <2>2. {m \in Recorded : Active(m)} \in SUBSET Deploys
    BY DEF Recorded
  <2>3. container \in ImageOrNone
    BY DEF TypeOK, ImageOrNone
  <2>4. [request[d] EXCEPT !.pc = "stop", !.prior = container,
                            !.restore = ToPutBack(d),
                            !.stops = {m \in Recorded : Active(m)}] \in RequestType
    BY <2>1, <2>2, <2>3 DEF RequestType
  <2> QED
    BY <1>5, <2>4, BecomeTyped DEF Capture
<1>6. ASSUME NEW d \in Deploys, Replace(d) PROVE RequestTyped'
  BY <1>6, <1>0 DEF Replace, Stopped, Goto, RequestType, Become, Requests
<1>7. ASSUME NEW d \in Deploys, Run(d) PROVE RequestTyped'
  BY <1>7, <1>0 DEF Run, Goto, RequestType, Become, Requests
<1>8. ASSUME NEW d \in Deploys, RunFails(d) PROVE RequestTyped'
  <2>1. PICK raised \in BOOLEAN :
          IF request[d].restore = None /\ raised
          THEN Leave(d)
          ELSE Become(d, [request[d] EXCEPT !.raised = raised,
                 !.pc = IF request[d].restore = None THEN "record" ELSE "restore"])
    BY <1>8 DEF RunFails
  <2>2. [request[d] EXCEPT !.raised = raised,
                 !.pc = IF request[d].restore = None THEN "record" ELSE "restore"] \in RequestType
    BY DEF RequestType
  <2> QED
    BY <2>1, <2>2, BecomeTyped DEF Leave
<1>9. ASSUME NEW d \in Deploys, Serves(d) PROVE RequestTyped'
  <2>1. PICK healthy \in BOOLEAN :
          Become(d, [request[d] EXCEPT !.pc = "record", !.ok = TRUE, !.eligible = healthy])
    BY <1>9 DEF Serves
  <2>2. [request[d] EXCEPT !.pc = "record", !.ok = TRUE, !.eligible = healthy] \in RequestType
    BY DEF RequestType
  <2> QED
    BY <2>1, <2>2, BecomeTyped
<1>10. ASSUME NEW d \in Deploys, Fails(d) PROVE RequestTyped'
  BY <1>10, <1>0 DEF Fails, Goto, RequestType, Become, Requests
<1>11. ASSUME NEW d \in Deploys, Record(d) PROVE RequestTyped'
  <2>1. CASE plan[request[d].plan] = "ready" /\ request[d].ok
    BY <1>11, <2>1 DEF Record, Goto, Become, RequestType
  <2>2. CASE ~(plan[request[d].plan] = "ready" /\ request[d].ok)
    BY <1>11, <2>2, BecomeTyped DEF Record, Leave
  <2> QED
    BY <2>1, <2>2
<1>12. ASSUME NEW d \in Deploys, Pin(d) PROVE RequestTyped'
  BY <1>12, <1>0 DEF Pin, Goto, Fault, RequestType, Become, Requests
<1>13. ASSUME NEW d \in Deploys, Prune(d) PROVE RequestTyped'
  <2>1. [request[d] EXCEPT !.pc = "start", !.what = d] \in RequestType
    BY DEF RequestType
  <2>2. \/ Become(d, [request[d] EXCEPT !.pc = "start", !.what = d])
        \/ Become(d, Done)
    BY <1>13 DEF Prune, Leave
  <2> QED
    BY <2>1, <2>2, BecomeTyped
<1>14. ASSUME NEW k \in Rollbacks, NEW d \in Deploys,
              NEW pc \in {"ask", "askCurrent"}, AskRollback(k, d, pc) PROVE RequestTyped'
  <2>1. [Idle EXCEPT !.pc = pc, !.of = d] \in RequestType
    <3>1. pc \in Pcs
      OBVIOUS
    <3> QED
      BY <3>1 DEF RequestType
  <2>2. \/ Become(k, [Idle EXCEPT !.pc = pc, !.of = d])
        \/ Become(k, Done)
    BY <1>14 DEF AskRollback
  <2> QED
    BY <2>1, <2>2, BecomeTyped
<1>15. ASSUME NEW k \in Rollbacks, EnterRollback(k) PROVE RequestTyped'
  <2> DEFINE d == request[k].of
             x == [request[k] EXCEPT !.pc = "stop", !.stops = IF Active(d) THEN {d} ELSE {}]
  <2>1. Become(k, x) \/ Become(k, Done)
    BY <1>15 DEF EnterRollback
  <2>2. request[k].of \in Recorded
    BY <1>15 DEF EnterRollback, PlacesOK, RollbackPlaced
  <2>3. (IF Active(d) THEN {d} ELSE {}) \in SUBSET Deploys
    BY <2>2 DEF Recorded
  <2>4. x \in RequestType
    BY <2>3 DEF RequestType
  <2> QED
    BY <2>1, <2>4, BecomeTyped
<1>16. ASSUME NEW k \in Rollbacks, ReplaceForRollback(k) PROVE RequestTyped'
  <2> DEFINE back == IF container = None THEN None ELSE <<"id", container>>
  <2>1. back \in PutBacks
    BY DEF PutBacks, TypeOK, ImageOrNone
  <2>2. container \in ImageOrNone
    BY DEF TypeOK, ImageOrNone
  <2>3. [request[k] EXCEPT !.pc = "run", !.prior = container, !.restore = back] \in RequestType
    <3> HIDE DEF back
    <3> QED
      BY <2>1, <2>2 DEF RequestType
  <2> QED
    BY <1>16, <2>3, BecomeTyped DEF ReplaceForRollback
<1>17. ASSUME NEW k \in Rollbacks, RunTarget(k) PROVE RequestTyped'
  BY <1>17, <1>0 DEF RunTarget, RequestType, Become, Requests
<1>18. ASSUME NEW k \in Rollbacks, RunTargetFails(k) PROVE RequestTyped'
  BY <1>18, <1>0 DEF RunTargetFails, Goto, RequestType, Become, Requests
<1>19. ASSUME NEW k \in Rollbacks, RunTargetRaises(k) PROVE RequestTyped'
  BY <1>19, <1>0 DEF RunTargetRaises, Fault, Leave, RequestType, Become, Requests
<1>20. ASSUME NEW k \in Rollbacks, EndRollback(k) PROVE RequestTyped'
  <2> DEFINE s == records[request[k].of].source
  <2>1. \/ Become(k, Done)
        \/ s \in Recorded /\ Become(k, [Done EXCEPT !.pc = "start", !.what = s])
        \/ s \in Recorded /\ Become(k, [Done EXCEPT !.pc = "start", !.what = s, !.wait = s])
    BY <1>20 DEF EndRollback
  <2> HIDE DEF s
  <2>2. s \in Recorded => /\ [Done EXCEPT !.pc = "start", !.what = s] \in RequestType
                           /\ [Done EXCEPT !.pc = "start", !.what = s, !.wait = s] \in RequestType
    BY DEF RequestType, Recorded
  <2> QED
    BY <2>1, <2>2, BecomeTyped
<1>21. ASSUME NEW r \in Requests, NEW m \in Deploys, StopMonitor(r, m)
       PROVE  RequestTyped'
  <2>1. /\ [request[r] EXCEPT !.stops = @ \ {m}, !.wait = m] \in RequestType
        /\ [request[r] EXCEPT !.stops = @ \ {m}] \in RequestType
    BY DEF RequestType
  <2>2. \/ Become(r, [request[r] EXCEPT !.stops = @ \ {m}, !.wait = m])
        \/ Become(r, [request[r] EXCEPT !.stops = @ \ {m}])
    BY <1>21 DEF StopMonitor
  <2> QED
    BY <2>1, <2>2, BecomeTyped
<1>22. ASSUME NEW r \in Requests, StartMonitor(r) PROVE RequestTyped'
  <2>1. request[r].what \in Deploys
    BY <1>22 DEF StartMonitor, PlacesOK, Placed
  <2>2. /\ [request[r] EXCEPT !.wait = request[r].what] \in RequestType
        /\ [request[r] EXCEPT !.pc = "record", !.wait = None] \in RequestType
    BY <2>1 DEF RequestType
  <2>3. \/ Become(r, [request[r] EXCEPT !.wait = request[r].what])
        \/ Become(r, [request[r] EXCEPT !.pc = "record", !.wait = None])
        \/ Become(r, Done)
    BY <1>22 DEF StartMonitor, AfterStart, Leave
  <2> QED
    BY <2>2, <2>3, BecomeTyped
<1>23. ASSUME NEW r \in Requests, Joined(r) PROVE RequestTyped'
  <2>1. /\ [request[r] EXCEPT !.wait = None] \in RequestType
        /\ [request[r] EXCEPT !.pc = "record", !.wait = None] \in RequestType
    BY DEF RequestType
  <2>2. \/ Become(r, [request[r] EXCEPT !.wait = None])
        \/ Become(r, [request[r] EXCEPT !.pc = "record", !.wait = None])
        \/ Become(r, Done)
    BY <1>23 DEF Joined, AfterStart, Leave
  <2> QED
    BY <2>1, <2>2, BecomeTyped
<1>24. ASSUME NEW r \in Requests, Restore(r) PROVE RequestTyped'
  <2>1. /\ [request[r] EXCEPT !.pc = "start", !.what = request[r].source] \in RequestType
        /\ [request[r] EXCEPT !.pc = "end"] \in RequestType
        /\ [request[r] EXCEPT !.pc = "record"] \in RequestType
    BY DEF RequestType
  <2>2. \/ Become(r, [request[r] EXCEPT !.pc = "start", !.what = request[r].source])
        \/ Become(r, [request[r] EXCEPT !.pc = "end"])
        \/ Become(r, [request[r] EXCEPT !.pc = "record"])
        \/ Become(r, Done)
    BY <1>24 DEF Restore, Goto, Leave
  <2> QED
    BY <2>1, <2>2, BecomeTyped
<1>25. ASSUME NEW r \in Requests, RestoreFails(r) PROVE RequestTyped'
  BY <1>25, <1>0 DEF RestoreFails, Goto, Leave, Fault, RequestType, Become, Requests
<1>26. ASSUME NEW d \in Deploys, Anomaly(d) PROVE RequestTyped'
  BY <1>26, <1>0 DEF Anomaly, Judge, Save, RequestType, Become, Requests
<1>27. ASSUME NEW d \in Deploys, MonitorEnds(d) PROVE RequestTyped'
  BY <1>27, <1>0 DEF MonitorEnds, Judge, Save, RequestType, Become, Requests
<1>28. ASSUME NEW d \in Deploys, MonitorCancelled(d) PROVE RequestTyped'
  BY <1>28, <1>0 DEF MonitorCancelled, Save, RequestType, Become, Requests
<1>29. ASSUME NEW d \in Deploys, StopRequested(d) PROVE RequestTyped'
  BY <1>29, <1>0 DEF StopRequested, RequestType, Become, Requests
<1>30. ASSUME NEW p \in Plans, CancelPlan(p) PROVE RequestTyped'
  BY <1>30, <1>0 DEF CancelPlan, RequestType, Become, Requests
<1>31. CASE Restart
  BY <1>31, <1>0 DEF Restart, Loaded, Idle, Done, RequestType, Become, Requests
<1>32. CASE UNCHANGED vars
  BY <1>32, <1>0 DEF vars, RequestType, Become, Requests
<1> QED
  BY <1>1, <1>2, <1>3, <1>4, <1>5, <1>6, <1>7, <1>8, <1>9, <1>10, <1>11, <1>12, <1>13,
     <1>14, <1>15, <1>16, <1>17, <1>18, <1>19, <1>20, <1>21, <1>22, <1>23, <1>24,
     <1>25, <1>26, <1>27, <1>28, <1>29, <1>30, <1>31, <1>32
     DEF Next, DeployStep, RollbackStep, SharedStep, SignOff

\* The records, in memory and on disk, keep their type.
LEMMA RecordTypeStep ==
    ASSUME TypeOK, PlacesOK, [Next]_vars
    PROVE  RecordsTyped'
<1> USE RecordFacts DEF RecordsTyped, dockerVars, verifierVars, historyVars
<1>0. /\ \A r \in Requests : request[r] \in RequestType
      /\ records \in [Deploys -> RecordType] /\ saved \in [Deploys -> RecordType]
  BY DEF TypeOK
<1>a. Deploys \subseteq Requests /\ Rollbacks \subseteq Requests
  BY DEF Requests
<1> USE <1>0, <1>a
<1>1. ASSUME NEW d \in Deploys, NEW p \in Plans, Execute(d, p) PROVE RecordsTyped'
  BY <1>1 DEF Execute, Idle, RecordType
<1>2. ASSUME NEW d \in Deploys, Enter(d) PROVE RecordsTyped'
  BY <1>2 DEF Enter, Leave, RecordType
<1>3. ASSUME NEW d \in Deploys, RefuseBuild(d) PROVE RecordsTyped'
  BY <1>3 DEF RefuseBuild, Leave, RecordType
<1>4. ASSUME NEW d \in Deploys, Build(d) PROVE RecordsTyped'
  BY <1>4 DEF Build, RecordType
<1>5. ASSUME NEW d \in Deploys, Capture(d) PROVE RecordsTyped'
  BY <1>5 DEF Capture, RecordType
<1>6. ASSUME NEW d \in Deploys, Replace(d) PROVE RecordsTyped'
  BY <1>6 DEF Replace, Stopped, Goto, RecordType
<1>7. ASSUME NEW d \in Deploys, Run(d) PROVE RecordsTyped'
  BY <1>7 DEF Run, Goto, RecordType
<1>8. ASSUME NEW d \in Deploys, RunFails(d) PROVE RecordsTyped'
  BY <1>8 DEF RunFails, Leave, RecordType
<1>9. ASSUME NEW d \in Deploys, Serves(d) PROVE RecordsTyped'
  BY <1>9 DEF Serves, RecordType
<1>10. ASSUME NEW d \in Deploys, Fails(d) PROVE RecordsTyped'
  BY <1>10 DEF Fails, Goto, RecordType
<1>11. ASSUME NEW d \in Deploys, Record(d) PROVE RecordsTyped'
  <2>1. PICK known \in {request[d].ok, FALSE} :
          /\ records' = [records EXCEPT ![d] = NewRecord(d, known)]
          /\ saved' = records' \/ saved' = saved
    BY <1>11 DEF Record, Save
  <2>2. known \in BOOLEAN
    BY DEF RequestType
  <2>3. NewRecord(d, known) \in RecordType
    BY <2>2 DEF NewRecord, RecordType, RequestType
  <2> QED
    BY <2>1, <2>3
<1>12. ASSUME NEW d \in Deploys, Pin(d) PROVE RecordsTyped'
  <2>1. [records[d] EXCEPT !.pinned = TRUE] \in RecordType
    BY DEF RecordType
  <2>2. records' = records \/ records' = [records EXCEPT ![d] = [records[d] EXCEPT !.pinned = TRUE]]
    BY <1>12 DEF Pin
  <2> QED
    BY <1>12, <2>1, <2>2 DEF Pin
<1>13. ASSUME NEW d \in Deploys, Prune(d) PROVE RecordsTyped'
  BY <1>13 DEF Prune, Leave, Save, RecordType
<1>14. ASSUME NEW k \in Rollbacks, NEW d \in Deploys,
              NEW pc \in {"ask", "askCurrent"}, AskRollback(k, d, pc) PROVE RecordsTyped'
  BY <1>14 DEF AskRollback, Done, Idle, RecordType
<1>15. ASSUME NEW k \in Rollbacks, EnterRollback(k) PROVE RecordsTyped'
  <2>1. request[k].of \in Deploys
    BY <1>15 DEF EnterRollback, PlacesOK, RollbackPlaced, Recorded
  <2>2. [records[request[k].of] EXCEPT !.rollback = "running"] \in RecordType
    BY <2>1 DEF RecordType
  <2>3. \/ records' = records
        \/ records' = [records EXCEPT ![request[k].of] = [records[request[k].of] EXCEPT !.rollback = "running"]]
    BY <1>15 DEF EnterRollback
  <2>4. saved' = saved \/ saved' = records'
    BY <1>15 DEF EnterRollback, Save
  <2> QED
    BY <2>1, <2>2, <2>3, <2>4
<1>16. ASSUME NEW k \in Rollbacks, ReplaceForRollback(k) PROVE RecordsTyped'
  BY <1>16 DEF ReplaceForRollback, Stopped, RecordType
<1>17. ASSUME NEW k \in Rollbacks, RunTarget(k) PROVE RecordsTyped'
  BY <1>17 DEF RunTarget, RecordType
<1>18. ASSUME NEW k \in Rollbacks, RunTargetFails(k) PROVE RecordsTyped'
  BY <1>18 DEF RunTargetFails, Goto, RecordType
<1>19. ASSUME NEW k \in Rollbacks, RunTargetRaises(k) PROVE RecordsTyped'
  <2>1. request[k].of \in Deploys
    BY <1>19 DEF RunTargetRaises, PlacesOK, RollbackPlaced, Recorded
  <2>2. [records[request[k].of] EXCEPT !.rollback = "failed"] \in RecordType
    BY <2>1 DEF RecordType
  <2>3. records' = [records EXCEPT ![request[k].of] = [records[request[k].of] EXCEPT !.rollback = "failed"]]
    BY <1>19 DEF RunTargetRaises
  <2> QED
    BY <1>19, <2>1, <2>2, <2>3 DEF RunTargetRaises
<1>20. ASSUME NEW k \in Rollbacks, EndRollback(k) PROVE RecordsTyped'
  <2> DEFINE status == IF request[k].ok THEN "rolled_back" ELSE "failed"
             outcome == IF request[k].ok THEN "succeeded" ELSE "failed"
             rec == [records[request[k].of] EXCEPT !.status = status, !.rollback = outcome]
  <2>0. request[k].of \in Deploys
    BY <1>20 DEF EndRollback, PlacesOK, RollbackPlaced, Recorded
  <2>1. rec \in RecordType
    <3>1. status \in Statuses /\ outcome \in Outcomes
      OBVIOUS
    <3>2. records[request[k].of] \in RecordType
      BY <2>0
    <3> HIDE DEF status, outcome
    <3> QED
      BY <3>1, <3>2 DEF RecordType
  <2>2. records' = [records EXCEPT ![request[k].of] = rec]
    BY <1>20 DEF EndRollback
  <2>3. saved' = records' \/ saved' = saved
    BY <1>20 DEF EndRollback, Save
  <2> HIDE DEF rec
  <2> QED
    BY <2>0, <2>1, <2>2, <2>3
<1>21. ASSUME NEW r \in Requests, NEW m \in Deploys, StopMonitor(r, m)
       PROVE  RecordsTyped'
  BY <1>21 DEF StopMonitor, RecordType
<1>22. ASSUME NEW r \in Requests, StartMonitor(r) PROVE RecordsTyped'
  BY <1>22 DEF StartMonitor, AfterStart, Leave, RecordType
<1>23. ASSUME NEW r \in Requests, Joined(r) PROVE RecordsTyped'
  BY <1>23 DEF Joined, AfterStart, Leave, RecordType
<1>24. ASSUME NEW r \in Requests, Restore(r) PROVE RecordsTyped'
  BY <1>24 DEF Restore, Goto, Leave, RecordType
<1>25. ASSUME NEW r \in Requests, RestoreFails(r) PROVE RecordsTyped'
  BY <1>25 DEF RestoreFails, Goto, Leave, Fault, RecordType
<1>26. ASSUME NEW d \in Deploys, Anomaly(d) PROVE RecordsTyped'
  <2>1. [records[d] EXCEPT !.eligible = FALSE] \in RecordType
    BY DEF RecordType
  <2> QED
    BY <1>26, <2>1 DEF Anomaly, Judge, Save
<1>27. ASSUME NEW d \in Deploys, MonitorEnds(d) PROVE RecordsTyped'
  <2>1. PICK stable \in {monitor[d] = "running", FALSE} :
          Judge(d, [records[d] EXCEPT !.eligible = stable,
                         !.status = IF stable THEN "success" ELSE "failed"])
    BY <1>27 DEF MonitorEnds
  <2>2. stable \in BOOLEAN
    OBVIOUS
  <2>3. [records[d] EXCEPT !.eligible = stable,
                         !.status = IF stable THEN "success" ELSE "failed"] \in RecordType
    BY <2>2 DEF RecordType
  <2> QED
    BY <2>1, <2>3 DEF Judge, Save
<1>28. ASSUME NEW d \in Deploys, MonitorCancelled(d) PROVE RecordsTyped'
  BY <1>28 DEF MonitorCancelled, Save, RecordType
<1>29. ASSUME NEW d \in Deploys, StopRequested(d) PROVE RecordsTyped'
  BY <1>29 DEF StopRequested, RecordType
<1>30. ASSUME NEW p \in Plans, CancelPlan(p) PROVE RecordsTyped'
  BY <1>30 DEF CancelPlan, RecordType
<1>31. CASE Restart
  <2>1. \A d \in Deploys : Loaded(d) \in RecordType
    BY DEF Loaded, RecordType
  <2> QED
    BY <1>31, <2>1 DEF Restart
<1>32. CASE UNCHANGED vars
  BY <1>32 DEF vars, RecordType
<1> QED
  BY <1>1, <1>2, <1>3, <1>4, <1>5, <1>6, <1>7, <1>8, <1>9, <1>10, <1>11, <1>12, <1>13,
     <1>14, <1>15, <1>16, <1>17, <1>18, <1>19, <1>20, <1>21, <1>22, <1>23, <1>24,
     <1>25, <1>26, <1>27, <1>28, <1>29, <1>30, <1>31, <1>32
     DEF Next, DeployStep, RollbackStep, SharedStep, SignOff

\* A rollback starts an image, or finds none.
LEMMA TargetTyped ==
    ASSUME TypeOK, PlacesOK, NEW k \in Rollbacks, request[k].pc = "run"
    PROVE  TargetImage(k) \in Images \cup {None}
<1>1. request[k].of \in Deploys
  BY DEF PlacesOK, RollbackPlaced, Recorded
<1>2. records[request[k].of].target \in Targets
  BY <1>1 DEF TypeOK, RecordType
<1> QED
  BY <1>2, ResolveNames DEF TargetImage, Targets, Images

\* What is put back is an image, or there is none.
LEMMA RestoreTyped ==
    ASSUME TypeOK, PlacesOK, NEW r \in Requests, request[r].pc = "restore"
    PROVE  RestoreImage(r) \in Images \cup {None}
<1>1. request[r].restore \in PutBacks /\ request[r].restore # None
  BY DEF TypeOK, RequestType, PlacesOK, Placed
<1>2. CASE request[r].restore[1] = "record"
  BY <1>1, <1>2, ResolveNames, StableRefNames DEF RestoreImage, PutBacks, Images
<1>3. CASE request[r].restore[1] # "record"
  BY <1>1, <1>3, ResolveNames DEF RestoreImage, PutBacks
<1> QED
  BY <1>2, <1>3

\* What Docker holds keeps its type.
LEMMA DockerTypeStep ==
    ASSUME TypeOK, PlacesOK, [Next]_vars
    PROVE  DockerTyped'
<1> USE DEF DockerTyped, dockerVars, verifierVars, historyVars
<1>1. ASSUME NEW d \in Deploys, NEW p \in Plans, Execute(d, p) PROVE DockerTyped'
  BY <1>1 DEF Execute, Idle, TypeOK, Images
<1>2. ASSUME NEW d \in Deploys, Enter(d) PROVE DockerTyped'
  BY <1>2 DEF Enter, Leave, TypeOK, Images
<1>3. ASSUME NEW d \in Deploys, RefuseBuild(d) PROVE DockerTyped'
  BY <1>3 DEF RefuseBuild, Leave, TypeOK, Images
<1>4. ASSUME NEW d \in Deploys, Build(d) PROVE DockerTyped'
  <2>1. Cardinality({e \in Deploys : built[e] > 0}) \in Nat
    BY FS_Subset, FS_CardinalityType, DeployAssumption
  <2> QED
    BY <1>4, <2>1 DEF Build, TypeOK
<1>5. ASSUME NEW d \in Deploys, Capture(d) PROVE DockerTyped'
  BY <1>5 DEF Capture, TypeOK, Images
<1>6. ASSUME NEW d \in Deploys, Replace(d) PROVE DockerTyped'
  BY <1>6 DEF Replace, Stopped, Goto, TypeOK, Images
<1>7. ASSUME NEW d \in Deploys, Run(d) PROVE DockerTyped'
  BY <1>7 DEF Run, Goto, TypeOK, Images
<1>8. ASSUME NEW d \in Deploys, RunFails(d) PROVE DockerTyped'
  BY <1>8 DEF RunFails, Leave, TypeOK, Images
<1>9. ASSUME NEW d \in Deploys, Serves(d) PROVE DockerTyped'
  BY <1>9 DEF Serves, TypeOK, Images
<1>10. ASSUME NEW d \in Deploys, Fails(d) PROVE DockerTyped'
  BY <1>10 DEF Fails, Goto, TypeOK, Images
<1>11. ASSUME NEW d \in Deploys, Record(d) PROVE DockerTyped'
  BY <1>11 DEF Record, NewRecord, Goto, Leave, Save, Fault, TypeOK, Images
<1>12. ASSUME NEW d \in Deploys, Pin(d) PROVE DockerTyped'
  BY <1>12 DEF Pin, Goto, Fault, TypeOK, Images
<1>13. ASSUME NEW d \in Deploys, Prune(d) PROVE DockerTyped'
  BY <1>13 DEF Prune, Leave, Save, Surviving, TypeOK, Images
<1>14. ASSUME NEW k \in Rollbacks, NEW d \in Deploys,
              NEW pc \in {"ask", "askCurrent"}, AskRollback(k, d, pc) PROVE DockerTyped'
  BY <1>14 DEF AskRollback, Done, Idle, TypeOK, Images
<1>15. ASSUME NEW k \in Rollbacks, EnterRollback(k) PROVE DockerTyped'
  BY <1>15 DEF EnterRollback, Done, Save, TypeOK, Images
<1>16. ASSUME NEW k \in Rollbacks, ReplaceForRollback(k) PROVE DockerTyped'
  BY <1>16 DEF ReplaceForRollback, Stopped, TypeOK, Images
<1>17. ASSUME NEW k \in Rollbacks, RunTarget(k) PROVE DockerTyped'
  <2>1. TargetImage(k) \in Images \cup {None}
    BY <1>17, TargetTyped DEF RunTarget
  <2> QED
    BY <1>17, <2>1 DEF RunTarget, TypeOK
<1>18. ASSUME NEW k \in Rollbacks, RunTargetFails(k) PROVE DockerTyped'
  <2>1. TargetImage(k) \in Images \cup {None}
    BY <1>18, TargetTyped DEF RunTargetFails
  <2> QED
    BY <1>18, <2>1 DEF RunTargetFails, TypeOK
<1>19. ASSUME NEW k \in Rollbacks, RunTargetRaises(k) PROVE DockerTyped'
  BY <1>19 DEF RunTargetRaises, Fault, Leave, TypeOK, Images
<1>20. ASSUME NEW k \in Rollbacks, EndRollback(k) PROVE DockerTyped'
  BY <1>20 DEF EndRollback, Done, Save, TypeOK, Images
<1>21. ASSUME NEW r \in Requests, NEW m \in Deploys, StopMonitor(r, m)
       PROVE  DockerTyped'
  BY <1>21 DEF StopMonitor, TypeOK, Images
<1>22. ASSUME NEW r \in Requests, StartMonitor(r) PROVE DockerTyped'
  BY <1>22 DEF StartMonitor, AfterStart, Leave, TypeOK, Images
<1>23. ASSUME NEW r \in Requests, Joined(r) PROVE DockerTyped'
  BY <1>23 DEF Joined, AfterStart, Leave, TypeOK, Images
<1>24. ASSUME NEW r \in Requests, Restore(r) PROVE DockerTyped'
  <2>1. RestoreImage(r) \in Images \cup {None}
    BY <1>24, RestoreTyped DEF Restore
  <2> QED
    BY <1>24, <2>1 DEF Restore, TypeOK
<1>25. ASSUME NEW r \in Requests, RestoreFails(r) PROVE DockerTyped'
  BY <1>25 DEF RestoreFails, Goto, Leave, Fault, TypeOK, Images
<1>26. ASSUME NEW d \in Deploys, Anomaly(d) PROVE DockerTyped'
  BY <1>26 DEF Anomaly, Judge, Save, TypeOK, Images
<1>27. ASSUME NEW d \in Deploys, MonitorEnds(d) PROVE DockerTyped'
  BY <1>27 DEF MonitorEnds, Judge, Save, TypeOK, Images
<1>28. ASSUME NEW d \in Deploys, MonitorCancelled(d) PROVE DockerTyped'
  BY <1>28 DEF MonitorCancelled, Save, TypeOK, Images
<1>29. ASSUME NEW d \in Deploys, StopRequested(d) PROVE DockerTyped'
  BY <1>29 DEF StopRequested, TypeOK, Images
<1>30. ASSUME NEW p \in Plans, CancelPlan(p) PROVE DockerTyped'
  BY <1>30 DEF CancelPlan, TypeOK, Images
<1>31. CASE Restart
  BY <1>31 DEF Restart, Loaded, Idle, Done, TypeOK, Images
<1>32. CASE UNCHANGED vars
  BY <1>32 DEF vars, TypeOK, Images
<1> QED
  BY <1>1, <1>2, <1>3, <1>4, <1>5, <1>6, <1>7, <1>8, <1>9, <1>10, <1>11, <1>12, <1>13,
     <1>14, <1>15, <1>16, <1>17, <1>18, <1>19, <1>20, <1>21, <1>22, <1>23, <1>24,
     <1>25, <1>26, <1>27, <1>28, <1>29, <1>30, <1>31, <1>32
     DEF Next, DeployStep, RollbackStep, SharedStep, SignOff

\* The other variables keep their type.
LEMMA OtherTypeStep ==
    ASSUME TypeOK, PlacesOK, [Next]_vars
    PROVE  OthersTyped' 
<1> USE DeployAssumption DEF OthersTyped, dockerVars, verifierVars, historyVars
<1>a. Deploys \subseteq Requests /\ Rollbacks \subseteq Requests
  BY DEF Requests
<1> USE <1>a
<1>1. ASSUME NEW d \in Deploys, NEW p \in Plans, Execute(d, p) PROVE OthersTyped' 
  BY <1>1 DEF Execute, Idle, TypeOK
<1>2. ASSUME NEW d \in Deploys, Enter(d) PROVE OthersTyped' 
  BY <1>2 DEF Enter, Leave, TypeOK
<1>3. ASSUME NEW d \in Deploys, RefuseBuild(d) PROVE OthersTyped' 
  BY <1>3 DEF RefuseBuild, Leave, TypeOK
<1>4. ASSUME NEW d \in Deploys, Build(d) PROVE OthersTyped' 
  BY <1>4 DEF Build, TypeOK
<1>5. ASSUME NEW d \in Deploys, Capture(d) PROVE OthersTyped' 
  BY <1>5 DEF Capture, TypeOK
<1>6. ASSUME NEW d \in Deploys, Replace(d) PROVE OthersTyped' 
  BY <1>6 DEF Replace, Stopped, Goto, TypeOK
<1>7. ASSUME NEW d \in Deploys, Run(d) PROVE OthersTyped' 
  BY <1>7 DEF Run, Goto, TypeOK
<1>8. ASSUME NEW d \in Deploys, RunFails(d) PROVE OthersTyped' 
  BY <1>8 DEF RunFails, Leave, TypeOK
<1>9. ASSUME NEW d \in Deploys, Serves(d) PROVE OthersTyped' 
  BY <1>9 DEF Serves, TypeOK
<1>10. ASSUME NEW d \in Deploys, Fails(d) PROVE OthersTyped' 
  BY <1>10 DEF Fails, Goto, TypeOK
<1>11. ASSUME NEW d \in Deploys, Record(d) PROVE OthersTyped' 
  <2>1. /\ plan' \in [Plans -> {"ready", "used", "cancelled", "cut", "lost"}]
        /\ lock' \in Requests \cup {None}
    BY <1>11 DEF Record, Leave, TypeOK
  <2>2. faults' \in 0 .. MaxFaults
    BY <1>11 DEF Record, Save, Fault, TypeOK
  <2> QED
    BY <1>11, <2>1, <2>2 DEF Record, TypeOK
<1>12. ASSUME NEW d \in Deploys, Pin(d) PROVE OthersTyped' 
  BY <1>12 DEF Pin, Goto, Fault, TypeOK
<1>13. ASSUME NEW d \in Deploys, Prune(d) PROVE OthersTyped' 
  BY <1>13 DEF Prune, Leave, Save, TypeOK
<1>14. ASSUME NEW k \in Rollbacks, NEW d \in Deploys,
              NEW pc \in {"ask", "askCurrent"}, AskRollback(k, d, pc) PROVE OthersTyped' 
  BY <1>14 DEF AskRollback, Done, Idle, TypeOK
<1>15. ASSUME NEW k \in Rollbacks, EnterRollback(k) PROVE OthersTyped' 
  <2>1. lock' \in Requests \cup {None} /\ faults' \in 0 .. MaxFaults
    BY <1>15 DEF EnterRollback, Save, TypeOK
  <2>2. loose' = loose \/ loose' = (loose \/ ~IsCurrent(request[k].of))
    BY <1>15 DEF EnterRollback
  <2>3. loose' \in BOOLEAN
    <3>1. loose \in BOOLEAN
      BY DEF TypeOK
    <3> QED
      BY <2>2, <3>1
  <2> QED
    BY <1>15, <2>1, <2>3 DEF EnterRollback, TypeOK
<1>16. ASSUME NEW k \in Rollbacks, ReplaceForRollback(k) PROVE OthersTyped' 
  BY <1>16 DEF ReplaceForRollback, Stopped, TypeOK
<1>17. ASSUME NEW k \in Rollbacks, RunTarget(k) PROVE OthersTyped' 
  BY <1>17 DEF RunTarget, TypeOK
<1>18. ASSUME NEW k \in Rollbacks, RunTargetFails(k) PROVE OthersTyped' 
  BY <1>18 DEF RunTargetFails, Goto, TypeOK
<1>19. ASSUME NEW k \in Rollbacks, RunTargetRaises(k) PROVE OthersTyped' 
  BY <1>19 DEF RunTargetRaises, Fault, Leave, TypeOK
<1>20. ASSUME NEW k \in Rollbacks, EndRollback(k) PROVE OthersTyped' 
  <2>1. faults' \in 0 .. MaxFaults
    BY <1>20 DEF EndRollback, Save, TypeOK
  <2>2. vlock' \in {k, vlock}
    BY <1>20 DEF EndRollback
  <2>3. monitor' \in [Deploys -> {"off", "running", "flagged", "cancelled"}]
    BY <1>20 DEF EndRollback, TypeOK
  <2> QED
    BY <1>20, <2>1, <2>2, <2>3 DEF EndRollback, TypeOK
<1>21. ASSUME NEW r \in Requests, NEW m \in Deploys, StopMonitor(r, m)
       PROVE  OthersTyped' 
  BY <1>21 DEF StopMonitor, TypeOK
<1>22. ASSUME NEW r \in Requests, StartMonitor(r) PROVE OthersTyped' 
  BY <1>22 DEF StartMonitor, AfterStart, Leave, TypeOK
<1>23. ASSUME NEW r \in Requests, Joined(r) PROVE OthersTyped' 
  BY <1>23 DEF Joined, AfterStart, Leave, TypeOK
<1>24. ASSUME NEW r \in Requests, Restore(r) PROVE OthersTyped' 
  BY <1>24 DEF Restore, Goto, Leave, TypeOK
<1>25. ASSUME NEW r \in Requests, RestoreFails(r) PROVE OthersTyped' 
  BY <1>25 DEF RestoreFails, Goto, Leave, Fault, TypeOK
<1>26. ASSUME NEW d \in Deploys, Anomaly(d) PROVE OthersTyped' 
  BY <1>26 DEF Anomaly, Judge, Save, TypeOK
<1>27. ASSUME NEW d \in Deploys, MonitorEnds(d) PROVE OthersTyped' 
  BY <1>27 DEF MonitorEnds, Judge, Save, TypeOK
<1>28. ASSUME NEW d \in Deploys, MonitorCancelled(d) PROVE OthersTyped' 
  BY <1>28 DEF MonitorCancelled, Save, TypeOK
<1>29. ASSUME NEW d \in Deploys, StopRequested(d) PROVE OthersTyped' 
  BY <1>29 DEF StopRequested, TypeOK
<1>30. ASSUME NEW p \in Plans, CancelPlan(p) PROVE OthersTyped' 
  BY <1>30 DEF CancelPlan, TypeOK
<1>31. CASE Restart
  BY <1>31 DEF Restart, Loaded, Idle, Done, TypeOK
<1>32. CASE UNCHANGED vars
  BY <1>32 DEF vars, TypeOK
<1> QED
  BY <1>1, <1>2, <1>3, <1>4, <1>5, <1>6, <1>7, <1>8, <1>9, <1>10, <1>11, <1>12, <1>13,
     <1>14, <1>15, <1>16, <1>17, <1>18, <1>19, <1>20, <1>21, <1>22, <1>23, <1>24,
     <1>25, <1>26, <1>27, <1>28, <1>29, <1>30, <1>31, <1>32
     DEF Next, DeployStep, RollbackStep, SharedStep, SignOff

\* So TypeOK is kept, where PlacesOK says what a request knows at its place.
LEMMA TypeStep ==
    ASSUME TypeOK, PlacesOK, [Next]_vars
    PROVE  TypeOK'
BY RequestTypeStep, RecordTypeStep, DockerTypeStep, OtherTypeStep 
   DEF TypeOK, RequestTyped, RecordsTyped, DockerTyped, OthersTyped

-----------------------------------------------------------------------------
(* What the steps do to the records. *)

\* The step changes no release: it may change what is known of its health, of
\* its rollback, or its pin.
KeepsReleases ==
    /\ Recorded' = Recorded
    /\ \A d \in Deploys :
        /\ records'[d].plan = records[d].plan /\ records'[d].id = records[d].id
        /\ records'[d].target = records[d].target
        /\ records'[d].source = records[d].source
        /\ records'[d].pinned # records[d].pinned => records'[d].pinned /\ Pin(d)

\* The monitors, the rollbacks and a new pin change no release.
LEMMA ReleasesKept ==
    ASSUME TypeOK, PlacesOK
    PROVE  /\ \A d \in Deploys : Pin(d) \/ Anomaly(d) \/ MonitorEnds(d) => KeepsReleases
           /\ \A k \in Rollbacks :
                EnterRollback(k) \/ RunTargetRaises(k) \/ EndRollback(k) => KeepsReleases
<1>0. records \in [Deploys -> RecordType]
  BY DEF TypeOK
<1>1. ASSUME NEW d \in Deploys, Pin(d) PROVE KeepsReleases
  <2>1. d \in Recorded
    BY <1>1 DEF PlacesOK, DeployPlaced, Pin
  <2> QED
    BY <1>0, <1>1, <2>1 DEF Pin, KeepsReleases, Recorded, RecordType
<1>2. ASSUME NEW d \in Deploys, Anomaly(d) PROVE KeepsReleases
  BY <1>0, <1>2 DEF Anomaly, Judge, KeepsReleases, Recorded, RecordType
<1>3. ASSUME NEW d \in Deploys, MonitorEnds(d) PROVE KeepsReleases
  <2>1. PICK stable \in BOOLEAN :
          Judge(d, [records[d] EXCEPT !.eligible = stable,
                         !.status = IF stable THEN "success" ELSE "failed"])
    BY <1>3 DEF MonitorEnds
  <2> QED
    BY <1>0, <2>1 DEF Judge, KeepsReleases, Recorded, RecordType
<1>4. ASSUME NEW k \in Rollbacks, EnterRollback(k) PROVE KeepsReleases
  <2>1. request[k].of \in Recorded
    BY <1>4 DEF EnterRollback, PlacesOK, RollbackPlaced
  <2> QED
    BY <1>0, <1>4, <2>1 DEF EnterRollback, KeepsReleases, Recorded, RecordType
<1>5. ASSUME NEW k \in Rollbacks, RunTargetRaises(k) PROVE KeepsReleases
  <2>1. request[k].of \in Recorded
    BY <1>5 DEF RunTargetRaises, PlacesOK, RollbackPlaced
  <2> QED
    BY <1>0, <1>5, <2>1 DEF RunTargetRaises, KeepsReleases, Recorded, RecordType
<1>6. ASSUME NEW k \in Rollbacks, EndRollback(k) PROVE KeepsReleases
  <2> DEFINE status == IF request[k].ok THEN "rolled_back" ELSE "failed"
             outcome == IF request[k].ok THEN "succeeded" ELSE "failed"
  <2>1. request[k].of \in Recorded
    BY <1>6 DEF EndRollback, PlacesOK, RollbackPlaced
  <2>2. records' = [records EXCEPT ![request[k].of] =
                       [@ EXCEPT !.status = status, !.rollback = outcome]]
    BY <1>6 DEF EndRollback
  <2>3. status # "absent"
    OBVIOUS
  <2> HIDE DEF status, outcome
  <2> QED
    BY <1>0, <2>1, <2>2, <2>3 DEF KeepsReleases, Recorded, RecordType
<1> QED
  BY <1>1, <1>2, <1>3, <1>4, <1>5, <1>6

\* A deployment writes its own record, from what it selected on its way.
RecordsRelease(d) ==
    /\ Recorded' = Recorded \cup {d}
    /\ \A e \in Deploys \ {d} : records'[e] = records[e]
    /\ records'[d].plan = request[d].plan /\ ~records'[d].pinned
    /\ records'[d].target = request[d].target
    /\ records'[d].source = request[d].source
    /\ records'[d].rollback = "none"
    /\ \/ records'[d].id = request[d].ok
       \/ records'[d].id = FALSE /\ faults' > 0

LEMMA ReleaseRecorded ==
    ASSUME TypeOK, NEW d \in Deploys, Record(d)
    PROVE  RecordsRelease(d)
<1>0. /\ records \in [Deploys -> RecordType] /\ d \in Requests
      /\ request[d].ok \in BOOLEAN /\ faults \in Nat
  BY DEF TypeOK, RequestType, Requests
<1>1. PICK known \in {request[d].ok, FALSE} :
        /\ records' = [records EXCEPT ![d] = NewRecord(d, known)]
        /\ known = request[d].ok \/ Fault
  BY DEF Record
<1>2. NewRecord(d, known).status # "absent"
  BY DEF NewRecord
<1>3. /\ \A e \in Deploys \ {d} : records'[e] = records[e]
      /\ records'[d] = NewRecord(d, known)
      /\ known = request[d].ok \/ (known = FALSE /\ faults' > 0)
  <2>1. Fault => faults' > 0
    BY <1>0 DEF Fault
  <2>2. records' = [records EXCEPT ![d] = NewRecord(d, known)]
    BY <1>1
  <2> QED
    BY <1>0, <1>1, <2>1, <2>2
<1>4. Recorded' = Recorded \cup {d}
  BY <1>2, <1>3 DEF Recorded
<1> QED
  BY <1>0, <1>1, <1>3, <1>4 DEF NewRecord, RecordsRelease

\* After a restart a record is the saved one.
LoadsReleases ==
    \A d \in Deploys :
        /\ d \in Recorded' <=> saved[d].status # "absent"
        /\ records'[d].plan = saved[d].plan /\ records'[d].id = saved[d].id
        /\ records'[d].target = saved[d].target
        /\ records'[d].source = saved[d].source
        /\ records'[d].pinned = saved[d].pinned
        /\ records'[d].rollback # "running"

LEMMA ReleasesLoaded ==
    ASSUME TypeOK, Restart
    PROVE  LoadsReleases
<1>1. \A d \in Deploys : records'[d] = Loaded(d) /\ saved[d] \in RecordType
  BY DEF Restart, TypeOK
<1> QED
  BY <1>1 DEF Loaded, LoadsReleases, Recorded, RecordType

-----------------------------------------------------------------------------
(* What the steps do to the requests, field by field. *)

\* Request r goes to pc, the others stay as they are.
Moves(r, pc) ==
    /\ \A q \in Requests \ {r} : request'[q] = request[q]
    /\ request'[r].pc = pc

KeepsPlan(r) == request'[r].plan = request[r].plan
KeepsChoice(r) == /\ request'[r].target = request[r].target
                  /\ request'[r].of = request[r].of
KeepsSource(r) == request'[r].source = request[r].source
KeepsWay(r) == /\ request'[r].restore = request[r].restore
               /\ request'[r].prior = request[r].prior
KeepsWatch(r) == /\ request'[r].stops = request[r].stops
                 /\ request'[r].wait = request[r].wait
KeepsEnd(r) == /\ request'[r].what = request[r].what
               /\ request'[r].ok = request[r].ok

Goes(r, pc) == /\ Moves(r, pc) /\ KeepsPlan(r) /\ KeepsChoice(r) /\ KeepsSource(r)
               /\ KeepsWay(r) /\ KeepsWatch(r) /\ KeepsEnd(r)

Cleared(r) ==
    /\ request'[r].target = None /\ request'[r].source = None
    /\ request'[r].restore = None /\ request'[r].prior = None
    /\ request'[r].ok = FALSE

Ends(r) == /\ Moves(r, "done") /\ Cleared(r)
           /\ request'[r].wait = None /\ request'[r].plan = None

ExecuteMove(d, p) ==
    /\ Moves(d, "wait") /\ Cleared(d)
    /\ request'[d].plan = p /\ request'[d].wait = None

EnterMove(d) ==
    \/ /\ lock' = d /\ plan[request[d].plan] = "ready"
       /\ Moves(d, "build") /\ KeepsPlan(d) /\ KeepsSource(d)
       /\ KeepsWay(d) /\ KeepsWatch(d) /\ KeepsEnd(d)
       /\ request'[d].target = PreviousImage
    \/ /\ lock' = None
       /\ Ends(d)

RefuseBuildMove(d) ==
    /\ lock' = None
    /\ Ends(d)

BuildMove(d) ==
    /\ Moves(d, "capture") /\ KeepsPlan(d) /\ KeepsChoice(d)
    /\ KeepsWay(d) /\ KeepsWatch(d) /\ KeepsEnd(d)
    /\ request'[d].source = RollbackSource

CaptureMove(d) ==
    /\ Moves(d, "stop") /\ KeepsPlan(d) /\ KeepsChoice(d)
    /\ KeepsSource(d) /\ KeepsEnd(d)
    /\ request'[d].prior = container /\ request'[d].restore = ToPutBack(d)
    /\ request'[d].stops = {m \in Recorded : Active(m)}
    /\ request'[d].wait = request[d].wait

ReplaceMove(d) ==
    /\ Goes(d, "run")

RunMove(d) ==
    /\ Goes(d, "verdict")

RunFailsMove(d) ==
    \/ /\ lock' = lock /\ request[d].restore # None
       /\ Moves(d, "restore") /\ KeepsPlan(d) /\ KeepsChoice(d)
       /\ KeepsSource(d) /\ KeepsWay(d) /\ KeepsWatch(d) /\ KeepsEnd(d)
    \/ /\ lock' = lock /\ request[d].restore = None
       /\ Moves(d, "record") /\ KeepsPlan(d) /\ KeepsChoice(d)
       /\ KeepsSource(d) /\ KeepsWay(d) /\ KeepsWatch(d) /\ KeepsEnd(d)
    \/ /\ lock' = None /\ request[d].restore = None
       /\ Ends(d)

ServesMove(d) ==
    /\ Moves(d, "record") /\ KeepsPlan(d) /\ KeepsChoice(d)
    /\ KeepsSource(d) /\ KeepsWay(d) /\ KeepsWatch(d)
    /\ request'[d].what = request[d].what /\ request'[d].ok = TRUE

FailsMove(d) ==
    \/ /\ request[d].restore # None /\ container' = container
       /\ Goes(d, "restore")
    \/ /\ request[d].restore = None
       /\ Goes(d, "record")

RecordMove(d) ==
    \/ /\ lock' = lock /\ request[d].ok /\ plan[request[d].plan] = "ready"
       /\ Goes(d, "pin")
    \/ /\ lock' = None /\ (~request[d].ok \/ plan[request[d].plan] # "ready")
       /\ Ends(d)

PinMove(d) ==
    /\ Goes(d, "prune")

PruneMove(d) ==
    \/ /\ lock' = lock
       /\ Moves(d, "start") /\ KeepsPlan(d) /\ KeepsChoice(d)
       /\ KeepsSource(d) /\ KeepsWay(d) /\ KeepsWatch(d)
       /\ request'[d].what = d /\ request'[d].ok = request[d].ok
    \/ /\ lock' = None
       /\ Ends(d)

AskRollbackMove(k, d, pc) ==
    \/ /\ Moves(k, pc) /\ Cleared(k)
       /\ request'[k].of = d /\ request'[k].wait = None
    \/ Ends(k)

EnterRollbackMove(k) ==
    \/ /\ lock' = k
       /\ records' = [records EXCEPT ![request[k].of].rollback = "running"]
       /\ loose' = (loose \/ ~IsCurrent(request[k].of))
       /\ Moves(k, "stop") /\ KeepsPlan(k) /\ KeepsChoice(k)
       /\ KeepsSource(k) /\ KeepsWay(k) /\ KeepsEnd(k)
       /\ request'[k].stops = (IF Active(request[k].of) THEN {request[k].of} ELSE {})
       /\ request'[k].wait = request[k].wait
    \/ /\ UNCHANGED <<lock, records, saved, faults, loose>>
       /\ Ends(k)

ReplaceForRollbackMove(k) ==
    /\ Moves(k, "run") /\ KeepsPlan(k) /\ KeepsChoice(k)
    /\ KeepsSource(k) /\ KeepsWatch(k) /\ KeepsEnd(k)
    /\ request'[k].prior = container
    /\ request'[k].restore = IF container = None THEN None ELSE <<"id", container>>

RunTargetMove(k) ==
    /\ Moves(k, "end") /\ KeepsPlan(k) /\ KeepsChoice(k)
    /\ KeepsSource(k) /\ KeepsWay(k) /\ KeepsWatch(k)
    /\ request'[k].what = request[k].what /\ request'[k].ok = TRUE

RunTargetFailsMove(k) ==
    \/ /\ request[k].restore = None
       /\ Goes(k, "end")
    \/ /\ request[k].restore # None
       /\ Goes(k, "restore")

RunTargetRaisesMove(k) ==
    /\ lock' = None
    /\ Ends(k)

SourceOf(k) == records[request[k].of].source

EndRollbackMove(k) ==
    \/ /\ UNCHANGED verifierVars
       /\ Ends(k)
    \/ /\ SourceOf(k) \in Recorded /\ vlock # None /\ UNCHANGED verifierVars
       /\ Moves(k, "start") /\ Cleared(k)
       /\ request'[k].what = SourceOf(k) /\ request'[k].wait = None
    \/ /\ SourceOf(k) \in Recorded /\ Active(SourceOf(k)) /\ request[k].ok
       /\ vlock = None /\ vlock' = k
       /\ monitor' = [monitor EXCEPT ![SourceOf(k)] = "cancelled"]
       /\ Moves(k, "start") /\ Cleared(k)
       /\ request'[k].what = SourceOf(k) /\ request'[k].wait = SourceOf(k)
    \/ /\ SourceOf(k) \in Recorded /\ ~Active(SourceOf(k)) /\ request[k].ok
       /\ vlock = None /\ vlock' = None
       /\ monitor' = [monitor EXCEPT ![SourceOf(k)] = "running"]
       /\ Ends(k)

StopMonitorMove(r, m) ==
    \/ /\ Active(m)
       /\ Moves(r, request[r].pc) /\ KeepsPlan(r) /\ KeepsChoice(r)
       /\ KeepsSource(r) /\ KeepsWay(r) /\ KeepsEnd(r)
       /\ request'[r].stops = request[r].stops \ {m} /\ request'[r].wait = m
    \/ /\ ~Active(m)
       /\ Moves(r, request[r].pc) /\ KeepsPlan(r) /\ KeepsChoice(r)
       /\ KeepsSource(r) /\ KeepsWay(r) /\ KeepsEnd(r)
       /\ request'[r].stops = request[r].stops \ {m}
       /\ request'[r].wait = request[r].wait

StartMonitorMove(r) ==
    \/ /\ Active(request[r].what) /\ lock' = lock
       /\ Moves(r, request[r].pc) /\ KeepsPlan(r) /\ KeepsChoice(r)
       /\ KeepsSource(r) /\ KeepsWay(r) /\ KeepsEnd(r)
       /\ request'[r].wait = request[r].what
    \/ /\ ~Active(request[r].what) /\ lock' = lock
       /\ r \notin Rollbacks /\ request[r].what # r
       /\ Moves(r, "record") /\ KeepsPlan(r) /\ KeepsChoice(r)
       /\ KeepsSource(r) /\ KeepsWay(r) /\ KeepsEnd(r)
       /\ request'[r].wait = None
    \/ /\ ~Active(request[r].what)
       /\ lock' = IF r \in Rollbacks THEN lock ELSE None
       /\ Ends(r)

JoinedMove(r) ==
    \/ /\ request[r].pc # "start" /\ lock' = lock
       /\ Moves(r, request[r].pc) /\ KeepsPlan(r) /\ KeepsChoice(r)
       /\ KeepsSource(r) /\ KeepsWay(r) /\ KeepsEnd(r)
       /\ request'[r].stops = request[r].stops /\ request'[r].wait = None
    \/ /\ request[r].pc = "start" /\ lock' = lock
       /\ r \notin Rollbacks /\ request[r].what # r
       /\ Moves(r, "record") /\ KeepsPlan(r) /\ KeepsChoice(r)
       /\ KeepsSource(r) /\ KeepsWay(r) /\ KeepsEnd(r)
       /\ request'[r].wait = None
    \/ /\ request[r].pc = "start"
       /\ lock' = IF r \in Rollbacks THEN lock ELSE None
       /\ Ends(r)

RestoreMove(r) ==
    \/ /\ r \notin Rollbacks /\ lock' = lock
       /\ request[r].source # None /\ RestoreImage(r) # None
       /\ Moves(r, "start") /\ KeepsPlan(r) /\ KeepsChoice(r)
       /\ KeepsSource(r) /\ KeepsWay(r) /\ KeepsWatch(r)
       /\ request'[r].what = request[r].source
       /\ request'[r].ok = request[r].ok
    \/ /\ r \in Rollbacks /\ lock' = lock
       /\ Goes(r, "end")
    \/ /\ r \notin Rollbacks /\ lock' = lock
       /\ Goes(r, "record")
    \/ /\ r \notin Rollbacks /\ lock' = None
       /\ Ends(r)

RestoreFailsMove(r) ==
    \/ /\ r \in Rollbacks /\ lock' = lock
       /\ Goes(r, "end")
    \/ /\ r \notin Rollbacks /\ lock' = lock
       /\ Goes(r, "record")
    \/ /\ r \notin Rollbacks /\ lock' = None
       /\ Ends(r)

\* A request that leaves has forgotten what it knew; one that goes on keeps it.
LEMMA EndsAndGoes ==
    ASSUME TypeOK, NEW r \in Requests
    PROVE  /\ Become(r, Done) => Ends(r)
           /\ \A pc : Goto(r, pc) => Goes(r, pc)
<1>0. request \in [Requests -> RequestType] /\ request[r] \in RequestType
  BY DEF TypeOK
<1>1. Become(r, Done) => Ends(r)
  BY <1>0 DEF Become, Ends, Cleared, Moves, Done, Idle
<1>2. ASSUME NEW pc, Goto(r, pc) PROVE Goes(r, pc)
  BY <1>0, <1>2 DEF Goto, Become, Goes, Moves, KeepsPlan, KeepsChoice, KeepsSource,
                    KeepsWay, KeepsWatch, KeepsEnd, RequestType
<1> QED
  BY <1>1, <1>2

\* One lemma for each action of a request: its Move operator holds.
LEMMA ExecuteMoves ==
    ASSUME TypeOK, NEW d \in Deploys, NEW p \in Plans, Execute(d, p)
    PROVE  ExecuteMove(d, p)
<1>0. /\ request \in [Requests -> RequestType]
      /\ d \in Requests /\ request[d] \in RequestType
  BY DEF TypeOK, Requests
<1>1. Become(d, [Idle EXCEPT !.pc = "wait", !.plan = p])
  BY DEF Execute
<1>2. ASSUME Become(d, [Idle EXCEPT !.pc = "wait", !.plan = p])
      PROVE  /\ Moves(d, "wait") /\ Cleared(d)
             /\ request'[d].plan = p /\ request'[d].wait = None
  BY <1>0, <1>2 DEF Become, Moves, Cleared, RequestType, Idle
<1> QED
  BY <1>1, <1>2 DEF ExecuteMove

LEMMA EnterMoves ==
    ASSUME TypeOK, NEW d \in Deploys, Enter(d)
    PROVE  EnterMove(d)
<1>0. /\ request \in [Requests -> RequestType]
      /\ d \in Requests /\ request[d] \in RequestType
  BY DEF TypeOK, Requests
<1>1. \/ /\ lock' = d /\ plan[request[d].plan] = "ready"
         /\ Become(d, [request[d] EXCEPT !.pc = "build", !.target = PreviousImage])
      \/ /\ lock' = None
         /\ Become(d, Done)
  BY DEF Enter, Leave
<1>2. ASSUME Become(d, [request[d] EXCEPT !.pc = "build", !.target = PreviousImage])
      PROVE  /\ Moves(d, "build") /\ KeepsPlan(d) /\ KeepsSource(d)
             /\ KeepsWay(d) /\ KeepsWatch(d) /\ KeepsEnd(d)
             /\ request'[d].target = PreviousImage
  BY <1>0, <1>2 DEF Become, Moves, KeepsPlan, KeepsSource, KeepsWay,
                    KeepsWatch, KeepsEnd, RequestType
<1>3. Become(d, Done) => Ends(d)
  BY <1>0, EndsAndGoes
<1> QED
  BY <1>1, <1>2, <1>3 DEF EnterMove

LEMMA RefuseBuildMoves ==
    ASSUME TypeOK, NEW d \in Deploys, RefuseBuild(d)
    PROVE  RefuseBuildMove(d)
<1>0. /\ request \in [Requests -> RequestType]
      /\ d \in Requests /\ request[d] \in RequestType
  BY DEF TypeOK, Requests
<1>1. lock' = None /\ Become(d, Done)
  BY DEF RefuseBuild, Leave
<1>2. Become(d, Done) => Ends(d)
  BY <1>0, EndsAndGoes
<1> QED
  BY <1>1, <1>2 DEF RefuseBuildMove

LEMMA BuildMoves ==
    ASSUME TypeOK, NEW d \in Deploys, Build(d)
    PROVE  BuildMove(d)
<1>0. /\ request \in [Requests -> RequestType]
      /\ d \in Requests /\ request[d] \in RequestType
  BY DEF TypeOK, Requests
<1>1. Become(d, [request[d] EXCEPT !.pc = "capture", !.source = RollbackSource])
  BY DEF Build
<1>2. ASSUME Become(d, [request[d] EXCEPT !.pc = "capture", !.source = RollbackSource])
      PROVE  /\ Moves(d, "capture") /\ KeepsPlan(d) /\ KeepsChoice(d)
             /\ KeepsWay(d) /\ KeepsWatch(d) /\ KeepsEnd(d)
             /\ request'[d].source = RollbackSource
  BY <1>0, <1>2 DEF Become, Moves, KeepsPlan, KeepsChoice, KeepsWay,
                    KeepsWatch, KeepsEnd, RequestType
<1> QED
  BY <1>1, <1>2 DEF BuildMove

LEMMA CaptureMoves ==
    ASSUME TypeOK, NEW d \in Deploys, Capture(d)
    PROVE  CaptureMove(d)
<1>0. /\ request \in [Requests -> RequestType]
      /\ d \in Requests /\ request[d] \in RequestType
  BY DEF TypeOK, Requests
<1>1. Become(d, [request[d] EXCEPT !.pc = "stop", !.prior = container,
                   !.restore = ToPutBack(d), !.stops = {m \in Recorded : Active(m)}])
  BY DEF Capture
<1>2. ASSUME Become(d, [request[d] EXCEPT !.pc = "stop", !.prior = container,
                   !.restore = ToPutBack(d), !.stops = {m \in Recorded : Active(m)}])
      PROVE  /\ Moves(d, "stop") /\ KeepsPlan(d) /\ KeepsChoice(d)
             /\ KeepsSource(d) /\ KeepsEnd(d)
             /\ request'[d].prior = container /\ request'[d].restore = ToPutBack(d)
             /\ request'[d].stops = {m \in Recorded : Active(m)}
             /\ request'[d].wait = request[d].wait
  BY <1>0, <1>2 DEF Become, Moves, KeepsPlan, KeepsChoice, KeepsSource,
                    KeepsEnd, RequestType
<1> QED
  BY <1>1, <1>2 DEF CaptureMove

LEMMA ReplaceMoves ==
    ASSUME TypeOK, NEW d \in Deploys, Replace(d)
    PROVE  ReplaceMove(d)
<1>0. /\ request \in [Requests -> RequestType]
      /\ d \in Requests /\ request[d] \in RequestType
  BY DEF TypeOK, Requests
<1>1. Goto(d, "run")
  BY DEF Replace
<1>2. Goto(d, "run") => Goes(d, "run")
  BY <1>0, EndsAndGoes
<1> QED
  BY <1>1, <1>2 DEF ReplaceMove

LEMMA RunMoves ==
    ASSUME TypeOK, NEW d \in Deploys, Run(d)
    PROVE  RunMove(d)
<1>0. /\ request \in [Requests -> RequestType]
      /\ d \in Requests /\ request[d] \in RequestType
  BY DEF TypeOK, Requests
<1>1. Goto(d, "verdict")
  BY DEF Run
<1>2. Goto(d, "verdict") => Goes(d, "verdict")
  BY <1>0, EndsAndGoes
<1> QED
  BY <1>1, <1>2 DEF RunMove

LEMMA RunFailsMoves ==
    ASSUME TypeOK, NEW d \in Deploys, RunFails(d)
    PROVE  RunFailsMove(d)
<1>0. /\ request \in [Requests -> RequestType]
      /\ d \in Requests /\ request[d] \in RequestType
  BY DEF TypeOK, Requests
<1>1. \/ /\ lock' = lock /\ request[d].restore # None
         /\ (\E b : Become(d, [request[d] EXCEPT !.raised = b, !.pc = "restore"]))
      \/ /\ lock' = lock /\ request[d].restore = None
         /\ (\E b : Become(d, [request[d] EXCEPT !.raised = b, !.pc = "record"]))
      \/ /\ lock' = None /\ request[d].restore = None
         /\ Become(d, Done)
  BY DEF RunFails, Leave
<1>2. ASSUME (\E b : Become(d, [request[d] EXCEPT !.raised = b, !.pc = "restore"]))
      PROVE  /\ Moves(d, "restore") /\ KeepsPlan(d) /\ KeepsChoice(d)
             /\ KeepsSource(d) /\ KeepsWay(d) /\ KeepsWatch(d) /\ KeepsEnd(d)
  BY <1>0, <1>2 DEF Become, Moves, KeepsPlan, KeepsChoice, KeepsSource,
                    KeepsWay, KeepsWatch, KeepsEnd, RequestType
<1>3. ASSUME (\E b : Become(d, [request[d] EXCEPT !.raised = b, !.pc = "record"]))
      PROVE  /\ Moves(d, "record") /\ KeepsPlan(d) /\ KeepsChoice(d)
             /\ KeepsSource(d) /\ KeepsWay(d) /\ KeepsWatch(d) /\ KeepsEnd(d)
  BY <1>0, <1>3 DEF Become, Moves, KeepsPlan, KeepsChoice, KeepsSource,
                    KeepsWay, KeepsWatch, KeepsEnd, RequestType
<1>4. Become(d, Done) => Ends(d)
  BY <1>0, EndsAndGoes
<1> QED
  BY <1>1, <1>2, <1>3, <1>4 DEF RunFailsMove

LEMMA ServesMoves ==
    ASSUME TypeOK, NEW d \in Deploys, Serves(d)
    PROVE  ServesMove(d)
<1>0. /\ request \in [Requests -> RequestType]
      /\ d \in Requests /\ request[d] \in RequestType
  BY DEF TypeOK, Requests
<1>1. (\E b : Become(d, [request[d] EXCEPT !.pc = "record", !.ok = TRUE, !.eligible = b]))
  BY DEF Serves
<1>2. ASSUME (\E b : Become(d, [request[d] EXCEPT !.pc = "record", !.ok = TRUE, !.eligible = b]))
      PROVE  /\ Moves(d, "record") /\ KeepsPlan(d) /\ KeepsChoice(d)
             /\ KeepsSource(d) /\ KeepsWay(d) /\ KeepsWatch(d)
             /\ request'[d].what = request[d].what /\ request'[d].ok = TRUE
  BY <1>0, <1>2 DEF Become, Moves, KeepsPlan, KeepsChoice, KeepsSource,
                    KeepsWay, KeepsWatch, RequestType
<1> QED
  BY <1>1, <1>2 DEF ServesMove

LEMMA FailsMoves ==
    ASSUME TypeOK, NEW d \in Deploys, Fails(d)
    PROVE  FailsMove(d)
<1>0. /\ request \in [Requests -> RequestType]
      /\ d \in Requests /\ request[d] \in RequestType
  BY DEF TypeOK, Requests
<1>1. \/ /\ request[d].restore # None /\ container' = container
         /\ Goto(d, "restore")
      \/ /\ request[d].restore = None
         /\ Goto(d, "record")
  BY DEF Fails
<1>2. Goto(d, "restore") => Goes(d, "restore")
  BY <1>0, EndsAndGoes
<1>3. Goto(d, "record") => Goes(d, "record")
  BY <1>0, EndsAndGoes
<1> QED
  BY <1>1, <1>2, <1>3 DEF FailsMove

LEMMA RecordMoves ==
    ASSUME TypeOK, NEW d \in Deploys, Record(d)
    PROVE  RecordMove(d)
<1>0. /\ request \in [Requests -> RequestType]
      /\ d \in Requests /\ request[d] \in RequestType
  BY DEF TypeOK, Requests
<1>1. \/ /\ lock' = lock /\ request[d].ok /\ plan[request[d].plan] = "ready"
         /\ Goto(d, "pin")
      \/ /\ lock' = None /\ (~request[d].ok \/ plan[request[d].plan] # "ready")
         /\ Become(d, Done)
  BY DEF Record, Leave
<1>2. Goto(d, "pin") => Goes(d, "pin")
  BY <1>0, EndsAndGoes
<1>3. Become(d, Done) => Ends(d)
  BY <1>0, EndsAndGoes
<1> QED
  BY <1>1, <1>2, <1>3 DEF RecordMove

LEMMA PinMoves ==
    ASSUME TypeOK, NEW d \in Deploys, Pin(d)
    PROVE  PinMove(d)
<1>0. /\ request \in [Requests -> RequestType]
      /\ d \in Requests /\ request[d] \in RequestType
  BY DEF TypeOK, Requests
<1>1. Goto(d, "prune")
  BY DEF Pin
<1>2. Goto(d, "prune") => Goes(d, "prune")
  BY <1>0, EndsAndGoes
<1> QED
  BY <1>1, <1>2 DEF PinMove

LEMMA PruneMoves ==
    ASSUME TypeOK, NEW d \in Deploys, Prune(d)
    PROVE  PruneMove(d)
<1>0. /\ request \in [Requests -> RequestType]
      /\ d \in Requests /\ request[d] \in RequestType
  BY DEF TypeOK, Requests
<1>1. \/ /\ lock' = lock
         /\ Become(d, [request[d] EXCEPT !.pc = "start", !.what = d])
      \/ /\ lock' = None
         /\ Become(d, Done)
  BY DEF Prune, Leave
<1>2. ASSUME Become(d, [request[d] EXCEPT !.pc = "start", !.what = d])
      PROVE  /\ Moves(d, "start") /\ KeepsPlan(d) /\ KeepsChoice(d)
             /\ KeepsSource(d) /\ KeepsWay(d) /\ KeepsWatch(d)
             /\ request'[d].what = d /\ request'[d].ok = request[d].ok
  BY <1>0, <1>2 DEF Become, Moves, KeepsPlan, KeepsChoice, KeepsSource,
                    KeepsWay, KeepsWatch, RequestType
<1>3. Become(d, Done) => Ends(d)
  BY <1>0, EndsAndGoes
<1> QED
  BY <1>1, <1>2, <1>3 DEF PruneMove

LEMMA AskRollbackMoves ==
    ASSUME TypeOK, NEW k \in Rollbacks, NEW d \in Deploys, NEW pc, AskRollback(k, d, pc)
    PROVE  AskRollbackMove(k, d, pc)
<1>0. /\ request \in [Requests -> RequestType]
      /\ k \in Requests /\ request[k] \in RequestType
  BY DEF TypeOK, Requests
<1>1. \/ Become(k, [Idle EXCEPT !.pc = pc, !.of = d])
      \/ Become(k, Done)
  BY DEF AskRollback
<1>2. ASSUME Become(k, [Idle EXCEPT !.pc = pc, !.of = d])
      PROVE  /\ Moves(k, pc) /\ Cleared(k)
             /\ request'[k].of = d /\ request'[k].wait = None
  BY <1>0, <1>2 DEF Become, Moves, Cleared, RequestType, Idle
<1>3. Become(k, Done) => Ends(k)
  BY <1>0, EndsAndGoes
<1> QED
  BY <1>1, <1>2, <1>3 DEF AskRollbackMove

LEMMA EnterRollbackMoves ==
    ASSUME TypeOK, NEW k \in Rollbacks, EnterRollback(k)
    PROVE  EnterRollbackMove(k)
<1>0. /\ request \in [Requests -> RequestType]
      /\ k \in Requests /\ request[k] \in RequestType
  BY DEF TypeOK, Requests
<1>1. \/ /\ lock' = k
         /\ records' = [records EXCEPT ![request[k].of].rollback = "running"]
         /\ loose' = (loose \/ ~IsCurrent(request[k].of))
         /\ Become(k, [request[k] EXCEPT !.pc = "stop",
                   !.stops = IF Active(request[k].of) THEN {request[k].of} ELSE {}])
      \/ /\ UNCHANGED <<lock, records, saved, faults, loose>>
         /\ Become(k, Done)
  BY DEF EnterRollback
<1>2. ASSUME Become(k, [request[k] EXCEPT !.pc = "stop",
                   !.stops = IF Active(request[k].of) THEN {request[k].of} ELSE {}])
      PROVE  /\ Moves(k, "stop") /\ KeepsPlan(k) /\ KeepsChoice(k)
             /\ KeepsSource(k) /\ KeepsWay(k) /\ KeepsEnd(k)
             /\ request'[k].stops = (IF Active(request[k].of) THEN {request[k].of} ELSE {})
             /\ request'[k].wait = request[k].wait
  BY <1>0, <1>2 DEF Become, Moves, KeepsPlan, KeepsChoice, KeepsSource,
                    KeepsWay, KeepsEnd, RequestType
<1>3. Become(k, Done) => Ends(k)
  BY <1>0, EndsAndGoes
<1> QED
  BY <1>1, <1>2, <1>3 DEF EnterRollbackMove

LEMMA ReplaceForRollbackMoves ==
    ASSUME TypeOK, NEW k \in Rollbacks, ReplaceForRollback(k)
    PROVE  ReplaceForRollbackMove(k)
<1>0. /\ request \in [Requests -> RequestType]
      /\ k \in Requests /\ request[k] \in RequestType
  BY DEF TypeOK, Requests
<1>1. Become(k, [request[k] EXCEPT !.pc = "run", !.prior = container,
                   !.restore = IF container = None THEN None ELSE <<"id", container>>])
  BY DEF ReplaceForRollback
<1>2. ASSUME Become(k, [request[k] EXCEPT !.pc = "run", !.prior = container,
                   !.restore = IF container = None THEN None ELSE <<"id", container>>])
      PROVE  /\ Moves(k, "run") /\ KeepsPlan(k) /\ KeepsChoice(k)
             /\ KeepsSource(k) /\ KeepsWatch(k) /\ KeepsEnd(k)
             /\ request'[k].prior = container
             /\ request'[k].restore = IF container = None THEN None ELSE <<"id", container>>
  BY <1>0, <1>2 DEF Become, Moves, KeepsPlan, KeepsChoice, KeepsSource,
                    KeepsWatch, KeepsEnd, RequestType
<1> QED
  BY <1>1, <1>2 DEF ReplaceForRollbackMove

LEMMA RunTargetMoves ==
    ASSUME TypeOK, NEW k \in Rollbacks, RunTarget(k)
    PROVE  RunTargetMove(k)
<1>0. /\ request \in [Requests -> RequestType]
      /\ k \in Requests /\ request[k] \in RequestType
  BY DEF TypeOK, Requests
<1>1. Become(k, [request[k] EXCEPT !.pc = "end", !.ok = TRUE])
  BY DEF RunTarget
<1>2. ASSUME Become(k, [request[k] EXCEPT !.pc = "end", !.ok = TRUE])
      PROVE  /\ Moves(k, "end") /\ KeepsPlan(k) /\ KeepsChoice(k)
             /\ KeepsSource(k) /\ KeepsWay(k) /\ KeepsWatch(k)
             /\ request'[k].what = request[k].what /\ request'[k].ok = TRUE
  BY <1>0, <1>2 DEF Become, Moves, KeepsPlan, KeepsChoice, KeepsSource,
                    KeepsWay, KeepsWatch, RequestType
<1> QED
  BY <1>1, <1>2 DEF RunTargetMove

LEMMA RunTargetFailsMoves ==
    ASSUME TypeOK, NEW k \in Rollbacks, RunTargetFails(k)
    PROVE  RunTargetFailsMove(k)
<1>0. /\ request \in [Requests -> RequestType]
      /\ k \in Requests /\ request[k] \in RequestType
  BY DEF TypeOK, Requests
<1>1. \/ /\ request[k].restore = None
         /\ Goto(k, "end")
      \/ /\ request[k].restore # None
         /\ Goto(k, "restore")
  BY DEF RunTargetFails
<1>2. Goto(k, "end") => Goes(k, "end")
  BY <1>0, EndsAndGoes
<1>3. Goto(k, "restore") => Goes(k, "restore")
  BY <1>0, EndsAndGoes
<1> QED
  BY <1>1, <1>2, <1>3 DEF RunTargetFailsMove

LEMMA RunTargetRaisesMoves ==
    ASSUME TypeOK, NEW k \in Rollbacks, RunTargetRaises(k)
    PROVE  RunTargetRaisesMove(k)
<1>0. /\ request \in [Requests -> RequestType]
      /\ k \in Requests /\ request[k] \in RequestType
  BY DEF TypeOK, Requests
<1>1. lock' = None /\ Become(k, Done)
  BY DEF RunTargetRaises, Leave
<1>2. Become(k, Done) => Ends(k)
  BY <1>0, EndsAndGoes
<1> QED
  BY <1>1, <1>2 DEF RunTargetRaisesMove

LEMMA EndRollbackMoves ==
    ASSUME TypeOK, NEW k \in Rollbacks, EndRollback(k)
    PROVE  EndRollbackMove(k)
<1>0. /\ request \in [Requests -> RequestType]
      /\ k \in Requests /\ request[k] \in RequestType
  BY DEF TypeOK, Requests
<1>1. \/ /\ UNCHANGED verifierVars
         /\ Become(k, Done)
      \/ /\ SourceOf(k) \in Recorded /\ vlock # None /\ UNCHANGED verifierVars
         /\ Become(k, [Done EXCEPT !.pc = "start", !.what = SourceOf(k)])
      \/ /\ SourceOf(k) \in Recorded /\ Active(SourceOf(k)) /\ request[k].ok
         /\ vlock = None /\ vlock' = k
         /\ monitor' = [monitor EXCEPT ![SourceOf(k)] = "cancelled"]
         /\ Become(k, [Done EXCEPT !.pc = "start", !.what = SourceOf(k),
                            !.wait = SourceOf(k)])
      \/ /\ SourceOf(k) \in Recorded /\ ~Active(SourceOf(k)) /\ request[k].ok
         /\ vlock = None /\ vlock' = None
         /\ monitor' = [monitor EXCEPT ![SourceOf(k)] = "running"]
         /\ Become(k, Done)
  BY DEF EndRollback, SourceOf
<1>2. Become(k, Done) => Ends(k)
  BY <1>0, EndsAndGoes
<1>3. ASSUME Become(k, [Done EXCEPT !.pc = "start", !.what = SourceOf(k)])
      PROVE  /\ Moves(k, "start") /\ Cleared(k)
             /\ request'[k].what = SourceOf(k) /\ request'[k].wait = None
  BY <1>0, <1>3 DEF Become, Moves, Cleared, RequestType, Done, Idle
<1>4. ASSUME Become(k, [Done EXCEPT !.pc = "start", !.what = SourceOf(k),
                            !.wait = SourceOf(k)])
      PROVE  /\ Moves(k, "start") /\ Cleared(k)
             /\ request'[k].what = SourceOf(k) /\ request'[k].wait = SourceOf(k)
  BY <1>0, <1>4 DEF Become, Moves, Cleared, RequestType, Done, Idle
<1> QED
  BY <1>1, <1>2, <1>3, <1>4 DEF EndRollbackMove

LEMMA StopMonitorMoves ==
    ASSUME TypeOK, NEW r \in Requests, NEW m \in Deploys, StopMonitor(r, m)
    PROVE  StopMonitorMove(r, m)
<1>0. /\ request \in [Requests -> RequestType]
      /\ r \in Requests /\ request[r] \in RequestType
  BY DEF TypeOK, Requests
<1>1. \/ /\ Active(m)
         /\ Become(r, [request[r] EXCEPT !.stops = @ \ {m}, !.wait = m])
      \/ /\ ~Active(m)
         /\ Become(r, [request[r] EXCEPT !.stops = @ \ {m}])
  BY DEF StopMonitor
<1>2. ASSUME Become(r, [request[r] EXCEPT !.stops = @ \ {m}, !.wait = m])
      PROVE  /\ Moves(r, request[r].pc) /\ KeepsPlan(r) /\ KeepsChoice(r)
             /\ KeepsSource(r) /\ KeepsWay(r) /\ KeepsEnd(r)
             /\ request'[r].stops = request[r].stops \ {m} /\ request'[r].wait = m
  BY <1>0, <1>2 DEF Become, Moves, KeepsPlan, KeepsChoice, KeepsSource,
                    KeepsWay, KeepsEnd, RequestType
<1>3. ASSUME Become(r, [request[r] EXCEPT !.stops = @ \ {m}])
      PROVE  /\ Moves(r, request[r].pc) /\ KeepsPlan(r) /\ KeepsChoice(r)
             /\ KeepsSource(r) /\ KeepsWay(r) /\ KeepsEnd(r)
             /\ request'[r].stops = request[r].stops \ {m}
             /\ request'[r].wait = request[r].wait
  BY <1>0, <1>3 DEF Become, Moves, KeepsPlan, KeepsChoice, KeepsSource,
                    KeepsWay, KeepsEnd, RequestType
<1> QED
  BY <1>1, <1>2, <1>3 DEF StopMonitorMove

LEMMA StartMonitorMoves ==
    ASSUME TypeOK, NEW r \in Requests, StartMonitor(r)
    PROVE  StartMonitorMove(r)
<1>0. /\ request \in [Requests -> RequestType]
      /\ r \in Requests /\ request[r] \in RequestType
  BY DEF TypeOK, Requests
<1>1. \/ /\ Active(request[r].what) /\ lock' = lock
         /\ Become(r, [request[r] EXCEPT !.wait = request[r].what])
      \/ /\ ~Active(request[r].what) /\ lock' = lock
         /\ r \notin Rollbacks /\ request[r].what # r
         /\ Become(r, [request[r] EXCEPT !.pc = "record", !.wait = None])
      \/ /\ ~Active(request[r].what)
         /\ lock' = IF r \in Rollbacks THEN lock ELSE None
         /\ Become(r, Done)
  BY DEF StartMonitor, AfterStart, Leave
<1>2. ASSUME Become(r, [request[r] EXCEPT !.wait = request[r].what])
      PROVE  /\ Moves(r, request[r].pc) /\ KeepsPlan(r) /\ KeepsChoice(r)
             /\ KeepsSource(r) /\ KeepsWay(r) /\ KeepsEnd(r)
             /\ request'[r].wait = request[r].what
  BY <1>0, <1>2 DEF Become, Moves, KeepsPlan, KeepsChoice, KeepsSource,
                    KeepsWay, KeepsEnd, RequestType
<1>3. ASSUME Become(r, [request[r] EXCEPT !.pc = "record", !.wait = None])
      PROVE  /\ Moves(r, "record") /\ KeepsPlan(r) /\ KeepsChoice(r)
             /\ KeepsSource(r) /\ KeepsWay(r) /\ KeepsEnd(r)
             /\ request'[r].wait = None
  BY <1>0, <1>3 DEF Become, Moves, KeepsPlan, KeepsChoice, KeepsSource,
                    KeepsWay, KeepsEnd, RequestType
<1>4. Become(r, Done) => Ends(r)
  BY <1>0, EndsAndGoes
<1> QED
  BY <1>1, <1>2, <1>3, <1>4 DEF StartMonitorMove

LEMMA JoinedMoves ==
    ASSUME TypeOK, NEW r \in Requests, Joined(r)
    PROVE  JoinedMove(r)
<1>0. /\ request \in [Requests -> RequestType]
      /\ r \in Requests /\ request[r] \in RequestType
  BY DEF TypeOK, Requests
<1>1. \/ /\ request[r].pc # "start" /\ lock' = lock
         /\ Become(r, [request[r] EXCEPT !.wait = None])
      \/ /\ request[r].pc = "start" /\ lock' = lock
         /\ r \notin Rollbacks /\ request[r].what # r
         /\ Become(r, [request[r] EXCEPT !.pc = "record", !.wait = None])
      \/ /\ request[r].pc = "start"
         /\ lock' = IF r \in Rollbacks THEN lock ELSE None
         /\ Become(r, Done)
  BY DEF Joined, AfterStart, Leave
<1>2. ASSUME Become(r, [request[r] EXCEPT !.wait = None])
      PROVE  /\ Moves(r, request[r].pc) /\ KeepsPlan(r) /\ KeepsChoice(r)
             /\ KeepsSource(r) /\ KeepsWay(r) /\ KeepsEnd(r)
             /\ request'[r].stops = request[r].stops /\ request'[r].wait = None
  BY <1>0, <1>2 DEF Become, Moves, KeepsPlan, KeepsChoice, KeepsSource,
                    KeepsWay, KeepsEnd, RequestType
<1>3. ASSUME Become(r, [request[r] EXCEPT !.pc = "record", !.wait = None])
      PROVE  /\ Moves(r, "record") /\ KeepsPlan(r) /\ KeepsChoice(r)
             /\ KeepsSource(r) /\ KeepsWay(r) /\ KeepsEnd(r)
             /\ request'[r].wait = None
  BY <1>0, <1>3 DEF Become, Moves, KeepsPlan, KeepsChoice, KeepsSource,
                    KeepsWay, KeepsEnd, RequestType
<1>4. Become(r, Done) => Ends(r)
  BY <1>0, EndsAndGoes
<1> QED
  BY <1>1, <1>2, <1>3, <1>4 DEF JoinedMove

LEMMA RestoreMoves ==
    ASSUME TypeOK, NEW r \in Requests, Restore(r)
    PROVE  RestoreMove(r)
<1>0. /\ request \in [Requests -> RequestType]
      /\ r \in Requests /\ request[r] \in RequestType
  BY DEF TypeOK, Requests
<1>1. \/ /\ r \notin Rollbacks /\ lock' = lock
         /\ request[r].source # None /\ RestoreImage(r) # None
         /\ Become(r, [request[r] EXCEPT !.pc = "start", !.what = request[r].source])
      \/ /\ r \in Rollbacks /\ lock' = lock
         /\ Goto(r, "end")
      \/ /\ r \notin Rollbacks /\ lock' = lock
         /\ Goto(r, "record")
      \/ /\ r \notin Rollbacks /\ lock' = None
         /\ Become(r, Done)
  BY DEF Restore, Leave
<1>2. ASSUME Become(r, [request[r] EXCEPT !.pc = "start", !.what = request[r].source])
      PROVE  /\ Moves(r, "start") /\ KeepsPlan(r) /\ KeepsChoice(r)
             /\ KeepsSource(r) /\ KeepsWay(r) /\ KeepsWatch(r)
             /\ request'[r].what = request[r].source
             /\ request'[r].ok = request[r].ok
  BY <1>0, <1>2 DEF Become, Moves, KeepsPlan, KeepsChoice, KeepsSource,
                    KeepsWay, KeepsWatch, RequestType
<1>3. Goto(r, "end") => Goes(r, "end")
  BY <1>0, EndsAndGoes
<1>4. Goto(r, "record") => Goes(r, "record")
  BY <1>0, EndsAndGoes
<1>5. Become(r, Done) => Ends(r)
  BY <1>0, EndsAndGoes
<1> QED
  BY <1>1, <1>2, <1>3, <1>4, <1>5 DEF RestoreMove

LEMMA RestoreFailsMoves ==
    ASSUME TypeOK, NEW r \in Requests, RestoreFails(r)
    PROVE  RestoreFailsMove(r)
<1>0. /\ request \in [Requests -> RequestType]
      /\ r \in Requests /\ request[r] \in RequestType
  BY DEF TypeOK, Requests
<1>1. \/ /\ r \in Rollbacks /\ lock' = lock
         /\ Goto(r, "end")
      \/ /\ r \notin Rollbacks /\ lock' = lock
         /\ Goto(r, "record")
      \/ /\ r \notin Rollbacks /\ lock' = None
         /\ Become(r, Done)
  BY DEF RestoreFails, Leave
<1>2. Goto(r, "end") => Goes(r, "end")
  BY <1>0, EndsAndGoes
<1>3. Goto(r, "record") => Goes(r, "record")
  BY <1>0, EndsAndGoes
<1>4. Become(r, Done) => Ends(r)
  BY <1>0, EndsAndGoes
<1> QED
  BY <1>1, <1>2, <1>3, <1>4 DEF RestoreFailsMove

\* All of them.
LEMMA RequestMoves ==
    ASSUME TypeOK
    PROVE  /\ \A d \in Deploys, p \in Plans : Execute(d, p) => ExecuteMove(d, p)
           /\ \A d \in Deploys : Enter(d) => EnterMove(d)
           /\ \A d \in Deploys : RefuseBuild(d) => RefuseBuildMove(d)
           /\ \A d \in Deploys : Build(d) => BuildMove(d)
           /\ \A d \in Deploys : Capture(d) => CaptureMove(d)
           /\ \A d \in Deploys : Replace(d) => ReplaceMove(d)
           /\ \A d \in Deploys : Run(d) => RunMove(d)
           /\ \A d \in Deploys : RunFails(d) => RunFailsMove(d)
           /\ \A d \in Deploys : Serves(d) => ServesMove(d)
           /\ \A d \in Deploys : Fails(d) => FailsMove(d)
           /\ \A d \in Deploys : Record(d) => RecordMove(d)
           /\ \A d \in Deploys : Pin(d) => PinMove(d)
           /\ \A d \in Deploys : Prune(d) => PruneMove(d)
           /\ \A k \in Rollbacks, d \in Deploys : \A pc : AskRollback(k, d, pc) => AskRollbackMove(k, d, pc)
           /\ \A k \in Rollbacks : EnterRollback(k) => EnterRollbackMove(k)
           /\ \A k \in Rollbacks : ReplaceForRollback(k) => ReplaceForRollbackMove(k)
           /\ \A k \in Rollbacks : RunTarget(k) => RunTargetMove(k)
           /\ \A k \in Rollbacks : RunTargetFails(k) => RunTargetFailsMove(k)
           /\ \A k \in Rollbacks : RunTargetRaises(k) => RunTargetRaisesMove(k)
           /\ \A k \in Rollbacks : EndRollback(k) => EndRollbackMove(k)
           /\ \A r \in Requests, m \in Deploys : StopMonitor(r, m) => StopMonitorMove(r, m)
           /\ \A r \in Requests : StartMonitor(r) => StartMonitorMove(r)
           /\ \A r \in Requests : Joined(r) => JoinedMove(r)
           /\ \A r \in Requests : Restore(r) => RestoreMove(r)
           /\ \A r \in Requests : RestoreFails(r) => RestoreFailsMove(r)
BY ExecuteMoves, EnterMoves, RefuseBuildMoves, BuildMoves, CaptureMoves, ReplaceMoves,
   RunMoves, RunFailsMoves, ServesMoves, FailsMoves, RecordMoves, PinMoves,
   PruneMoves, AskRollbackMoves, EnterRollbackMoves, ReplaceForRollbackMoves,
   RunTargetMoves, RunTargetFailsMoves, RunTargetRaisesMoves, EndRollbackMoves,
   StopMonitorMoves, StartMonitorMoves, JoinedMoves, RestoreMoves, RestoreFailsMoves

\* Deployments, rollbacks, images and None are different things.
LEMMA RequestFacts ==
    /\ Deploys \subseteq Requests /\ Rollbacks \subseteq Requests
    /\ \A r \in Requests : r \in Deploys <=> r \notin Rollbacks
    /\ None \notin Requests /\ Ext \notin Deploys /\ Ext # None
BY DeployAssumption DEF Requests

\* Where the records stay, so does what is recorded.
LEMMA SameRecords == records' = records => Recorded' = Recorded
BY DEF Recorded

\* The fields of a request that the proofs below look at.
LEMMA RequestFields ==
    ASSUME TypeOK
    PROVE  \A r \in Requests :
             /\ request[r].plan \in Plans \cup {None}
             /\ request[r].source \in DeployOrNone
             /\ request[r].what \in DeployOrNone /\ request[r].of \in DeployOrNone
             /\ request[r].ok \in BOOLEAN
BY DEF TypeOK, RequestType

-----------------------------------------------------------------------------
(* Places, plans, containers. *)

\* The lock is held exactly where a request must hold it.
LEMMA LockedStep ==
    ASSUME TypeOK, LockedOne, [Next]_vars
    PROVE  LockedOne'
<1> USE RequestFacts, SameRecords
       DEF dockerVars, verifierVars, historyVars, Moves, Goes, Ends
<1>1. ASSUME NEW d \in Deploys, NEW p \in Plans,
             Execute(d, p), ExecuteMove(d, p)
      PROVE  LockedOne'
  BY <1>1 DEF Execute, ExecuteMove, LockedOne, Critical
<1>2. ASSUME NEW d \in Deploys, Enter(d), EnterMove(d) PROVE LockedOne'
  BY <1>2 DEF Enter, EnterMove, Leave, LockedOne, Critical
<1>3. ASSUME NEW d \in Deploys, RefuseBuild(d), RefuseBuildMove(d)
      PROVE  LockedOne'
  BY <1>3 DEF RefuseBuild, RefuseBuildMove, Leave, LockedOne, Critical
<1>4. ASSUME NEW d \in Deploys, Build(d), BuildMove(d) PROVE LockedOne'
  BY <1>4 DEF Build, BuildMove, LockedOne, Critical
<1>5. ASSUME NEW d \in Deploys, Capture(d), CaptureMove(d) PROVE LockedOne'
  BY <1>5 DEF Capture, CaptureMove, LockedOne, Critical
<1>6. ASSUME NEW d \in Deploys, Replace(d), ReplaceMove(d) PROVE LockedOne'
  BY <1>6 DEF Replace, ReplaceMove, Stopped, LockedOne, Critical
<1>7. ASSUME NEW d \in Deploys, Run(d), RunMove(d) PROVE LockedOne'
  BY <1>7 DEF Run, RunMove, LockedOne, Critical
<1>8. ASSUME NEW d \in Deploys, RunFails(d), RunFailsMove(d) PROVE LockedOne'
  BY <1>8 DEF RunFails, RunFailsMove, Leave, LockedOne, Critical
<1>9. ASSUME NEW d \in Deploys, Serves(d), ServesMove(d) PROVE LockedOne'
  BY <1>9 DEF Serves, ServesMove, LockedOne, Critical
<1>10. ASSUME NEW d \in Deploys, Fails(d), FailsMove(d) PROVE LockedOne'
  BY <1>10 DEF Fails, FailsMove, LockedOne, Critical
<1>11. ASSUME NEW d \in Deploys, Record(d), RecordMove(d) PROVE LockedOne'
  BY <1>11 DEF Record, RecordMove, Leave, LockedOne, Critical
<1>12. ASSUME NEW d \in Deploys, Pin(d), PinMove(d) PROVE LockedOne'
  BY <1>12 DEF Pin, PinMove, LockedOne, Critical
<1>13. ASSUME NEW d \in Deploys, Prune(d), PruneMove(d) PROVE LockedOne'
  BY <1>13 DEF Prune, PruneMove, Leave, LockedOne, Critical
<1>14. ASSUME NEW k \in Rollbacks, NEW d \in Deploys,
              NEW pc \in {"ask", "askCurrent"},
             AskRollback(k, d, pc), AskRollbackMove(k, d, pc)
      PROVE  LockedOne'
  BY <1>14 DEF AskRollback, AskRollbackMove, LockedOne, Critical
<1>15. ASSUME NEW k \in Rollbacks, EnterRollback(k), EnterRollbackMove(k)
      PROVE  LockedOne'
  BY <1>15 DEF EnterRollback, EnterRollbackMove, LockedOne, Critical
<1>16. ASSUME NEW k \in Rollbacks,
             ReplaceForRollback(k), ReplaceForRollbackMove(k)
      PROVE  LockedOne'
  BY <1>16 DEF ReplaceForRollback, ReplaceForRollbackMove, Stopped,
     LockedOne, Critical
<1>17. ASSUME NEW k \in Rollbacks, RunTarget(k), RunTargetMove(k)
      PROVE  LockedOne'
  BY <1>17 DEF RunTarget, RunTargetMove, LockedOne, Critical
<1>18. ASSUME NEW k \in Rollbacks, RunTargetFails(k), RunTargetFailsMove(k)
      PROVE  LockedOne'
  BY <1>18 DEF RunTargetFails, RunTargetFailsMove, LockedOne, Critical
<1>19. ASSUME NEW k \in Rollbacks, RunTargetRaises(k), RunTargetRaisesMove(k)
      PROVE  LockedOne'
  BY <1>19 DEF RunTargetRaises, RunTargetRaisesMove, Leave, LockedOne,
     Critical
<1>20. ASSUME NEW k \in Rollbacks, EndRollback(k), EndRollbackMove(k)
      PROVE  LockedOne'
  BY <1>20 DEF EndRollback, EndRollbackMove, LockedOne, Critical
<1>21. ASSUME NEW r \in Requests, NEW m \in Deploys,
             StopMonitor(r, m), StopMonitorMove(r, m)
      PROVE  LockedOne'
  BY <1>21 DEF StopMonitor, StopMonitorMove, LockedOne, Critical
<1>22. ASSUME NEW r \in Requests, StartMonitor(r), StartMonitorMove(r)
      PROVE  LockedOne'
  BY <1>22 DEF StartMonitor, StartMonitorMove, LockedOne, Critical
<1>23. ASSUME NEW r \in Requests, Joined(r), JoinedMove(r) PROVE LockedOne'
  BY <1>23 DEF Joined, JoinedMove, LockedOne, Critical
<1>24. ASSUME NEW r \in Requests, Restore(r), RestoreMove(r) PROVE LockedOne'
  BY <1>24 DEF Restore, RestoreMove, Leave, LockedOne, Critical
<1>25. ASSUME NEW r \in Requests, RestoreFails(r), RestoreFailsMove(r)
      PROVE  LockedOne'
  BY <1>25 DEF RestoreFails, RestoreFailsMove, Leave, LockedOne, Critical
<1>26. ASSUME NEW d \in Deploys, Anomaly(d) PROVE LockedOne'
  BY <1>26 DEF Anomaly, Judge, LockedOne, Critical
<1>27. ASSUME NEW d \in Deploys, MonitorEnds(d) PROVE LockedOne'
  BY <1>27 DEF MonitorEnds, Judge, LockedOne, Critical
<1>28. ASSUME NEW d \in Deploys, MonitorCancelled(d) PROVE LockedOne'
  BY <1>28 DEF MonitorCancelled, LockedOne, Critical
<1>29. ASSUME NEW d \in Deploys, StopRequested(d) PROVE LockedOne'
  BY <1>29 DEF StopRequested, LockedOne, Critical
<1>30. ASSUME NEW p \in Plans, CancelPlan(p) PROVE LockedOne'
  BY <1>30 DEF CancelPlan, LockedOne, Critical
<1>31. CASE Restart
  BY <1>31 DEF Restart, Idle, Done, LockedOne, Critical
<1>32. CASE UNCHANGED vars
  BY <1>32 DEF vars, LockedOne, Critical
<1> QED
  BY <1>1, <1>2, <1>3, <1>4, <1>5, <1>6, <1>7, <1>8, <1>9, <1>10, <1>11,
     <1>12, <1>13, <1>14, <1>15, <1>16, <1>17, <1>18, <1>19, <1>20, <1>21,
     <1>22, <1>23, <1>24, <1>25, <1>26, <1>27, <1>28, <1>29, <1>30, <1>31,
     <1>32, RequestMoves DEF Next, DeployStep, RollbackStep, SharedStep,
     SignOff

\* A request knows at each place what it needs there.
LEMMA PlacedStep ==
    ASSUME TypeOK, PlacesOK, [Next]_vars
    PROVE  (\A q \in Requests : Placed(q))'
<1> USE RequestFacts, RequestFields
       DEF dockerVars, verifierVars, historyVars, Moves, Goes, Ends, KeepsWay,
           KeepsWatch, KeepsEnd
<1>1. ASSUME NEW d \in Deploys, NEW p \in Plans,
             Execute(d, p), ExecuteMove(d, p)
      PROVE  (\A q \in Requests : Placed(q))'
  BY <1>1 DEF Execute, ExecuteMove, PlacesOK, Placed
<1>2. ASSUME NEW d \in Deploys, Enter(d), EnterMove(d)
      PROVE  (\A q \in Requests : Placed(q))'
  BY <1>2 DEF Enter, EnterMove, Leave, PlacesOK, Placed
<1>3. ASSUME NEW d \in Deploys, RefuseBuild(d), RefuseBuildMove(d)
      PROVE  (\A q \in Requests : Placed(q))'
  BY <1>3 DEF RefuseBuild, RefuseBuildMove, Leave, PlacesOK, Placed
<1>4. ASSUME NEW d \in Deploys, Build(d), BuildMove(d)
      PROVE  (\A q \in Requests : Placed(q))'
  BY <1>4 DEF Build, BuildMove, PlacesOK, Placed
<1>5. ASSUME NEW d \in Deploys, Capture(d), CaptureMove(d)
      PROVE  (\A q \in Requests : Placed(q))'
  BY <1>5 DEF Capture, CaptureMove, PlacesOK, Placed
<1>6. ASSUME NEW d \in Deploys, Replace(d), ReplaceMove(d)
      PROVE  (\A q \in Requests : Placed(q))'
  BY <1>6 DEF Replace, ReplaceMove, Stopped, PlacesOK, Placed
<1>7. ASSUME NEW d \in Deploys, Run(d), RunMove(d)
      PROVE  (\A q \in Requests : Placed(q))'
  BY <1>7 DEF Run, RunMove, PlacesOK, Placed
<1>8. ASSUME NEW d \in Deploys, RunFails(d), RunFailsMove(d)
      PROVE  (\A q \in Requests : Placed(q))'
  BY <1>8 DEF RunFails, RunFailsMove, Leave, PlacesOK, Placed
<1>9. ASSUME NEW d \in Deploys, Serves(d), ServesMove(d)
      PROVE  (\A q \in Requests : Placed(q))'
  BY <1>9 DEF Serves, ServesMove, PlacesOK, Placed
<1>10. ASSUME NEW d \in Deploys, Fails(d), FailsMove(d)
      PROVE  (\A q \in Requests : Placed(q))'
  BY <1>10 DEF Fails, FailsMove, PlacesOK, Placed
<1>11. ASSUME NEW d \in Deploys, Record(d), RecordMove(d)
      PROVE  (\A q \in Requests : Placed(q))'
  BY <1>11 DEF Record, RecordMove, Leave, PlacesOK, Placed
<1>12. ASSUME NEW d \in Deploys, Pin(d), PinMove(d)
      PROVE  (\A q \in Requests : Placed(q))'
  BY <1>12 DEF Pin, PinMove, PlacesOK, Placed
<1>13. ASSUME NEW d \in Deploys, Prune(d), PruneMove(d)
      PROVE  (\A q \in Requests : Placed(q))'
  BY <1>13 DEF Prune, PruneMove, Leave, PlacesOK, Placed
<1>14. ASSUME NEW k \in Rollbacks, NEW d \in Deploys,
              NEW pc \in {"ask", "askCurrent"},
             AskRollback(k, d, pc), AskRollbackMove(k, d, pc)
      PROVE  (\A q \in Requests : Placed(q))'
  BY <1>14 DEF AskRollback, AskRollbackMove, PlacesOK, Placed
<1>15. ASSUME NEW k \in Rollbacks, EnterRollback(k), EnterRollbackMove(k)
      PROVE  (\A q \in Requests : Placed(q))'
  BY <1>15 DEF EnterRollback, EnterRollbackMove, PlacesOK, Placed
<1>16. ASSUME NEW k \in Rollbacks,
             ReplaceForRollback(k), ReplaceForRollbackMove(k)
      PROVE  (\A q \in Requests : Placed(q))'
  BY <1>16 DEF ReplaceForRollback, ReplaceForRollbackMove, Stopped,
     PlacesOK, Placed
<1>17. ASSUME NEW k \in Rollbacks, RunTarget(k), RunTargetMove(k)
      PROVE  (\A q \in Requests : Placed(q))'
  BY <1>17 DEF RunTarget, RunTargetMove, PlacesOK, Placed
<1>18. ASSUME NEW k \in Rollbacks, RunTargetFails(k), RunTargetFailsMove(k)
      PROVE  (\A q \in Requests : Placed(q))'
  BY <1>18 DEF RunTargetFails, RunTargetFailsMove, PlacesOK, Placed
<1>19. ASSUME NEW k \in Rollbacks, RunTargetRaises(k), RunTargetRaisesMove(k)
      PROVE  (\A q \in Requests : Placed(q))'
  BY <1>19 DEF RunTargetRaises, RunTargetRaisesMove, Leave, PlacesOK,
     Placed
<1>20. ASSUME NEW k \in Rollbacks, EndRollback(k), EndRollbackMove(k)
      PROVE  (\A q \in Requests : Placed(q))'
  BY <1>20 DEF EndRollback, EndRollbackMove, Recorded, PlacesOK, Placed
<1>21. ASSUME NEW r \in Requests, NEW m \in Deploys,
             StopMonitor(r, m), StopMonitorMove(r, m)
      PROVE  (\A q \in Requests : Placed(q))'
  BY <1>21 DEF StopMonitor, StopMonitorMove, PlacesOK, Placed
<1>22. ASSUME NEW r \in Requests, StartMonitor(r), StartMonitorMove(r)
      PROVE  (\A q \in Requests : Placed(q))'
  BY <1>22 DEF StartMonitor, StartMonitorMove, PlacesOK, Placed
<1>23. ASSUME NEW r \in Requests, Joined(r), JoinedMove(r)
      PROVE  (\A q \in Requests : Placed(q))'
  BY <1>23 DEF Joined, JoinedMove, PlacesOK, Placed
<1>24. ASSUME NEW r \in Requests, Restore(r), RestoreMove(r)
      PROVE  (\A q \in Requests : Placed(q))'
  BY <1>24 DEF Restore, RestoreMove, Leave, DeployOrNone, PlacesOK, Placed
<1>25. ASSUME NEW r \in Requests, RestoreFails(r), RestoreFailsMove(r)
      PROVE  (\A q \in Requests : Placed(q))'
  BY <1>25 DEF RestoreFails, RestoreFailsMove, Leave, PlacesOK, Placed
<1>26. ASSUME NEW d \in Deploys, Anomaly(d)
      PROVE  (\A q \in Requests : Placed(q))'
  BY <1>26 DEF Anomaly, Judge, PlacesOK, Placed
<1>27. ASSUME NEW d \in Deploys, MonitorEnds(d)
      PROVE  (\A q \in Requests : Placed(q))'
  BY <1>27 DEF MonitorEnds, Judge, PlacesOK, Placed
<1>28. ASSUME NEW d \in Deploys, MonitorCancelled(d)
      PROVE  (\A q \in Requests : Placed(q))'
  BY <1>28 DEF MonitorCancelled, PlacesOK, Placed
<1>29. ASSUME NEW d \in Deploys, StopRequested(d)
      PROVE  (\A q \in Requests : Placed(q))'
  BY <1>29 DEF StopRequested, PlacesOK, Placed
<1>30. ASSUME NEW p \in Plans, CancelPlan(p)
      PROVE  (\A q \in Requests : Placed(q))'
  BY <1>30 DEF CancelPlan, PlacesOK, Placed
<1>31. CASE Restart
  BY <1>31 DEF Restart, Idle, Done, PlacesOK, Placed
<1>32. CASE UNCHANGED vars
  BY <1>32 DEF vars, PlacesOK, Placed
<1> QED
  BY <1>1, <1>2, <1>3, <1>4, <1>5, <1>6, <1>7, <1>8, <1>9, <1>10, <1>11,
     <1>12, <1>13, <1>14, <1>15, <1>16, <1>17, <1>18, <1>19, <1>20, <1>21,
     <1>22, <1>23, <1>24, <1>25, <1>26, <1>27, <1>28, <1>29, <1>30, <1>31,
     <1>32, RequestMoves DEF Next, DeployStep, RollbackStep, SharedStep,
     SignOff

\* A rollback rolls a record back.
LEMMA RollbackPlacedStep ==
    ASSUME TypeOK, PlacesOK, [Next]_vars
    PROVE  (\A q \in Rollbacks : RollbackPlaced(q))'
<1> USE RequestFacts, SameRecords
       DEF dockerVars, verifierVars, historyVars, Moves, Goes, Ends, Cleared,
           KeepsChoice, KeepsEnd
<1>1. ASSUME NEW d \in Deploys, NEW p \in Plans,
             Execute(d, p), ExecuteMove(d, p)
      PROVE  (\A q \in Rollbacks : RollbackPlaced(q))'
  BY <1>1 DEF Execute, ExecuteMove, PlacesOK, RollbackPlaced, RollbackPcs
<1>2. ASSUME NEW d \in Deploys, Enter(d), EnterMove(d)
      PROVE  (\A q \in Rollbacks : RollbackPlaced(q))'
  BY <1>2 DEF Enter, EnterMove, Leave, PlacesOK, RollbackPlaced,
     RollbackPcs
<1>3. ASSUME NEW d \in Deploys, RefuseBuild(d), RefuseBuildMove(d)
      PROVE  (\A q \in Rollbacks : RollbackPlaced(q))'
  BY <1>3 DEF RefuseBuild, RefuseBuildMove, Leave, PlacesOK,
     RollbackPlaced, RollbackPcs
<1>4. ASSUME NEW d \in Deploys, Build(d), BuildMove(d)
      PROVE  (\A q \in Rollbacks : RollbackPlaced(q))'
  BY <1>4 DEF Build, BuildMove, PlacesOK, RollbackPlaced, RollbackPcs
<1>5. ASSUME NEW d \in Deploys, Capture(d), CaptureMove(d)
      PROVE  (\A q \in Rollbacks : RollbackPlaced(q))'
  BY <1>5 DEF Capture, CaptureMove, PlacesOK, RollbackPlaced, RollbackPcs
<1>6. ASSUME NEW d \in Deploys, Replace(d), ReplaceMove(d)
      PROVE  (\A q \in Rollbacks : RollbackPlaced(q))'
  BY <1>6 DEF Replace, ReplaceMove, Stopped, PlacesOK, RollbackPlaced,
     RollbackPcs
<1>7. ASSUME NEW d \in Deploys, Run(d), RunMove(d)
      PROVE  (\A q \in Rollbacks : RollbackPlaced(q))'
  BY <1>7 DEF Run, RunMove, PlacesOK, RollbackPlaced, RollbackPcs
<1>8. ASSUME NEW d \in Deploys, RunFails(d), RunFailsMove(d)
      PROVE  (\A q \in Rollbacks : RollbackPlaced(q))'
  BY <1>8 DEF RunFails, RunFailsMove, Leave, PlacesOK, RollbackPlaced,
     RollbackPcs
<1>9. ASSUME NEW d \in Deploys, Serves(d), ServesMove(d)
      PROVE  (\A q \in Rollbacks : RollbackPlaced(q))'
  BY <1>9 DEF Serves, ServesMove, PlacesOK, RollbackPlaced, RollbackPcs
<1>10. ASSUME NEW d \in Deploys, Fails(d), FailsMove(d)
      PROVE  (\A q \in Rollbacks : RollbackPlaced(q))'
  BY <1>10 DEF Fails, FailsMove, PlacesOK, RollbackPlaced, RollbackPcs
<1>11. ASSUME NEW d \in Deploys, Record(d), RecordMove(d), RecordsRelease(d)
      PROVE  (\A q \in Rollbacks : RollbackPlaced(q))'
  BY <1>11 DEF Record, RecordMove, RecordsRelease, Leave, PlacesOK,
     RollbackPlaced, RollbackPcs
<1>12. ASSUME NEW d \in Deploys, Pin(d), PinMove(d), KeepsReleases
      PROVE  (\A q \in Rollbacks : RollbackPlaced(q))'
  BY <1>12 DEF Pin, PinMove, KeepsReleases, PlacesOK, RollbackPlaced,
     RollbackPcs
<1>13. ASSUME NEW d \in Deploys, Prune(d), PruneMove(d)
      PROVE  (\A q \in Rollbacks : RollbackPlaced(q))'
  BY <1>13 DEF Prune, PruneMove, Leave, PlacesOK, RollbackPlaced,
     RollbackPcs
<1>14. ASSUME NEW k \in Rollbacks, NEW d \in Deploys,
              NEW pc \in {"ask", "askCurrent"},
             AskRollback(k, d, pc), AskRollbackMove(k, d, pc)
      PROVE  (\A q \in Rollbacks : RollbackPlaced(q))'
  BY <1>14 DEF AskRollback, AskRollbackMove, PlacesOK, RollbackPlaced,
     RollbackPcs
<1>15. ASSUME NEW k \in Rollbacks,
             EnterRollback(k), EnterRollbackMove(k), KeepsReleases
      PROVE  (\A q \in Rollbacks : RollbackPlaced(q))'
  BY <1>15 DEF EnterRollback, EnterRollbackMove, KeepsReleases, PlacesOK,
     RollbackPlaced, RollbackPcs
<1>16. ASSUME NEW k \in Rollbacks,
             ReplaceForRollback(k), ReplaceForRollbackMove(k)
      PROVE  (\A q \in Rollbacks : RollbackPlaced(q))'
  BY <1>16 DEF ReplaceForRollback, ReplaceForRollbackMove, Stopped,
     PlacesOK, RollbackPlaced, RollbackPcs
<1>17. ASSUME NEW k \in Rollbacks, RunTarget(k), RunTargetMove(k)
      PROVE  (\A q \in Rollbacks : RollbackPlaced(q))'
  BY <1>17 DEF RunTarget, RunTargetMove, PlacesOK, RollbackPlaced,
     RollbackPcs
<1>18. ASSUME NEW k \in Rollbacks, RunTargetFails(k), RunTargetFailsMove(k)
      PROVE  (\A q \in Rollbacks : RollbackPlaced(q))'
  BY <1>18 DEF RunTargetFails, RunTargetFailsMove, PlacesOK,
     RollbackPlaced, RollbackPcs
<1>19. ASSUME NEW k \in Rollbacks,
             RunTargetRaises(k), RunTargetRaisesMove(k), KeepsReleases
      PROVE  (\A q \in Rollbacks : RollbackPlaced(q))'
  BY <1>19 DEF RunTargetRaises, RunTargetRaisesMove, KeepsReleases, Leave,
     PlacesOK, RollbackPlaced, RollbackPcs
<1>20. ASSUME NEW k \in Rollbacks,
             EndRollback(k), EndRollbackMove(k), KeepsReleases
      PROVE  (\A q \in Rollbacks : RollbackPlaced(q))'
  BY <1>20 DEF EndRollback, EndRollbackMove, KeepsReleases, PlacesOK,
     RollbackPlaced, RollbackPcs
<1>21. ASSUME NEW r \in Requests, NEW m \in Deploys,
             StopMonitor(r, m), StopMonitorMove(r, m)
      PROVE  (\A q \in Rollbacks : RollbackPlaced(q))'
  BY <1>21 DEF StopMonitor, StopMonitorMove, PlacesOK, RollbackPlaced,
     RollbackPcs
<1>22. ASSUME NEW r \in Requests, StartMonitor(r), StartMonitorMove(r)
      PROVE  (\A q \in Rollbacks : RollbackPlaced(q))'
  BY <1>22 DEF StartMonitor, StartMonitorMove, PlacesOK, RollbackPlaced,
     RollbackPcs
<1>23. ASSUME NEW r \in Requests, Joined(r), JoinedMove(r)
      PROVE  (\A q \in Rollbacks : RollbackPlaced(q))'
  BY <1>23 DEF Joined, JoinedMove, PlacesOK, RollbackPlaced, RollbackPcs
<1>24. ASSUME NEW r \in Requests, Restore(r), RestoreMove(r)
      PROVE  (\A q \in Rollbacks : RollbackPlaced(q))'
  BY <1>24 DEF Restore, RestoreMove, Leave, PlacesOK, RollbackPlaced,
     RollbackPcs
<1>25. ASSUME NEW r \in Requests, RestoreFails(r), RestoreFailsMove(r)
      PROVE  (\A q \in Rollbacks : RollbackPlaced(q))'
  BY <1>25 DEF RestoreFails, RestoreFailsMove, Leave, PlacesOK,
     RollbackPlaced, RollbackPcs
<1>26. ASSUME NEW d \in Deploys, Anomaly(d), KeepsReleases
      PROVE  (\A q \in Rollbacks : RollbackPlaced(q))'
  BY <1>26 DEF Anomaly, KeepsReleases, Judge, PlacesOK, RollbackPlaced,
     RollbackPcs
<1>27. ASSUME NEW d \in Deploys, MonitorEnds(d), KeepsReleases
      PROVE  (\A q \in Rollbacks : RollbackPlaced(q))'
  BY <1>27 DEF MonitorEnds, KeepsReleases, Judge, PlacesOK,
     RollbackPlaced, RollbackPcs
<1>28. ASSUME NEW d \in Deploys, MonitorCancelled(d)
      PROVE  (\A q \in Rollbacks : RollbackPlaced(q))'
  BY <1>28 DEF MonitorCancelled, PlacesOK, RollbackPlaced, RollbackPcs
<1>29. ASSUME NEW d \in Deploys, StopRequested(d)
      PROVE  (\A q \in Rollbacks : RollbackPlaced(q))'
  BY <1>29 DEF StopRequested, PlacesOK, RollbackPlaced, RollbackPcs
<1>30. ASSUME NEW p \in Plans, CancelPlan(p)
      PROVE  (\A q \in Rollbacks : RollbackPlaced(q))'
  BY <1>30 DEF CancelPlan, PlacesOK, RollbackPlaced, RollbackPcs
<1>31. ASSUME Restart, LoadsReleases PROVE (\A q \in Rollbacks : RollbackPlaced(q))'
  BY <1>31 DEF Restart, LoadsReleases, Idle, Done, PlacesOK,
     RollbackPlaced, RollbackPcs
<1>32. CASE UNCHANGED vars
  BY <1>32 DEF vars, PlacesOK, RollbackPlaced, RollbackPcs
<1> QED
  BY <1>1, <1>2, <1>3, <1>4, <1>5, <1>6, <1>7, <1>8, <1>9, <1>10, <1>11,
     <1>12, <1>13, <1>14, <1>15, <1>16, <1>17, <1>18, <1>19, <1>20, <1>21,
     <1>22, <1>23, <1>24, <1>25, <1>26, <1>27, <1>28, <1>29, <1>30, <1>31,
     <1>32, RequestMoves, ReleasesKept, ReleaseRecorded, ReleasesLoaded DEF
     Next, DeployStep, RollbackStep, SharedStep, SignOff

\* A deployment has a plan, and a record from the place on where it writes one.
LEMMA DeployPlacedStep ==
    ASSUME TypeOK, LockedOne, PlacesOK, SavedKnown, [Next]_vars
    PROVE  (\A e \in Deploys : DeployPlaced(e))'
<1> USE RequestFacts, SameRecords
       DEF dockerVars, verifierVars, historyVars, Moves, Goes, Ends, Cleared,
           KeepsPlan, KeepsSource, KeepsWay, KeepsEnd
<1>1. ASSUME NEW d \in Deploys, NEW p \in Plans,
             Execute(d, p), ExecuteMove(d, p)
      PROVE  (\A e \in Deploys : DeployPlaced(e))'
  BY <1>1 DEF Execute, ExecuteMove, PlacesOK, DeployPlaced, DeployPcs
<1>2. ASSUME NEW d \in Deploys, Enter(d), EnterMove(d)
      PROVE  (\A e \in Deploys : DeployPlaced(e))'
  BY <1>2 DEF Enter, EnterMove, Leave, PlacesOK, DeployPlaced, DeployPcs
<1>3. ASSUME NEW d \in Deploys, RefuseBuild(d), RefuseBuildMove(d)
      PROVE  (\A e \in Deploys : DeployPlaced(e))'
  BY <1>3 DEF RefuseBuild, RefuseBuildMove, Leave, PlacesOK, DeployPlaced,
     DeployPcs
<1>4. ASSUME NEW d \in Deploys, Build(d), BuildMove(d)
      PROVE  (\A e \in Deploys : DeployPlaced(e))'
  <2>1. RollbackSource \in Recorded \cup {None} /\ built \in [Deploys -> Nat]
    BY SourceAndTarget DEF Eligible, TypeOK
  <2> QED
    BY <1>4, <2>1 DEF Build, BuildMove, PlacesOK, DeployPlaced, DeployPcs
<1>5. ASSUME NEW d \in Deploys, Capture(d), CaptureMove(d)
      PROVE  (\A e \in Deploys : DeployPlaced(e))'
  BY <1>5 DEF Capture, CaptureMove, ToPutBack, PlacesOK, DeployPlaced,
     DeployPcs
<1>6. ASSUME NEW d \in Deploys, Replace(d), ReplaceMove(d)
      PROVE  (\A e \in Deploys : DeployPlaced(e))'
  BY <1>6 DEF Replace, ReplaceMove, Stopped, PlacesOK, DeployPlaced,
     DeployPcs
<1>7. ASSUME NEW d \in Deploys, Run(d), RunMove(d)
      PROVE  (\A e \in Deploys : DeployPlaced(e))'
  BY <1>7 DEF Run, RunMove, PlacesOK, DeployPlaced, DeployPcs
<1>8. ASSUME NEW d \in Deploys, RunFails(d), RunFailsMove(d)
      PROVE  (\A e \in Deploys : DeployPlaced(e))'
  BY <1>8 DEF RunFails, RunFailsMove, Leave, PlacesOK, DeployPlaced,
     DeployPcs
<1>9. ASSUME NEW d \in Deploys, Serves(d), ServesMove(d)
      PROVE  (\A e \in Deploys : DeployPlaced(e))'
  BY <1>9 DEF Serves, ServesMove, PlacesOK, DeployPlaced, DeployPcs
<1>10. ASSUME NEW d \in Deploys, Fails(d), FailsMove(d)
      PROVE  (\A e \in Deploys : DeployPlaced(e))'
  BY <1>10 DEF Fails, FailsMove, PlacesOK, DeployPlaced, DeployPcs
<1>11. ASSUME NEW d \in Deploys, Record(d), RecordMove(d), RecordsRelease(d)
      PROVE  (\A e \in Deploys : DeployPlaced(e))'
  BY <1>11 DEF Record, RecordMove, RecordsRelease, Leave, PlacesOK,
     DeployPlaced, DeployPcs
<1>12. ASSUME NEW d \in Deploys, Pin(d), PinMove(d), KeepsReleases
      PROVE  (\A e \in Deploys : DeployPlaced(e))'
  BY <1>12 DEF Pin, PinMove, KeepsReleases, PlacesOK, DeployPlaced,
     DeployPcs
<1>13. ASSUME NEW d \in Deploys, Prune(d), PruneMove(d)
      PROVE  (\A e \in Deploys : DeployPlaced(e))'
  BY <1>13 DEF Prune, PruneMove, Leave, PlacesOK, DeployPlaced, DeployPcs
<1>14. ASSUME NEW k \in Rollbacks, NEW d \in Deploys,
              NEW pc \in {"ask", "askCurrent"},
             AskRollback(k, d, pc), AskRollbackMove(k, d, pc)
      PROVE  (\A e \in Deploys : DeployPlaced(e))'
  BY <1>14 DEF AskRollback, AskRollbackMove, PlacesOK, DeployPlaced,
     DeployPcs
<1>15. ASSUME NEW k \in Rollbacks,
             EnterRollback(k), EnterRollbackMove(k), KeepsReleases
      PROVE  (\A e \in Deploys : DeployPlaced(e))'
  BY <1>15 DEF EnterRollback, EnterRollbackMove, KeepsReleases, PlacesOK,
     DeployPlaced, DeployPcs
<1>16. ASSUME NEW k \in Rollbacks,
             ReplaceForRollback(k), ReplaceForRollbackMove(k)
      PROVE  (\A e \in Deploys : DeployPlaced(e))'
  BY <1>16 DEF ReplaceForRollback, ReplaceForRollbackMove, Stopped,
     PlacesOK, DeployPlaced, DeployPcs
<1>17. ASSUME NEW k \in Rollbacks, RunTarget(k), RunTargetMove(k)
      PROVE  (\A e \in Deploys : DeployPlaced(e))'
  BY <1>17 DEF RunTarget, RunTargetMove, PlacesOK, DeployPlaced, DeployPcs
<1>18. ASSUME NEW k \in Rollbacks, RunTargetFails(k), RunTargetFailsMove(k)
      PROVE  (\A e \in Deploys : DeployPlaced(e))'
  BY <1>18 DEF RunTargetFails, RunTargetFailsMove, PlacesOK, DeployPlaced,
     DeployPcs
<1>19. ASSUME NEW k \in Rollbacks,
             RunTargetRaises(k), RunTargetRaisesMove(k), KeepsReleases
      PROVE  (\A e \in Deploys : DeployPlaced(e))'
  BY <1>19 DEF RunTargetRaises, RunTargetRaisesMove, KeepsReleases, Leave,
     PlacesOK, DeployPlaced, DeployPcs
<1>20. ASSUME NEW k \in Rollbacks,
             EndRollback(k), EndRollbackMove(k), KeepsReleases
      PROVE  (\A e \in Deploys : DeployPlaced(e))'
  BY <1>20 DEF EndRollback, EndRollbackMove, KeepsReleases, PlacesOK,
     DeployPlaced, DeployPcs
<1>21. ASSUME NEW r \in Requests, NEW m \in Deploys,
             StopMonitor(r, m), StopMonitorMove(r, m)
      PROVE  (\A e \in Deploys : DeployPlaced(e))'
  BY <1>21 DEF StopMonitor, StopMonitorMove, PlacesOK, DeployPlaced,
     DeployPcs
<1>22. ASSUME NEW r \in Requests, StartMonitor(r), StartMonitorMove(r)
      PROVE  (\A e \in Deploys : DeployPlaced(e))'
  BY <1>22 DEF StartMonitor, StartMonitorMove, PlacesOK, DeployPlaced,
     DeployPcs
<1>23. ASSUME NEW r \in Requests, Joined(r), JoinedMove(r)
      PROVE  (\A e \in Deploys : DeployPlaced(e))'
  BY <1>23 DEF Joined, JoinedMove, PlacesOK, DeployPlaced, DeployPcs
<1>24. ASSUME NEW r \in Requests, Restore(r), RestoreMove(r)
      PROVE  (\A e \in Deploys : DeployPlaced(e))'
  BY <1>24 DEF Restore, RestoreMove, Leave, PlacesOK, DeployPlaced,
     DeployPcs
<1>25. ASSUME NEW r \in Requests, RestoreFails(r), RestoreFailsMove(r)
      PROVE  (\A e \in Deploys : DeployPlaced(e))'
  BY <1>25 DEF RestoreFails, RestoreFailsMove, Leave, PlacesOK,
     DeployPlaced, DeployPcs
<1>26. ASSUME NEW d \in Deploys, Anomaly(d), KeepsReleases
      PROVE  (\A e \in Deploys : DeployPlaced(e))'
  BY <1>26 DEF Anomaly, KeepsReleases, Judge, PlacesOK, DeployPlaced,
     DeployPcs
<1>27. ASSUME NEW d \in Deploys, MonitorEnds(d), KeepsReleases
      PROVE  (\A e \in Deploys : DeployPlaced(e))'
  BY <1>27 DEF MonitorEnds, KeepsReleases, Judge, PlacesOK, DeployPlaced,
     DeployPcs
<1>28. ASSUME NEW d \in Deploys, MonitorCancelled(d)
      PROVE  (\A e \in Deploys : DeployPlaced(e))'
  BY <1>28 DEF MonitorCancelled, PlacesOK, DeployPlaced, DeployPcs
<1>29. ASSUME NEW d \in Deploys, StopRequested(d)
      PROVE  (\A e \in Deploys : DeployPlaced(e))'
  BY <1>29 DEF StopRequested, PlacesOK, DeployPlaced, DeployPcs
<1>30. ASSUME NEW p \in Plans, CancelPlan(p)
      PROVE  (\A e \in Deploys : DeployPlaced(e))'
  BY <1>30 DEF CancelPlan, PlacesOK, DeployPlaced, DeployPcs
<1>31. ASSUME Restart, LoadsReleases PROVE (\A e \in Deploys : DeployPlaced(e))'
  <2>1. \A e \in Deploys : request'[e] = IF request[e].pc = "idle" THEN Idle ELSE Done
    BY <1>31 DEF Restart
  <2>2. \A e \in Deploys : e \in Recorded' => e \in Recorded
    BY <1>31 DEF LoadsReleases, SavedKnown
  <2>3. built' = built
    BY <1>31 DEF Restart
  <2> QED
    BY <2>1, <2>2, <2>3 DEF PlacesOK, DeployPlaced, DeployPcs, Idle, Done
<1>32. CASE UNCHANGED vars
  BY <1>32 DEF vars, PlacesOK, DeployPlaced, DeployPcs
<1> QED
  BY <1>1, <1>2, <1>3, <1>4, <1>5, <1>6, <1>7, <1>8, <1>9, <1>10, <1>11,
     <1>12, <1>13, <1>14, <1>15, <1>16, <1>17, <1>18, <1>19, <1>20, <1>21,
     <1>22, <1>23, <1>24, <1>25, <1>26, <1>27, <1>28, <1>29, <1>30, <1>31,
     <1>32, RequestMoves, ReleasesKept, ReleaseRecorded, ReleasesLoaded DEF
     Next, DeployStep, RollbackStep, SharedStep, SignOff

\* Every change of the records is one of these.
LEMMA RecordsChange ==
    ASSUME TypeOK, PlacesOK, [Next]_vars
    PROVE  \/ records' = records
           \/ KeepsReleases
           \/ \E d \in Deploys : Record(d) /\ RecordsRelease(d)
           \/ Restart /\ LoadsReleases
<1> USE DEF dockerVars, verifierVars, historyVars
<1>1. ASSUME NEW d \in Deploys, DeployStep(d), ~Record(d), ~Pin(d)
      PROVE  records' = records
  BY <1>1 DEF DeployStep, Enter, RefuseBuild, Build, Capture, Replace, Run, RunFails,
              Serves, Fails, Prune
<1>2. ASSUME NEW r \in Requests, SharedStep(r) PROVE records' = records
  BY <1>2 DEF SharedStep, StopMonitor, StartMonitor, Joined, Restore, RestoreFails
<1>3. ASSUME NEW k \in Rollbacks, RollbackStep(k),
             ~(EnterRollback(k) \/ RunTargetRaises(k) \/ EndRollback(k))
      PROVE  records' = records
  BY <1>3 DEF RollbackStep, ReplaceForRollback, RunTarget, RunTargetFails
<1>4. ASSUME NEW d \in Deploys, MonitorCancelled(d) \/ StopRequested(d)
      PROVE  records' = records
  BY <1>4 DEF MonitorCancelled, StopRequested
<1>5. ASSUME NEW d \in Deploys, NEW p \in Plans, Execute(d, p)
      PROVE  records' = records
  BY <1>5 DEF Execute
<1>6. ASSUME NEW k \in Rollbacks, NEW d \in Deploys, NEW pc, AskRollback(k, d, pc)
      PROVE  records' = records
  BY <1>6 DEF AskRollback
<1>7. ASSUME NEW p \in Plans, CancelPlan(p) PROVE records' = records
  BY <1>7 DEF CancelPlan
<1>8. UNCHANGED vars => records' = records
  BY DEF vars
<1>9. ASSUME NEW d \in Deploys, DeployStep(d)
      PROVE  \/ records' = records \/ KeepsReleases
             \/ Record(d) /\ RecordsRelease(d)
  BY <1>1, <1>9, ReleasesKept, ReleaseRecorded
<1>10. ASSUME NEW k \in Rollbacks, RollbackStep(k)
       PROVE  records' = records \/ KeepsReleases
  BY <1>3, <1>10, ReleasesKept
<1>11. ASSUME NEW d \in Deploys, Anomaly(d) \/ SignOff(d) \/ StopRequested(d)
       PROVE  records' = records \/ KeepsReleases
  BY <1>4, <1>11, ReleasesKept DEF SignOff
<1>12. Restart => LoadsReleases
  BY ReleasesLoaded
<1> QED
  BY <1>2, <1>5, <1>6, <1>7, <1>8, <1>9, <1>10, <1>11, <1>12 DEF Next

\* The file holds what it held, or all that is in memory.
LEMMA SavedWhole ==
    ASSUME [Next]_vars
    PROVE  saved' = saved \/ saved' = records'
<1> USE DEF dockerVars, verifierVars, historyVars, Save
<1>1. ASSUME NEW d \in Deploys, DeployStep(d)
      PROVE  saved' = saved \/ saved' = records'
  BY <1>1 DEF DeployStep, Enter, RefuseBuild, Build, Capture, Replace, Run, RunFails,
              Serves, Fails, Record, Pin, Prune
<1>2. ASSUME NEW r \in Requests, SharedStep(r)
      PROVE  saved' = saved \/ saved' = records'
  BY <1>2 DEF SharedStep, StopMonitor, StartMonitor, Joined, Restore, RestoreFails
<1>3. ASSUME NEW k \in Rollbacks, RollbackStep(k)
      PROVE  saved' = saved \/ saved' = records'
  BY <1>3 DEF RollbackStep, EnterRollback, ReplaceForRollback, RunTarget,
              RunTargetFails, RunTargetRaises, EndRollback
<1>4. ASSUME NEW d \in Deploys, SignOff(d) \/ StopRequested(d) \/ Anomaly(d)
      PROVE  saved' = saved \/ saved' = records'
  BY <1>4 DEF SignOff, MonitorEnds, MonitorCancelled, StopRequested, Anomaly, Judge
<1>5. ASSUME NEW d \in Deploys, NEW p \in Plans, Execute(d, p) PROVE saved' = saved
  BY <1>5 DEF Execute
<1>6. ASSUME NEW k \in Rollbacks, NEW d \in Deploys, NEW pc, AskRollback(k, d, pc)
      PROVE  saved' = saved
  BY <1>6 DEF AskRollback
<1>7. ASSUME NEW p \in Plans, CancelPlan(p) PROVE saved' = saved
  BY <1>7 DEF CancelPlan
<1>8. UNCHANGED vars \/ Restart => saved' = saved
  BY DEF vars, Restart
<1> QED
  BY <1>1, <1>2, <1>3, <1>4, <1>5, <1>6, <1>7, <1>8 DEF Next

\* Nothing is on disk that is not in memory.
LEMMA SavedKnownStep ==
    ASSUME TypeOK, PlacesOK, SavedKnown, [Next]_vars
    PROVE  SavedKnown'
<1>1. CASE saved' = records'
  BY <1>1 DEF SavedKnown, Recorded
<1>2. CASE saved' = saved /\ records' = records
  BY <1>2 DEF SavedKnown, Recorded
<1>3. CASE saved' = saved /\ KeepsReleases
  BY <1>3 DEF SavedKnown, KeepsReleases
<1>4. ASSUME saved' = saved, NEW d \in Deploys, Record(d), RecordsRelease(d)
      PROVE  SavedKnown'
  <2>1. d \notin Recorded
    BY <1>4 DEF Record, PlacesOK, DeployPlaced
  <2> QED
    BY <1>4, <2>1 DEF SavedKnown, RecordsRelease
<1>5. CASE saved' = saved /\ LoadsReleases
  BY <1>5 DEF SavedKnown, LoadsReleases
<1>6. saved' = saved \/ saved' = records'
  BY SavedWhole
<1>7. \/ records' = records \/ KeepsReleases \/ LoadsReleases
      \/ \E d \in Deploys : Record(d) /\ RecordsRelease(d)
  BY RecordsChange
<1> QED
  BY <1>1, <1>2, <1>3, <1>4, <1>5, <1>6, <1>7

\* A container changes hands only with the lock.
LEMMA OwnContainerStep ==
    ASSUME TypeOK, LockedOne, PlacesOK, OwnContainer, [Next]_vars
    PROVE  OwnContainer'
<1> USE RequestFacts, SameRecords
       DEF dockerVars, verifierVars, historyVars, Moves, Goes, Ends, Cleared, KeepsEnd
<1>1. ASSUME NEW d \in Deploys, NEW p \in Plans,
             Execute(d, p), ExecuteMove(d, p)
      PROVE  OwnContainer'
  BY <1>1 DEF Execute, ExecuteMove, OwnContainer, LockedOne, Critical
<1>2. ASSUME NEW d \in Deploys, Enter(d), EnterMove(d) PROVE OwnContainer'
  BY <1>2 DEF Enter, EnterMove, Leave, OwnContainer, LockedOne, Critical
<1>3. ASSUME NEW d \in Deploys, RefuseBuild(d), RefuseBuildMove(d)
      PROVE  OwnContainer'
  BY <1>3 DEF RefuseBuild, RefuseBuildMove, Leave, OwnContainer,
     LockedOne, Critical
<1>4. ASSUME NEW d \in Deploys, Build(d), BuildMove(d) PROVE OwnContainer'
  BY <1>4 DEF Build, BuildMove, OwnContainer, LockedOne, Critical
<1>5. ASSUME NEW d \in Deploys, Capture(d), CaptureMove(d) PROVE OwnContainer'
  BY <1>5 DEF Capture, CaptureMove, OwnContainer, LockedOne, Critical
<1>6. ASSUME NEW d \in Deploys, Replace(d), ReplaceMove(d) PROVE OwnContainer'
  BY <1>6 DEF Replace, ReplaceMove, Stopped, OwnContainer, LockedOne,
     Critical
<1>7. ASSUME NEW d \in Deploys, Run(d), RunMove(d) PROVE OwnContainer'
  BY <1>7 DEF Run, RunMove, OwnContainer, LockedOne, Critical
<1>8. ASSUME NEW d \in Deploys, RunFails(d), RunFailsMove(d)
      PROVE  OwnContainer'
  BY <1>8 DEF RunFails, RunFailsMove, Leave, PlacesOK, DeployPlaced,
     OwnContainer, LockedOne, Critical
<1>9. ASSUME NEW d \in Deploys, Serves(d), ServesMove(d) PROVE OwnContainer'
  BY <1>9 DEF Serves, ServesMove, OwnContainer, LockedOne, Critical
<1>10. ASSUME NEW d \in Deploys, Fails(d), FailsMove(d) PROVE OwnContainer'
  BY <1>10 DEF Fails, FailsMove, PlacesOK, DeployPlaced, OwnContainer,
     LockedOne, Critical
<1>11. ASSUME NEW d \in Deploys, Record(d), RecordMove(d) PROVE OwnContainer'
  BY <1>11 DEF Record, RecordMove, Leave, OwnContainer, LockedOne,
     Critical
<1>12. ASSUME NEW d \in Deploys, Pin(d), PinMove(d) PROVE OwnContainer'
  BY <1>12 DEF Pin, PinMove, OwnContainer, LockedOne, Critical
<1>13. ASSUME NEW d \in Deploys, Prune(d), PruneMove(d) PROVE OwnContainer'
  BY <1>13 DEF Prune, PruneMove, Leave, OwnContainer, LockedOne, Critical
<1>14. ASSUME NEW k \in Rollbacks, NEW d \in Deploys,
              NEW pc \in {"ask", "askCurrent"},
             AskRollback(k, d, pc), AskRollbackMove(k, d, pc)
      PROVE  OwnContainer'
  BY <1>14 DEF AskRollback, AskRollbackMove, OwnContainer, LockedOne,
     Critical
<1>15. ASSUME NEW k \in Rollbacks, EnterRollback(k), EnterRollbackMove(k)
      PROVE  OwnContainer'
  BY <1>15 DEF EnterRollback, EnterRollbackMove, OwnContainer, LockedOne,
     Critical
<1>16. ASSUME NEW k \in Rollbacks,
             ReplaceForRollback(k), ReplaceForRollbackMove(k)
      PROVE  OwnContainer'
  BY <1>16 DEF ReplaceForRollback, ReplaceForRollbackMove, Stopped,
     OwnContainer, LockedOne, Critical
<1>17. ASSUME NEW k \in Rollbacks, RunTarget(k), RunTargetMove(k)
      PROVE  OwnContainer'
  BY <1>17 DEF RunTarget, RunTargetMove, OwnContainer, LockedOne, Critical
<1>18. ASSUME NEW k \in Rollbacks, RunTargetFails(k), RunTargetFailsMove(k)
      PROVE  OwnContainer'
  BY <1>18 DEF RunTargetFails, RunTargetFailsMove, OwnContainer,
     LockedOne, Critical
<1>19. ASSUME NEW k \in Rollbacks, RunTargetRaises(k), RunTargetRaisesMove(k)
      PROVE  OwnContainer'
  BY <1>19 DEF RunTargetRaises, RunTargetRaisesMove, Leave, OwnContainer,
     LockedOne, Critical
<1>20. ASSUME NEW k \in Rollbacks, EndRollback(k), EndRollbackMove(k)
      PROVE  OwnContainer'
  BY <1>20 DEF EndRollback, EndRollbackMove, OwnContainer, LockedOne,
     Critical
<1>21. ASSUME NEW r \in Requests, NEW m \in Deploys,
             StopMonitor(r, m), StopMonitorMove(r, m)
      PROVE  OwnContainer'
  BY <1>21 DEF StopMonitor, StopMonitorMove, OwnContainer, LockedOne,
     Critical
<1>22. ASSUME NEW r \in Requests, StartMonitor(r), StartMonitorMove(r)
      PROVE  OwnContainer'
  BY <1>22 DEF StartMonitor, StartMonitorMove, PlacesOK, DeployPlaced,
     OwnContainer, LockedOne, Critical
<1>23. ASSUME NEW r \in Requests, Joined(r), JoinedMove(r) PROVE OwnContainer'
  BY <1>23 DEF Joined, JoinedMove, PlacesOK, DeployPlaced, OwnContainer,
     LockedOne, Critical
<1>24. ASSUME NEW r \in Requests, Restore(r), RestoreMove(r)
      PROVE  OwnContainer'
  <2>1. /\ container' = RestoreImage(r) /\ request[r].pc = "restore"
        /\ r \in Deploys => ~request[r].ok
        /\ r \in Deploys /\ request[r].source # None =>
             request[r].restore = <<"record", request[r].source>>
    BY <1>24 DEF Restore, PlacesOK, DeployPlaced
  <2>2. r \in Deploys /\ request[r].source # None /\ RestoreImage(r) # None =>
          RestoreImage(r) = request[r].source
    <3>1. request[r].source \in DeployOrNone
      BY RequestFields
    <3> QED
      BY <2>1, <3>1, ResolveNames, StableRefNames DEF RestoreImage, DeployOrNone
  <2>3. lock = r
    BY <2>1 DEF LockedOne, Critical
  <2>4. \A d \in Deploys \ {r} :
          request[d].pc \notin {"verdict", "record", "pin", "prune", "start"}
    BY <2>3 DEF LockedOne, Critical
  <2> QED
    BY <1>24, <2>1, <2>2, <2>4 DEF RestoreMove, OwnContainer
<1>25. ASSUME NEW r \in Requests, RestoreFails(r), RestoreFailsMove(r)
      PROVE  OwnContainer'
  BY <1>25 DEF RestoreFails, RestoreFailsMove, Leave, PlacesOK,
     DeployPlaced, OwnContainer, LockedOne, Critical
<1>26. ASSUME NEW d \in Deploys, Anomaly(d) PROVE OwnContainer'
  BY <1>26 DEF Anomaly, Judge, OwnContainer, LockedOne, Critical
<1>27. ASSUME NEW d \in Deploys, MonitorEnds(d) PROVE OwnContainer'
  BY <1>27 DEF MonitorEnds, Judge, OwnContainer, LockedOne, Critical
<1>28. ASSUME NEW d \in Deploys, MonitorCancelled(d) PROVE OwnContainer'
  BY <1>28 DEF MonitorCancelled, OwnContainer, LockedOne, Critical
<1>29. ASSUME NEW d \in Deploys, StopRequested(d) PROVE OwnContainer'
  BY <1>29 DEF StopRequested, OwnContainer, LockedOne, Critical
<1>30. ASSUME NEW p \in Plans, CancelPlan(p) PROVE OwnContainer'
  BY <1>30 DEF CancelPlan, OwnContainer, LockedOne, Critical
<1>31. CASE Restart
  BY <1>31 DEF Restart, Idle, Done, OwnContainer, LockedOne, Critical
<1>32. CASE UNCHANGED vars
  BY <1>32 DEF vars, OwnContainer, LockedOne, Critical
<1> QED
  BY <1>1, <1>2, <1>3, <1>4, <1>5, <1>6, <1>7, <1>8, <1>9, <1>10, <1>11,
     <1>12, <1>13, <1>14, <1>15, <1>16, <1>17, <1>18, <1>19, <1>20, <1>21,
     <1>22, <1>23, <1>24, <1>25, <1>26, <1>27, <1>28, <1>29, <1>30, <1>31,
     <1>32, RequestMoves DEF Next, DeployStep, RollbackStep, SharedStep,
     SignOff

\* A plan is used up with its record, and in no other.
LEMMA PlansUsedStep ==
    ASSUME TypeOK, LockedOne, PlacesOK, SavedKnown, PlansUsed, [Next]_vars
    PROVE  PlansUsed'
<1> USE RequestFacts, SameRecords
       DEF dockerVars, verifierVars, historyVars, Moves, Goes, Ends, KeepsPlan,
           KeepsEnd
<1>1. ASSUME NEW d \in Deploys, NEW p \in Plans,
             Execute(d, p), ExecuteMove(d, p)
      PROVE  PlansUsed'
  BY <1>1 DEF Execute, ExecuteMove, PlansUsed, Carried, LockedOne,
     Critical
<1>2. ASSUME NEW d \in Deploys, Enter(d), EnterMove(d) PROVE PlansUsed'
  BY <1>2 DEF Enter, EnterMove, Leave, PlansUsed, Carried, LockedOne,
     Critical
<1>3. ASSUME NEW d \in Deploys, RefuseBuild(d), RefuseBuildMove(d)
      PROVE  PlansUsed'
  BY <1>3 DEF RefuseBuild, RefuseBuildMove, Leave, PlansUsed, Carried,
     LockedOne, Critical
<1>4. ASSUME NEW d \in Deploys, Build(d), BuildMove(d) PROVE PlansUsed'
  BY <1>4 DEF Build, BuildMove, PlansUsed, Carried, LockedOne, Critical
<1>5. ASSUME NEW d \in Deploys, Capture(d), CaptureMove(d) PROVE PlansUsed'
  BY <1>5 DEF Capture, CaptureMove, PlansUsed, Carried, LockedOne,
     Critical
<1>6. ASSUME NEW d \in Deploys, Replace(d), ReplaceMove(d) PROVE PlansUsed'
  BY <1>6 DEF Replace, ReplaceMove, Stopped, PlansUsed, Carried,
     LockedOne, Critical
<1>7. ASSUME NEW d \in Deploys, Run(d), RunMove(d) PROVE PlansUsed'
  BY <1>7 DEF Run, RunMove, PlansUsed, Carried, LockedOne, Critical
<1>8. ASSUME NEW d \in Deploys, RunFails(d), RunFailsMove(d) PROVE PlansUsed'
  BY <1>8 DEF RunFails, RunFailsMove, Leave, PlansUsed, Carried,
     LockedOne, Critical
<1>9. ASSUME NEW d \in Deploys, Serves(d), ServesMove(d) PROVE PlansUsed'
  BY <1>9 DEF Serves, ServesMove, PlansUsed, Carried, LockedOne, Critical
<1>10. ASSUME NEW d \in Deploys, Fails(d), FailsMove(d) PROVE PlansUsed'
  BY <1>10 DEF Fails, FailsMove, PlansUsed, Carried, LockedOne, Critical
<1>11. ASSUME NEW d \in Deploys, Record(d), RecordMove(d), RecordsRelease(d)
      PROVE  PlansUsed'
  <2>1. /\ request[d].plan \in Plans /\ d \notin Recorded /\ Carried(d) /\ lock = d
        /\ request[d].pc = "record"
    BY <1>11 DEF Record, PlacesOK, DeployPlaced, Carried, LockedOne, Critical
  <2>2. /\ plan[request[d].plan] = "ready" => plan' = [plan EXCEPT ![request[d].plan] = "used"]
        /\ plan[request[d].plan] # "ready" => plan' = plan
        /\ plan \in [Plans -> {"ready", "used", "cancelled", "cut", "lost"}]
    BY <1>11 DEF Record, TypeOK
  <2>3. \A e \in Deploys \ {d} : ~Carried(e) \/ lock = e
    BY DEF Carried, LockedOne, Critical
  <2>4. \A e \in Deploys : Carried(e)' => FALSE
    <3>1. ~Carried(d)'
      BY <1>11 DEF RecordMove, Carried
    <3>2. ASSUME NEW e \in Deploys \ {d} PROVE ~Carried(e)'
      BY <1>11, <2>1, <2>3 DEF RecordMove, Carried
    <3> QED
      BY <3>1, <3>2
  <2>5. \A e \in Recorded' : records'[e].plan \in Plans /\ plan'[records'[e].plan] \in {"used", "cut"}
    BY <1>11, <2>1, <2>2 DEF RecordsRelease, PlansUsed, Recorded
  <2>6. \A e, f \in Recorded' : records'[e].plan = records'[f].plan => e = f
    BY <1>11, <2>1 DEF RecordsRelease, PlansUsed, Recorded
  <2> QED
    BY <2>4, <2>5, <2>6 DEF PlansUsed
<1>12. ASSUME NEW d \in Deploys, Pin(d), PinMove(d), KeepsReleases
      PROVE  PlansUsed'
  <2>1. plan' = plan
    BY <1>12 DEF Pin
  <2> QED
    BY <1>12, <2>1 DEF PinMove, KeepsReleases, PlansUsed, Carried, Recorded
<1>13. ASSUME NEW d \in Deploys, Prune(d), PruneMove(d) PROVE PlansUsed'
  BY <1>13 DEF Prune, PruneMove, Leave, PlansUsed, Carried, LockedOne,
     Critical
<1>14. ASSUME NEW k \in Rollbacks, NEW d \in Deploys,
              NEW pc \in {"ask", "askCurrent"},
             AskRollback(k, d, pc), AskRollbackMove(k, d, pc)
      PROVE  PlansUsed'
  BY <1>14 DEF AskRollback, AskRollbackMove, PlansUsed, Carried,
     LockedOne, Critical
<1>15. ASSUME NEW k \in Rollbacks,
             EnterRollback(k), EnterRollbackMove(k), KeepsReleases
      PROVE  PlansUsed'
  <2>1. plan' = plan
    BY <1>15 DEF EnterRollback
  <2> QED
    BY <1>15, <2>1 DEF EnterRollbackMove, KeepsReleases, PlansUsed, Carried, Recorded
<1>16. ASSUME NEW k \in Rollbacks,
             ReplaceForRollback(k), ReplaceForRollbackMove(k)
      PROVE  PlansUsed'
  BY <1>16 DEF ReplaceForRollback, ReplaceForRollbackMove, Stopped,
     PlansUsed, Carried, LockedOne, Critical
<1>17. ASSUME NEW k \in Rollbacks, RunTarget(k), RunTargetMove(k)
      PROVE  PlansUsed'
  BY <1>17 DEF RunTarget, RunTargetMove, PlansUsed, Carried, LockedOne,
     Critical
<1>18. ASSUME NEW k \in Rollbacks, RunTargetFails(k), RunTargetFailsMove(k)
      PROVE  PlansUsed'
  BY <1>18 DEF RunTargetFails, RunTargetFailsMove, PlansUsed, Carried,
     LockedOne, Critical
<1>19. ASSUME NEW k \in Rollbacks,
             RunTargetRaises(k), RunTargetRaisesMove(k), KeepsReleases
      PROVE  PlansUsed'
  BY <1>19 DEF RunTargetRaises, RunTargetRaisesMove, KeepsReleases, Leave,
     PlansUsed, Carried, LockedOne, Critical
<1>20. ASSUME NEW k \in Rollbacks,
             EndRollback(k), EndRollbackMove(k), KeepsReleases
      PROVE  PlansUsed'
  BY <1>20 DEF EndRollback, EndRollbackMove, KeepsReleases, PlansUsed,
     Carried, LockedOne, Critical
<1>21. ASSUME NEW r \in Requests, NEW m \in Deploys,
             StopMonitor(r, m), StopMonitorMove(r, m)
      PROVE  PlansUsed'
  BY <1>21 DEF StopMonitor, StopMonitorMove, PlansUsed, Carried,
     LockedOne, Critical
<1>22. ASSUME NEW r \in Requests, StartMonitor(r), StartMonitorMove(r)
      PROVE  PlansUsed'
  BY <1>22 DEF StartMonitor, StartMonitorMove, PlansUsed, Carried,
     LockedOne, Critical
<1>23. ASSUME NEW r \in Requests, Joined(r), JoinedMove(r) PROVE PlansUsed'
  BY <1>23 DEF Joined, JoinedMove, PlansUsed, Carried, LockedOne, Critical
<1>24. ASSUME NEW r \in Requests, Restore(r), RestoreMove(r) PROVE PlansUsed'
  BY <1>24 DEF Restore, RestoreMove, Leave, PlansUsed, Carried, LockedOne,
     Critical
<1>25. ASSUME NEW r \in Requests, RestoreFails(r), RestoreFailsMove(r)
      PROVE  PlansUsed'
  BY <1>25 DEF RestoreFails, RestoreFailsMove, Leave, PlansUsed, Carried,
     LockedOne, Critical
<1>26. ASSUME NEW d \in Deploys, Anomaly(d), KeepsReleases PROVE PlansUsed'
  BY <1>26 DEF Anomaly, KeepsReleases, Judge, PlansUsed, Carried,
     LockedOne, Critical
<1>27. ASSUME NEW d \in Deploys, MonitorEnds(d), KeepsReleases
      PROVE  PlansUsed'
  BY <1>27 DEF MonitorEnds, KeepsReleases, Judge, PlansUsed, Carried,
     LockedOne, Critical
<1>28. ASSUME NEW d \in Deploys, MonitorCancelled(d) PROVE PlansUsed'
  BY <1>28 DEF MonitorCancelled, PlansUsed, Carried, LockedOne, Critical
<1>29. ASSUME NEW d \in Deploys, StopRequested(d) PROVE PlansUsed'
  BY <1>29 DEF StopRequested, PlansUsed, Carried, LockedOne, Critical
<1>30. ASSUME NEW p \in Plans, CancelPlan(p) PROVE PlansUsed'
  <2>1. /\ records' = records /\ request' = request /\ plan[p] = "ready"
        /\ plan' = [plan EXCEPT ![p] = IF Executing(p) THEN "cut" ELSE "cancelled"]
        /\ plan \in [Plans -> {"ready", "used", "cancelled", "cut", "lost"}]
    BY <1>30 DEF CancelPlan, TypeOK
  <2>2. \A d \in Deploys : Carried(d) /\ request[d].plan = p => Executing(p)
    BY DEF Carried, LockedOne, Critical, Executing
  <2>3. \A d \in Deploys : Carried(d) => request[d].plan \in Plans
    BY DEF Carried, PlacesOK, DeployPlaced
  <2> QED
    BY <2>1, <2>2, <2>3 DEF PlansUsed, Carried
<1>31. ASSUME Restart, LoadsReleases PROVE PlansUsed'
  <2>1. \A d \in Deploys : ~Carried(d)'
    BY <1>31 DEF Restart, Idle, Done, Carried
  <2>2. \A d \in Recorded' : d \in Recorded /\ records'[d].plan = records[d].plan
    BY <1>31 DEF LoadsReleases, SavedKnown, Recorded
  <2>3. \A p \in Plans : plan[p] \in {"used", "cut"} => plan'[p] = plan[p]
    BY <1>31 DEF Restart
  <2> QED
    BY <2>1, <2>2, <2>3 DEF PlansUsed
<1>32. CASE UNCHANGED vars
  BY <1>32 DEF vars, PlansUsed, Carried, LockedOne, Critical
<1> QED
  BY <1>1, <1>2, <1>3, <1>4, <1>5, <1>6, <1>7, <1>8, <1>9, <1>10, <1>11,
     <1>12, <1>13, <1>14, <1>15, <1>16, <1>17, <1>18, <1>19, <1>20, <1>21,
     <1>22, <1>23, <1>24, <1>25, <1>26, <1>27, <1>28, <1>29, <1>30, <1>31,
     <1>32, RequestMoves, ReleasesKept, ReleaseRecorded, ReleasesLoaded DEF
     Next, DeployStep, RollbackStep, SharedStep, SignOff

\* A record says that its rollback is running only while it is.
LEMMA RollbackSettlesStep ==
    ASSUME TypeOK, LockedOne, PlacesOK, RollbackSettles, [Next]_vars
    PROVE  RollbackSettles'
<1> USE RequestFacts, SameRecords
       DEF dockerVars, verifierVars, historyVars, Moves, Goes, Ends, KeepsChoice
<1>1. ASSUME NEW d \in Deploys, NEW p \in Plans,
             Execute(d, p), ExecuteMove(d, p)
      PROVE  RollbackSettles'
  BY <1>1 DEF Execute, ExecuteMove, RollbackSettles, LockedOne, Critical
<1>2. ASSUME NEW d \in Deploys, Enter(d), EnterMove(d) PROVE RollbackSettles'
  BY <1>2 DEF Enter, EnterMove, Leave, RollbackSettles, LockedOne,
     Critical
<1>3. ASSUME NEW d \in Deploys, RefuseBuild(d), RefuseBuildMove(d)
      PROVE  RollbackSettles'
  BY <1>3 DEF RefuseBuild, RefuseBuildMove, Leave, RollbackSettles,
     LockedOne, Critical
<1>4. ASSUME NEW d \in Deploys, Build(d), BuildMove(d) PROVE RollbackSettles'
  BY <1>4 DEF Build, BuildMove, RollbackSettles, LockedOne, Critical
<1>5. ASSUME NEW d \in Deploys, Capture(d), CaptureMove(d)
      PROVE  RollbackSettles'
  BY <1>5 DEF Capture, CaptureMove, RollbackSettles, LockedOne, Critical
<1>6. ASSUME NEW d \in Deploys, Replace(d), ReplaceMove(d)
      PROVE  RollbackSettles'
  BY <1>6 DEF Replace, ReplaceMove, Stopped, RollbackSettles, LockedOne,
     Critical
<1>7. ASSUME NEW d \in Deploys, Run(d), RunMove(d) PROVE RollbackSettles'
  BY <1>7 DEF Run, RunMove, RollbackSettles, LockedOne, Critical
<1>8. ASSUME NEW d \in Deploys, RunFails(d), RunFailsMove(d)
      PROVE  RollbackSettles'
  BY <1>8 DEF RunFails, RunFailsMove, Leave, RollbackSettles, LockedOne,
     Critical
<1>9. ASSUME NEW d \in Deploys, Serves(d), ServesMove(d)
      PROVE  RollbackSettles'
  BY <1>9 DEF Serves, ServesMove, RollbackSettles, LockedOne, Critical
<1>10. ASSUME NEW d \in Deploys, Fails(d), FailsMove(d) PROVE RollbackSettles'
  BY <1>10 DEF Fails, FailsMove, RollbackSettles, LockedOne, Critical
<1>11. ASSUME NEW d \in Deploys, Record(d), RecordMove(d), RecordsRelease(d)
      PROVE  RollbackSettles'
  <2>1. lock = d
    BY <1>11 DEF Record, LockedOne, Critical
  <2>2. \A e \in Deploys : records[e].rollback # "running"
    BY <2>1 DEF RollbackSettles
  <2> QED
    BY <1>11, <2>2 DEF RecordsRelease, RollbackSettles
<1>12. ASSUME NEW d \in Deploys, Pin(d), PinMove(d), KeepsReleases
      PROVE  RollbackSettles'
  <2>1. lock = d
    BY <1>12 DEF Pin, LockedOne, Critical
  <2>2. \A e \in Deploys : records[e].rollback # "running"
    BY <2>1 DEF RollbackSettles
  <2>3. \A e \in Deploys : records'[e].rollback = records[e].rollback
    BY <1>12 DEF Pin, TypeOK, RecordType
  <2> QED
    BY <2>2, <2>3 DEF RollbackSettles
<1>13. ASSUME NEW d \in Deploys, Prune(d), PruneMove(d) PROVE RollbackSettles'
  BY <1>13 DEF Prune, PruneMove, Leave, RollbackSettles, LockedOne,
     Critical
<1>14. ASSUME NEW k \in Rollbacks, NEW d \in Deploys,
              NEW pc \in {"ask", "askCurrent"},
             AskRollback(k, d, pc), AskRollbackMove(k, d, pc)
      PROVE  RollbackSettles'
  BY <1>14 DEF AskRollback, AskRollbackMove, RollbackSettles, LockedOne,
     Critical
<1>15. ASSUME NEW k \in Rollbacks,
             EnterRollback(k), EnterRollbackMove(k), KeepsReleases
      PROVE  RollbackSettles'
  <2>1. lock = None
    BY <1>15 DEF EnterRollback
  <2>2. \A e \in Deploys : records[e].rollback # "running"
    BY <2>1 DEF RollbackSettles
  <2>3. \/ records' = records
        \/ lock' = k /\ records' = [records EXCEPT ![request[k].of].rollback = "running"]
                     /\ request'[k].of = request[k].of
    BY <1>15 DEF EnterRollbackMove
  <2>4. records \in [Deploys -> RecordType]
    BY DEF TypeOK
  <2> QED
    BY <2>2, <2>3, <2>4 DEF RollbackSettles, RecordType
<1>16. ASSUME NEW k \in Rollbacks,
             ReplaceForRollback(k), ReplaceForRollbackMove(k)
      PROVE  RollbackSettles'
  BY <1>16 DEF ReplaceForRollback, ReplaceForRollbackMove, Stopped,
     RollbackSettles, LockedOne, Critical
<1>17. ASSUME NEW k \in Rollbacks, RunTarget(k), RunTargetMove(k)
      PROVE  RollbackSettles'
  BY <1>17 DEF RunTarget, RunTargetMove, RollbackSettles, LockedOne,
     Critical
<1>18. ASSUME NEW k \in Rollbacks, RunTargetFails(k), RunTargetFailsMove(k)
      PROVE  RollbackSettles'
  BY <1>18 DEF RunTargetFails, RunTargetFailsMove, RollbackSettles,
     LockedOne, Critical
<1>19. ASSUME NEW k \in Rollbacks,
             RunTargetRaises(k), RunTargetRaisesMove(k), KeepsReleases
      PROVE  RollbackSettles'
  <2>1. lock = k
    BY <1>19 DEF RunTargetRaises, LockedOne, Critical
  <2>2. \A e \in Deploys : records[e].rollback = "running" => e = request[k].of
    BY <2>1 DEF RollbackSettles
  <2>3. records' = [records EXCEPT ![request[k].of].rollback = "failed"]
    BY <1>19 DEF RunTargetRaises
  <2>4. records \in [Deploys -> RecordType]
    BY DEF TypeOK
  <2> QED
    BY <2>2, <2>3, <2>4 DEF RollbackSettles, RecordType
<1>20. ASSUME NEW k \in Rollbacks,
             EndRollback(k), EndRollbackMove(k), KeepsReleases
      PROVE  RollbackSettles'
  <2> DEFINE status == IF request[k].ok THEN "rolled_back" ELSE "failed"
             outcome == IF request[k].ok THEN "succeeded" ELSE "failed"
  <2>1. lock = k
    BY <1>20 DEF EndRollback, LockedOne, Critical
  <2>2. \A e \in Deploys : records[e].rollback = "running" => e = request[k].of
    BY <2>1 DEF RollbackSettles
  <2>3. records' = [records EXCEPT ![request[k].of] =
                       [@ EXCEPT !.status = status, !.rollback = outcome]]
    BY <1>20 DEF EndRollback
  <2>4. records \in [Deploys -> RecordType] /\ outcome # "running"
    BY DEF TypeOK
  <2> HIDE DEF status, outcome
  <2> QED
    BY <2>2, <2>3, <2>4 DEF RollbackSettles, RecordType
<1>21. ASSUME NEW r \in Requests, NEW m \in Deploys,
             StopMonitor(r, m), StopMonitorMove(r, m)
      PROVE  RollbackSettles'
  BY <1>21 DEF StopMonitor, StopMonitorMove, RollbackSettles, LockedOne,
     Critical
<1>22. ASSUME NEW r \in Requests, StartMonitor(r), StartMonitorMove(r)
      PROVE  RollbackSettles'
  BY <1>22 DEF StartMonitor, StartMonitorMove, RollbackSettles, LockedOne,
     Critical
<1>23. ASSUME NEW r \in Requests, Joined(r), JoinedMove(r)
      PROVE  RollbackSettles'
  BY <1>23 DEF Joined, JoinedMove, RollbackSettles, LockedOne, Critical
<1>24. ASSUME NEW r \in Requests, Restore(r), RestoreMove(r)
      PROVE  RollbackSettles'
  BY <1>24 DEF Restore, RestoreMove, Leave, RollbackSettles, LockedOne,
     Critical
<1>25. ASSUME NEW r \in Requests, RestoreFails(r), RestoreFailsMove(r)
      PROVE  RollbackSettles'
  BY <1>25 DEF RestoreFails, RestoreFailsMove, Leave, RollbackSettles,
     LockedOne, Critical
<1>26. ASSUME NEW d \in Deploys, Anomaly(d), KeepsReleases
      PROVE  RollbackSettles'
  BY <1>26 DEF Anomaly, KeepsReleases, Judge, RollbackSettles, LockedOne,
     Critical
<1>27. ASSUME NEW d \in Deploys, MonitorEnds(d), KeepsReleases
      PROVE  RollbackSettles'
  BY <1>27 DEF MonitorEnds, KeepsReleases, Judge, RollbackSettles,
     LockedOne, Critical
<1>28. ASSUME NEW d \in Deploys, MonitorCancelled(d) PROVE RollbackSettles'
  BY <1>28 DEF MonitorCancelled, RollbackSettles, LockedOne, Critical
<1>29. ASSUME NEW d \in Deploys, StopRequested(d) PROVE RollbackSettles'
  BY <1>29 DEF StopRequested, RollbackSettles, LockedOne, Critical
<1>30. ASSUME NEW p \in Plans, CancelPlan(p) PROVE RollbackSettles'
  BY <1>30 DEF CancelPlan, RollbackSettles, LockedOne, Critical
<1>31. ASSUME Restart, LoadsReleases PROVE RollbackSettles'
  BY <1>31 DEF LoadsReleases, RollbackSettles
<1>32. CASE UNCHANGED vars
  BY <1>32 DEF vars, RollbackSettles, LockedOne, Critical
<1> QED
  BY <1>1, <1>2, <1>3, <1>4, <1>5, <1>6, <1>7, <1>8, <1>9, <1>10, <1>11,
     <1>12, <1>13, <1>14, <1>15, <1>16, <1>17, <1>18, <1>19, <1>20, <1>21,
     <1>22, <1>23, <1>24, <1>25, <1>26, <1>27, <1>28, <1>29, <1>30, <1>31,
     <1>32, RequestMoves, ReleasesKept, ReleaseRecorded, ReleasesLoaded DEF
     Next, DeployStep, RollbackStep, SharedStep, SignOff

LEMMA FaultsTyped == TypeOK => faults \in Nat /\ crashes \in Nat
BY DEF TypeOK

-----------------------------------------------------------------------------
(* What is put back. *)

\* Which steps change what: the plans, the pins, the builds, the history.
LEMMA WhoChanges ==
    ASSUME [Next]_vars
    PROVE  /\ \/ plan' = plan \/ Restart
              \/ \E p \in Plans : CancelPlan(p)
              \/ \E d \in Deploys : Record(d)
           /\ pins' = pins \/ \E d \in Deploys : Pin(d) \/ Prune(d)
           /\ built' = built \/ \E d \in Deploys : Build(d)
           /\ drift' = drift \/ \E d \in Deploys : Anomaly(d) \/ MonitorEnds(d)
           /\ loose' = loose \/ \E k \in Rollbacks : EnterRollback(k)
           /\ crashes' = crashes \/ Restart
<1> USE DEF dockerVars, verifierVars, historyVars
<1> DEFINE same == UNCHANGED <<plan, pins, built, drift, loose, crashes>>
<1>1. ASSUME NEW d \in Deploys, DeployStep(d),
             ~Record(d), ~Pin(d), ~Prune(d), ~Build(d)
      PROVE  same
  BY <1>1 DEF DeployStep, Enter, RefuseBuild, Capture, Replace, Run, RunFails, Serves,
              Fails
<1>2. ASSUME NEW d \in Deploys
      PROVE  /\ Record(d) => UNCHANGED <<pins, built, drift, loose, crashes>>
             /\ Pin(d) \/ Prune(d) => UNCHANGED <<plan, built, drift, loose, crashes>>
             /\ Build(d) => UNCHANGED <<plan, pins, drift, loose, crashes>>
  BY DEF Record, Pin, Prune, Build
<1>3. ASSUME NEW r \in Requests, SharedStep(r) PROVE same
  BY <1>3 DEF SharedStep, StopMonitor, StartMonitor, Joined, Restore, RestoreFails
<1>4. ASSUME NEW k \in Rollbacks, RollbackStep(k), ~EnterRollback(k) PROVE same
  BY <1>4 DEF RollbackStep, ReplaceForRollback, RunTarget, RunTargetFails,
              RunTargetRaises, EndRollback
<1>5. ASSUME NEW k \in Rollbacks, EnterRollback(k)
      PROVE  UNCHANGED <<plan, pins, built, drift, crashes>>
  BY <1>5 DEF EnterRollback
<1>6. ASSUME NEW d \in Deploys, MonitorCancelled(d) \/ StopRequested(d) PROVE same
  BY <1>6 DEF MonitorCancelled, StopRequested
<1>7. ASSUME NEW d \in Deploys, Anomaly(d) \/ MonitorEnds(d)
      PROVE  UNCHANGED <<plan, pins, built, loose, crashes>>
  BY <1>7 DEF Anomaly, MonitorEnds
<1>8. ASSUME NEW d \in Deploys, NEW p \in Plans, Execute(d, p) PROVE same
  BY <1>8 DEF Execute
<1>9. ASSUME NEW k \in Rollbacks, NEW d \in Deploys, NEW pc, AskRollback(k, d, pc)
      PROVE  same
  BY <1>9 DEF AskRollback
<1>10. ASSUME NEW p \in Plans, CancelPlan(p)
       PROVE  UNCHANGED <<pins, built, drift, loose, crashes>>
  BY <1>10 DEF CancelPlan
<1>11. Restart => UNCHANGED <<pins, built, drift, loose>>
  BY DEF Restart
<1>12. UNCHANGED vars => same
  BY DEF vars
<1> QED
  BY <1>1, <1>2, <1>3, <1>4, <1>5, <1>6, <1>7, <1>8, <1>9, <1>10, <1>11, <1>12
     DEF Next, SignOff

\* What has failed has failed.
LEMMA FaultsStay ==
    ASSUME TypeOK, [Next]_vars
    PROVE  (faults' = 0 => faults = 0) /\ (crashes' = 0 => crashes = 0)
<1> USE FaultsTyped DEF dockerVars, verifierVars, historyVars, Save, Fault
<1>1. ASSUME NEW d \in Deploys, DeployStep(d) PROVE faults' \in {faults, faults + 1}
  BY <1>1 DEF DeployStep, Enter, RefuseBuild, Build, Capture, Replace, Run, RunFails,
              Serves, Fails, Record, Pin, Prune
<1>2. ASSUME NEW r \in Requests, SharedStep(r) PROVE faults' \in {faults, faults + 1}
  BY <1>2 DEF SharedStep, StopMonitor, StartMonitor, Joined, Restore, RestoreFails
<1>3. ASSUME NEW k \in Rollbacks, RollbackStep(k)
      PROVE  faults' \in {faults, faults + 1}
  BY <1>3 DEF RollbackStep, EnterRollback, ReplaceForRollback, RunTarget,
              RunTargetFails, RunTargetRaises, EndRollback
<1>4. ASSUME NEW d \in Deploys, SignOff(d) \/ StopRequested(d) \/ Anomaly(d)
      PROVE  faults' \in {faults, faults + 1}
  BY <1>4 DEF SignOff, MonitorEnds, MonitorCancelled, StopRequested, Anomaly, Judge
<1>5. ASSUME NEW d \in Deploys, NEW p \in Plans, Execute(d, p) PROVE faults' = faults
  BY <1>5 DEF Execute
<1>6. ASSUME NEW k \in Rollbacks, NEW d \in Deploys, NEW pc, AskRollback(k, d, pc)
      PROVE  faults' = faults
  BY <1>6 DEF AskRollback
<1>7. ASSUME NEW p \in Plans, CancelPlan(p) PROVE faults' = faults
  BY <1>7 DEF CancelPlan
<1>8. UNCHANGED vars \/ Restart => faults' = faults
  BY DEF vars, Restart
<1>9. faults' \in {faults, faults + 1}
  BY <1>1, <1>2, <1>3, <1>4, <1>5, <1>6, <1>7, <1>8 DEF Next
<1>10. crashes' = crashes \/ crashes' = crashes + 1
  BY WhoChanges DEF Restart
<1> QED
  BY <1>9, <1>10

\* The history variables only grow.
LEMMA HistoryStays ==
    ASSUME [Next]_vars
    PROVE  (drift => drift') /\ (loose => loose')
<1>1. \A d \in Deploys : Anomaly(d) \/ MonitorEnds(d) => (drift => drift')
  BY DEF Anomaly, MonitorEnds, Judge
<1>2. \A k \in Rollbacks : EnterRollback(k) => (loose => loose')
  BY DEF EnterRollback
<1> QED
  BY <1>1, <1>2, WhoChanges

\* A cancelled plan that was being carried out stays so.
LEMMA CutStays ==
    ASSUME TypeOK, [Next]_vars, NEW p \in Plans, plan[p] = "cut"
    PROVE  plan'[p] = "cut"
<1>1. plan \in [Plans -> {"ready", "used", "cancelled", "cut", "lost"}]
  BY DEF TypeOK
<1>2. ASSUME NEW q \in Plans, CancelPlan(q) PROVE plan'[p] = "cut"
  <2>1. q # p /\ \E w : plan' = [plan EXCEPT ![q] = w]
    BY <1>2 DEF CancelPlan
  <2> QED
    BY <1>1, <2>1
<1>3. ASSUME NEW d \in Deploys, Record(d) PROVE plan'[p] = "cut"
  BY <1>1, <1>3 DEF Record
<1>4. Restart => plan'[p] = "cut"
  BY DEF Restart
<1> QED
  BY <1>2, <1>3, <1>4, WhoChanges

LEMMA PinsChange ==
    ASSUME TypeOK, [Next]_vars
    PROVE  \/ built' = built /\ pins \subseteq pins'
           \/ \E d \in Deploys : Prune(d) \/ Build(d)
<1>1. \A d \in Deploys : Pin(d) => pins \subseteq pins'
  BY DEF Pin
<1> QED
  BY <1>1, WhoChanges

\* The source of a deployment stays, is forgotten, or is taken from the records.
SourcesMove ==
    \A e \in Deploys :
        \/ request'[e].source \in {None, request[e].source}
        \/ request'[e].source = RollbackSource /\ records' = records

LEMMA SourceChange ==
    ASSUME TypeOK, [Next]_vars
    PROVE  SourcesMove
<1> USE RequestFacts, SameRecords
       DEF SourcesMove, dockerVars, verifierVars, historyVars, Moves, Goes, Ends,
           Cleared, KeepsSource
<1>1. ASSUME NEW d \in Deploys, NEW p \in Plans,
             Execute(d, p), ExecuteMove(d, p)
      PROVE  SourcesMove
  BY <1>1 DEF Execute, ExecuteMove
<1>2. ASSUME NEW d \in Deploys, Enter(d), EnterMove(d)
      PROVE  SourcesMove
  BY <1>2 DEF Enter, EnterMove, Leave
<1>3. ASSUME NEW d \in Deploys, RefuseBuild(d), RefuseBuildMove(d)
      PROVE  SourcesMove
  BY <1>3 DEF RefuseBuild, RefuseBuildMove, Leave
<1>4. ASSUME NEW d \in Deploys, Build(d), BuildMove(d)
      PROVE  SourcesMove
  BY <1>4 DEF Build, BuildMove
<1>5. ASSUME NEW d \in Deploys, Capture(d), CaptureMove(d)
      PROVE  SourcesMove
  BY <1>5 DEF Capture, CaptureMove
<1>6. ASSUME NEW d \in Deploys, Replace(d), ReplaceMove(d)
      PROVE  SourcesMove
  BY <1>6 DEF Replace, ReplaceMove, Stopped
<1>7. ASSUME NEW d \in Deploys, Run(d), RunMove(d)
      PROVE  SourcesMove
  BY <1>7 DEF Run, RunMove
<1>8. ASSUME NEW d \in Deploys, RunFails(d), RunFailsMove(d)
      PROVE  SourcesMove
  BY <1>8 DEF RunFails, RunFailsMove, Leave
<1>9. ASSUME NEW d \in Deploys, Serves(d), ServesMove(d)
      PROVE  SourcesMove
  BY <1>9 DEF Serves, ServesMove
<1>10. ASSUME NEW d \in Deploys, Fails(d), FailsMove(d)
      PROVE  SourcesMove
  BY <1>10 DEF Fails, FailsMove
<1>11. ASSUME NEW d \in Deploys, Record(d), RecordMove(d)
      PROVE  SourcesMove
  BY <1>11 DEF Record, RecordMove, Leave
<1>12. ASSUME NEW d \in Deploys, Pin(d), PinMove(d)
      PROVE  SourcesMove
  BY <1>12 DEF Pin, PinMove
<1>13. ASSUME NEW d \in Deploys, Prune(d), PruneMove(d)
      PROVE  SourcesMove
  BY <1>13 DEF Prune, PruneMove, Leave
<1>14. ASSUME NEW k \in Rollbacks, NEW d \in Deploys,
              NEW pc \in {"ask", "askCurrent"},
             AskRollback(k, d, pc), AskRollbackMove(k, d, pc)
      PROVE  SourcesMove
  BY <1>14 DEF AskRollback, AskRollbackMove
<1>15. ASSUME NEW k \in Rollbacks, EnterRollback(k), EnterRollbackMove(k)
      PROVE  SourcesMove
  BY <1>15 DEF EnterRollback, EnterRollbackMove
<1>16. ASSUME NEW k \in Rollbacks,
             ReplaceForRollback(k), ReplaceForRollbackMove(k)
      PROVE  SourcesMove
  BY <1>16 DEF ReplaceForRollback, ReplaceForRollbackMove, Stopped
<1>17. ASSUME NEW k \in Rollbacks, RunTarget(k), RunTargetMove(k)
      PROVE  SourcesMove
  BY <1>17 DEF RunTarget, RunTargetMove
<1>18. ASSUME NEW k \in Rollbacks, RunTargetFails(k), RunTargetFailsMove(k)
      PROVE  SourcesMove
  BY <1>18 DEF RunTargetFails, RunTargetFailsMove
<1>19. ASSUME NEW k \in Rollbacks, RunTargetRaises(k), RunTargetRaisesMove(k)
      PROVE  SourcesMove
  BY <1>19 DEF RunTargetRaises, RunTargetRaisesMove, Leave
<1>20. ASSUME NEW k \in Rollbacks, EndRollback(k), EndRollbackMove(k)
      PROVE  SourcesMove
  BY <1>20 DEF EndRollback, EndRollbackMove
<1>21. ASSUME NEW r \in Requests, NEW m \in Deploys,
             StopMonitor(r, m), StopMonitorMove(r, m)
      PROVE  SourcesMove
  BY <1>21 DEF StopMonitor, StopMonitorMove
<1>22. ASSUME NEW r \in Requests, StartMonitor(r), StartMonitorMove(r)
      PROVE  SourcesMove
  BY <1>22 DEF StartMonitor, StartMonitorMove
<1>23. ASSUME NEW r \in Requests, Joined(r), JoinedMove(r)
      PROVE  SourcesMove
  BY <1>23 DEF Joined, JoinedMove
<1>24. ASSUME NEW r \in Requests, Restore(r), RestoreMove(r)
      PROVE  SourcesMove
  BY <1>24 DEF Restore, RestoreMove, Leave
<1>25. ASSUME NEW r \in Requests, RestoreFails(r), RestoreFailsMove(r)
      PROVE  SourcesMove
  BY <1>25 DEF RestoreFails, RestoreFailsMove, Leave
<1>26. ASSUME NEW d \in Deploys, Anomaly(d)
      PROVE  SourcesMove
  BY <1>26 DEF Anomaly, Judge
<1>27. ASSUME NEW d \in Deploys, MonitorEnds(d)
      PROVE  SourcesMove
  BY <1>27 DEF MonitorEnds, Judge
<1>28. ASSUME NEW d \in Deploys, MonitorCancelled(d)
      PROVE  SourcesMove
  BY <1>28 DEF MonitorCancelled
<1>29. ASSUME NEW d \in Deploys, StopRequested(d)
      PROVE  SourcesMove
  BY <1>29 DEF StopRequested
<1>30. ASSUME NEW p \in Plans, CancelPlan(p)
      PROVE  SourcesMove
  BY <1>30 DEF CancelPlan
<1>31. CASE Restart
  BY <1>31 DEF Restart, Idle, Done
<1>32. CASE UNCHANGED vars
  BY <1>32 DEF vars
<1> QED
  BY <1>1, <1>2, <1>3, <1>4, <1>5, <1>6, <1>7, <1>8, <1>9, <1>10, <1>11,
     <1>12, <1>13, <1>14, <1>15, <1>16, <1>17, <1>18, <1>19, <1>20, <1>21,
     <1>22, <1>23, <1>24, <1>25, <1>26, <1>27, <1>28, <1>29, <1>30, <1>31,
     <1>32, RequestMoves DEF Next, DeployStep, RollbackStep, SharedStep,
     SignOff

\* A source keeps a stable reference.
LEMMA SourcesStableStep ==
    ASSUME TypeOK, PlacesOK, SourcesStable, [Next]_vars
    PROVE  SourcesStable'
<1>1. CASE Restart
  BY <1>1 DEF Restart, Idle, Done, SourcesStable, Requests
<1>2. ASSUME NEW s \in Recorded, StableRef(records, s) # None, ~Restart
      PROVE  StableRef(records', s) # None
  <2>1. s \in Deploys /\ <<"pin", s>> # None /\ <<"id", s>> # None
    BY DeployAssumption DEF Recorded
  <2>2. records[s].pinned \/ records[s].id
    BY <1>2 DEF StableRef
  <2>3. CASE KeepsReleases
    BY <2>1, <2>2, <2>3 DEF KeepsReleases, StableRef
  <2>4. ASSUME NEW e \in Deploys, Record(e), RecordsRelease(e)
        PROVE  StableRef(records', s) # None
    <3>1. e \notin Recorded
      BY <2>4 DEF Record, PlacesOK, DeployPlaced
    <3>2. records'[s] = records[s]
      BY <2>1, <2>4, <3>1 DEF RecordsRelease
    <3> QED
      BY <2>1, <2>2, <3>2 DEF StableRef
  <2>5. CASE records' = records
    BY <1>2, <2>5
  <2> QED
    BY <1>2, <2>3, <2>4, <2>5, RecordsChange
<1>3. ASSUME NEW d \in Deploys, request'[d].source # None, ~Restart
      PROVE  StableRef(records', request'[d].source) # None
  <2>1. \/ request'[d].source = request[d].source
        \/ request'[d].source = RollbackSource
    BY <1>3, SourceChange DEF SourcesMove
  <2>2. request'[d].source \in Recorded /\ StableRef(records, request'[d].source) # None
    BY <1>3, <2>1, SourceAndTarget
       DEF Eligible, SourcesStable, PlacesOK, DeployPlaced, TypeOK
  <2> QED
    BY <1>2, <1>3, <2>2
<1> QED
  BY <1>1, <1>3 DEF SourcesStable

\* What a request has to put back can be put back.
LEMMA PutsBack ==
    ASSUME TypeOK, PlacesOK, SourcesStable, PriorsHeld, NEW r \in Requests,
           PutBackKept(r), request[r].pc \in {"stop", "run", "verdict", "restore"},
           r \in Rollbacks => request[r].pc # "stop"
    PROVE  request[r].restore # None /\ RestoreImage(r) # None
<1>1. /\ request[r].prior \in Images /\ request[r].prior # None
      /\ Resolve(<<"id", request[r].prior>>) = request[r].prior
      /\ <<"id", request[r].prior>> # None
  BY RequestFacts, DeployAssumption DEF PutBackKept, TypeOK, Images, Resolve, Kept
<1>2. CASE request[r].source = None
  BY <1>1, <1>2 DEF PriorsHeld, PriorFound, RestoreImage
<1>3. CASE request[r].source # None
  <2> DEFINE s == request[r].source
  <2>1. r \in Deploys /\ s \in Deploys /\ s \in pins /\ s # None
    BY <1>3, RequestFacts DEF PriorsHeld, PriorFound, PutBackKept, TypeOK
  <2>2. request[r].restore = <<"record", s>>
    BY <1>3, <2>1 DEF PlacesOK, DeployPlaced
  <2>3. StableRef(records, s) \in {<<"pin", s>>, <<"id", s>>}
    BY <1>3, <2>1 DEF SourcesStable, StableRef
  <2>4. /\ <<"record", s>> # None /\ <<"pin", s>> # None /\ <<"id", s>> # None
    BY <2>1, DeployAssumption
  <2> HIDE DEF s
  <2>5. Resolve(StableRef(records, s)) = s
    BY <2>1, <2>3, <2>4 DEF Resolve, Kept
  <2> QED
    BY <2>1, <2>2, <2>4, <2>5 DEF RestoreImage
<1> QED
  BY <1>2, <1>3

\* The container found is kept in mind until it is put back.
LEMMA PriorFoundStep ==
    ASSUME TypeOK, PlacesOK, PriorsHeld, [Next]_vars
    PROVE  (\A q \in Requests : PriorFound(q))'
<1> USE RequestFacts, SameRecords
       DEF dockerVars, verifierVars, historyVars, Moves, Goes, Ends, Cleared,
           KeepsSource, KeepsWay
<1>1. ASSUME NEW d \in Deploys, NEW p \in Plans,
             Execute(d, p), ExecuteMove(d, p)
      PROVE  (\A q \in Requests : PriorFound(q))'
  BY <1>1 DEF Execute, ExecuteMove, PriorsHeld, PriorFound
<1>2. ASSUME NEW d \in Deploys, Enter(d), EnterMove(d)
      PROVE  (\A q \in Requests : PriorFound(q))'
  BY <1>2 DEF Enter, EnterMove, Leave, PriorsHeld, PriorFound
<1>3. ASSUME NEW d \in Deploys, RefuseBuild(d), RefuseBuildMove(d)
      PROVE  (\A q \in Requests : PriorFound(q))'
  BY <1>3 DEF RefuseBuild, RefuseBuildMove, Leave, PriorsHeld, PriorFound
<1>4. ASSUME NEW d \in Deploys, Build(d), BuildMove(d)
      PROVE  (\A q \in Requests : PriorFound(q))'
  BY <1>4 DEF Build, BuildMove, PlacesOK, DeployPlaced, PriorsHeld,
     PriorFound
<1>5. ASSUME NEW d \in Deploys, Capture(d), CaptureMove(d)
      PROVE  (\A q \in Requests : PriorFound(q))'
  BY <1>5 DEF Capture, CaptureMove, ToPutBack, PriorsHeld, PriorFound
<1>6. ASSUME NEW d \in Deploys, Replace(d), ReplaceMove(d)
      PROVE  (\A q \in Requests : PriorFound(q))'
  BY <1>6 DEF Replace, ReplaceMove, Stopped, PriorsHeld, PriorFound
<1>7. ASSUME NEW d \in Deploys, Run(d), RunMove(d)
      PROVE  (\A q \in Requests : PriorFound(q))'
  BY <1>7 DEF Run, RunMove, PriorsHeld, PriorFound
<1>8. ASSUME NEW d \in Deploys, RunFails(d), RunFailsMove(d)
      PROVE  (\A q \in Requests : PriorFound(q))'
  BY <1>8 DEF RunFails, RunFailsMove, Leave, PriorsHeld, PriorFound
<1>9. ASSUME NEW d \in Deploys, Serves(d), ServesMove(d)
      PROVE  (\A q \in Requests : PriorFound(q))'
  BY <1>9 DEF Serves, ServesMove, PriorsHeld, PriorFound
<1>10. ASSUME NEW d \in Deploys, Fails(d), FailsMove(d)
      PROVE  (\A q \in Requests : PriorFound(q))'
  BY <1>10 DEF Fails, FailsMove, PriorsHeld, PriorFound
<1>11. ASSUME NEW d \in Deploys, Record(d), RecordMove(d)
      PROVE  (\A q \in Requests : PriorFound(q))'
  BY <1>11 DEF Record, RecordMove, Leave, PriorsHeld, PriorFound
<1>12. ASSUME NEW d \in Deploys, Pin(d), PinMove(d)
      PROVE  (\A q \in Requests : PriorFound(q))'
  BY <1>12 DEF Pin, PinMove, PriorsHeld, PriorFound
<1>13. ASSUME NEW d \in Deploys, Prune(d), PruneMove(d)
      PROVE  (\A q \in Requests : PriorFound(q))'
  BY <1>13 DEF Prune, PruneMove, Leave, PriorsHeld, PriorFound
<1>14. ASSUME NEW k \in Rollbacks, NEW d \in Deploys,
              NEW pc \in {"ask", "askCurrent"},
             AskRollback(k, d, pc), AskRollbackMove(k, d, pc)
      PROVE  (\A q \in Requests : PriorFound(q))'
  BY <1>14 DEF AskRollback, AskRollbackMove, PriorsHeld, PriorFound
<1>15. ASSUME NEW k \in Rollbacks, EnterRollback(k), EnterRollbackMove(k)
      PROVE  (\A q \in Requests : PriorFound(q))'
  BY <1>15 DEF EnterRollback, EnterRollbackMove, PriorsHeld, PriorFound
<1>16. ASSUME NEW k \in Rollbacks,
             ReplaceForRollback(k), ReplaceForRollbackMove(k)
      PROVE  (\A q \in Requests : PriorFound(q))'
  BY <1>16 DEF ReplaceForRollback, ReplaceForRollbackMove, Stopped,
     PriorsHeld, PriorFound
<1>17. ASSUME NEW k \in Rollbacks, RunTarget(k), RunTargetMove(k)
      PROVE  (\A q \in Requests : PriorFound(q))'
  BY <1>17 DEF RunTarget, RunTargetMove, PriorsHeld, PriorFound
<1>18. ASSUME NEW k \in Rollbacks, RunTargetFails(k), RunTargetFailsMove(k)
      PROVE  (\A q \in Requests : PriorFound(q))'
  BY <1>18 DEF RunTargetFails, RunTargetFailsMove, PriorsHeld, PriorFound
<1>19. ASSUME NEW k \in Rollbacks, RunTargetRaises(k), RunTargetRaisesMove(k)
      PROVE  (\A q \in Requests : PriorFound(q))'
  BY <1>19 DEF RunTargetRaises, RunTargetRaisesMove, Leave, PriorsHeld,
     PriorFound
<1>20. ASSUME NEW k \in Rollbacks, EndRollback(k), EndRollbackMove(k)
      PROVE  (\A q \in Requests : PriorFound(q))'
  BY <1>20 DEF EndRollback, EndRollbackMove, PriorsHeld, PriorFound
<1>21. ASSUME NEW r \in Requests, NEW m \in Deploys,
             StopMonitor(r, m), StopMonitorMove(r, m)
      PROVE  (\A q \in Requests : PriorFound(q))'
  BY <1>21 DEF StopMonitor, StopMonitorMove, PriorsHeld, PriorFound
<1>22. ASSUME NEW r \in Requests, StartMonitor(r), StartMonitorMove(r)
      PROVE  (\A q \in Requests : PriorFound(q))'
  BY <1>22 DEF StartMonitor, StartMonitorMove, PriorsHeld, PriorFound
<1>23. ASSUME NEW r \in Requests, Joined(r), JoinedMove(r)
      PROVE  (\A q \in Requests : PriorFound(q))'
  BY <1>23 DEF Joined, JoinedMove, PriorsHeld, PriorFound
<1>24. ASSUME NEW r \in Requests, Restore(r), RestoreMove(r)
      PROVE  (\A q \in Requests : PriorFound(q))'
  BY <1>24 DEF Restore, RestoreMove, Leave, PriorsHeld, PriorFound
<1>25. ASSUME NEW r \in Requests, RestoreFails(r), RestoreFailsMove(r)
      PROVE  (\A q \in Requests : PriorFound(q))'
  BY <1>25 DEF RestoreFails, RestoreFailsMove, Leave, PriorsHeld,
     PriorFound
<1>26. ASSUME NEW d \in Deploys, Anomaly(d)
      PROVE  (\A q \in Requests : PriorFound(q))'
  BY <1>26 DEF Anomaly, Judge, PriorsHeld, PriorFound
<1>27. ASSUME NEW d \in Deploys, MonitorEnds(d)
      PROVE  (\A q \in Requests : PriorFound(q))'
  BY <1>27 DEF MonitorEnds, Judge, PriorsHeld, PriorFound
<1>28. ASSUME NEW d \in Deploys, MonitorCancelled(d)
      PROVE  (\A q \in Requests : PriorFound(q))'
  BY <1>28 DEF MonitorCancelled, PriorsHeld, PriorFound
<1>29. ASSUME NEW d \in Deploys, StopRequested(d)
      PROVE  (\A q \in Requests : PriorFound(q))'
  BY <1>29 DEF StopRequested, PriorsHeld, PriorFound
<1>30. ASSUME NEW p \in Plans, CancelPlan(p)
      PROVE  (\A q \in Requests : PriorFound(q))'
  BY <1>30 DEF CancelPlan, PriorsHeld, PriorFound
<1>31. CASE Restart
  BY <1>31 DEF Restart, Idle, Done, PriorsHeld, PriorFound
<1>32. CASE UNCHANGED vars
  BY <1>32 DEF vars, PriorsHeld, PriorFound
<1> QED
  BY <1>1, <1>2, <1>3, <1>4, <1>5, <1>6, <1>7, <1>8, <1>9, <1>10, <1>11,
     <1>12, <1>13, <1>14, <1>15, <1>16, <1>17, <1>18, <1>19, <1>20, <1>21,
     <1>22, <1>23, <1>24, <1>25, <1>26, <1>27, <1>28, <1>29, <1>30, <1>31,
     <1>32, RequestMoves DEF Next, DeployStep, RollbackStep, SharedStep,
     SignOff

\* When a request comes to the end, something is up.
LEMMA UpAtEndStep ==
    ASSUME TypeOK, LockedOne, PlacesOK, OwnContainer, SourcesStable, PriorsHeld, [Next]_vars
    PROVE  (\A q \in Requests : UpAtEnd(q))'
<1>a. \A q \in Requests : UpAtEnd(q)
  BY DEF PriorsHeld
<1>b. faults' = 0 => faults = 0
  BY FaultsStay
<1> USE <1>a, <1>b
<1> USE RequestFacts
       DEF dockerVars, verifierVars, historyVars, Moves, Goes, Ends, Cleared,
           KeepsSource, KeepsWay
<1>1. ASSUME NEW d \in Deploys, NEW p \in Plans,
             Execute(d, p), ExecuteMove(d, p)
      PROVE  (\A q \in Requests : UpAtEnd(q))'
  BY <1>1 DEF Execute, ExecuteMove, UpAtEnd, PutBackKept, LockedOne,
     Critical
<1>2. ASSUME NEW d \in Deploys, Enter(d), EnterMove(d)
      PROVE  (\A q \in Requests : UpAtEnd(q))'
  BY <1>2 DEF Enter, EnterMove, Leave, UpAtEnd, PutBackKept, LockedOne,
     Critical
<1>3. ASSUME NEW d \in Deploys, RefuseBuild(d), RefuseBuildMove(d)
      PROVE  (\A q \in Requests : UpAtEnd(q))'
  BY <1>3 DEF RefuseBuild, RefuseBuildMove, Leave, UpAtEnd, PutBackKept,
     LockedOne, Critical
<1>4. ASSUME NEW d \in Deploys, Build(d), BuildMove(d)
      PROVE  (\A q \in Requests : UpAtEnd(q))'
  BY <1>4 DEF Build, BuildMove, UpAtEnd, PutBackKept, LockedOne, Critical
<1>5. ASSUME NEW d \in Deploys, Capture(d), CaptureMove(d)
      PROVE  (\A q \in Requests : UpAtEnd(q))'
  BY <1>5 DEF Capture, CaptureMove, UpAtEnd, PutBackKept, LockedOne,
     Critical
<1>6. ASSUME NEW d \in Deploys, Replace(d), ReplaceMove(d)
      PROVE  (\A q \in Requests : UpAtEnd(q))'
  BY <1>6 DEF Replace, ReplaceMove, Stopped, UpAtEnd, PutBackKept,
     LockedOne, Critical
<1>7. ASSUME NEW d \in Deploys, Run(d), RunMove(d)
      PROVE  (\A q \in Requests : UpAtEnd(q))'
  BY <1>7 DEF Run, RunMove, UpAtEnd, PutBackKept, LockedOne, Critical
<1>8. ASSUME NEW d \in Deploys, RunFails(d), RunFailsMove(d)
      PROVE  (\A q \in Requests : UpAtEnd(q))'
  <2>1. lock = d /\ request[d].pc = "run" /\ lock' \in {lock, None}
    BY <1>8 DEF RunFails, RunFailsMove, LockedOne, Critical
  <2>2. PutBackKept(d)' => PutBackKept(d)
    BY <1>8 DEF RunFails, RunFailsMove, PutBackKept, Cleared
  <2>3. PutBackKept(d) => request[d].restore # None
    BY <2>1, PutsBack
  <2>4. \A q \in Requests \ {d} : ~PutBackKept(q)'
    BY <2>1 DEF PutBackKept
  <2>5. UpAtEnd(d)'
    BY <1>8, <2>2, <2>3 DEF RunFailsMove, UpAtEnd, PutBackKept
  <2> QED
    BY <2>4, <2>5 DEF UpAtEnd
<1>9. ASSUME NEW d \in Deploys, Serves(d), ServesMove(d)
      PROVE  (\A q \in Requests : UpAtEnd(q))'
  BY <1>9 DEF Serves, ServesMove, OwnContainer, UpAtEnd, PutBackKept,
     LockedOne, Critical
<1>10. ASSUME NEW d \in Deploys, Fails(d), FailsMove(d)
      PROVE  (\A q \in Requests : UpAtEnd(q))'
  <2>1. lock = d /\ request[d].pc = "verdict" /\ lock' \in {lock, None}
    BY <1>10 DEF Fails, FailsMove, LockedOne, Critical
  <2>2. PutBackKept(d)' => PutBackKept(d)
    BY <1>10 DEF Fails, FailsMove, PutBackKept, Cleared
  <2>3. PutBackKept(d) => request[d].restore # None
    BY <2>1, PutsBack
  <2>4. \A q \in Requests \ {d} : ~PutBackKept(q)'
    BY <2>1 DEF PutBackKept
  <2>5. UpAtEnd(d)'
    BY <1>10, <2>2, <2>3 DEF FailsMove, UpAtEnd, PutBackKept
  <2> QED
    BY <2>4, <2>5 DEF UpAtEnd
<1>11. ASSUME NEW d \in Deploys, Record(d), RecordMove(d)
      PROVE  (\A q \in Requests : UpAtEnd(q))'
  BY <1>11 DEF Record, RecordMove, Leave, UpAtEnd, PutBackKept, LockedOne,
     Critical
<1>12. ASSUME NEW d \in Deploys, Pin(d), PinMove(d)
      PROVE  (\A q \in Requests : UpAtEnd(q))'
  BY <1>12 DEF Pin, PinMove, UpAtEnd, PutBackKept, LockedOne, Critical
<1>13. ASSUME NEW d \in Deploys, Prune(d), PruneMove(d)
      PROVE  (\A q \in Requests : UpAtEnd(q))'
  BY <1>13 DEF Prune, PruneMove, Leave, UpAtEnd, PutBackKept, LockedOne,
     Critical
<1>14. ASSUME NEW k \in Rollbacks, NEW d \in Deploys,
              NEW pc \in {"ask", "askCurrent"},
             AskRollback(k, d, pc), AskRollbackMove(k, d, pc)
      PROVE  (\A q \in Requests : UpAtEnd(q))'
  BY <1>14 DEF AskRollback, AskRollbackMove, UpAtEnd, PutBackKept,
     LockedOne, Critical
<1>15. ASSUME NEW k \in Rollbacks, EnterRollback(k), EnterRollbackMove(k)
      PROVE  (\A q \in Requests : UpAtEnd(q))'
  BY <1>15 DEF EnterRollback, EnterRollbackMove, UpAtEnd, PutBackKept,
     LockedOne, Critical
<1>16. ASSUME NEW k \in Rollbacks,
             ReplaceForRollback(k), ReplaceForRollbackMove(k)
      PROVE  (\A q \in Requests : UpAtEnd(q))'
  BY <1>16 DEF ReplaceForRollback, ReplaceForRollbackMove, Stopped,
     UpAtEnd, PutBackKept, LockedOne, Critical
<1>17. ASSUME NEW k \in Rollbacks, RunTarget(k), RunTargetMove(k)
      PROVE  (\A q \in Requests : UpAtEnd(q))'
  BY <1>17 DEF RunTarget, RunTargetMove, UpAtEnd, PutBackKept, LockedOne,
     Critical
<1>18. ASSUME NEW k \in Rollbacks, RunTargetFails(k), RunTargetFailsMove(k)
      PROVE  (\A q \in Requests : UpAtEnd(q))'
  <2>1. lock = k /\ request[k].pc = "run" /\ lock' \in {lock, None}
    BY <1>18 DEF RunTargetFails, RunTargetFailsMove, LockedOne, Critical
  <2>2. PutBackKept(k)' => PutBackKept(k)
    BY <1>18 DEF RunTargetFails, RunTargetFailsMove, PutBackKept, Cleared
  <2>3. PutBackKept(k) => request[k].restore # None
    BY <2>1, PutsBack
  <2>4. \A q \in Requests \ {k} : ~PutBackKept(q)'
    BY <2>1 DEF PutBackKept
  <2>5. UpAtEnd(k)'
    BY <1>18, <2>2, <2>3 DEF RunTargetFailsMove, UpAtEnd, PutBackKept
  <2> QED
    BY <2>4, <2>5 DEF UpAtEnd
<1>19. ASSUME NEW k \in Rollbacks, RunTargetRaises(k), RunTargetRaisesMove(k)
      PROVE  (\A q \in Requests : UpAtEnd(q))'
  BY <1>19 DEF RunTargetRaises, RunTargetRaisesMove, Leave, UpAtEnd,
     PutBackKept, LockedOne, Critical
<1>20. ASSUME NEW k \in Rollbacks, EndRollback(k), EndRollbackMove(k)
      PROVE  (\A q \in Requests : UpAtEnd(q))'
  BY <1>20 DEF EndRollback, EndRollbackMove, UpAtEnd, PutBackKept,
     LockedOne, Critical
<1>21. ASSUME NEW r \in Requests, NEW m \in Deploys,
             StopMonitor(r, m), StopMonitorMove(r, m)
      PROVE  (\A q \in Requests : UpAtEnd(q))'
  BY <1>21 DEF StopMonitor, StopMonitorMove, UpAtEnd, PutBackKept,
     LockedOne, Critical
<1>22. ASSUME NEW r \in Requests, StartMonitor(r), StartMonitorMove(r)
      PROVE  (\A q \in Requests : UpAtEnd(q))'
  <2>1. request[r].pc = "start" /\ request[r].what \in Deploys
    BY <1>22 DEF StartMonitor, PlacesOK, Placed
  <2>2. r \in Deploys => lock = r /\ container # None
    BY <2>1 DEF LockedOne, Critical, OwnContainer
  <2>3. container' = container /\ pins' = pins
    BY <1>22 DEF StartMonitor
  <2> QED
    BY <1>22, <2>1, <2>2, <2>3 DEF StartMonitorMove, UpAtEnd, PutBackKept
<1>23. ASSUME NEW r \in Requests, Joined(r), JoinedMove(r)
      PROVE  (\A q \in Requests : UpAtEnd(q))'
  <2>1. container' = container /\ pins' = pins
    BY <1>23 DEF Joined
  <2>2. r \in Deploys /\ request[r].pc = "start" => lock = r /\ container # None
    BY <1>23 DEF LockedOne, Critical, OwnContainer, PlacesOK, Placed
  <2> QED
    BY <1>23, <2>1, <2>2 DEF JoinedMove, UpAtEnd, PutBackKept
<1>24. ASSUME NEW r \in Requests, Restore(r), RestoreMove(r)
      PROVE  (\A q \in Requests : UpAtEnd(q))'
  <2>1. /\ lock = r /\ request[r].pc = "restore" /\ lock' \in {lock, None}
        /\ container' = RestoreImage(r)
    BY <1>24 DEF Restore, RestoreMove, LockedOne, Critical
  <2>2. PutBackKept(r)' => PutBackKept(r)
    BY <1>24, <2>1 DEF Restore, RestoreMove, PutBackKept
  <2>3. PutBackKept(r) => RestoreImage(r) # None
    BY <2>1, PutsBack
  <2>4. \A q \in Requests \ {r} : ~PutBackKept(q)'
    BY <2>1 DEF PutBackKept
  <2>5. UpAtEnd(r)'
    BY <2>1, <2>2, <2>3 DEF UpAtEnd
  <2> QED
    BY <2>4, <2>5 DEF UpAtEnd
<1>25. ASSUME NEW r \in Requests, RestoreFails(r), RestoreFailsMove(r)
      PROVE  (\A q \in Requests : UpAtEnd(q))'
  <2>1. faults' > 0
    BY <1>25, FaultsTyped DEF RestoreFails, Fault
  <2> QED
    BY <2>1 DEF UpAtEnd, PutBackKept
<1>26. ASSUME NEW d \in Deploys, Anomaly(d)
      PROVE  (\A q \in Requests : UpAtEnd(q))'
  BY <1>26 DEF Anomaly, Judge, UpAtEnd, PutBackKept, LockedOne, Critical
<1>27. ASSUME NEW d \in Deploys, MonitorEnds(d)
      PROVE  (\A q \in Requests : UpAtEnd(q))'
  BY <1>27 DEF MonitorEnds, Judge, UpAtEnd, PutBackKept, LockedOne,
     Critical
<1>28. ASSUME NEW d \in Deploys, MonitorCancelled(d)
      PROVE  (\A q \in Requests : UpAtEnd(q))'
  BY <1>28 DEF MonitorCancelled, UpAtEnd, PutBackKept, LockedOne, Critical
<1>29. ASSUME NEW d \in Deploys, StopRequested(d)
      PROVE  (\A q \in Requests : UpAtEnd(q))'
  BY <1>29 DEF StopRequested, UpAtEnd, PutBackKept, LockedOne, Critical
<1>30. ASSUME NEW p \in Plans, CancelPlan(p)
      PROVE  (\A q \in Requests : UpAtEnd(q))'
  BY <1>30 DEF CancelPlan, UpAtEnd, PutBackKept, LockedOne, Critical
<1>31. CASE Restart
  BY <1>31 DEF Restart, Idle, Done, UpAtEnd, PutBackKept, LockedOne,
     Critical
<1>32. CASE UNCHANGED vars
  BY <1>32 DEF vars, UpAtEnd, PutBackKept, LockedOne, Critical
<1> QED
  BY <1>1, <1>2, <1>3, <1>4, <1>5, <1>6, <1>7, <1>8, <1>9, <1>10, <1>11,
     <1>12, <1>13, <1>14, <1>15, <1>16, <1>17, <1>18, <1>19, <1>20, <1>21,
     <1>22, <1>23, <1>24, <1>25, <1>26, <1>27, <1>28, <1>29, <1>30, <1>31,
     <1>32, RequestMoves DEF Next, DeployStep, RollbackStep, SharedStep,
     SignOff

-----------------------------------------------------------------------------
(* Targets and sources. *)

\* While an image is built nothing changes what the selections read.
BuildUndisturbed ==
    \A e \in Deploys : request'[e].pc = "build" /\ ~drift' =>
        /\ records' = records /\ built' = built
        /\ request'[e].target = PreviousImage \/ request'[e] = request[e]

LEMMA DuringBuild ==
    ASSUME TypeOK, LockedOne, PlacesOK, [Next]_vars
    PROVE  BuildUndisturbed
<1> USE RequestFacts, SameRecords
       DEF BuildUndisturbed, dockerVars, verifierVars, historyVars, Moves, Goes, Ends,
           Building, Judge
<1>1. ASSUME NEW d \in Deploys, NEW p \in Plans,
             Execute(d, p), ExecuteMove(d, p)
      PROVE  BuildUndisturbed
  BY <1>1 DEF Execute, ExecuteMove, LockedOne, Critical
<1>2. ASSUME NEW d \in Deploys, Enter(d), EnterMove(d)
      PROVE  BuildUndisturbed
  BY <1>2 DEF Enter, EnterMove, Leave, LockedOne, Critical
<1>3. ASSUME NEW d \in Deploys, RefuseBuild(d), RefuseBuildMove(d)
      PROVE  BuildUndisturbed
  BY <1>3 DEF RefuseBuild, RefuseBuildMove, Leave, LockedOne, Critical
<1>4. ASSUME NEW d \in Deploys, Build(d), BuildMove(d)
      PROVE  BuildUndisturbed
  BY <1>4 DEF Build, BuildMove, LockedOne, Critical
<1>5. ASSUME NEW d \in Deploys, Capture(d), CaptureMove(d)
      PROVE  BuildUndisturbed
  BY <1>5 DEF Capture, CaptureMove, LockedOne, Critical
<1>6. ASSUME NEW d \in Deploys, Replace(d), ReplaceMove(d)
      PROVE  BuildUndisturbed
  BY <1>6 DEF Replace, ReplaceMove, Stopped, LockedOne, Critical
<1>7. ASSUME NEW d \in Deploys, Run(d), RunMove(d)
      PROVE  BuildUndisturbed
  BY <1>7 DEF Run, RunMove, LockedOne, Critical
<1>8. ASSUME NEW d \in Deploys, RunFails(d), RunFailsMove(d)
      PROVE  BuildUndisturbed
  BY <1>8 DEF RunFails, RunFailsMove, Leave, LockedOne, Critical
<1>9. ASSUME NEW d \in Deploys, Serves(d), ServesMove(d)
      PROVE  BuildUndisturbed
  BY <1>9 DEF Serves, ServesMove, LockedOne, Critical
<1>10. ASSUME NEW d \in Deploys, Fails(d), FailsMove(d)
      PROVE  BuildUndisturbed
  BY <1>10 DEF Fails, FailsMove, LockedOne, Critical
<1>11. ASSUME NEW d \in Deploys, Record(d), RecordMove(d)
      PROVE  BuildUndisturbed
  BY <1>11 DEF Record, RecordMove, Leave, LockedOne, Critical
<1>12. ASSUME NEW d \in Deploys, Pin(d), PinMove(d)
      PROVE  BuildUndisturbed
  BY <1>12 DEF Pin, PinMove, LockedOne, Critical
<1>13. ASSUME NEW d \in Deploys, Prune(d), PruneMove(d)
      PROVE  BuildUndisturbed
  BY <1>13 DEF Prune, PruneMove, Leave, LockedOne, Critical
<1>14. ASSUME NEW k \in Rollbacks, NEW d \in Deploys,
              NEW pc \in {"ask", "askCurrent"},
             AskRollback(k, d, pc), AskRollbackMove(k, d, pc)
      PROVE  BuildUndisturbed
  BY <1>14 DEF AskRollback, AskRollbackMove, LockedOne, Critical
<1>15. ASSUME NEW k \in Rollbacks, EnterRollback(k), EnterRollbackMove(k)
      PROVE  BuildUndisturbed
  BY <1>15 DEF EnterRollback, EnterRollbackMove, LockedOne, Critical
<1>16. ASSUME NEW k \in Rollbacks,
             ReplaceForRollback(k), ReplaceForRollbackMove(k)
      PROVE  BuildUndisturbed
  BY <1>16 DEF ReplaceForRollback, ReplaceForRollbackMove, Stopped,
     LockedOne, Critical
<1>17. ASSUME NEW k \in Rollbacks, RunTarget(k), RunTargetMove(k)
      PROVE  BuildUndisturbed
  BY <1>17 DEF RunTarget, RunTargetMove, LockedOne, Critical
<1>18. ASSUME NEW k \in Rollbacks, RunTargetFails(k), RunTargetFailsMove(k)
      PROVE  BuildUndisturbed
  BY <1>18 DEF RunTargetFails, RunTargetFailsMove, LockedOne, Critical
<1>19. ASSUME NEW k \in Rollbacks, RunTargetRaises(k), RunTargetRaisesMove(k)
      PROVE  BuildUndisturbed
  BY <1>19 DEF RunTargetRaises, RunTargetRaisesMove, Leave, LockedOne,
     Critical
<1>20. ASSUME NEW k \in Rollbacks, EndRollback(k), EndRollbackMove(k)
      PROVE  BuildUndisturbed
  BY <1>20 DEF EndRollback, EndRollbackMove, LockedOne, Critical
<1>21. ASSUME NEW r \in Requests, NEW m \in Deploys,
             StopMonitor(r, m), StopMonitorMove(r, m)
      PROVE  BuildUndisturbed
  BY <1>21 DEF StopMonitor, StopMonitorMove, LockedOne, Critical
<1>22. ASSUME NEW r \in Requests, StartMonitor(r), StartMonitorMove(r)
      PROVE  BuildUndisturbed
  BY <1>22 DEF StartMonitor, StartMonitorMove, LockedOne, Critical
<1>23. ASSUME NEW r \in Requests, Joined(r), JoinedMove(r)
      PROVE  BuildUndisturbed
  BY <1>23 DEF Joined, JoinedMove, PlacesOK, Placed, LockedOne, Critical
<1>24. ASSUME NEW r \in Requests, Restore(r), RestoreMove(r)
      PROVE  BuildUndisturbed
  BY <1>24 DEF Restore, RestoreMove, Leave, LockedOne, Critical
<1>25. ASSUME NEW r \in Requests, RestoreFails(r), RestoreFailsMove(r)
      PROVE  BuildUndisturbed
  BY <1>25 DEF RestoreFails, RestoreFailsMove, Leave, LockedOne, Critical
<1>26. ASSUME NEW d \in Deploys, Anomaly(d)
      PROVE  BuildUndisturbed
  BY <1>26 DEF Anomaly, Judge, LockedOne, Critical
<1>27. ASSUME NEW d \in Deploys, MonitorEnds(d)
      PROVE  BuildUndisturbed
  BY <1>27 DEF MonitorEnds, Judge, LockedOne, Critical
<1>28. ASSUME NEW d \in Deploys, MonitorCancelled(d)
      PROVE  BuildUndisturbed
  BY <1>28 DEF MonitorCancelled, LockedOne, Critical
<1>29. ASSUME NEW d \in Deploys, StopRequested(d)
      PROVE  BuildUndisturbed
  BY <1>29 DEF StopRequested, LockedOne, Critical
<1>30. ASSUME NEW p \in Plans, CancelPlan(p)
      PROVE  BuildUndisturbed
  BY <1>30 DEF CancelPlan, LockedOne, Critical
<1>31. CASE Restart
  BY <1>31 DEF Restart, Idle, Done, LockedOne, Critical
<1>32. CASE UNCHANGED vars
  BY <1>32 DEF vars, LockedOne, Critical
<1> QED
  BY <1>1, <1>2, <1>3, <1>4, <1>5, <1>6, <1>7, <1>8, <1>9, <1>10, <1>11,
     <1>12, <1>13, <1>14, <1>15, <1>16, <1>17, <1>18, <1>19, <1>20, <1>21,
     <1>22, <1>23, <1>24, <1>25, <1>26, <1>27, <1>28, <1>29, <1>30, <1>31,
     <1>32, RequestMoves DEF Next, DeployStep, RollbackStep, SharedStep,
     SignOff

\* The selections read the records and the order of the builds.
LEMMA SelectionSame ==
    ASSUME records' = records, built' = built
    PROVE  PreviousImage' = PreviousImage
<1>1. Recorded' = Recorded
  BY DEF Recorded
<1>2. \A d : StableRef(records', d) = StableRef(records, d)
  OBVIOUS
<1>3. Eligible' = Eligible
  BY <1>1, <1>2 DEF Eligible
<1>4. \A S : NewestOf(S)' = NewestOf(S)
  BY DEF NewestOf, Newest
<1> QED
  BY <1>2, <1>3, <1>4 DEF PreviousImage

\* The target taken under the lock is that of the end of the build.
LEMMA TargetCurrentStep ==
    ASSUME TypeOK, LockedOne, PlacesOK, TargetsAgree, [Next]_vars, ~drift', NEW d \in Deploys
    PROVE  TargetCurrent(d)'
BY DuringBuild, HistoryStays, SelectionSame
   DEF BuildUndisturbed, TargetsAgree, TargetCurrent

\* The target and the source belong to the same release.
LEMMA SourcesAgree ==
    ASSUME TypeOK
    PROVE  IF RollbackSource = None THEN PreviousImage = None
           ELSE PreviousImage # None /\ PreviousImage[2] = RollbackSource
BY SourceAndTarget, StableRefNames DEF TypeOK, Eligible, Recorded

\* A deployment carries a target and a source that agree.
LEMMA TargetOfSourceStep ==
    ASSUME TypeOK, LockedOne, PlacesOK, TargetsAgree, ~drift, [Next]_vars
    PROVE  (\A e \in Deploys : TargetOfSource(e))'
<1>a. \A e \in Deploys : TargetCurrent(e) /\ TargetOfSource(e)
  BY DEF TargetsAgree
<1> USE <1>a
<1> USE RequestFacts, SourcesAgree
       DEF dockerVars, verifierVars, historyVars, Moves, Goes, Ends, KeepsChoice,
           KeepsSource, KeepsEnd
<1>1. ASSUME NEW d \in Deploys, NEW p \in Plans,
             Execute(d, p), ExecuteMove(d, p)
      PROVE  (\A e \in Deploys : TargetOfSource(e))'
  BY <1>1 DEF Execute, ExecuteMove, TargetOfSource, Carried, LockedOne,
     Critical, Agree
<1>2. ASSUME NEW d \in Deploys, Enter(d), EnterMove(d)
      PROVE  (\A e \in Deploys : TargetOfSource(e))'
  BY <1>2 DEF Enter, EnterMove, Leave, TargetOfSource, Carried, LockedOne,
     Critical, Agree
<1>3. ASSUME NEW d \in Deploys, RefuseBuild(d), RefuseBuildMove(d)
      PROVE  (\A e \in Deploys : TargetOfSource(e))'
  BY <1>3 DEF RefuseBuild, RefuseBuildMove, Leave, TargetOfSource,
     Carried, LockedOne, Critical, Agree
<1>4. ASSUME NEW d \in Deploys, Build(d), BuildMove(d)
      PROVE  (\A e \in Deploys : TargetOfSource(e))'
  BY <1>4 DEF Build, BuildMove, TargetCurrent, TargetOfSource, Carried,
     LockedOne, Critical, Agree
<1>5. ASSUME NEW d \in Deploys, Capture(d), CaptureMove(d)
      PROVE  (\A e \in Deploys : TargetOfSource(e))'
  BY <1>5 DEF Capture, CaptureMove, TargetOfSource, Carried, LockedOne,
     Critical, Agree
<1>6. ASSUME NEW d \in Deploys, Replace(d), ReplaceMove(d)
      PROVE  (\A e \in Deploys : TargetOfSource(e))'
  BY <1>6 DEF Replace, ReplaceMove, Stopped, TargetOfSource, Carried,
     LockedOne, Critical, Agree
<1>7. ASSUME NEW d \in Deploys, Run(d), RunMove(d)
      PROVE  (\A e \in Deploys : TargetOfSource(e))'
  BY <1>7 DEF Run, RunMove, TargetOfSource, Carried, LockedOne, Critical,
     Agree
<1>8. ASSUME NEW d \in Deploys, RunFails(d), RunFailsMove(d)
      PROVE  (\A e \in Deploys : TargetOfSource(e))'
  BY <1>8 DEF RunFails, RunFailsMove, Leave, TargetOfSource, Carried,
     LockedOne, Critical, Agree
<1>9. ASSUME NEW d \in Deploys, Serves(d), ServesMove(d)
      PROVE  (\A e \in Deploys : TargetOfSource(e))'
  BY <1>9 DEF Serves, ServesMove, TargetOfSource, Carried, LockedOne,
     Critical, Agree
<1>10. ASSUME NEW d \in Deploys, Fails(d), FailsMove(d)
      PROVE  (\A e \in Deploys : TargetOfSource(e))'
  BY <1>10 DEF Fails, FailsMove, TargetOfSource, Carried, LockedOne,
     Critical, Agree
<1>11. ASSUME NEW d \in Deploys, Record(d), RecordMove(d)
      PROVE  (\A e \in Deploys : TargetOfSource(e))'
  BY <1>11 DEF Record, RecordMove, Leave, TargetOfSource, Carried,
     LockedOne, Critical, Agree
<1>12. ASSUME NEW d \in Deploys, Pin(d), PinMove(d)
      PROVE  (\A e \in Deploys : TargetOfSource(e))'
  BY <1>12 DEF Pin, PinMove, TargetOfSource, Carried, LockedOne, Critical,
     Agree
<1>13. ASSUME NEW d \in Deploys, Prune(d), PruneMove(d)
      PROVE  (\A e \in Deploys : TargetOfSource(e))'
  BY <1>13 DEF Prune, PruneMove, Leave, TargetOfSource, Carried,
     LockedOne, Critical, Agree
<1>14. ASSUME NEW k \in Rollbacks, NEW d \in Deploys,
              NEW pc \in {"ask", "askCurrent"},
             AskRollback(k, d, pc), AskRollbackMove(k, d, pc)
      PROVE  (\A e \in Deploys : TargetOfSource(e))'
  BY <1>14 DEF AskRollback, AskRollbackMove, TargetOfSource, Carried,
     LockedOne, Critical, Agree
<1>15. ASSUME NEW k \in Rollbacks, EnterRollback(k), EnterRollbackMove(k)
      PROVE  (\A e \in Deploys : TargetOfSource(e))'
  BY <1>15 DEF EnterRollback, EnterRollbackMove, TargetOfSource, Carried,
     LockedOne, Critical, Agree
<1>16. ASSUME NEW k \in Rollbacks,
             ReplaceForRollback(k), ReplaceForRollbackMove(k)
      PROVE  (\A e \in Deploys : TargetOfSource(e))'
  BY <1>16 DEF ReplaceForRollback, ReplaceForRollbackMove, Stopped,
     TargetOfSource, Carried, LockedOne, Critical, Agree
<1>17. ASSUME NEW k \in Rollbacks, RunTarget(k), RunTargetMove(k)
      PROVE  (\A e \in Deploys : TargetOfSource(e))'
  BY <1>17 DEF RunTarget, RunTargetMove, TargetOfSource, Carried,
     LockedOne, Critical, Agree
<1>18. ASSUME NEW k \in Rollbacks, RunTargetFails(k), RunTargetFailsMove(k)
      PROVE  (\A e \in Deploys : TargetOfSource(e))'
  BY <1>18 DEF RunTargetFails, RunTargetFailsMove, TargetOfSource,
     Carried, LockedOne, Critical, Agree
<1>19. ASSUME NEW k \in Rollbacks, RunTargetRaises(k), RunTargetRaisesMove(k)
      PROVE  (\A e \in Deploys : TargetOfSource(e))'
  BY <1>19 DEF RunTargetRaises, RunTargetRaisesMove, Leave,
     TargetOfSource, Carried, LockedOne, Critical, Agree
<1>20. ASSUME NEW k \in Rollbacks, EndRollback(k), EndRollbackMove(k)
      PROVE  (\A e \in Deploys : TargetOfSource(e))'
  BY <1>20 DEF EndRollback, EndRollbackMove, TargetOfSource, Carried,
     LockedOne, Critical, Agree
<1>21. ASSUME NEW r \in Requests, NEW m \in Deploys,
             StopMonitor(r, m), StopMonitorMove(r, m)
      PROVE  (\A e \in Deploys : TargetOfSource(e))'
  BY <1>21 DEF StopMonitor, StopMonitorMove, TargetOfSource, Carried,
     LockedOne, Critical, Agree
<1>22. ASSUME NEW r \in Requests, StartMonitor(r), StartMonitorMove(r)
      PROVE  (\A e \in Deploys : TargetOfSource(e))'
  BY <1>22 DEF StartMonitor, StartMonitorMove, TargetOfSource, Carried,
     LockedOne, Critical, Agree
<1>23. ASSUME NEW r \in Requests, Joined(r), JoinedMove(r)
      PROVE  (\A e \in Deploys : TargetOfSource(e))'
  BY <1>23 DEF Joined, JoinedMove, TargetOfSource, Carried, LockedOne,
     Critical, Agree
<1>24. ASSUME NEW r \in Requests, Restore(r), RestoreMove(r)
      PROVE  (\A e \in Deploys : TargetOfSource(e))'
  BY <1>24 DEF Restore, RestoreMove, Leave, TargetOfSource, Carried,
     LockedOne, Critical, Agree
<1>25. ASSUME NEW r \in Requests, RestoreFails(r), RestoreFailsMove(r)
      PROVE  (\A e \in Deploys : TargetOfSource(e))'
  BY <1>25 DEF RestoreFails, RestoreFailsMove, Leave, TargetOfSource,
     Carried, LockedOne, Critical, Agree
<1>26. ASSUME NEW d \in Deploys, Anomaly(d)
      PROVE  (\A e \in Deploys : TargetOfSource(e))'
  BY <1>26 DEF Anomaly, Judge, TargetOfSource, Carried, LockedOne,
     Critical, Agree
<1>27. ASSUME NEW d \in Deploys, MonitorEnds(d)
      PROVE  (\A e \in Deploys : TargetOfSource(e))'
  BY <1>27 DEF MonitorEnds, Judge, TargetOfSource, Carried, LockedOne,
     Critical, Agree
<1>28. ASSUME NEW d \in Deploys, MonitorCancelled(d)
      PROVE  (\A e \in Deploys : TargetOfSource(e))'
  BY <1>28 DEF MonitorCancelled, TargetOfSource, Carried, LockedOne,
     Critical, Agree
<1>29. ASSUME NEW d \in Deploys, StopRequested(d)
      PROVE  (\A e \in Deploys : TargetOfSource(e))'
  BY <1>29 DEF StopRequested, TargetOfSource, Carried, LockedOne,
     Critical, Agree
<1>30. ASSUME NEW p \in Plans, CancelPlan(p)
      PROVE  (\A e \in Deploys : TargetOfSource(e))'
  BY <1>30 DEF CancelPlan, TargetOfSource, Carried, LockedOne, Critical,
     Agree
<1>31. CASE Restart
  BY <1>31 DEF Restart, Idle, Done, TargetOfSource, Carried, LockedOne,
     Critical, Agree
<1>32. CASE UNCHANGED vars
  BY <1>32 DEF vars, TargetOfSource, Carried, LockedOne, Critical, Agree
<1> QED
  BY <1>1, <1>2, <1>3, <1>4, <1>5, <1>6, <1>7, <1>8, <1>9, <1>10, <1>11,
     <1>12, <1>13, <1>14, <1>15, <1>16, <1>17, <1>18, <1>19, <1>20, <1>21,
     <1>22, <1>23, <1>24, <1>25, <1>26, <1>27, <1>28, <1>29, <1>30, <1>31,
     <1>32, RequestMoves DEF Next, DeployStep, RollbackStep, SharedStep,
     SignOff

\* So do the records, in memory and on disk.
LEMMA ReleasesAgreeStep ==
    ASSUME TypeOK, PlacesOK, TargetsAgree, ~drift, [Next]_vars
    PROVE  ReleasesAgree'
<1>1. ReleasesAgree /\ \A d \in Deploys : TargetOfSource(d)
  BY DEF TargetsAgree
<1>2. ASSUME NEW d \in Recorded' PROVE Agree(records'[d])
  <2>1. CASE records' = records
    BY <1>1, <1>2, <2>1 DEF ReleasesAgree, Recorded
  <2>2. CASE KeepsReleases
    BY <1>1, <1>2, <2>2 DEF ReleasesAgree, KeepsReleases, Recorded, Agree
  <2>3. ASSUME NEW e \in Deploys, Record(e), RecordsRelease(e)
        PROVE  Agree(records'[d])
    <3>1. Agree(request[e])
      BY <1>1, <2>3 DEF Record, TargetOfSource, Carried
    <3>2. CASE d = e
      BY <2>3, <3>1, <3>2 DEF RecordsRelease, Agree
    <3>3. CASE d # e
      BY <1>1, <1>2, <2>3, <3>3 DEF RecordsRelease, ReleasesAgree, Recorded
    <3> QED
      BY <3>2, <3>3
  <2>4. CASE LoadsReleases
    BY <1>1, <1>2, <2>4 DEF ReleasesAgree, LoadsReleases, Recorded, Agree
  <2> QED
    BY <2>1, <2>2, <2>3, <2>4, RecordsChange
<1>3. ASSUME NEW d \in Deploys, saved'[d].status # "absent" PROVE Agree(saved'[d])
  BY <1>1, <1>2, <1>3, SavedWhole DEF ReleasesAgree, Recorded
<1> QED
  BY <1>2, <1>3 DEF ReleasesAgree, Recorded

\* A rollback that succeeded runs its target.
LEMMA RolledBackStep ==
    ASSUME TypeOK, LockedOne, PlacesOK, TargetsAgree, ~drift, [Next]_vars
    PROVE  (\A q \in Rollbacks : RolledBack(q))'
<1>a. \A q \in Rollbacks : RolledBack(q)
  BY DEF TargetsAgree
<1>b. \A q \in Rollbacks : RollbackPlaced(q)
  BY DEF PlacesOK
<1> USE <1>a, <1>b
<1> USE RequestFacts
       DEF dockerVars, verifierVars, historyVars, Moves, Goes, Ends, Cleared,
           KeepsChoice, KeepsEnd
<1>1. ASSUME NEW d \in Deploys, NEW p \in Plans,
             Execute(d, p), ExecuteMove(d, p)
      PROVE  (\A q \in Rollbacks : RolledBack(q))'
  BY <1>1 DEF Execute, ExecuteMove, RolledBack, LockedOne, Critical
<1>2. ASSUME NEW d \in Deploys, Enter(d), EnterMove(d)
      PROVE  (\A q \in Rollbacks : RolledBack(q))'
  BY <1>2 DEF Enter, EnterMove, Leave, RolledBack, LockedOne, Critical
<1>3. ASSUME NEW d \in Deploys, RefuseBuild(d), RefuseBuildMove(d)
      PROVE  (\A q \in Rollbacks : RolledBack(q))'
  BY <1>3 DEF RefuseBuild, RefuseBuildMove, Leave, RolledBack, LockedOne,
     Critical
<1>4. ASSUME NEW d \in Deploys, Build(d), BuildMove(d)
      PROVE  (\A q \in Rollbacks : RolledBack(q))'
  BY <1>4 DEF Build, BuildMove, RolledBack, LockedOne, Critical
<1>5. ASSUME NEW d \in Deploys, Capture(d), CaptureMove(d)
      PROVE  (\A q \in Rollbacks : RolledBack(q))'
  BY <1>5 DEF Capture, CaptureMove, RolledBack, LockedOne, Critical
<1>6. ASSUME NEW d \in Deploys, Replace(d), ReplaceMove(d)
      PROVE  (\A q \in Rollbacks : RolledBack(q))'
  BY <1>6 DEF Replace, ReplaceMove, Stopped, RolledBack, LockedOne,
     Critical
<1>7. ASSUME NEW d \in Deploys, Run(d), RunMove(d)
      PROVE  (\A q \in Rollbacks : RolledBack(q))'
  BY <1>7 DEF Run, RunMove, RolledBack, LockedOne, Critical
<1>8. ASSUME NEW d \in Deploys, RunFails(d), RunFailsMove(d)
      PROVE  (\A q \in Rollbacks : RolledBack(q))'
  BY <1>8 DEF RunFails, RunFailsMove, Leave, RolledBack, LockedOne,
     Critical
<1>9. ASSUME NEW d \in Deploys, Serves(d), ServesMove(d)
      PROVE  (\A q \in Rollbacks : RolledBack(q))'
  BY <1>9 DEF Serves, ServesMove, RolledBack, LockedOne, Critical
<1>10. ASSUME NEW d \in Deploys, Fails(d), FailsMove(d)
      PROVE  (\A q \in Rollbacks : RolledBack(q))'
  BY <1>10 DEF Fails, FailsMove, RolledBack, LockedOne, Critical
<1>11. ASSUME NEW d \in Deploys, Record(d), RecordMove(d), RecordsRelease(d)
      PROVE  (\A q \in Rollbacks : RolledBack(q))'
  BY <1>11 DEF Record, RecordMove, RecordsRelease, Leave, RolledBack,
     LockedOne, Critical
<1>12. ASSUME NEW d \in Deploys, Pin(d), PinMove(d), KeepsReleases
      PROVE  (\A q \in Rollbacks : RolledBack(q))'
  BY <1>12 DEF Pin, PinMove, KeepsReleases, RolledBack, LockedOne,
     Critical
<1>13. ASSUME NEW d \in Deploys, Prune(d), PruneMove(d)
      PROVE  (\A q \in Rollbacks : RolledBack(q))'
  BY <1>13 DEF Prune, PruneMove, Leave, RolledBack, LockedOne, Critical
<1>14. ASSUME NEW k \in Rollbacks, NEW d \in Deploys,
              NEW pc \in {"ask", "askCurrent"},
             AskRollback(k, d, pc), AskRollbackMove(k, d, pc)
      PROVE  (\A q \in Rollbacks : RolledBack(q))'
  BY <1>14 DEF AskRollback, AskRollbackMove, RolledBack, LockedOne,
     Critical
<1>15. ASSUME NEW k \in Rollbacks,
             EnterRollback(k), EnterRollbackMove(k), KeepsReleases
      PROVE  (\A q \in Rollbacks : RolledBack(q))'
  BY <1>15 DEF EnterRollback, EnterRollbackMove, KeepsReleases,
     RolledBack, LockedOne, Critical
<1>16. ASSUME NEW k \in Rollbacks,
             ReplaceForRollback(k), ReplaceForRollbackMove(k)
      PROVE  (\A q \in Rollbacks : RolledBack(q))'
  BY <1>16 DEF ReplaceForRollback, ReplaceForRollbackMove, Stopped,
     RolledBack, LockedOne, Critical
<1>17. ASSUME NEW k \in Rollbacks, RunTarget(k), RunTargetMove(k)
      PROVE  (\A q \in Rollbacks : RolledBack(q))'
  BY <1>17, ResolveNames DEF RunTarget, RunTargetMove, TargetImage,
     RolledBack, LockedOne, Critical
<1>18. ASSUME NEW k \in Rollbacks, RunTargetFails(k), RunTargetFailsMove(k)
      PROVE  (\A q \in Rollbacks : RolledBack(q))'
  BY <1>18 DEF RunTargetFails, RunTargetFailsMove, RollbackPlaced,
     RolledBack, LockedOne, Critical
<1>19. ASSUME NEW k \in Rollbacks,
             RunTargetRaises(k), RunTargetRaisesMove(k), KeepsReleases
      PROVE  (\A q \in Rollbacks : RolledBack(q))'
  BY <1>19 DEF RunTargetRaises, RunTargetRaisesMove, KeepsReleases, Leave,
     RolledBack, LockedOne, Critical
<1>20. ASSUME NEW k \in Rollbacks,
             EndRollback(k), EndRollbackMove(k), KeepsReleases
      PROVE  (\A q \in Rollbacks : RolledBack(q))'
  BY <1>20 DEF EndRollback, EndRollbackMove, KeepsReleases, RolledBack,
     LockedOne, Critical
<1>21. ASSUME NEW r \in Requests, NEW m \in Deploys,
             StopMonitor(r, m), StopMonitorMove(r, m)
      PROVE  (\A q \in Rollbacks : RolledBack(q))'
  BY <1>21 DEF StopMonitor, StopMonitorMove, RolledBack, LockedOne,
     Critical
<1>22. ASSUME NEW r \in Requests, StartMonitor(r), StartMonitorMove(r)
      PROVE  (\A q \in Rollbacks : RolledBack(q))'
  BY <1>22 DEF StartMonitor, StartMonitorMove, RolledBack, LockedOne,
     Critical
<1>23. ASSUME NEW r \in Requests, Joined(r), JoinedMove(r)
      PROVE  (\A q \in Rollbacks : RolledBack(q))'
  BY <1>23 DEF Joined, JoinedMove, RolledBack, LockedOne, Critical
<1>24. ASSUME NEW r \in Requests, Restore(r), RestoreMove(r)
      PROVE  (\A q \in Rollbacks : RolledBack(q))'
  BY <1>24 DEF Restore, RestoreMove, Leave, RollbackPlaced, RolledBack,
     LockedOne, Critical
<1>25. ASSUME NEW r \in Requests, RestoreFails(r), RestoreFailsMove(r)
      PROVE  (\A q \in Rollbacks : RolledBack(q))'
  BY <1>25 DEF RestoreFails, RestoreFailsMove, Leave, RollbackPlaced,
     RolledBack, LockedOne, Critical
<1>26. ASSUME NEW d \in Deploys, Anomaly(d), KeepsReleases
      PROVE  (\A q \in Rollbacks : RolledBack(q))'
  BY <1>26 DEF Anomaly, KeepsReleases, Judge, RolledBack, LockedOne,
     Critical
<1>27. ASSUME NEW d \in Deploys, MonitorEnds(d), KeepsReleases
      PROVE  (\A q \in Rollbacks : RolledBack(q))'
  BY <1>27 DEF MonitorEnds, KeepsReleases, Judge, RolledBack, LockedOne,
     Critical
<1>28. ASSUME NEW d \in Deploys, MonitorCancelled(d)
      PROVE  (\A q \in Rollbacks : RolledBack(q))'
  BY <1>28 DEF MonitorCancelled, RolledBack, LockedOne, Critical
<1>29. ASSUME NEW d \in Deploys, StopRequested(d)
      PROVE  (\A q \in Rollbacks : RolledBack(q))'
  BY <1>29 DEF StopRequested, RolledBack, LockedOne, Critical
<1>30. ASSUME NEW p \in Plans, CancelPlan(p)
      PROVE  (\A q \in Rollbacks : RolledBack(q))'
  BY <1>30 DEF CancelPlan, RolledBack, LockedOne, Critical
<1>31. ASSUME Restart, LoadsReleases PROVE (\A q \in Rollbacks : RolledBack(q))'
  BY <1>31 DEF Restart, LoadsReleases, Idle, Done, RolledBack, LockedOne,
     Critical
<1>32. CASE UNCHANGED vars
  BY <1>32 DEF vars, RolledBack, LockedOne, Critical
<1> QED
  BY <1>1, <1>2, <1>3, <1>4, <1>5, <1>6, <1>7, <1>8, <1>9, <1>10, <1>11,
     <1>12, <1>13, <1>14, <1>15, <1>16, <1>17, <1>18, <1>19, <1>20, <1>21,
     <1>22, <1>23, <1>24, <1>25, <1>26, <1>27, <1>28, <1>29, <1>30, <1>31,
     <1>32, RequestMoves, ReleasesKept, ReleaseRecorded, ReleasesLoaded DEF
     Next, DeployStep, RollbackStep, SharedStep, SignOff

\* All of that, unless a monitor changed the records during a build.
LEMMA TargetsAgreeStep ==
    ASSUME TypeOK, LockedOne, PlacesOK, TargetsAgree, [Next]_vars
    PROVE  TargetsAgree'
<1>1. ASSUME ~drift'
      PROVE  (/\ \A d \in Deploys : TargetCurrent(d) /\ TargetOfSource(d)
              /\ ReleasesAgree
              /\ \A k \in Rollbacks : RolledBack(k))'
  BY <1>1, HistoryStays, TargetCurrentStep, TargetOfSourceStep, ReleasesAgreeStep,
     RolledBackStep
<1> QED
  BY <1>1 DEF TargetsAgree

-----------------------------------------------------------------------------
(* The monitors. *)

\* Nobody has to wait for a monitor that is to be started again.
LEMMA NoneStartsStep ==
    ASSUME TypeOK, LockedOne, PlacesOK, OwnContainer, TargetsAgree, MonitorsStopped,
           ~loose', ~drift, ~loose, [Next]_vars
    PROVE  NoneStarts'
<1>a. NoneStarts /\ \A m \in Deploys : Watched(m)
  BY DEF MonitorsStopped
<1>b. monitor \in [Deploys -> {"off", "running", "flagged", "cancelled"}]
  BY DEF TypeOK
<1> USE <1>a, <1>b
<1> USE RequestFacts
       DEF dockerVars, verifierVars, historyVars, Moves, Goes, Ends
<1>1. ASSUME NEW d \in Deploys, NEW p \in Plans,
             Execute(d, p), ExecuteMove(d, p)
      PROVE  NoneStarts'
  BY <1>1 DEF Execute, ExecuteMove, NoneStarts
<1>2. ASSUME NEW d \in Deploys, Enter(d), EnterMove(d) PROVE NoneStarts'
  BY <1>2 DEF Enter, EnterMove, Leave, NoneStarts
<1>3. ASSUME NEW d \in Deploys, RefuseBuild(d), RefuseBuildMove(d)
      PROVE  NoneStarts'
  BY <1>3 DEF RefuseBuild, RefuseBuildMove, Leave, NoneStarts
<1>4. ASSUME NEW d \in Deploys, Build(d), BuildMove(d) PROVE NoneStarts'
  BY <1>4 DEF Build, BuildMove, NoneStarts
<1>5. ASSUME NEW d \in Deploys, Capture(d), CaptureMove(d) PROVE NoneStarts'
  BY <1>5 DEF Capture, CaptureMove, NoneStarts
<1>6. ASSUME NEW d \in Deploys, Replace(d), ReplaceMove(d) PROVE NoneStarts'
  BY <1>6 DEF Replace, ReplaceMove, Stopped, NoneStarts
<1>7. ASSUME NEW d \in Deploys, Run(d), RunMove(d) PROVE NoneStarts'
  BY <1>7 DEF Run, RunMove, NoneStarts
<1>8. ASSUME NEW d \in Deploys, RunFails(d), RunFailsMove(d) PROVE NoneStarts'
  BY <1>8 DEF RunFails, RunFailsMove, Leave, NoneStarts
<1>9. ASSUME NEW d \in Deploys, Serves(d), ServesMove(d) PROVE NoneStarts'
  BY <1>9 DEF Serves, ServesMove, NoneStarts
<1>10. ASSUME NEW d \in Deploys, Fails(d), FailsMove(d) PROVE NoneStarts'
  BY <1>10 DEF Fails, FailsMove, NoneStarts
<1>11. ASSUME NEW d \in Deploys, Record(d), RecordMove(d) PROVE NoneStarts'
  BY <1>11 DEF Record, RecordMove, Leave, NoneStarts
<1>12. ASSUME NEW d \in Deploys, Pin(d), PinMove(d) PROVE NoneStarts'
  BY <1>12 DEF Pin, PinMove, NoneStarts
<1>13. ASSUME NEW d \in Deploys, Prune(d), PruneMove(d) PROVE NoneStarts'
  BY <1>13 DEF Prune, PruneMove, Leave, NoneStarts
<1>14. ASSUME NEW k \in Rollbacks, NEW d \in Deploys,
              NEW pc \in {"ask", "askCurrent"},
             AskRollback(k, d, pc), AskRollbackMove(k, d, pc)
      PROVE  NoneStarts'
  BY <1>14 DEF AskRollback, AskRollbackMove, NoneStarts
<1>15. ASSUME NEW k \in Rollbacks, EnterRollback(k), EnterRollbackMove(k)
      PROVE  NoneStarts'
  BY <1>15 DEF EnterRollback, EnterRollbackMove, NoneStarts
<1>16. ASSUME NEW k \in Rollbacks,
             ReplaceForRollback(k), ReplaceForRollbackMove(k)
      PROVE  NoneStarts'
  BY <1>16 DEF ReplaceForRollback, ReplaceForRollbackMove, Stopped,
     NoneStarts
<1>17. ASSUME NEW k \in Rollbacks, RunTarget(k), RunTargetMove(k)
      PROVE  NoneStarts'
  BY <1>17 DEF RunTarget, RunTargetMove, NoneStarts
<1>18. ASSUME NEW k \in Rollbacks, RunTargetFails(k), RunTargetFailsMove(k)
      PROVE  NoneStarts'
  BY <1>18 DEF RunTargetFails, RunTargetFailsMove, NoneStarts
<1>19. ASSUME NEW k \in Rollbacks, RunTargetRaises(k), RunTargetRaisesMove(k)
      PROVE  NoneStarts'
  BY <1>19 DEF RunTargetRaises, RunTargetRaisesMove, Leave, NoneStarts
<1>20. ASSUME NEW k \in Rollbacks, EndRollback(k), EndRollbackMove(k)
      PROVE  NoneStarts'
  <2>1. SourceOf(k) \in Recorded => ~Active(SourceOf(k))
    BY <1>20 DEF EndRollback, Watched, Unwatched, Recorded
  <2> QED
    BY <1>20, <2>1 DEF EndRollbackMove, NoneStarts
<1>21. ASSUME NEW r \in Requests, NEW m \in Deploys,
             StopMonitor(r, m), StopMonitorMove(r, m)
      PROVE  NoneStarts'
  BY <1>21 DEF StopMonitor, StopMonitorMove, NoneStarts
<1>22. ASSUME NEW r \in Requests, StartMonitor(r), StartMonitorMove(r)
      PROVE  NoneStarts'
  <2>1. request[r].pc = "start" /\ request[r].what \in Deploys
    BY <1>22 DEF StartMonitor, PlacesOK, Placed
  <2>2. ~Active(request[r].what)
    BY <2>1 DEF Watched, Unwatched
  <2> QED
    BY <1>22, <2>1, <2>2 DEF StartMonitor, StartMonitorMove, NoneStarts
<1>23. ASSUME NEW r \in Requests, Joined(r), JoinedMove(r) PROVE NoneStarts'
  BY <1>23 DEF Joined, JoinedMove, NoneStarts
<1>24. ASSUME NEW r \in Requests, Restore(r), RestoreMove(r) PROVE NoneStarts'
  BY <1>24 DEF Restore, RestoreMove, Leave, NoneStarts
<1>25. ASSUME NEW r \in Requests, RestoreFails(r), RestoreFailsMove(r)
      PROVE  NoneStarts'
  BY <1>25 DEF RestoreFails, RestoreFailsMove, Leave, NoneStarts
<1>26. ASSUME NEW d \in Deploys, Anomaly(d) PROVE NoneStarts'
  BY <1>26 DEF Anomaly, Judge, NoneStarts
<1>27. ASSUME NEW d \in Deploys, MonitorEnds(d) PROVE NoneStarts'
  BY <1>27 DEF MonitorEnds, Judge, NoneStarts
<1>28. ASSUME NEW d \in Deploys, MonitorCancelled(d) PROVE NoneStarts'
  BY <1>28 DEF MonitorCancelled, NoneStarts
<1>29. ASSUME NEW d \in Deploys, StopRequested(d) PROVE NoneStarts'
  BY <1>29 DEF StopRequested, NoneStarts
<1>30. ASSUME NEW p \in Plans, CancelPlan(p) PROVE NoneStarts'
  BY <1>30 DEF CancelPlan, NoneStarts
<1>31. CASE Restart
  BY <1>31 DEF Restart, Idle, Done, NoneStarts
<1>32. CASE UNCHANGED vars
  BY <1>32 DEF vars, NoneStarts
<1> QED
  BY <1>1, <1>2, <1>3, <1>4, <1>5, <1>6, <1>7, <1>8, <1>9, <1>10, <1>11,
     <1>12, <1>13, <1>14, <1>15, <1>16, <1>17, <1>18, <1>19, <1>20, <1>21,
     <1>22, <1>23, <1>24, <1>25, <1>26, <1>27, <1>28, <1>29, <1>30, <1>31,
     <1>32, RequestMoves DEF Next, DeployStep, RollbackStep, SharedStep,
     SignOff

\* A monitor watches what runs.
LEMMA WatchedStep ==
    ASSUME TypeOK, LockedOne, PlacesOK, OwnContainer, TargetsAgree, MonitorsStopped,
           ~loose', ~drift, ~loose, [Next]_vars
    PROVE  (\A m \in Deploys : Watched(m))'
<1>a. NoneStarts /\ \A m \in Deploys : Watched(m)
  BY DEF MonitorsStopped
<1>b. monitor \in [Deploys -> {"off", "running", "flagged", "cancelled"}]
  BY DEF TypeOK
<1> USE <1>a, <1>b
<1> USE RequestFacts, SameRecords
       DEF dockerVars, verifierVars, historyVars, Moves, Goes, Ends, KeepsWatch,
           KeepsEnd
<1>1. ASSUME NEW d \in Deploys, NEW p \in Plans,
             Execute(d, p), ExecuteMove(d, p)
      PROVE  (\A m \in Deploys : Watched(m))'
  BY <1>1 DEF Execute, ExecuteMove, Watched, Unwatched, Active, LockedOne,
     Critical
<1>2. ASSUME NEW d \in Deploys, Enter(d), EnterMove(d)
      PROVE  (\A m \in Deploys : Watched(m))'
  BY <1>2 DEF Enter, EnterMove, Leave, Watched, Unwatched, Active,
     LockedOne, Critical
<1>3. ASSUME NEW d \in Deploys, RefuseBuild(d), RefuseBuildMove(d)
      PROVE  (\A m \in Deploys : Watched(m))'
  BY <1>3 DEF RefuseBuild, RefuseBuildMove, Leave, Watched, Unwatched,
     Active, LockedOne, Critical
<1>4. ASSUME NEW d \in Deploys, Build(d), BuildMove(d)
      PROVE  (\A m \in Deploys : Watched(m))'
  BY <1>4 DEF Build, BuildMove, Watched, Unwatched, Active, LockedOne,
     Critical
<1>5. ASSUME NEW d \in Deploys, Capture(d), CaptureMove(d)
      PROVE  (\A m \in Deploys : Watched(m))'
  BY <1>5 DEF Capture, CaptureMove, Watched, Unwatched, Active, LockedOne,
     Critical
<1>6. ASSUME NEW d \in Deploys, Replace(d), ReplaceMove(d)
      PROVE  (\A m \in Deploys : Watched(m))'
  BY <1>6 DEF Replace, ReplaceMove, Stopped, Watched, Unwatched, Active,
     LockedOne, Critical
<1>7. ASSUME NEW d \in Deploys, Run(d), RunMove(d)
      PROVE  (\A m \in Deploys : Watched(m))'
  BY <1>7 DEF Run, RunMove, Watched, Unwatched, Active, LockedOne,
     Critical
<1>8. ASSUME NEW d \in Deploys, RunFails(d), RunFailsMove(d)
      PROVE  (\A m \in Deploys : Watched(m))'
  BY <1>8 DEF RunFails, RunFailsMove, Leave, Watched, Unwatched, Active,
     LockedOne, Critical
<1>9. ASSUME NEW d \in Deploys, Serves(d), ServesMove(d)
      PROVE  (\A m \in Deploys : Watched(m))'
  BY <1>9 DEF Serves, ServesMove, Watched, Unwatched, Active, LockedOne,
     Critical
<1>10. ASSUME NEW d \in Deploys, Fails(d), FailsMove(d)
      PROVE  (\A m \in Deploys : Watched(m))'
  BY <1>10 DEF Fails, FailsMove, Watched, Unwatched, Active, LockedOne,
     Critical
<1>11. ASSUME NEW d \in Deploys, Record(d), RecordMove(d), RecordsRelease(d)
      PROVE  (\A m \in Deploys : Watched(m))'
  BY <1>11 DEF Record, RecordMove, RecordsRelease, Leave, Watched,
     Unwatched, Active, LockedOne, Critical
<1>12. ASSUME NEW d \in Deploys, Pin(d), PinMove(d), KeepsReleases
      PROVE  (\A m \in Deploys : Watched(m))'
  BY <1>12 DEF Pin, PinMove, KeepsReleases, Watched, Unwatched, Active,
     LockedOne, Critical
<1>13. ASSUME NEW d \in Deploys, Prune(d), PruneMove(d)
      PROVE  (\A m \in Deploys : Watched(m))'
  BY <1>13 DEF Prune, PruneMove, Leave, Watched, Unwatched, Active,
     LockedOne, Critical
<1>14. ASSUME NEW k \in Rollbacks, NEW d \in Deploys,
              NEW pc \in {"ask", "askCurrent"},
             AskRollback(k, d, pc), AskRollbackMove(k, d, pc)
      PROVE  (\A m \in Deploys : Watched(m))'
  BY <1>14 DEF AskRollback, AskRollbackMove, Watched, Unwatched, Active,
     LockedOne, Critical
<1>15. ASSUME NEW k \in Rollbacks,
             EnterRollback(k), EnterRollbackMove(k), KeepsReleases
      PROVE  (\A m \in Deploys : Watched(m))'
  <2>1. monitor' = monitor /\ container' = container /\ Recorded' = Recorded
    BY <1>15 DEF EnterRollback, KeepsReleases
  <2>2. CASE Ends(k)
    BY <2>1, <2>2 DEF Watched, Unwatched, Active
  <2>3. CASE ~Ends(k)
    <3>1. /\ request'[k].pc = "stop" /\ Moves(k, "stop")
          /\ request'[k].stops = IF Active(request[k].of) THEN {request[k].of} ELSE {}
          /\ container = request[k].of
      BY <1>15, <2>3 DEF EnterRollbackMove, IsCurrent
    <3>2. \A m \in Deploys : Active(m) => m \in request'[k].stops
      BY <3>1 DEF Watched
    <3> QED
      BY <2>1, <3>1, <3>2 DEF Watched, Unwatched, Active
  <2> QED
    BY <2>2, <2>3
<1>16. ASSUME NEW k \in Rollbacks,
             ReplaceForRollback(k), ReplaceForRollbackMove(k)
      PROVE  (\A m \in Deploys : Watched(m))'
  BY <1>16 DEF ReplaceForRollback, ReplaceForRollbackMove, Stopped,
     Watched, Unwatched, Active, LockedOne, Critical
<1>17. ASSUME NEW k \in Rollbacks, RunTarget(k), RunTargetMove(k)
      PROVE  (\A m \in Deploys : Watched(m))'
  BY <1>17 DEF RunTarget, RunTargetMove, Watched, Unwatched, Active,
     LockedOne, Critical
<1>18. ASSUME NEW k \in Rollbacks, RunTargetFails(k), RunTargetFailsMove(k)
      PROVE  (\A m \in Deploys : Watched(m))'
  BY <1>18 DEF RunTargetFails, RunTargetFailsMove, Watched, Unwatched,
     Active, LockedOne, Critical
<1>19. ASSUME NEW k \in Rollbacks,
             RunTargetRaises(k), RunTargetRaisesMove(k), KeepsReleases
      PROVE  (\A m \in Deploys : Watched(m))'
  BY <1>19 DEF RunTargetRaises, RunTargetRaisesMove, KeepsReleases, Leave,
     Watched, Unwatched, Active, LockedOne, Critical
<1>20. ASSUME NEW k \in Rollbacks,
             EndRollback(k), EndRollbackMove(k), KeepsReleases
      PROVE  (\A m \in Deploys : Watched(m))'
  <2>1. lock = k /\ request[k].pc = "end" /\ \A m \in Deploys : ~Active(m)
    BY <1>20 DEF EndRollback, LockedOne, Critical, Watched, Unwatched
  <2>2. /\ container' = container /\ Recorded' = Recorded
        /\ \/ monitor' = monitor
           \/ /\ monitor' = [monitor EXCEPT ![SourceOf(k)] = "running"]
              /\ SourceOf(k) \in Recorded /\ request[k].ok
    BY <1>20, <2>1 DEF EndRollback, EndRollbackMove, KeepsReleases, Recorded
  <2>3. request[k].ok /\ SourceOf(k) \in Recorded => container = SourceOf(k)
    <3>1. RolledBack(k) /\ ReleasesAgree /\ request[k].of \in Recorded
      BY <2>1 DEF TargetsAgree, PlacesOK, RollbackPlaced
    <3> QED
      BY <2>1, <3>1 DEF RolledBack, ReleasesAgree, Agree, SourceOf, Recorded
  <2>4. request'[k].pc = "done"
    BY <1>20, <2>1 DEF EndRollbackMove, NoneStarts, Recorded
  <2>5. \A q \in Requests : ~Unwatched(q)' /\ request'[q].pc # "stop"
    BY <1>20, <2>1, <2>4
       DEF EndRollbackMove, NoneStarts, LockedOne, Critical, Unwatched
  <2> QED
    BY <2>1, <2>2, <2>3, <2>5 DEF Watched, Active
<1>21. ASSUME NEW r \in Requests, NEW n \in Deploys,
             StopMonitor(r, n), StopMonitorMove(r, n)
      PROVE  (\A m \in Deploys : Watched(m))'
  BY <1>21 DEF StopMonitor, StopMonitorMove, Watched, Unwatched, Active,
     LockedOne, Critical
<1>22. ASSUME NEW r \in Requests, StartMonitor(r), StartMonitorMove(r)
      PROVE  (\A m \in Deploys : Watched(m))'
  <2>1. /\ r \in Deploys /\ request[r].pc = "start" /\ request[r].what \in Recorded
        /\ request[r].what \in Deploys /\ lock = r /\ container = request[r].what
    BY <1>22
       DEF StartMonitor, NoneStarts, PlacesOK, DeployPlaced, LockedOne, Critical,
                 OwnContainer, Recorded
  <2>2. \A m \in Deploys : ~Active(m)
    BY <2>1 DEF Watched, Unwatched
  <2>3. /\ monitor' = [monitor EXCEPT ![request[r].what] = "running"]
        /\ container' = container /\ records' = records
    BY <1>22, <2>1, <2>2 DEF StartMonitor
  <2>4. \A q \in Requests : ~Unwatched(q)' /\ request'[q].pc # "stop"
    <3>1. ASSUME NEW q \in Requests \ {r}
          PROVE  ~Unwatched(q)' /\ request'[q].pc # "stop"
      BY <1>22, <2>1 DEF StartMonitorMove, NoneStarts, LockedOne, Critical, Unwatched
    <3>2. ~Unwatched(r)' /\ request'[r].pc # "stop"
      BY <1>22, <2>1, <2>2 DEF StartMonitorMove, PlacesOK, DeployPlaced, Unwatched
    <3> QED
      BY <3>1, <3>2
  <2>5. \A m \in Deploys : Active(m)' => m = request[r].what
    BY <2>1, <2>2, <2>3 DEF Active
  <2> QED
    BY <2>1, <2>3, <2>4, <2>5 DEF Watched
<1>23. ASSUME NEW r \in Requests, Joined(r), JoinedMove(r)
      PROVE  (\A m \in Deploys : Watched(m))'
  <2>1. CASE request[r].pc = "start"
    <3>1. /\ r \in Deploys /\ request[r].pc = "start" /\ request[r].what \in Recorded
          /\ request[r].what \in Deploys /\ lock = r /\ container = request[r].what
      BY <1>23, <2>1 DEF NoneStarts, PlacesOK, DeployPlaced, LockedOne, Critical,
                   OwnContainer, Recorded
    <3>2. \A m \in Deploys : ~Active(m)
      BY <3>1 DEF Watched, Unwatched
    <3>3. /\ monitor' = [monitor EXCEPT ![request[r].what] = "running"]
          /\ container' = container /\ records' = records
      BY <1>23, <2>1, <3>1, <3>2 DEF Joined
    <3>4. \A q \in Requests : ~Unwatched(q)' /\ request'[q].pc # "stop"
      <4>1. ASSUME NEW q \in Requests \ {r}
            PROVE  ~Unwatched(q)' /\ request'[q].pc # "stop"
        BY <1>23, <3>1 DEF JoinedMove, NoneStarts, LockedOne, Critical, Unwatched
      <4>2. ~Unwatched(r)' /\ request'[r].pc # "stop"
        BY <1>23, <2>1, <3>1, <3>2 DEF JoinedMove, PlacesOK, DeployPlaced, Unwatched
      <4> QED
        BY <4>1, <4>2
    <3>5. \A m \in Deploys : Active(m)' => m = request[r].what
      BY <3>1, <3>2, <3>3 DEF Active
    <3> QED
      BY <3>1, <3>3, <3>4, <3>5 DEF Watched
  
  <2>2. CASE request[r].pc # "start"
    <3>1. /\ request[r].pc = "stop" /\ ~Active(request[r].wait)
          /\ monitor' = monitor /\ container' = container /\ records' = records
      BY <1>23, <2>2 DEF Joined, PlacesOK, Placed
    <3> QED
      BY <1>23, <2>2, <3>1 DEF JoinedMove, Watched, Unwatched, Active
  <2> QED
    BY <2>1, <2>2
<1>24. ASSUME NEW r \in Requests, Restore(r), RestoreMove(r)
      PROVE  (\A m \in Deploys : Watched(m))'
  BY <1>24 DEF Restore, RestoreMove, Leave, Watched, Unwatched, Active,
     LockedOne, Critical
<1>25. ASSUME NEW r \in Requests, RestoreFails(r), RestoreFailsMove(r)
      PROVE  (\A m \in Deploys : Watched(m))'
  BY <1>25 DEF RestoreFails, RestoreFailsMove, Leave, Watched, Unwatched,
     Active, LockedOne, Critical
<1>26. ASSUME NEW d \in Deploys, Anomaly(d), KeepsReleases
      PROVE  (\A m \in Deploys : Watched(m))'
  BY <1>26 DEF Anomaly, KeepsReleases, Judge, Watched, Unwatched, Active,
     LockedOne, Critical
<1>27. ASSUME NEW d \in Deploys, MonitorEnds(d), KeepsReleases
      PROVE  (\A m \in Deploys : Watched(m))'
  BY <1>27 DEF MonitorEnds, KeepsReleases, Judge, Watched, Unwatched,
     Active, LockedOne, Critical
<1>28. ASSUME NEW d \in Deploys, MonitorCancelled(d)
      PROVE  (\A m \in Deploys : Watched(m))'
  BY <1>28 DEF MonitorCancelled, Watched, Unwatched, Active, LockedOne,
     Critical
<1>29. ASSUME NEW d \in Deploys, StopRequested(d)
      PROVE  (\A m \in Deploys : Watched(m))'
  BY <1>29 DEF StopRequested, Watched, Unwatched, Active, LockedOne,
     Critical
<1>30. ASSUME NEW p \in Plans, CancelPlan(p)
      PROVE  (\A m \in Deploys : Watched(m))'
  BY <1>30 DEF CancelPlan, Watched, Unwatched, Active, LockedOne, Critical
<1>31. ASSUME Restart, LoadsReleases PROVE (\A m \in Deploys : Watched(m))'
  BY <1>31 DEF Restart, LoadsReleases, Idle, Done, Watched, Unwatched,
     Active, LockedOne, Critical
<1>32. CASE UNCHANGED vars
  BY <1>32 DEF vars, Watched, Unwatched, Active, LockedOne, Critical
<1> QED
  BY <1>1, <1>2, <1>3, <1>4, <1>5, <1>6, <1>7, <1>8, <1>9, <1>10, <1>11,
     <1>12, <1>13, <1>14, <1>15, <1>16, <1>17, <1>18, <1>19, <1>20, <1>21,
     <1>22, <1>23, <1>24, <1>25, <1>26, <1>27, <1>28, <1>29, <1>30, <1>31,
     <1>32, RequestMoves, ReleasesKept, ReleaseRecorded, ReleasesLoaded DEF
     Next, DeployStep, RollbackStep, SharedStep, SignOff

\* Both of that, unless a rollback ran that require_current would refuse.
LEMMA MonitorsStoppedStep ==
    ASSUME TypeOK, LockedOne, PlacesOK, OwnContainer, TargetsAgree, MonitorsStopped,
           [Next]_vars
    PROVE  MonitorsStopped'
<1>1. ASSUME ~loose', ~drift' PROVE (NoneStarts /\ \A m \in Deploys : Watched(m))'
  BY <1>1, HistoryStays, NoneStartsStep, WatchedStep
<1> QED
  BY <1>1 DEF MonitorsStopped

-----------------------------------------------------------------------------
(* The pins. *)

\* No trouble now: none before.
LEMMA NoTroubleBefore ==
    ASSUME TypeOK, [Next]_vars, NoTrouble'
    PROVE  NoTrouble /\ ~Restart /\ faults' = 0
<1>1. ~Restart
  BY FaultsTyped DEF NoTrouble, Restart
<1> QED
  BY <1>1, FaultsStay, CutStays DEF NoTrouble

\* Pins and image ids on record belong to a record.
LEMMA PinsRecordedStep ==
    ASSUME TypeOK, PlacesOK, PinsRecorded, [Next]_vars
    PROVE  PinsRecorded'
<1>1. ASSUME NEW d \in Deploys, records'[d].pinned \/ records'[d].id
      PROVE  d \in Recorded'
  <2>1. CASE records' = records
    BY <1>1, <2>1 DEF PinsRecorded, Recorded
  <2>2. CASE KeepsReleases
    BY <1>1, <2>2 DEF PinsRecorded, KeepsReleases, Pin, PlacesOK, DeployPlaced
  <2>3. ASSUME NEW e \in Deploys, Record(e), RecordsRelease(e)
        PROVE  d \in Recorded'
    BY <1>1, <2>3 DEF PinsRecorded, RecordsRelease
  <2>4. CASE LoadsReleases
    BY <1>1, <2>4 DEF PinsRecorded, LoadsReleases
  <2> QED
    BY <2>1, <2>2, <2>3, <2>4, RecordsChange
<1>2. ASSUME NEW d \in Deploys, saved'[d].pinned \/ saved'[d].id
      PROVE  saved'[d].status # "absent"
  BY <1>1, <1>2, SavedWhole DEF PinsRecorded, Recorded
<1> QED
  BY <1>1, <1>2 DEF PinsRecorded, Recorded

\* A deployment that is to pin its image does so next.
PinsFollow ==
    \A e \in Deploys :
        request[e].pc = "pin" => request'[e].pc = "pin" \/ Pin(e) \/ Restart

LEMMA PinLeaves ==
    ASSUME TypeOK, LockedOne, [Next]_vars
    PROVE  PinsFollow
<1> USE RequestFacts
       DEF PinsFollow, dockerVars, verifierVars, historyVars, Moves, Goes, Ends
<1>1. ASSUME NEW d \in Deploys, NEW p \in Plans,
             Execute(d, p), ExecuteMove(d, p)
      PROVE  PinsFollow
  BY <1>1 DEF Execute, ExecuteMove
<1>2. ASSUME NEW d \in Deploys, Enter(d), EnterMove(d)
      PROVE  PinsFollow
  BY <1>2 DEF Enter, EnterMove, Leave
<1>3. ASSUME NEW d \in Deploys, RefuseBuild(d), RefuseBuildMove(d)
      PROVE  PinsFollow
  BY <1>3 DEF RefuseBuild, RefuseBuildMove, Leave
<1>4. ASSUME NEW d \in Deploys, Build(d), BuildMove(d)
      PROVE  PinsFollow
  BY <1>4 DEF Build, BuildMove
<1>5. ASSUME NEW d \in Deploys, Capture(d), CaptureMove(d)
      PROVE  PinsFollow
  BY <1>5 DEF Capture, CaptureMove
<1>6. ASSUME NEW d \in Deploys, Replace(d), ReplaceMove(d)
      PROVE  PinsFollow
  BY <1>6 DEF Replace, ReplaceMove, Stopped
<1>7. ASSUME NEW d \in Deploys, Run(d), RunMove(d)
      PROVE  PinsFollow
  BY <1>7 DEF Run, RunMove
<1>8. ASSUME NEW d \in Deploys, RunFails(d), RunFailsMove(d)
      PROVE  PinsFollow
  BY <1>8 DEF RunFails, RunFailsMove, Leave
<1>9. ASSUME NEW d \in Deploys, Serves(d), ServesMove(d)
      PROVE  PinsFollow
  BY <1>9 DEF Serves, ServesMove
<1>10. ASSUME NEW d \in Deploys, Fails(d), FailsMove(d)
      PROVE  PinsFollow
  BY <1>10 DEF Fails, FailsMove
<1>11. ASSUME NEW d \in Deploys, Record(d), RecordMove(d)
      PROVE  PinsFollow
  BY <1>11 DEF Record, RecordMove, Leave
<1>12. ASSUME NEW d \in Deploys, Pin(d), PinMove(d)
      PROVE  PinsFollow
  BY <1>12 DEF PinMove
<1>13. ASSUME NEW d \in Deploys, Prune(d), PruneMove(d)
      PROVE  PinsFollow
  BY <1>13 DEF Prune, PruneMove, Leave
<1>14. ASSUME NEW k \in Rollbacks, NEW d \in Deploys,
              NEW pc \in {"ask", "askCurrent"},
             AskRollback(k, d, pc), AskRollbackMove(k, d, pc)
      PROVE  PinsFollow
  BY <1>14 DEF AskRollback, AskRollbackMove
<1>15. ASSUME NEW k \in Rollbacks, EnterRollback(k), EnterRollbackMove(k)
      PROVE  PinsFollow
  BY <1>15 DEF EnterRollback, EnterRollbackMove
<1>16. ASSUME NEW k \in Rollbacks,
             ReplaceForRollback(k), ReplaceForRollbackMove(k)
      PROVE  PinsFollow
  BY <1>16 DEF ReplaceForRollback, ReplaceForRollbackMove, Stopped
<1>17. ASSUME NEW k \in Rollbacks, RunTarget(k), RunTargetMove(k)
      PROVE  PinsFollow
  BY <1>17 DEF RunTarget, RunTargetMove
<1>18. ASSUME NEW k \in Rollbacks, RunTargetFails(k), RunTargetFailsMove(k)
      PROVE  PinsFollow
  BY <1>18 DEF RunTargetFails, RunTargetFailsMove
<1>19. ASSUME NEW k \in Rollbacks, RunTargetRaises(k), RunTargetRaisesMove(k)
      PROVE  PinsFollow
  BY <1>19 DEF RunTargetRaises, RunTargetRaisesMove, Leave
<1>20. ASSUME NEW k \in Rollbacks, EndRollback(k), EndRollbackMove(k)
      PROVE  PinsFollow
  BY <1>20 DEF EndRollback, EndRollbackMove
<1>21. ASSUME NEW r \in Requests, NEW m \in Deploys,
             StopMonitor(r, m), StopMonitorMove(r, m)
      PROVE  PinsFollow
  BY <1>21 DEF StopMonitor, StopMonitorMove
<1>22. ASSUME NEW r \in Requests, StartMonitor(r), StartMonitorMove(r)
      PROVE  PinsFollow
  BY <1>22 DEF StartMonitor, StartMonitorMove
<1>23. ASSUME NEW r \in Requests, Joined(r), JoinedMove(r)
      PROVE  PinsFollow
  BY <1>23 DEF Joined, JoinedMove
<1>24. ASSUME NEW r \in Requests, Restore(r), RestoreMove(r)
      PROVE  PinsFollow
  BY <1>24 DEF Restore, RestoreMove, Leave
<1>25. ASSUME NEW r \in Requests, RestoreFails(r), RestoreFailsMove(r)
      PROVE  PinsFollow
  BY <1>25 DEF RestoreFails, RestoreFailsMove, Leave
<1>26. ASSUME NEW d \in Deploys, Anomaly(d)
      PROVE  PinsFollow
  BY <1>26 DEF Anomaly, Judge
<1>27. ASSUME NEW d \in Deploys, MonitorEnds(d)
      PROVE  PinsFollow
  BY <1>27 DEF MonitorEnds, Judge
<1>28. ASSUME NEW d \in Deploys, MonitorCancelled(d)
      PROVE  PinsFollow
  BY <1>28 DEF MonitorCancelled
<1>29. ASSUME NEW d \in Deploys, StopRequested(d)
      PROVE  PinsFollow
  BY <1>29 DEF StopRequested
<1>30. ASSUME NEW p \in Plans, CancelPlan(p)
      PROVE  PinsFollow
  BY <1>30 DEF CancelPlan
<1>31. CASE Restart
  BY <1>31
<1>32. CASE UNCHANGED vars
  BY <1>32 DEF vars
<1> QED
  BY <1>1, <1>2, <1>3, <1>4, <1>5, <1>6, <1>7, <1>8, <1>9, <1>10, <1>11,
     <1>12, <1>13, <1>14, <1>15, <1>16, <1>17, <1>18, <1>19, <1>20, <1>21,
     <1>22, <1>23, <1>24, <1>25, <1>26, <1>27, <1>28, <1>29, <1>30, <1>31,
     <1>32, RequestMoves DEF Next, DeployStep, RollbackStep, SharedStep,
     SignOff

\* The fields of a record that the proofs below look at.
LEMMA RecordFields ==
    ASSUME TypeOK, NEW d \in Deploys
    PROVE  records[d].pinned \in BOOLEAN /\ records[d].id \in BOOLEAN
BY DEF TypeOK, RecordType

\* The image id of a release comes with its pin.
LEMMA IdPinned ==
    ASSUME TypeOK, LockedOne, PlacesOK, PlansUsed, PinsKept, NoTrouble, [Next]_vars,
           NoTrouble', NEW d \in Deploys, records'[d].id
    PROVE  records'[d].pinned \/ request'[d].pc = "pin"
<1>1. ~Restart /\ PinKept(d) /\ faults' = 0
  BY NoTroubleBefore DEF PinsKept
<1>2. ASSUME NEW e \in Deploys, Record(e), RecordsRelease(e), RecordMove(e), d = e
      PROVE  request'[d].pc = "pin"
  <2>1. request[d].ok
    BY <1>1, <1>2 DEF RecordsRelease
  <2>2. plan[request[d].plan] \in {"ready", "cut"} /\ request[d].plan \in Plans
    BY <1>2 DEF Record, PlansUsed, Carried, PlacesOK, DeployPlaced
  <2> QED
    BY <1>2, <2>1, <2>2 DEF RecordMove, Goes, Moves, NoTrouble
<1>3. CASE records' = records \/ KeepsReleases \/ \E e \in Deploys \ {d} : RecordsRelease(e)
  <2>1. /\ records[d].id
        /\ records[d].pinned => records'[d].pinned
    BY <1>3, RecordFields DEF KeepsReleases, RecordsRelease
  <2>2. Pin(d) => records'[d].pinned
    BY <1>1 DEF Pin, Fault, TypeOK, RecordType
  <2> QED
    BY <1>1, <2>1, <2>2, PinLeaves DEF PinsFollow, PinKept
<1> QED
  BY <1>1, <1>2, <1>3, RecordsChange, RequestMoves

\* The newer releases can be counted.
LEMMA NewerCounted ==
    ASSUME NEW d \in Deploys
    PROVE  /\ IsFiniteSet(NewerThan(d)) /\ Cardinality(NewerThan(d)) \in Nat
           /\ IsFiniteSet(NewerThan(d)') /\ Cardinality(NewerThan(d)') \in Nat
BY DeployAssumption, FS_Subset, FS_CardinalityType DEF NewerThan

\* Pruning spares the pins of the newest PinKeep releases.
LEMMA PruneSpares ==
    ASSUME TypeOK, NEW d \in Deploys, Prune(d), NEW e \in pins, e \notin pins'
    PROVE  Cardinality(NewerThan(e)) >= PinKeep
<1> DEFINE newer == {q \in pins : built[q] > built[e]}
<1>1. pins \subseteq Deploys
  BY DEF TypeOK
<1>2. newer \subseteq NewerThan(e) /\ IsFiniteSet(NewerThan(e))
  BY <1>1, DeployAssumption, FS_Subset DEF NewerThan
<1>3. ~(Cardinality(newer) < PinKeep)
  BY DEF Prune, Surviving
<1> HIDE DEF newer
<1>4. Cardinality(newer) <= Cardinality(NewerThan(e))
  BY <1>2, FS_Subset
<1>5. Cardinality(newer) \in Nat /\ Cardinality(NewerThan(e)) \in Nat /\ PinKeep \in Nat
  BY <1>2, FS_Subset, FS_CardinalityType, DeployAssumption
<1> QED
  BY <1>3, <1>4, <1>5

\* A build is newer than all releases on record.
LEMMA BuildIsNewest ==
    ASSUME TypeOK, PlacesOK, NEW d \in Deploys, Build(d), NEW e \in Deploys, e # d
    PROVE  Cardinality(NewerThan(e)') >= Cardinality(NewerThan(e))
<1>1. built \in [Deploys -> Nat] /\ built[d] = 0
  BY DEF TypeOK, Build, PlacesOK, DeployPlaced
<1>2. \A q \in Deploys \ {d} : built'[q] = built[q]
  BY <1>1 DEF Build
<1>3. NewerThan(e) \subseteq NewerThan(e)'
  BY <1>1, <1>2 DEF NewerThan
<1>4. IsFiniteSet(NewerThan(e)')
  BY DeployAssumption, FS_Subset DEF NewerThan
<1>5. Cardinality(NewerThan(e)) <= Cardinality(NewerThan(e)')
  BY <1>3, <1>4, FS_Subset
<1> QED
  BY <1>3, <1>4, <1>5, FS_Subset, FS_CardinalityType

\* A pin on record is there, or it is out of the newest PinKeep.
LEMMA PinThere ==
    ASSUME TypeOK, LockedOne, PlacesOK, PinsKept, NoTrouble, [Next]_vars, NoTrouble',
           NEW d \in Deploys, records'[d].pinned
    PROVE  d \in pins' \/ Cardinality(NewerThan(d)') >= PinKeep
<1>1. ~Restart /\ PinKept(d) /\ faults' = 0
  BY NoTroubleBefore DEF PinsKept
<1>2. records[d].pinned \/ Pin(d)
  <2>1. ASSUME NEW e \in Deploys, RecordsRelease(e) PROVE records[d].pinned
    BY <2>1 DEF RecordsRelease
  <2>2. CASE KeepsReleases
    BY <2>2 DEF KeepsReleases
  <2> QED
    BY <1>1, <2>1, <2>2, RecordsChange
<1>3. CASE Pin(d)
  BY <1>1, <1>3 DEF Pin, Fault, TypeOK
<1>4. CASE records[d].pinned
  <2>1. d \in pins \/ Cardinality(NewerThan(d)) >= PinKeep
    BY <1>1, <1>4 DEF PinKept
  <2>2. CASE built' = built /\ pins \subseteq pins'
    BY <2>1, <2>2 DEF NewerThan
  <2>3. ASSUME NEW e \in Deploys, Prune(e)
        PROVE  d \in pins' \/ Cardinality(NewerThan(d)') >= PinKeep
    <3>1. NewerThan(d)' = NewerThan(d)
      BY <2>3 DEF Prune, NewerThan
    <3> QED
      BY <2>1, <2>3, <3>1, PruneSpares
  <2>4. ASSUME NEW e \in Deploys, Build(e)
        PROVE  d \in pins' \/ Cardinality(NewerThan(d)') >= PinKeep
    <3>1. e # d
      BY <1>4, <2>4 DEF Build, PinsKept, PinsRecorded, PlacesOK, DeployPlaced
    <3>2. pins' = pins
      BY <2>4 DEF Build
    <3>3. /\ Cardinality(NewerThan(d)') >= Cardinality(NewerThan(d))
          /\ Cardinality(NewerThan(d)) \in Nat /\ PinKeep \in Nat
          /\ Cardinality(NewerThan(d)') \in Nat
      BY <2>4, <3>1, BuildIsNewest, NewerCounted, DeployAssumption
    <3> QED
      BY <2>1, <3>2, <3>3
  <2> QED
    BY <2>2, <2>3, <2>4, PinsChange
<1> QED
  BY <1>2, <1>3, <1>4

\* A release whose image id is known keeps its pin.
LEMMA PinsKeptStep ==
    ASSUME TypeOK, LockedOne, PlacesOK, PlansUsed, PinsKept, [Next]_vars
    PROVE  PinsKept'
BY PinsRecordedStep, NoTroubleBefore, IdPinned, PinThere DEF PinsKept, PinKept

-----------------------------------------------------------------------------
(* The theorems. *)

\* The inductive invariant holds at first ...
LEMMA InitHolds == Init => IInv
<1> SUFFICES ASSUME Init PROVE IInv
  OBVIOUS
<1>1. TypeOK
  <2>1. NoRecord \in RecordType
    BY RecordFacts, TypeFacts DEF NoRecord, RecordType
  <2>2. request \in [Requests -> RequestType]
    BY IdleTyped DEF Init
  <2>3. records \in [Deploys -> RecordType] /\ saved \in [Deploys -> RecordType]
    BY <2>1 DEF Init
  <2>4. 0 \in 0 .. MaxFaults
    BY DeployAssumption
  <2> QED
    BY <2>2, <2>3, <2>4 DEF Init, TypeOK, Images
<1>2. /\ \A r \in Requests : request[r] = Idle
      /\ \A d \in Deploys : records[d] = NoRecord /\ saved[d] = NoRecord /\ built[d] = 0
      /\ \A d \in Deploys : monitor[d] = "off"
      /\ lock = None /\ vlock = None /\ pins = {}
  BY RequestFacts DEF Init
<1>3. Recorded = {}
  BY <1>2 DEF Recorded, NoRecord
<1>4. LockedOne /\ SavedKnown /\ OwnContainer
  BY <1>2, <1>3, RequestFacts
     DEF LockedOne, Critical, SavedKnown, OwnContainer, Idle, NoRecord
<1>5. PlacesOK
  BY <1>2, <1>3, RequestFacts
     DEF PlacesOK, Placed, DeployPlaced, RollbackPlaced, DeployPcs, RollbackPcs, Idle
<1>6. PlansUsed /\ RollbackSettles
  BY <1>2, <1>3, RequestFacts DEF PlansUsed, Carried, RollbackSettles, Idle, NoRecord
<1>7. TargetsAgree
  BY <1>2, <1>3, RequestFacts
     DEF TargetsAgree, TargetCurrent, TargetOfSource, Carried, ReleasesAgree,
         RolledBack, Idle, NoRecord
<1>8. MonitorsStopped
  BY <1>2, RequestFacts DEF MonitorsStopped, NoneStarts, Watched, Active, Idle
<1>9. SourcesStable /\ PriorsHeld
  BY <1>2, RequestFacts
     DEF SourcesStable, PriorsHeld, PriorFound, UpAtEnd, PutBackKept, Idle
<1>10. PinsKept
  BY <1>2 DEF PinsKept, PinsRecorded, PinKept, NoRecord
<1> QED
  BY <1>1, <1>4, <1>5, <1>6, <1>7, <1>8, <1>9, <1>10 DEF IInv

\* ... and every step keeps it.
LEMMA StepKeeps == IInv /\ [Next]_vars => IInv'
<1> SUFFICES ASSUME IInv, [Next]_vars PROVE IInv'
  OBVIOUS
<1> USE DEF IInv
<1>1. TypeOK'
  BY TypeStep
<1>2. LockedOne'
  BY LockedStep
<1>3. PlacesOK'
  BY PlacedStep, DeployPlacedStep, RollbackPlacedStep DEF PlacesOK
<1>4. SavedKnown' /\ OwnContainer' /\ PlansUsed' /\ RollbackSettles'
  BY SavedKnownStep, OwnContainerStep, PlansUsedStep, RollbackSettlesStep
<1>5. TargetsAgree' /\ MonitorsStopped'
  BY TargetsAgreeStep, MonitorsStoppedStep
<1>6. SourcesStable' /\ PriorsHeld'
  BY SourcesStableStep, PriorFoundStep, UpAtEndStep DEF PriorsHeld
<1>7. PinsKept'
  BY PinsKeptStep
<1> QED
  BY <1>1, <1>2, <1>3, <1>4, <1>5, <1>6, <1>7

\* The inductive invariant holds.
THEOREM Invariant == Spec => []IInv
BY InitHolds, StepKeeps, PTL DEF Spec

\* Every variable keeps its type.
THEOREM TypeCorrect == Spec => []TypeOK
<1>1. IInv => TypeOK
  BY DEF IInv
<1> QED
  BY <1>1, Invariant, PTL

\* From the health check until the pin, the container runs the release of the
\* deployment that holds the lock, for any number of deployments and rollbacks:
\* no interleaving with another request, and no failure, puts another there.
THEOREM VerdictIsOwnCorrect == Spec => []VerdictIsOwn
<1>1. IInv => VerdictIsOwn
  BY RequestFacts DEF IInv, VerdictIsOwn, LockedOne, Critical, OwnContainer
<1> QED
  BY <1>1, Invariant, PTL

\* Two records never carry the same plan, and the plan of a record was not
\* cancelled before: retries, second clicks and restarts carry no plan out twice.
THEOREM PlanOnceCorrect == Spec => []PlanOnce
<1>1. IInv => PlanOnce
  BY DEF IInv, PlanOnce, PlansUsed
<1> QED
  BY <1>1, Invariant, PTL

\* A record says that its rollback runs only while a rollback of it holds the
\* lock: after an exception or a restart of the Core it says something else.
THEOREM RollbackSettlesCorrect == Spec => []RollbackSettles
<1>1. IInv => RollbackSettles
  BY DEF IInv
<1> QED
  BY <1>1, Invariant, PTL

\* A monitor watches the release it was started for, for any number of monitors
\* that start, are cancelled and end next to the requests.
THEOREM MonitorWatchesOwnCorrect == Spec => []MonitorWatchesOwn
<1>1. IInv => MonitorWatchesOwn
  BY DEF IInv, MonitorWatchesOwn, MonitorsStopped, Watched
<1> QED
  BY <1>1, Invariant, PTL

\* For any number of deployments and any PinKeep, pruning and collecting images
\* leave a deployment what it would have to put back.
THEOREM SourceKeptCorrect == Spec => []SourceKept
<1>1. IInv => SourceKept
  <2> SUFFICES ASSUME IInv, NoTrouble, Building, RollbackSource # None,
                      Cardinality(NewerThan(RollbackSource)) < PinKeep
               PROVE  Resolve(StableRef(records, RollbackSource)) # None
    BY DEF SourceKept, NoTrouble
  <2> DEFINE d == RollbackSource
  <2>1. d \in Deploys /\ StableRef(records, d) # None
    BY SourceAndTarget DEF IInv, TypeOK, Eligible, Recorded
  <2>2. request[d].pc # "pin"
    BY <2>1, RequestFacts DEF IInv, LockedOne, Critical, Building
  <2>3. records[d].pinned
    BY <2>1, <2>2 DEF IInv, PinsKept, PinKept, StableRef
  <2>4. d \in pins
    <3>1. d \in pins \/ Cardinality(NewerThan(d)) >= PinKeep
      BY <2>1, <2>3 DEF IInv, PinsKept, PinKept
    <3>2. Cardinality(NewerThan(d)) \in Nat /\ PinKeep \in Nat
      BY <2>1, NewerCounted, DeployAssumption
    <3> QED
      BY <3>1, <3>2
  <2>5. StableRef(records, d) = <<"pin", d>> /\ <<"pin", d>> # None /\ d # None
    BY <2>1, <2>3, DeployAssumption DEF StableRef
  <2> HIDE DEF d
  <2>6. Resolve(<<"pin", d>>) = d
    BY <2>4, <2>5 DEF Resolve, Kept
  <2> QED
    BY <2>5, <2>6 DEF d
<1> QED
  BY <1>1, Invariant, PTL

\* What ServiceKept says of a step and a request.
LeavesUp(r) ==
    PutBackKept(r) /\ lock' # r /\ faults' = 0 /\ crashes' = crashes
        => container' # None

\* A request that lets go of the lock leaves a container behind.
LEMMA LeavesUpStep ==
    ASSUME IInv, [Next]_vars
    PROVE  \A q \in Requests : LeavesUp(q)
<1>a. /\ TypeOK /\ LockedOne /\ PlacesOK /\ OwnContainer /\ SourcesStable
      /\ PriorsHeld /\ pins \subseteq Deploys
      /\ \A q \in Requests : Critical(q) <=> lock = q
  BY DEF IInv, LockedOne, TypeOK
<1> USE <1>a
<1> USE RequestFacts
       DEF dockerVars, verifierVars, historyVars, Moves, Goes, Ends
<1>1. ASSUME NEW d \in Deploys, NEW p \in Plans,
             Execute(d, p), ExecuteMove(d, p)
      PROVE  \A q \in Requests : LeavesUp(q)
  BY <1>1 DEF Execute, ExecuteMove, LeavesUp, PutBackKept
<1>2. ASSUME NEW d \in Deploys, Enter(d), EnterMove(d)
      PROVE  \A q \in Requests : LeavesUp(q)
  BY <1>2 DEF Enter, EnterMove, Leave, LeavesUp, PutBackKept
<1>3. ASSUME NEW d \in Deploys, RefuseBuild(d), RefuseBuildMove(d)
      PROVE  \A q \in Requests : LeavesUp(q)
  <2>1. lock = d /\ request[d].prior = None
    BY <1>3 DEF RefuseBuild, Critical, PriorsHeld, PriorFound
  <2> QED
    BY <2>1, DeployAssumption DEF LeavesUp, PutBackKept
<1>4. ASSUME NEW d \in Deploys, Build(d), BuildMove(d)
      PROVE  \A q \in Requests : LeavesUp(q)
  BY <1>4 DEF Build, BuildMove, LeavesUp, PutBackKept
<1>5. ASSUME NEW d \in Deploys, Capture(d), CaptureMove(d)
      PROVE  \A q \in Requests : LeavesUp(q)
  BY <1>5 DEF Capture, CaptureMove, LeavesUp, PutBackKept
<1>6. ASSUME NEW d \in Deploys, Replace(d), ReplaceMove(d)
      PROVE  \A q \in Requests : LeavesUp(q)
  BY <1>6 DEF Replace, ReplaceMove, Stopped, LeavesUp, PutBackKept
<1>7. ASSUME NEW d \in Deploys, Run(d), RunMove(d)
      PROVE  \A q \in Requests : LeavesUp(q)
  BY <1>7 DEF Run, RunMove, LeavesUp, PutBackKept
<1>8. ASSUME NEW d \in Deploys, RunFails(d), RunFailsMove(d)
      PROVE  \A q \in Requests : LeavesUp(q)
  <2>1. lock = d /\ (PutBackKept(d) => request[d].restore # None)
    BY <1>8, PutsBack DEF RunFails, Critical
  <2> QED
    BY <1>8, <2>1 DEF RunFailsMove, LeavesUp, PutBackKept
<1>9. ASSUME NEW d \in Deploys, Serves(d), ServesMove(d)
      PROVE  \A q \in Requests : LeavesUp(q)
  BY <1>9 DEF Serves, ServesMove, LeavesUp, PutBackKept
<1>10. ASSUME NEW d \in Deploys, Fails(d), FailsMove(d)
      PROVE  \A q \in Requests : LeavesUp(q)
  BY <1>10 DEF Fails, FailsMove, LeavesUp, PutBackKept
<1>11. ASSUME NEW d \in Deploys, Record(d), RecordMove(d)
      PROVE  \A q \in Requests : LeavesUp(q)
  <2>1. lock = d /\ container' = container /\ request[d].pc = "record"
    BY <1>11 DEF Record, Critical
  <2> QED
    BY <2>1 DEF PriorsHeld, UpAtEnd, LeavesUp, PutBackKept
<1>12. ASSUME NEW d \in Deploys, Pin(d), PinMove(d)
      PROVE  \A q \in Requests : LeavesUp(q)
  BY <1>12 DEF Pin, PinMove, LeavesUp, PutBackKept
<1>13. ASSUME NEW d \in Deploys, Prune(d), PruneMove(d)
      PROVE  \A q \in Requests : LeavesUp(q)
  <2>1. lock = d /\ container' = container /\ container = d
    BY <1>13 DEF Prune, Critical, OwnContainer
  <2> QED
    BY <2>1 DEF LeavesUp, PutBackKept
<1>14. ASSUME NEW k \in Rollbacks, NEW d \in Deploys,
              NEW pc \in {"ask", "askCurrent"},
             AskRollback(k, d, pc), AskRollbackMove(k, d, pc)
      PROVE  \A q \in Requests : LeavesUp(q)
  BY <1>14 DEF AskRollback, AskRollbackMove, LeavesUp, PutBackKept
<1>15. ASSUME NEW k \in Rollbacks, EnterRollback(k), EnterRollbackMove(k)
      PROVE  \A q \in Requests : LeavesUp(q)
  BY <1>15 DEF EnterRollback, EnterRollbackMove, LeavesUp, PutBackKept
<1>16. ASSUME NEW k \in Rollbacks,
             ReplaceForRollback(k), ReplaceForRollbackMove(k)
      PROVE  \A q \in Requests : LeavesUp(q)
  BY <1>16 DEF ReplaceForRollback, ReplaceForRollbackMove, Stopped,
     LeavesUp, PutBackKept
<1>17. ASSUME NEW k \in Rollbacks, RunTarget(k), RunTargetMove(k)
      PROVE  \A q \in Requests : LeavesUp(q)
  BY <1>17 DEF RunTarget, RunTargetMove, LeavesUp, PutBackKept
<1>18. ASSUME NEW k \in Rollbacks, RunTargetFails(k), RunTargetFailsMove(k)
      PROVE  \A q \in Requests : LeavesUp(q)
  BY <1>18 DEF RunTargetFails, RunTargetFailsMove, LeavesUp, PutBackKept
<1>19. ASSUME NEW k \in Rollbacks, RunTargetRaises(k), RunTargetRaisesMove(k)
      PROVE  \A q \in Requests : LeavesUp(q)
  <2>1. faults' > 0
    BY <1>19, FaultsTyped DEF RunTargetRaises, Fault
  <2> QED
    BY <2>1 DEF LeavesUp
<1>20. ASSUME NEW k \in Rollbacks, EndRollback(k), EndRollbackMove(k)
      PROVE  \A q \in Requests : LeavesUp(q)
  <2>1. lock = k /\ container' = container /\ request[k].pc = "end"
    BY <1>20 DEF EndRollback, Critical
  <2> QED
    BY <2>1 DEF PriorsHeld, UpAtEnd, LeavesUp, PutBackKept
<1>21. ASSUME NEW r \in Requests, NEW m \in Deploys,
             StopMonitor(r, m), StopMonitorMove(r, m)
      PROVE  \A q \in Requests : LeavesUp(q)
  BY <1>21 DEF StopMonitor, StopMonitorMove, LeavesUp, PutBackKept
<1>22. ASSUME NEW r \in Requests, StartMonitor(r), StartMonitorMove(r)
      PROVE  \A q \in Requests : LeavesUp(q)
  <2>1. container' = container /\ request[r].pc = "start"
    BY <1>22 DEF StartMonitor
  <2>2. r \in Deploys => lock = r /\ container # None
    BY <2>1 DEF Critical, OwnContainer, PlacesOK, Placed
  <2> QED
    BY <1>22, <2>1, <2>2 DEF StartMonitorMove, LeavesUp, PutBackKept
<1>23. ASSUME NEW r \in Requests, Joined(r), JoinedMove(r)
      PROVE  \A q \in Requests : LeavesUp(q)
  <2>1. container' = container
    BY <1>23 DEF Joined
  <2>2. r \in Deploys /\ request[r].pc = "start" => lock = r /\ container # None
    BY DEF Critical, OwnContainer, PlacesOK, Placed
  <2> QED
    BY <1>23, <2>1, <2>2 DEF JoinedMove, LeavesUp, PutBackKept
<1>24. ASSUME NEW r \in Requests, Restore(r), RestoreMove(r)
      PROVE  \A q \in Requests : LeavesUp(q)
  <2>1. lock = r /\ container' = RestoreImage(r) /\ request[r].pc = "restore"
    BY <1>24 DEF Restore, Critical
  <2>2. PutBackKept(r) => RestoreImage(r) # None
    BY <2>1, PutsBack
  <2> QED
    BY <2>1, <2>2 DEF LeavesUp, PutBackKept
<1>25. ASSUME NEW r \in Requests, RestoreFails(r), RestoreFailsMove(r)
      PROVE  \A q \in Requests : LeavesUp(q)
  <2>1. faults' > 0
    BY <1>25, FaultsTyped DEF RestoreFails, Fault
  <2> QED
    BY <2>1 DEF LeavesUp
<1>26. ASSUME NEW d \in Deploys, Anomaly(d)
      PROVE  \A q \in Requests : LeavesUp(q)
  BY <1>26 DEF Anomaly, Judge, LeavesUp, PutBackKept
<1>27. ASSUME NEW d \in Deploys, MonitorEnds(d)
      PROVE  \A q \in Requests : LeavesUp(q)
  BY <1>27 DEF MonitorEnds, Judge, LeavesUp, PutBackKept
<1>28. ASSUME NEW d \in Deploys, MonitorCancelled(d)
      PROVE  \A q \in Requests : LeavesUp(q)
  BY <1>28 DEF MonitorCancelled, LeavesUp, PutBackKept
<1>29. ASSUME NEW d \in Deploys, StopRequested(d)
      PROVE  \A q \in Requests : LeavesUp(q)
  BY <1>29 DEF StopRequested, LeavesUp, PutBackKept
<1>30. ASSUME NEW p \in Plans, CancelPlan(p)
      PROVE  \A q \in Requests : LeavesUp(q)
  BY <1>30 DEF CancelPlan, LeavesUp, PutBackKept
<1>31. CASE Restart
  <2>1. crashes' # crashes
    BY <1>31, FaultsTyped DEF Restart
  <2> QED
    BY <2>1 DEF LeavesUp
<1>32. CASE UNCHANGED vars
  BY <1>32 DEF vars, LeavesUp, PutBackKept
<1> QED
  BY <1>1, <1>2, <1>3, <1>4, <1>5, <1>6, <1>7, <1>8, <1>9, <1>10, <1>11,
     <1>12, <1>13, <1>14, <1>15, <1>16, <1>17, <1>18, <1>19, <1>20, <1>21,
     <1>22, <1>23, <1>24, <1>25, <1>26, <1>27, <1>28, <1>29, <1>30, <1>31,
     <1>32, RequestMoves DEF Next, DeployStep, RollbackStep, SharedStep,
     SignOff

\* A request that found a container leaves one behind, whatever fails in between,
\* as long as Docker can start what is put back.
THEOREM ServiceKeptCorrect == Spec => ServiceKept
<1>1. IInv /\ [Next]_vars => \A r \in Requests :
        /\ lock = r /\ lock' # r /\ faults' = 0 /\ crashes' = crashes
        /\ request[r].prior \in pins \cup {Ext}
        /\ request[r].source \in pins \cup {None}
        => container' # None
  BY LeavesUpStep, FaultsStay DEF IInv, LeavesUp, PutBackKept
<1> QED
  BY <1>1, Invariant, PTL DEF Spec, ServiceKept
=============================================================================
