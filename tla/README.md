# A TLA+ verification project for ReCoder

ReCoder is a coding assistant with three server-side parts and several clients:
a serverless **gateway** that sells a capped trial budget of model calls, a
**control plane** that an organization hosts (members, devices, policies,
approvals, audit), and a **Core** process on every developer's PC that a VS Code
extension, a Discord bot and a cloud relay talk to.  This directory models the
parts in which several actors share state, checks them with TLC on small
instances, and proves the most important results with TLAPS for every value of
the constants.

Contents

1. [Inventory of the system](#1-inventory-of-the-system)
2. [Modules and how they correspond to the code](#2-modules-and-how-they-correspond-to-the-code)
3. [Runs, bounds and what they show](#3-runs-bounds-and-what-they-show)
4. [What the runs found](#4-what-the-runs-found)
5. [Fairness](#5-fairness)
6. [Proofs](#6-proofs)
7. [What is only model-checked, and what is not modelled](#7-what-is-only-model-checked-and-what-is-not-modelled)
8. [Plan](#8-plan)

`PROJECT.json` is the index: components, runs, the mutants that show each
property can fail, the source lines behind every definition, the findings, the
hazards of this code and the theorems.  Run a model with
`tlc -config X.cfg M`, check a proof with `tlapm M.tla`.

---

## 1. Inventory of the system

Paths are relative to `src/`.  "Correct when" is what the properties of the
module state, or should state once the module is written.

### Gateway (`gateway/src`, AWS Lambda + one DynamoDB table)

| Part | State | Operations | Correct when |
|---|---|---|---|
| Paid model calls (`invoke.py`, quota half of `common.py`) | items `STUDENT#`, `POOL`, `RESERVATION#`; locals of an invocation | authenticate, check quota, recover expired reservations, reserve, mark dispatched, call Bedrock, reconcile, write off | no interleaving or crash passes a cap; the counters are exactly what the reservations hold; a call that was paid is never refunded; a live reservation is never recovered; a paid answer is delivered |
| Self-enrollment (`enroll.py`, `enroll_student`, `admin.py` revoke) | items `STUDENT#`, `DISCORD#`, seat counter in `POOL` | enroll, revoke, TTL removal | one account has one valid token and leads to its student; tokens and seats agree; no more than ENROLL_MAX |
| Verify and deploy relay (`verify.py`, `deploy.py`) | none | one authenticated read, one forwarded request | – |

Invocations run concurrently and die at any point (Lambda timeout).  They share
nothing but the table: everything hard is in the order of its conditional
updates, in reads that are stale when they are used, and in midnight UTC.

### Control plane (`control_plane`, FastAPI + SQLAlchemy async + PostgreSQL)

| Part | State | Operations | Correct when |
|---|---|---|---|
| Sessions (`db/session.py`) | one transaction per request | commit after the handler, roll back on any exception | (used by the parts below) |
| Approval voting (`services/approval_service.py`) | `approval_requests`, `approval_votes` | created by a policy evaluation; vote, view, list, expire | counters equal ballots; the quorum decides once; a decision is final; the audit trail explains it; sessions do not block each other for ever |
| Audit log (`services/audit.py`) | `audit_events`, `audit_seq_counters` | record, sync of an offline queue, verify | the chain verifies at every moment, has no gap, grows at its end, fits the effects it records |
| Organizations, first enrollment (`services/org_service.py`, `routes/auth.py`) | `org_members`, temp_tokens, devices | invite, remove, change role, bootstrap, enroll a device | an owner remains; ranks are respected; one first member; one device per temp_token |
| Devices and tokens (`services/identity.py`) | `devices` | heartbeat, rotate, revoke, mark lost | a device that is out stays out; the log names its last writer |
| Policy bundles (`services/policy_service.py`) | `policy_bundles` | publish, evaluate | versions are new and without gaps, the newest bundle is active, the log tells their order |

Requests interleave at every `await`; PostgreSQL runs them at READ COMMITTED.
What is read without a lock may be stale when it is written back.

### Core on the PC (`core`, FastAPI in one process, threads for tools)

| Part | State | Operations | Correct when |
|---|---|---|---|
| Singleton and runtime guard (`singleton.py`, `main.py`, extension `CoreManager.ts`) | `core.lock`, `runtime.json`, flock of `core.guard` | acquire, write and restore runtime.json, release; windows unlink leftovers | one Core serves; nobody removes its lock; clients find it again |
| Cloud relay (`relay/dynamo_queue.py`, `relay/poller.py`, `api/routes/relay.py`) | DynamoDB queue of commands | enqueue, query, claim, dispatch, report | a command runs at most once, its outcome is final, it is taken eventually |
| Analysis and patch approval (`routes/analyze.py`, `orchestrator.py`, `context_gate.py`) | proposal stores, fingerprint cache, backups, files | analyze, approve, apply, roll back | apply-all-or-nothing; a decided proposal is not offered again |
| Generation jobs (`gen_engine.py`, `generation_jobs.py`, `code_agent.py`) | the plan and the files of a job in memory, its checkpoint on disk | plan, schedule, write, repair, give up, save, pause, resume, deliver | no file of the plan is forgotten, no repair undone, no run stuck; what a pause reports as saved is saved |
| Model routing (`llm/`) | circuit breakers, cost ledger | call, trip, half-open, record | one probe after the timeout |
| Local deployments (`routes/deploy.py`, `preflight/continuous_verification.py`, `local_deploy_store.py`) | plans, records and their file, image tags and pins, one container, monitors | plan, deploy, cancel, roll back, watch, restart | a record is about its own release; there is something to go back to; a failure puts back what ran; a monitor judges its own release; nobody waits for ever |
| Rollback policy, remediation, policy gate, watcher | files, caches | decide, apply, undo | – |
| AWS, ECS, incident agents; scanners, build checks | external | sequences of API calls and text analysis | – |

### Clients

The extension, the Discord bot, the watchdog, the Rego policies, the deployment
templates, benchmarks, demo and docs keep no shared state of their own, except
that a window of the extension removes the Core's files; that is part of
`CoreSingleton`.

### How the parts meet

- Bot or web client → relay queue (DynamoDB) → poller of a PC → the Core's routes.
- Extension window → starts a Core, reads `runtime.json`, cleans up after it.
- Core → gateway (`invoke`, token) → Bedrock; every invocation is independent.
- Core or extension → control plane routes; voting, policy, membership and
  devices all append to one audit log inside their own transaction.
- Policy evaluation in the control plane creates the requests that approvers vote on.

---

## 2. Modules and how they correspond to the code

```
GatewayLedger  <== refines == GatewayQuota      MCGatewayQuota      GatewayQuotaProofs
                              GatewayEnroll     MCGatewayEnroll     GatewayEnrollProofs
                              RelayQueue        MCRelayQueue        CoreProofs
                              CoreSingleton     MCCoreSingleton     CoreProofs
                              ApprovalVoting    MCApprovalVoting  ApprovalVotingProofs
AuditChain     <== extends == AuditedRoutes     MCAuditedRoutes     AuditedRoutesProofs
                              OrgMembership     MCOrgMembership     OrgMembershipProofs
                              LargeGeneration   MCLargeGeneration   LargeGenerationProofs
                              LocalDeploy       MCLocalDeploy       LocalDeployProofs
```

Every module but the ledger states its type invariant (`TypeOK`, in `RelayQueue`
`QueueTypeOK`), and it is proved.  The `MC*` modules name model values and give
constants their values.  An operator whose comment starts with "Variant:" is no part of a specification: it is a plausible mistake in the
definition that follows it, and PROJECT.json "mutants" pairs it with the property
that rejects it.

### Conventions shared by the models

- **One call to shared storage is one step.**  Between two calls a handler's
  local variables are kept in a per-actor record (`inv`, `session`, `txn`,
  `worker`, `req`).  Pure computation belongs to the step it follows.
- **DynamoDB.**  A conditional update and a `transact_write_items` are atomic.
  A `Query` reads a replica that may lag (`RelayQueue`) or an arbitrary page of
  the index (`GatewayQuota`).  TTL removes an expired item at an arbitrary later time.
- **PostgreSQL at READ COMMITTED.**  The variables hold *committed* rows; what a
  transaction has written is private to it until its commit; an UPDATE, a DELETE,
  an INSERT of the same unique key and SELECT … FOR UPDATE wait for the
  transaction that wrote or locks the row and then act on the row as it is.  A
  plain SELECT takes no lock.  SQLAlchemy's identity map matters: an object the
  handler still refers to keeps the attributes it was first read with, even if a
  later SELECT returns the row (`session[p].seen` in `OrgMembership`), and only
  attributes that changed are written back (`CommitExpired` sets the status and
  nothing else).  The map holds its objects weakly, so the locked SELECT of `vote()`
  loads the row afresh: the route kept only the response of its first read.
- **`get_db` commits after the handler has returned.**  The commit is a step of
  its own and may fail; an exception or a crash before it rolls everything back
  and frees the locks.
- **The Core** is one asyncio event loop: what stands between two awaits is one
  step (`LocalDeploy`).  Work in threads (`LargeGeneration`) is cut at the locks it takes.
- **Bounds** are constants of the modules and appear in the guards that use them:
  `MaxTime` (clock), `MaxRequests` (requests a session serves), `MaxFaults` and
  `MaxRefused`, `MaxCrashes` (injected faults), `MaxRuns` and `MaxAtOnce` (runs of a job).  Sets `Requests`, `Txns`, `Commands`, `Cores`
  bound everything else.

### GatewayQuota – `gateway/src/invoke.py`, `gateway/src/common.py`

An element of `Requests` is one Lambda invocation of `invoke.handler`.

| Variable | Code |
|---|---|
| `student[s]` | `used_total_tokens`, `used_today_tokens`, `today` of the `STUDENT#s` item |
| `pool` | `used_cost_usd` and `used_total_tokens` of the `POOL` item |
| `res[r]` | the `RESERVATION#` item of r; status `RESERVED` or `DISPATCHED` while it exists, `REFUNDED`, `SETTLED`, `AMBIGUOUS` once consumed (how it was) |
| `inv[r]` | the invocation: program point, start, the item it read, the clock it read, its recovery page, which attempt of a transaction pair it is at |
| `bill[r]` | what Bedrock charged (environment) |
| `now` | ticks of one Lambda timeout |
| `backdated`, `inv[r].conflict` | history: a rollover moved a student's `today` backwards; a reconciliation of r was cancelled although its condition held |

`Authenticate` reads the student item, `CheckQuotaBefore` refuses early,
`RecoveryQuery` and `RecoverRefund`/`RecoverWriteOff`/`RecoverCancelled` are
`recover_expired_reservations`, `ReadClock` is line 688 where `today` is
computed, `ReserveSameDay`/`ReserveRollover`/`ReserveCancelled` the two forms of
`_reservation_transaction` in the order `reserve_quota` tries them,
`MarkDispatched`, `CallBedrock`, `BedrockRaises` and
`ReconcileUsage`/`ReconcileCancelled` follow `invoke.handler`.  `Settle` is
`_settle_reservation` with its two forms (the reservation's day is still the
student's day, or not).  `Crash` ends an invocation anywhere.

DynamoDB cancels a transaction when a condition is false, and also when another
writer is at one of its items or a call is throttled.  `_transaction_cancelled`
(common.py:370) does not tell these apart, so every transaction of the
model may be cancelled although its condition holds, and the code then does what it
does for a false one: it tries the other form, or gives up.

Money is counted in units of the two prices, so that it stays an integer; only
the ratio of the prices and the caps matters.

### GatewayLedger – what the gateway promises

No counters, no clock, no crashes: an entry per paid call moves
`none → open → sent → charged`, or `open → released`; it may only be opened
while the *sum* of all entries stays within the caps.  `ImplementsLedger` in
`GatewayQuota` maps a reservation's status and held amounts to an entry.  The
gateway checks guards on three counters that other invocations update
concurrently; the refinement says those guards amount to guards on the sums.

### GatewayEnroll – `gateway/src/enroll.py`, `enroll_student`, revocation

`Lookup`, `LookupStudent` (existing binding), `TakeSeat` and `GiveBack` (atomic
counter, taken first, given back if above the maximum), `PutStudent`
(conditional put, retried with a new id), `PutBinding` (conditional put of the
`DISCORD#` item), `Deactivate` (the loser's student is switched off).
`Lapse`, `RemoveStudent`, `RemoveBinding` are the TTL: an item stops being
valid, and each item disappears separately at some later time.  `Revoke` is the
administrator's.  `Fail` is any call that raises.

### ApprovalVoting – `services/approval_service.py`, `routes/approvals.py`

`CreateRequest` is what `policy_service.evaluate` inserts, with a quorum of one or more
(schemas.py:456).  A session opens as
`vote`, `view` or `list`.  `LockAndVote` is SELECT … FOR UPDATE with everything
`vote()` then decides (duplicate, expiry, quorum, counters) in the private row;
`CommitVote` publishes row, ballot and audit event together.  `CheckExpiry`
(a view's or a list's unlocked read), `FlushExpired` (the UPDATE of each overdue
row, one flush each in the order of the list, created_at descending, waiting for the
row lock) and `CommitExpired` are the lazy expiry.  `Rollback` covers exceptions and
lost connections.

### AuditChain – `services/audit.py`

One organization.  A transaction is of the kind of its route: `hard` (an audit
failure fails the request), `soft` (the route catches it), `sync` (a device's
offline queue, event by event).  `record()` is cut at its statements: `RecordLocked`
locks the counter row and copies it, `Flush` inserts the event and moves the counter.
`CounterMissing`, `CreateCounter`, `CounterCreated`, `CreateConflict` are the
first event of an organization, where there is no row to lock and two
transactions may both try to insert it.  `CounterCreated` and `Flush` are steps of
their own because both INSERTs check a foreign key to the organization
(models.py:186, 221) and may have to wait for it in `AuditedRoutes`.

`sync_pending` catches every exception of an event (audit.py:166-179), and what is
left of the transaction depends on where it was raised.  `RejectEvent`: before the flush
(a body that cannot be encoded); the transaction lives, the event is rejected and the
others count.  `RecordFails`: a statement failed; the state `poisoned` is what that
leaves, every further event is refused (`RejectRest`), and the commit
keeps nothing of those accepted before (`CommitFails`).  So accepted and rejected events
stand side by side in one answer, in either order.  A hash is modelled by the sequence of
the bodies it covers: equal exactly when the hashed content is.

`AuditChain` is the log as any route may use it.  It has no run of its own: it is
checked inside `AuditedRoutes`, and proved by itself.

### AuditedRoutes – `routes/policy.py`, `routes/devices.py`, `routes/audit.py` with their services

The composition of the log with the routes that administer a policy and a device.
A transaction of `AuditChain` is now a request: `publish`, `revoke`, `lose`
(revocation with `mark_lost`), `rotate` or `sync`.

| Variable | Code |
|---|---|
| `device`, `devicelock` | the row of `devices` as committed, and the transaction that has written it |
| `bundles`, `orglock` | the rows of `policy_bundles`, and the transaction that locks the organization row |
| `job[t]` | the handler of t: which route, where it is, the status and the bundles it has read |

`LockOrganization`, `ReadLatest`, `InsertBundle` are `policy_service.create_bundle`;
`LoadDevice`, `UpdateDevice` the device routes; `Audit` is `record()` with all its
outcomes in `AuditChain`, `CommitAll` the commit of `get_db` for the route's rows and
the events together, `RefuseEvent` and `Lose` an event or a statement that fails, `Refuse`
an exception of the route.

Waiting can form a cycle.  A publisher locks the organization row FOR UPDATE
(`_organization_version_lock`) and then waits for the counter row; whoever holds the
counter row inserts its event, and the foreign key takes FOR KEY SHARE on the
organization row (`CanShare`, `Shares`), which waits for the publisher.
`Deadlocked` is that cycle and `BreakDeadlock` PostgreSQL's detector, which makes one of the two
fail; a `hard` route answers an error then, a `soft` or `sync` one loses what it had
written.  `EveryTxnEnds` says that nobody waits for ever given the detector.
`DeviceRow` writes what SQLAlchemy writes: the attributes that differ from those
loaded.  A rotation therefore never writes the status it has read, which is what keeps
a device out that is revoked meanwhile (`RevokedStaysOut`; its mutant writes the whole row).

Left out: heartbeats, which write a timestamp (and `process_heartbeat`, which no route
calls), the age of a token, and the content of a bundle.  Of two rotations at
once the later commit wins, and the token the earlier one has answered is dead.

### OrgMembership – `services/org_service.py`, `routes/orgs.py`, `routes/auth.py`

`CheckInvite`/`InsertMember`, `CheckRemove`/`DeleteMember`,
`ReadTarget`/`CheckRanks`/`CountOwners`/`UpdateRole` follow the three handlers
with one step per statement.  Any number of sessions manage and enroll at once.  `stale`
holds the sessions whose target's row was deleted after they read it (the row that
is inserted for the same user later has another primary key, so their UPDATE or DELETE finds
nothing); `overtaken`, a history variable, those during whose request another
commit has changed who the owners are.  The enrollment reads the temp_token, claims it
(the store is in memory, the claim is one atomic pop), reads the role, locks the
organization row when the user has none, inserts the first member and the
device.  New rows of members and devices refer to the organization and wait for who has
locked its row (`CanShare`).  `EnrollError` puts the token back as the handler's `except` does,
`Crash` does not.

### RelayQueue – `core/relay`

The items of one user.  `status` is the table, `replica` what a query sees.
`Query` takes the first `Limit` *stored* items in key order and filters them
(that is what `Limit` with a `FilterExpression` does), `Claim`
(pending to processing, or skipped when the condition fails), `ClaimFails`
(throttled), `ClaimAnswerLost`;
`Dispatch`, `HandlerEnds`, `Report`, `ReportFails`; `Cancel` is `stop()` after
its five seconds (the thread of the running handler goes on), `Crash` the process.
`mark_done` and `mark_failed` are one conditional update, `TerminalUpdate`.  The poller
reports what it ran; the REST route `complete` lets every client report every
command, with any outcome, at any time and any number of times (`Complete`).  A replica
tells apart only what a query can see (`Seen`): absent, pending, or taken.

### CoreSingleton – `core/singleton.py`, `core/main.py`, `CoreManager.ts`

A member of `Cores` is one process.  `Acquire` takes the flock and looks for a
live owner, `TakeLock` writes `core.lock` and gives the flock back,
`WriteRuntime` writes `runtime.json` after the flock is gone, `GuardTick` is one
round of `_runtime_guard`, `ReleaseLock`, `ReleaseRuntime`, `Exit` the cleanup,
which the code runs again from the signal handler, the `finally` and `atexit`,
and in processes that were refused.  `SeesStale`/`SeesLeftover` +
`UnlinkRuntime`, `SeesOrphan` + `UnlinkLock` are the windows' removals, each
a read and a later unlink.  `cut` remembers that a window unlinked the lock of a
Core that had already taken it over; see section 4.

Abstracted: a pid used again is a new process, because `_pid_reused` compares
start times (within two seconds; on macOS it cannot, and a reused pid keeps a
dead lock alive there).  A Core may start, be told to stop or be killed at any
time.  The window list with reference counts in `singleton.py` has no caller.

### LocalDeploy – `core/api/routes/deploy.py`, `preflight/continuous_verification.py`, `local_deploy_store.py`

One container of the local Docker.  A member of `Deploys` is one call of
`execute_deployment` and at once the id of its record and of the image it builds;
a member of `Rollbacks` is one call of `rollback`.

| Variable | Code |
|---|---|
| `plan[p]` | `_deployment_plans`, and why a plan is gone |
| `records`, `saved` | `_deployment_records`, `local_deployments.json` |
| `pins`, `tag`, `container`, `built` | Docker: the pin tags, the image of `<folder>:latest`, the image that runs, the order of builds |
| `lock` | the container's lock (`_container_transaction`) |
| `vlock`, `monitor[d]` | `ContinuousVerifier._lock` while it is held across an await, and the verification task of a deployment |
| `request[r]` | the coroutine of a request: where it is and what it selected |
| `drift`, `loose` | history: a monitor changed records during a build; a rollback ran that `require_current` would refuse |

`Execute` looks the plan up before the lock, `Enter` again under it and takes the
rollback target; `RefuseBuild` and `Build` are everything up to the built image,
after which the source record is taken; `Capture`, `StopMonitor`, `Replace`,
`Run`, `RunFails` replace the container; `Serves` and `Fails` are the health and
screen checks; `Restore`, `RestoreFails` put back what ran; `Record`, `Pin`,
`Prune`, `StartMonitor` finish.  `AskRollback` … `EndRollback` are the route of the
rollback.  `Anomaly`, `MonitorEnds` and `MonitorCancelled` are the callbacks and
the end of a monitor, which change the records without the container's lock.
`Restart` ends the process and loads the file; the container goes on.  It loses the
plans that a request holds; one that nobody holds yet stands for a plan made after it.
Every update of a request is `Become(r, x)`, which keeps the record of the others.

All plans build one tag, as the product does.  Docker collects an image that no tag,
pin or container refers to at once: that is the image store for which
`_stable_image_ref` was written (deploy.py:474-483), and the worst one for a
rollback.

### LargeGeneration – `core/gen_engine.py`, `generation_jobs.py`, `code_agent.py`

A member of `Runs` is one call of `generate_code` for one job.  `mem[r]` is
`self.state` (plan, finished files, failed files, tries), `pending[r]` and `agent[r]`
are the schedule and its thread pool, `disk` is the checkpoint.  `Plan` to `Deliver`
are the main thread (`plan`, `_schedule`, `_fill_missing_imports`, `run`), `Begin` to
`SaveSnapshot` an agent (`task`, `_run_batch`, `_run_single`, `_gate`, `_finish`,
`_save`).  An agent works on copies, which are steps of their own: `context`
(what was done when its task began), `view` (what its gate repairs) and `snap` (what
its save writes).  `Strong` and `Weak` are the two kinds of dependencies of `_deps`: the files
that f uses, and those it waits for without using them, which are the earlier ones by their paths
(`Earlier`) and, for an API file of the screens, the routes of the server
(`Serves`, `api_waits_for`).  `Stuck` is the rule that breaks cycles.  `Fixed` are the files
that `plan_hook` puts into `ops` with the plan (`WithPlan`).  `Break` is an exception that
`run` does not catch (it catches `LLMError`, `CodeOutputError`, `RuntimeError`,
`OSError`): it is raised as it is and nothing is saved.

The content of a file is abstracted to the set of files whose gate repaired it
(`fixes`), which is all that `FixKept` needs; a gate may repair any of the files it
looks at.  Whether the model answers, answers with something unusable or not at all
is free at every call.

---

## 3. Runs, bounds and what they show

No run of the gateway, of enrollment, of voting, of the audit log or of
membership can go on for ever: the invocations, requests, ticks and transactions
of an instance are finite and every one may have ended.  The relay and the Core
models end too, when every item has expired and every process has exited.
Deployments and runs of a job are finite as well.
All configurations therefore say `CHECK_DEADLOCK FALSE`; where actors wait for
each other (row locks, the counter row, the queue), a liveness property says that
each of them ends, which is the stronger statement.

| Run | Instance | Distinct states | Checked |
|---|---|---|---|
| `gateway_quota` | 3 invocations of 1 student, budget 2, prices 1 and 2, caps 5 / 3 per day / pool 10, TTL 2 ticks, day of 2 ticks, 4 ticks | 777 000 | caps, refunds, live reservations, delivery, books = sums of the reservations and cover the bill, daily cap, refinement of `GatewayLedger` |
| `enroll_tokens` | 4 requests (3 of one account, 1 without), 4 ids, 2 seats, 2 attempts | 349 000 | one valid token per account, account leads to its student, seats |
| `approval_voting` | 2 sessions, 3 users, 2 requests, quorum 1 or 2, 3 ticks around an expiry after 1 | 559 000 | counters, quorum, audit trail, no reversal, every session ends |
| `audited_routes` | 3 requests of any route, offline queues of 2 | 139 000 | chain and numbering, bundles in order, a device that is out stays out, the log tells the history of the rows, every transaction ends |
| `org_members` | 3 users, 2 temp_tokens, 2 sessions that both manage and enroll, 2 requests each, from an organization with nobody, two owners, or one admin | 1 015 000 | an owner stays unless a request was overtaken, one first member, one device per token |
| `relay_queue` | 2 commands, 2 workers, page of 1, 2 faults, 1 throttled claim, reports by anybody | 226 000 | handled once, outcomes final, every command is taken unless older ones fill the page |
| `core_singleton` | 3 Cores, 2 windows | 32 000 | one Core serves, its lock is kept, runtime.json comes back |
| `local_deploy` | 3 deployments, 1 rollback, 3 plans, 2 pins kept, 1 failure of Docker or the disk or restart | 1 194 000 | own verdict, one execution per plan, rollbacks settle, source and container kept, monitors watch their own |
| `large_generation` | 5 files (4 planned, 1 of them brought along, 2 that use each other), 2 agents, 2 runs one after the other, 2 tries, 1 error or end of the Core | 905 000 | nothing forgotten, repairs kept, used files in sight, retries, never stuck |
| `approval_expiry`, `local_deploy_wedge`, `large_generation_stale` | smaller | until the violation | section 4 |

Why these bounds reach the interesting cases:

- **gateway_quota.**  Two overlapping invocations and a third that recovers after
  them is what every hazard of the path needs: the stale same-day/rollover choice,
  two recoveries of one orphan, a recovery racing the call it would take.  One
  Lambda timeout per tick, a TTL of two and a day of two ticks put an expiry and a
  midnight between any two steps.  The caps admit one full reservation of a day
  and part of a second, and the totals bind on the third.  One student is enough
  to exercise both counters; students meet only in the pool, and the proofs cover
  any set of students.  `Symmetric` permutes the invocations, which nothing
  tells apart.  A recovery page holds every orphan of the instance (`RecoveryLimit` 3).
- **enroll_tokens.**  The third request of an account can arrive while the first
  two still undo each other; four ids and two attempts make collisions and
  exhaustion happen; ids are symmetric.
- **approval_voting.**  Three users make a quorum of two reachable with one
  requester, and a third voter come too late.  `Requesters` is one user because
  the users are otherwise interchangeable.  Two requests make lock cycles
  possible.
- **audited_routes.**  The third request is the one that arrives when two fight
  for the missing counter row, and the one that publishes or revokes while two
  others are between their read and their commit, or next to two that wait for each other.  A queue of two events has a
  first one and a later one that finds the row locked by itself; the proofs cover any number.
- **org_members.**  Both sessions do whatever a client may ask for, so that two owners
  step down at once, an admin removes whom another promotes, and somebody enrolls while
  members come and go.  Of the starts, `OneAdmin` is an organization whose owners are gone;
  two requests each are an action and its undoing, or a promotion and what it allows.
- **relay_queue.**  Claims of one command by two workers and of two commands by
  one; two faults allow a crash during the recovery from another.  A page of
  one item (the code's 10) with two commands is the page that overflows: an older command, finished
  or not, hides the younger one.  The proofs cover any number.
- **core_singleton.**  One Core owns, one starts, one cleans up late; two windows
  act on different stale reads.  Four Cores (519 000 states) give the same result.
- **local_deploy.**  The third deployment is the one that finds a source and a pin to
  prune; one rollback can meet each of them and the restart.  Two pins kept instead of
  the code's three (`_ROLLBACK_PIN_KEEP`, deploy.py:491) make pruning happen.  `MaxFaults` counts failures and restarts
  together: one at a time is what the restore paths are written for, and the proofs
  cover any number of both.  Symmetry permutes deployments and plans.
- **large_generation.**  The plan has what the scheduling is about: two files that use each
  other (`types`, `svc`), one that uses one of them and shares an agent with the other
  (`routes`), one that comes with the plan (`pay`), and one that only
  turns out to be missing at the end and waits for the routes (`api`).  Two runs make a
  resume; two tries let a file fail, be given up and be
  retried; two agents make two gates and two saves overlap.  `MaxAtOnce` is 1 here: two runs
  at a time are too many states, and the proofs cover any number.

Each property is paired with a mutant in PROJECT.json: a variant of one
definition, such as a dropped condition, a missing lock or a reset left out,
that makes the run fail.

## 4. What the runs found

Three runs state what the repository says of itself and end in a counterexample.

1. **`approval_expiry` / `DecisionIsFinal`** (`approval_service.py:180`, `198`).
   `get_request` and `list_pending` read without a lock and write `expired`
   later; a vote that decided the request in between is overwritten.
   `NeverReversed` says what remains: a decision may be lost to expiry,
   never turned into its opposite.
2. **`local_deploy_wedge` / `StartCancelsCleanly`** (`continuous_verification.py:395`).
   `start` awaits a task that still runs while it holds the verifier's lock, and the
   `finally` of that task takes the same lock (547).  Two rollbacks of one record
   without `require_current` reach it: the second resumes a monitor the first has
   started.  From then on every deployment waits, the container's lock in hand.
3. **`large_generation_stale` / `PausedFilesAreSaved`** (`gen_engine.py:531`).  `_save`
   copies the state under the engine's lock and writes the copy after it let go;
   two agents may write in the opposite order.  Usually the next save repairs
   that, but a run that pauses because a file failed (1583-1591) saves nothing
   more and says that the rest is saved.

### Known limits

Conditions of properties, bounds and history variables that stand for something the
code does not guarantee.  Each can be seen by dropping the condition or the bound.

- **The day may be set back** (`gateway/src/common.py:728`).  The rollover form of a
  reservation is guarded by `today <> :today` only, and `:today` was computed
  before.  An invocation that reads the clock before midnight and commits after
  another one has rolled the day over sets the day back and resets the
  counter; the next one resets it again, and the daily cap is exceeded.
  `backdated` marks such behaviours; `DailyCapHolds` says what holds without one.  The
  total cap and the pool cap hold always.
- **A cancelled settlement may cost a paid answer** (`gateway/src/common.py:533-542`).  When the
  same-day form of a reconciliation is cancelled because another invocation is at the pool
  item, the code tries the other form, whose condition is false, and answers
  `reservation_expired` for a call that was paid; the reservation is charged in full
  later.  `PaidAnswerDelivered` says that only this (`inv[r].conflict`) or a backward day
  can make a paid answer late.
- **Two owners who step down at once** (`org_service.py:259`).  That at least one owner is
  guaranteed (199, 226) is said without a condition, and two requests break it together: each reads two owners, each demotes one, both
  commit.  `OwnerKept` says that nothing less does: the request that leaves no owner
  has been overtaken by a commit that changed the owners.  Dropping `overtaken` from it shows
  the counterexample, from the start with two owners.
- **Finished commands hide pending ones** (`relay/dynamo_queue.py:262`).  `Limit`
  counts items before the filter on the status, whereas the docstring (241) promises
  up to `limit` pending ones.  `EveryCommandTaken` excuses a command only while
  `Limit` older items are stored (`CrowdedOut`); finished items are, for 24 hours.
- **A seat may be lost** (`gateway/src/common.py:193`).  Of two overlapping enrollments of
  one account, the loser is refused and its seat stays counted; `SeatLimit` is an
  upper bound only.
- **Target and source may drift apart** (`deploy.py:4762`, `4870`).  The target of a
  rollback is taken before the build, its source record after it; a monitor that flags
  or confirms a release meanwhile separates them (`drift`), and what `MonitorWatchesOwn`
  says of the pair is said of releases without such a drift.
- **A plan cancelled while it is carried out** (`deploy.py:5206`) makes the request
  raise after its record was written: the release has no pin and no monitor (`cut`).
- **Images without a pin.**  A container whose image only the moving tag names cannot be
  put back once it is removed: the image is collected with it.  A release is without a
  pin when its plan was cancelled while it was carried out, and when the Core ended
  between its record and its pin.  `ServiceKept` is about pinned images and images
  with a tag of their own, both the one found and the one to be put back.  A rollback that raises
  puts nothing back (`RunTargetRaises`).
- **Rollbacks that are not current** (`loose`).  Without `require_current` a record that
  is not the newest one can be rolled back; only its own monitor is stopped then, and
  the monitor of the release that ran goes on.
- **More bad releases than pins.**  When `PinKeep` or more releases newer than the last
  good one are known to be bad, its pin may be gone; `SourceKept` says so in its
  hypothesis (`NewerThan`).
- **Two runs of one job** (`extension/src/core/codeStream.ts:78` offers to resume while
  the first one still goes on) replace each other's checkpoint.  The second one starts from
  a state in the middle, where a file may have used up its tries without being given up:
  `ResumeRetries` leaves it out (`overtaken` is `"before"` from then on).  The other properties
  hold for any number of runs at once, and are proved for it.
- **Files that use each other** cannot all be written after what they use.  `UsedFileSeen`
  says that this is given up only when every file that is still to come uses another
  one of them (`InCircle`); what starts then may be a file of the circle or one behind it
  (gen_engine.py:1685).
- **A crash between the save of a failure and the save of the failed file** lets a
  resumed run give the file up at once; `ResumeRetries` leaves crashes and
  overtaken saves out.  An overtaken save is not forgotten with the next good one:
  what it lost is lost for every run that is resumed from it and for those after (three
  calls of `generate_code` show it), and `overtaken` keeps that as `"before"`.
- **A window may unlink a lock in use.**  `recoverOrphanCore` (`CoreManager.ts:576`)
  unlinks `core.lock` without the flock once the orphan is gone; if another window's
  Core has taken the lock over meanwhile, a second Core can start next to it.  `cut`
  records exactly that step, and the properties of `CoreSingleton` hold until it
  happens: neither the late cleanups nor the windows' other removals can bring it about.

`AuditedRoutes` shows two consequences worth knowing.  When a statement that records the
audit event of a `soft` route or of one event of a `sync` batch fails, the transaction
is over: the effect the route meant to keep is lost as well, and so are the events
accepted before (`LogTellsHistory`: together or not at all).  After a failed
statement other than the flush nobody is told, since SQLAlchemy commits and PostgreSQL answers
with ROLLBACK and no error: the client reads "accepted" and the log has
nothing.  And a publication and any other route that logs may deadlock, as section 2
describes; one of them is refused although neither did anything wrong.

## 5. Fairness

Safety properties use no fairness.  Liveness is checked where the code gives a
reason to expect progress:

| Module | Assumed | Why |
|---|---|---|
| `ApprovalVoting`, `AuditedRoutes` | weak fairness of each session's own next step | the event loop resumes a request whose statement has finished; PostgreSQL hands a released lock to a waiter; a crash or an exception ends a transaction and frees its locks. Weak is enough: a step waits only for a lock, each holder keeps its lock until its transaction ends, and no new session starts in an instance once all have been opened. In `AuditedRoutes` waits may form a cycle; the deadlock detector, which PostgreSQL runs after `deadlock_timeout`, ends one, and so `BreakDeadlock` is a step of `Serve`. No fairness of failures (`Mishap`) |
| `RelayQueue` | weak fairness of each worker's work, and of replication per command | a poller polls again after its interval whatever happened in the last round; DynamoDB replicas converge. No fairness of faults, cancellation, expiry or reports by others |
| `CoreSingleton` | weak fairness of each serving Core's `GuardTick` | `_runtime_guard` is an asyncio task that runs every few seconds |
| `LocalDeploy` (only `local_deploy_wedge`) | weak fairness of each request's steps and of each monitor's end | the event loop resumes a coroutine whose await is over, and a monitor ends by itself after five minutes. Without faults, restarts or new requests being owed |
| `LargeGeneration` | none | `RunNeverStuck` says that a run always has a step to take; whether the model's service ever answers is not the code's |
| gateway, enrollment, membership | none | an invocation may die anywhere and nobody runs it on; recovery happens only when a later request comes |

## 6. Proofs

| Module | Theorems | Holds for |
|---|---|---|
| `GatewayQuotaProofs` | `TypeCorrect`, `Inductive`, `CapsCorrect`, `NoPaidCallRefundedCorrect`, `LiveReservationKeptCorrect`, `PaidAnswerDeliveredCorrect`, `BooksBalanceCorrect`, `DailyCapHoldsCorrect`, `ImplementsLedgerCorrect` | any finite set of requests, any students, prices, budgets, caps, day length, clock bound and recovery limit, with a TTL longer than a Lambda |
| `CoreProofs` (about `RelayQueue`) | `QueueTypeCorrect`, `HandledOnceCorrect`, `OutcomeIsFinalCorrect` | any commands, workers, page size and fault bounds |
| `GatewayEnrollProofs` | `TypeCorrect`, `AccountFindsStudentCorrect`, `OneTokenPerAccountCorrect`, `SeatLimitCorrect` | any requests, accounts, ids and seats |
| `ApprovalVotingProofs` | `TypeCorrect`, `CountersMatchBallotsCorrect`, `DecidedByQuorumCorrect`, `AuditExplainsStatusCorrect`, `NeverReversedCorrect` | any finite set of users, any requests, sessions, quorums and clock bound |
| `AuditedRoutesProofs` (about `AuditChain`) | `TypeCorrect`, `ChainIntactCorrect` | any transactions of any kind, queues of any length |
| `AuditedRoutesProofs` (about `AuditedRoutes`) | `RoutesImplementLog`, `RoutesChainIntact`, `RoutesTypeCorrect`, `RevokedStaysOutCorrect`, `PublishedInOrderCorrect`, `LogTellsHistoryCorrect` | any number of requests |
| `CoreProofs` (about `CoreSingleton`) | `CoreTypeCorrect`, `OneCoreServesCorrect`, `HeldLockKeptCorrect` | any processes and windows |
| `OrgMembershipProofs` | `TypeCorrect`, `OneDevicePerTokenCorrect`, `OwnerKeptCorrect`, `BootstrapsEmptyOrganizationCorrect` | any finite set of users, any sessions, all of which may manage and enroll at once, any tokens, roles and first members |
| `LocalDeployProofs` | `TypeCorrect`, `VerdictIsOwnCorrect`, `PlanOnceCorrect`, `RollbackSettlesCorrect`, `SourceKeptCorrect`, `MonitorWatchesOwnCorrect`, `ServiceKeptCorrect` | any finite set of deployments, any rollbacks and plans, any number of pins kept, faults and restarts |
| `LargeGenerationProofs` | `TypeCorrect`, `FixKeptCorrect`, `NothingForgottenCorrect`, `UsedFileSeenCorrect`, `ResumeRetriesCorrect`, `RunNeverStuckCorrect` | any finite set of files, any uses, imports and ranks, with or without cycles, any agents, runs at once, tries and faults; `ResumeRetries` for two tries or more |

The assumptions are the named ASSUMEs of the modules: types of the constants,
finiteness where a sequence enumerates a set, and for the gateway that
`RESERVATION_TTL_SECONDS` exceeds the Lambda timeout by a tick, which the code
enforces with its minimum of 60 seconds against the timeout of the template.

**GatewayQuota.**  None of the properties is inductive by itself: that a refund is
harmless depends on where the crashed invocation was, and that a settlement does
not pass a cap depends on what was reserved.  `IInv` (defined next to the
specification) adds
- `InTime`: a running invocation is within its timeout and read the clock while it ran;
- `ItemOfPc` and `PcOfItem`: the program point of an invocation and the status of
  its reservation determine each other as far as the code relies on it – a
  `RESERVED` row means that nothing was sent, what was billed stays within the budget;
- `PageExpired`: copies on a recovery page are of expired reservations, so that,
  with `InTime` and the TTL, recovery never meets a live one;
- `DayForward`: without a backdated rollover a student's day only grows; so, unless a
  settlement was cancelled although its condition held, one whose first form fails is of an
  earlier day, its second form applies, and the paid answer is delivered.

The proof goes conjunct by conjunct (`TypeNext`, `LifecycleNext`, `CapsNext`,
`DayNext`), each with one step per action; the lemmas `SettleType`,
`SettleKeepsCaps`, `SettleKeepsDays` treat the transaction that reconciliation,
refund and write-off share.

The properties over sums need what a fold over a set computes.
`SubsetInduction` is induction over the subsets of a finite set, stated for a set of
subsets instead of an operator; from it follow that the table behind
`SumFunctionOnSet` exists and is unique (`SumsExist`, `SumsUnique`), that any summand can
be taken out first (`SumWithout`) and that a sum changes by what one summand changes
(`SumChanges`).  `Effects` then reduces every step to five cases: nothing changes in
the books, or one reservation is `Opened`, `Sent`, `Released` or `Charged`, and
the counters move by as much as what it holds.  `BooksIInv` adds to `IInv`
- `Balanced`: the counters are the sums;
- `BillHeld`: what was billed lies within the reservation that holds it;
- `DayBalances`: a student's counter of today is the sum of that day, and no day's
  sum is over the cap.  A rollover needs that a later day still holds nothing
  (`LaterDaysEmpty`), which is `DayForward` again.

TLC checked these parts on the instance of `gateway_quota`, `DayBalances` over the days of
the instance.  The same five cases are the steps of the ledger
(`LedgerNext`): a guard on a counter is the ledger's guard on the sum because of
`Balanced`.  `ImplementsLedgerCorrect` assumes that one of the prices is positive:
the code takes both from its configuration (0.001 and 0.005 by default), and with two zeros
an entry would be opened at no cost.

**RelayQueue.**  `BatchIsClaimed` (what a worker claimed and has not started is
no longer `pending`, has never run, and is in no other worker's batch) and
`UnclaimedIsUnhandled` (what is still `pending` has never run) carry
`HandledOnce` through stale pages: a page is only a hint, the conditional claim
decides.  `OutcomeIsFinal` needs no more than the types, since every report, whoever
sends it, goes through the condition of `TerminalUpdate`.

**GatewayEnroll.**  `StudentCreated` (past its conditional put, a request's id names
an item that exists or whose TTL has passed) and `StudentsDiffer` (no two
requests got the same id) make `AccountFindsStudent` inductive; one token per account
follows, because a binding names one id.  `SeatLimit` has an invariant of its own,
`SeatInv`: the counter covers every request that holds a seat (`Holding`, with those that
are about to give theirs back), and who got past it (`Inside`) did so below the limit.
The two sets differ on purpose: a seat is given back after the request has
failed, so the counter alone bounds too much and `Inside` alone is not inductive.

**CoreSingleton.**  `OwnerHasLock`, `TakingSeesNoOwner` (inside the critical section
of `acquire_lock` no live process is in `core.lock`) and `LockIsStarted` (a lock
names a process that exists, so a starting one is never mistaken for its owner).
`CoreProofs` extends `RelayQueue` and `CoreSingleton`, the two things that the Core
processes of a user share; they have no state in common.  The names of the queue's
specification are prefixed for that (`QueueInit`, `QueueNext`, `QueueSpec`, `QueueTypeOK`).

**OrgMembership.**  Two invariants that share nothing but the types.  `TokenInv` is about
whoever is enrolling with a temp_token: nobody else is (`TokenHeldOnce`), it is
not stored and has registered nothing (`HeldTokenUnused`).  So the handler's `except`,
which puts the token back, puts back one without a device, and the commit adds the
first.  Nothing is assumed of the sessions: `OneDevicePerToken` holds for any number.
`MemberInv` says of each session what it may rely on, whatever the others do.  Who has written
a member row holds its lock (`WrittenRow`).  A row that was read is there until
its deletion is noted in `stale` (`ReadRow`).  Who joins as the first member has locked the
organization row, and the organization is empty (`FirstIsAlone`): an invitation that inserts
a row shares the organization row, so that one of the two waits for the other (`JoinerAlone`).
What a request has read of the owners, and the other one it has counted, hold
unless it was overtaken (`OwnersRead`).  A commit that changes the owners marks all requests
that go on, so that nothing is left to show of those; one that does not leaves what they
have read (`CommitMember`).

**ApprovalVoting.**  Two invariants carry the five theorems.  `SessionInv` says what a
session may rely on between its statements: the rows it has flushed are locked by it,
and once it has counted a vote, its `row` is the committed row with that vote added, the
request is still pending, and its voter has no ballot and is not the requester.
`RowsInv` is about committed rows: one that does not exist yet is fresh, the counters are
the numbers of ballots, the quorum is said of the counters (`CountersDecide`), the trail
explains the status.  That no row changes under a session that has counted a vote is
`VoteKeepsRow`; that its commit adds one ballot and one to one counter is `BallotCounts`,
from the cardinality of a set with one element added.

**AuditChain.**  `ChainTo(E, n, h)` says that a set of events is a chain of n events
that ends in the hash h.  The invariant has two chains: the committed events up to the
counter (`CommittedChain`), and these together with what the transaction that holds the
counter row has flushed, up to its own copy of the counter (`OwnersChain`).
`OthersWait` – a transaction in progress that does not hold the row has flushed nothing
and has something left to record – makes one of the two chains survive every commit and
every rollback, and shows that whoever commits is the owner.  `ChainGrows` is one
call of `record()`; `ChainVerifies` that `verify_chain` accepts a chain.

**AuditedRoutes.**  Every step of the routes is a step of `AuditChain` or leaves the log
alone (`RoutesStep`), so that the chain's theorem carries over.  A publisher between
its lock and its commit holds the organization row, and what it has read is the newest
bundle still (`HoldsAndKnows`); hence the committed versions are always 1..n with
the n-th active (`Published`), and the next one is n + 1 (`NextIsNew`, `PublishAdds`).
`LogTellsHistory` adds two parts.  `LogInv` keeps the books of each transaction: its
events are as many as it has accepted, they are in the log exactly when its effect is,
and what it has flushed is its own.  `RowsInv` relates the rows to the events.  They
meet in `CommitIsLast`: what a transaction has flushed is numbered above everything
committed, because a lower number would be that of a committed event of its own
(`CommitFiles`).

**LocalDeploy.**  One invariant carries the six properties; TLC checked it on the instance
of `local_deploy` before it was proved.  Each of its parts is what another one needs:
- `LockedOne` (a request is between `build` and its end exactly while it holds the lock)
  and `PlacesOK` (what a request knows at each place) say when two requests can meet;
- `OwnContainer` gives `VerdictIsOwn`; `PlansUsed`, which also speaks of the plan of
  a request that has no record yet, gives `PlanOnce`; `SavedKnown` carries both over a
  restart, because what is on disk has been in memory;
- `TargetsAgree` (without a drift, target and source of a record are the same
  release) and `MonitorsStopped` (a monitor is of what runs, or is on the list of the request
  that is about to replace it) give `MonitorWatchesOwn`;
- `SourcesStable`, `PriorsHeld` and `PinsKept` follow the images: a pin that a source
  needs is among the newest `PinKeep` or is the protected target, and what a request
  found is still there when it is put back.  `PinsKept` counts the releases newer than
  each pin, which is where the finiteness of `Deploys` is needed.

The `Move` operators of the proof state field by field what an action does to
its request, so that a step of the proof need not open the action;
`WhoChanges` and `RecordsChange` say which actions change what.  `ServiceKept` is an
action property: only the steps that release the lock matter, and each of them finds a
container because of `PriorsHeld` or ends in a fault.

**LargeGeneration.**  That a run which completes has forgotten nothing depends on
where every file of the plan is.  `Accounted` says it: while a run schedules without
an error, a file of the plan is done, or failed, or still pending, or in the `todo` of
an agent's task; `RestingIsIdle` says that a run that is not scheduling has an idle pool.
When the schedule is done, nothing is pending and no task is left, so every file is
done or failed, and `Complete` takes its first branch.  The delicate cases are a batch
that ends (only when its `todo` is done), a task that raises (its files are
unaccounted for, but the run is on its way to a pause) and the files found missing.
`FixKept` needs no more than the types: every action but `GateRepairs` leaves the
repairs of a run alone, and `Repaired` changes a file only if nobody did since the copy.

`SeenInv` adds to `UsedFileSeen` what it rests on: a file is clear of the files it
uses from the moment it is dispatched, before its task begins (`Sees`); `todo` is a part of
the batch, so that its files count as open (`Open`) until the slot is collected; a slot is
busy only while its run schedules, so that the plan does not grow under a
task.  A dispatch moves files from `pending` to a batch and leaves `Open` as it is; what a
task finishes was open, hence used by nobody at work, hence missing in no
context (`WorkSees`).  Uses may form a cycle, and the code then gives up the order.
When nobody works, `Stuck` takes a file that waits for none it uses, unless
every open file waits for one (`StuckClear`).  A file that starts so is `Cornered`: all that is to come waits
in a circle and nobody else works.  That stays true while its task goes on, because nothing is
ready and the pool is not empty (`CircleWaits`), until the task finishes its
only file, or the run stops.

`ResumeRetries` is about a state that only the checkpoint carries from one run to the
next.  `RetryInv` follows a file whose tries are used up through its four places:
the task that is about to give it up (`TriesEnd`), the run's `done` and `failed`, the task
that is about to save them (`DiskKnows`), the checkpoint (`DiskClosed`).  `DiskTries`
and `SnapTries` say that no save knows of a try the run has not made.  When the
run ends its pool is empty, so only the last place is left, and `resume_from` opens
what `failed` holds.  The inductive invariant is `Retries`: all this until a run has started
next to another one, or from a checkpoint that was overtaken; `overtaken` is `"before"` then
and stays so (`BeforeStays`).  One assumption is needed, two tries or more: a file of a
batch that fails with its first and only try is not in hand any more, and an error may
stop the run before it is given up (`WriteFails`; `MAX_FILE_TRIES` is 3).

`RunNeverStuck` says that a guard of a run that goes on holds (`CanMove`), for uses with
cycles too.  It states the guards instead of ENABLED, about which nothing can be
proved here.  A task could wait for ever if the file it is at were done by
somebody else, since it would neither end nor go on; `Apart` excludes that: no file
is in the hands of two tasks, and none that is waiting or in hand is done.  When no
task is left and files wait, `Startable` must not be empty (`StuckStarts`): among the
files that wait for each other there is one of lowest rank, and among those one with
the fewest files missing, because ranks and cardinalities of finite sets are numbers
(`LeastExists`, from the well-foundedness of the natural numbers).  A job has finitely
many files and at least one agent (`max(1, ...)` in the engine's constructor).

## 7. What is only model-checked, and what is not modelled

Every invariant and every action property of the passing runs, and the refinement, is
proved.  Left to TLC because of the prover: liveness under fairness
(`EverySessionEnds`, `EveryTxnEnds`, `EveryCommandTaken`, `RuntimeRestored`), and the
three runs that show a violation.

Not modelled within the modelled parts:
- the gateway's per-minute limit (`check_rate`, one atomic counter per minute) and
  the administrator's `issue`; `ENROLL_MAX = 0` (unlimited);
- creation of organizations, OIDC redirects, permission overrides, several
  organizations at once (all rows are keyed by organization);
- cancellation of a vote session between its audit write and its commit is
  `Rollback`; the audit chain inside a vote is `AuditChain`'s subject and appears
  in `ApprovalVoting` as one append;
- routes, tokens, certificates of `main.py`; credentials, spawning and logs of
  `CoreManager`;
- the `limit` a REST client may pass to `dequeue` (every query of the model has `Limit`);
- documents in the instance of `large_generation` (the module and its proofs have them);
- remote deployments, companion containers, volumes, ports and environment values,
  what the scans of a deployment decide, `local_deploy_agent.py`;
- the parts of a file that is written piece by piece, the board and the repair of
  a checkpoint's pieces (`_check_saved`), `_complete_styles` of new projects, and
  generations that need no job;
- row-level security and migrations.

Not modelled parts are in section 1 and in PROJECT.json "components": stateless
relays, sequences of external API calls, text analysis, user interfaces, and the
parts planned next.

## 8. Plan

Order: what shares state between concurrent actors and decides over money,
approval or the user's files comes first.

Done: `GatewayQuota` with `GatewayLedger`, `GatewayEnroll`, `ApprovalVoting`,
`AuditChain` and its composition with the policy and device routes `AuditedRoutes`,
`OrgMembership`, `RelayQueue`, `CoreSingleton`, `LocalDeploy`,
`LargeGeneration`; proofs for all of them but the ledger, which is abstract.

Next modules
1. `PatchReview` – the two proposal stores, the fingerprint cache, approve / apply /
   roll back over several files with a failure in the middle.  Abstract
   specification: a proposal is decided once, files are all patched or all as before.
2. `CircuitBreaker` – open, half-open, late results.
3. Then remediation, rollback policy and the policy gate's cache.

Compositions: `ApprovalVoting` with `AuditedRoutes` (lock order: request row, then
counter row; the bundle version a request was created under).

Extensions of modelled parts: `check_rate`, `issue`, `ENROLL_MAX = 0`.

Theorems: for the next modules as they come.
