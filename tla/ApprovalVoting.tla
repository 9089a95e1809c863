--------------------------- MODULE ApprovalVoting ---------------------------
(***************************************************************************)
(* Multi-approver requests of the control plane:                           *)
(* services/approval_service.py behind api/routes/approvals.py, each HTTP  *)
(* request one database session (db/session.py: commit at the end, roll    *)
(* back on any exception) on PostgreSQL at READ COMMITTED.                 *)
(*                                                                         *)
(* A session reads committed rows, writes privately, and publishes at its  *)
(* commit; an UPDATE and a SELECT ... FOR UPDATE wait for the row lock and *)
(* keep it until the transaction ends.  vote() takes that lock before it   *)
(* looks; get_request() and list_pending() look first and only write       *)
(* status = expired afterwards.                                            *)
(***************************************************************************)
EXTENDS Naturals, FiniteSets, Sequences

CONSTANTS Requests,    \* ids in order of created_at
          Users,       \* members with deployment:approve, and requesters
          Requesters,  \* the users who ask for approval
          Sessions,    \* HTTP requests to the approvals routes
          Quorums,     \* required_approvers: what OPA answers, at least 1
                       \* (the schema of the request, ge=1)
          TTL,         \* expires_in_hours, in ticks
          MaxTime      \* bound of the clock

ASSUME ConstantsAssumption ==
    /\ Requests \subseteq Nat /\ Requests # {}
    /\ IsFiniteSet(Users) /\ Users # {} /\ Requesters \subseteq Users
    /\ Quorums \subseteq Nat \ {0}
    /\ TTL \in Nat /\ MaxTime \in Nat

VARIABLES request,  \* committed approval_requests rows
          ballot,   \* committed approval_votes rows
          audit,    \* committed audit events of each request, in commit order
          lock,     \* which session holds the row lock of a request
          session,  \* the HTTP requests
          now

vars == <<request, ballot, audit, lock, session, now>>

Free == "free"

ASSUME SessionsAssumption == Free \notin Sessions

Choices == {"approve", "reject"}
Decided == {"approved", "rejected"}
Statuses == {"none", "pending", "expired"} \cup Decided

NoRequest == [status |-> "none", requester |-> CHOOSE u \in Users : TRUE,
              required |-> 0, approvals |-> 0, rejections |-> 0, expires |-> 0]

\* op: the route; todo: rows read as pending and not dealt with yet;
\* expired: rows this transaction has flushed as expired; row: what vote() has
\* flushed for its target.
Idle == [pc |-> "idle", op |-> "none", user |-> CHOOSE u \in Users : TRUE,
         choice |-> "approve", target |-> CHOOSE r \in Requests : TRUE,
         todo |-> {}, expired |-> {}, row |-> NoRequest]

Init ==
    /\ request = [r \in Requests |-> NoRequest]
    /\ ballot = [r \in Requests |-> [u \in Users |-> "none"]]
    /\ audit = [r \in Requests |-> <<>>]
    /\ lock = [r \in Requests |-> Free]
    /\ session = [p \in Sessions |-> Idle]
    /\ now = 0

-----------------------------------------------------------------------------
Overdue(r) == request[r].expires < now
Pending == {r \in Requests : request[r].status = "pending"}

Holds(p, r) == lock[r] = p
CanLock(p, r) == lock[r] \in {Free, p}
Release(p) == lock' = [r \in Requests |-> IF Holds(p, r) THEN Free ELSE lock[r]]
Goto(p, pc) == session' = [session EXCEPT ![p].pc = pc]

\* evaluate_policy on allow_with_approval: create_request and its audit event
\* in one transaction of their own.
CreateRequest(r) ==
    /\ request[r].status = "none"
    /\ \A q \in Requests : q < r => request[q].status # "none"
    /\ \E u \in Requesters, n \in Quorums :
         request' = [request EXCEPT ![r] =
             [status |-> "pending", requester |-> u, required |-> n,
              approvals |-> 0, rejections |-> 0, expires |-> now + TTL]]
    /\ UNCHANGED <<ballot, audit, lock, session, now>>

\* The first, unlocked SELECT of every route: get_approval and vote read one
\* row, list_pending the pending rows of the organization.
Open(p, op, u, r, c) ==
    /\ session[p].pc = "idle"
    /\ request[r].status # "none"
    /\ session' = [session EXCEPT ![p] =
           [pc |-> "read", op |-> op, user |-> u, choice |-> c, target |-> r,
            todo |-> IF op = "list" THEN Pending ELSE Pending \cap {r},
            expired |-> {}, row |-> NoRequest]]
    /\ UNCHANGED <<request, ballot, audit, lock, now>>

\* datetime.now() after the SELECT: only rows past expires_at are written.
CheckExpiry(p) ==
    /\ session[p].pc = "read"
    /\ session' = [session EXCEPT ![p] = [@ EXCEPT !.pc = "expiring",
                                                   !.todo = {r \in session[p].todo : Overdue(r)}]]
    /\ UNCHANGED <<request, ballot, audit, lock, now>>

\* Variant: the rows are walked in no fixed order.
NextInAnyOrder(todo) == todo

\* list_pending walks its rows ORDER BY created_at DESC.
NextToExpire(todo) == {r \in todo : \A q \in todo : q <= r}

\* status = expired; flush(): the UPDATE waits for the row lock.
FlushExpired(p) ==
    /\ session[p].pc = "expiring"
    /\ \E r \in NextToExpire(session[p].todo) :
         /\ CanLock(p, r)
         /\ lock' = [lock EXCEPT ![r] = p]
         /\ session' = [session EXCEPT ![p] = [@ EXCEPT
                !.todo = session[p].todo \ {r}, !.expired = session[p].expired \cup {r}]]
    /\ UNCHANGED <<request, ballot, audit, now>>

\* get_approval and list_pending return and get_db commits: the UPDATE sets the
\* status column whatever the row says by now.
CommitExpired(p) ==
    /\ session[p].pc = "expiring" /\ session[p].op \in {"view", "list"}
    /\ session[p].todo = {}
    /\ request' = [r \in Requests |->
                     IF r \in session[p].expired
                     THEN [request[r] EXCEPT !.status = "expired"] ELSE request[r]]
    /\ Release(p)
    /\ Goto(p, "done")
    /\ UNCHANGED <<ballot, audit, now>>

\* Variant: the route does not compare voter and requester.
AnyoneMayVote(p) == TRUE

\* The route's own check after get_request: a requester may not vote (403).
MayVote(p) == request[session[p].target].requester # session[p].user

GoVote(p) ==
    /\ session[p].pc = "expiring" /\ session[p].op = "vote"
    /\ session[p].todo = {}
    /\ IF MayVote(p) THEN Goto(p, "casting") /\ UNCHANGED lock
       ELSE Goto(p, "done") /\ Release(p)
    /\ UNCHANGED <<request, ballot, audit, now>>

-----------------------------------------------------------------------------
(* ApprovalService.vote *)

\* The status read under the lock; vote()'s own transaction may have flushed it.
StatusFor(p, r) == IF r \in session[p].expired THEN "expired" ELSE request[r].status

\* Variant: the status is left to the route's first read.
VotableInTime(p, r) == ~Overdue(r) /\ ballot[r][session[p].user] = "none"

\* pending, not overdue, no earlier vote of this user.
Votable(p, r) ==
    /\ StatusFor(p, r) = "pending"
    /\ VotableInTime(p, r)

\* Variant: the quorum is compared before the vote is counted.
CountedLate(row, choice) ==
    IF choice = "reject" THEN [row EXCEPT !.rejections = @ + 1, !.status = "rejected"]
    ELSE [row EXCEPT !.approvals = @ + 1,
                     !.status = IF row.approvals >= row.required THEN "approved" ELSE @]

\* One more vote: the first rejection decides, and so does the approval that
\* completes required_approvers.
Counted(row, choice) ==
    IF choice = "reject" THEN [row EXCEPT !.rejections = @ + 1, !.status = "rejected"]
    ELSE [row EXCEPT !.approvals = @ + 1,
                     !.status = IF row.approvals + 1 >= row.required THEN "approved" ELSE @]

\* Variant: SELECT without FOR UPDATE.
VoteUnlocked(p) ==
    LET r == session[p].target IN
    /\ session[p].pc = "casting"
    /\ Votable(p, r)
    /\ session' = [session EXCEPT ![p] = [@ EXCEPT !.pc = "voted",
                                                   !.row = Counted(request[r], session[p].choice)]]
    /\ UNCHANGED <<request, ballot, audit, lock, now>>

\* SELECT ... FOR UPDATE, then the checks and the flush of vote and counters.
\* The route keeps no reference to the row object of its first read, so the
\* session's identity map has dropped it and this SELECT loads the row afresh.
LockAndVote(p) ==
    LET r == session[p].target IN
    /\ session[p].pc = "casting"
    /\ CanLock(p, r) /\ Votable(p, r)
    /\ lock' = [lock EXCEPT ![r] = p]
    /\ session' = [session EXCEPT ![p] = [@ EXCEPT !.pc = "voted",
                                                   !.row = Counted(request[r], session[p].choice)]]
    /\ UNCHANGED <<request, ballot, audit, now>>

\* ValueError -> HTTPException -> get_db rolls back, the expiry included.
VoteRefused(p) ==
    LET r == session[p].target IN
    /\ session[p].pc = "casting"
    /\ CanLock(p, r) /\ ~Votable(p, r)
    /\ Release(p)
    /\ Goto(p, "done")
    /\ UNCHANGED <<request, ballot, audit, now>>

\* What _record_audit writes of a counted vote.
AuditEvent(row, voter, choice) ==
    [voter |-> voter, choice |-> choice, status |-> row.status,
     votes |-> row.approvals + row.rejections]

\* _record_audit, then get_db commits vote, counters and audit event together.
CommitVote(p) ==
    LET r == session[p].target
        c == session[p].choice
        row == session[p].row
    IN /\ session[p].pc = "voted"
       /\ request' = [request EXCEPT ![r] = row]
       /\ ballot' = [ballot EXCEPT ![r][session[p].user] = c]
       /\ audit' = [audit EXCEPT ![r] = Append(@, AuditEvent(row, session[p].user, c))]
       /\ Release(p)
       /\ Goto(p, "done")
       /\ UNCHANGED now

\* The connection, the audit write or the process fails: nothing is published.
Rollback(p) ==
    /\ session[p].pc \in {"read", "expiring", "casting", "voted"}
    /\ Release(p)
    /\ Goto(p, "done")
    /\ UNCHANGED <<request, ballot, audit, now>>

Tick ==
    /\ now < MaxTime
    /\ now' = now + 1
    /\ UNCHANGED <<request, ballot, audit, lock, session>>

-----------------------------------------------------------------------------
OpenAny(p) ==
    \/ \E u \in Users, r \in Requests, c \in Choices : Open(p, "vote", u, r, c)
    \/ \E r \in Requests : \/ Open(p, "view", Idle.user, r, "approve")
                           \/ Open(p, "list", Idle.user, r, "approve")

\* What a session does on its own once it is open.
Proceed(p) ==
    \/ CheckExpiry(p) \/ FlushExpired(p) \/ CommitExpired(p)
    \/ GoVote(p) \/ LockAndVote(p) \/ VoteRefused(p) \/ CommitVote(p)

Next ==
    \/ \E r \in Requests : CreateRequest(r)
    \/ \E p \in Sessions : OpenAny(p) \/ Proceed(p) \/ Rollback(p)
    \/ Tick

Spec == Init /\ [][Next]_vars

\* The event loop runs every open session on, and PostgreSQL grants a free lock.
FairSpec == Spec /\ \A p \in Sessions : WF_vars(Proceed(p))

-----------------------------------------------------------------------------
(* Properties *)

RequestRow ==
    [status : Statuses, requester : Users, required : Quorums \cup {0},
     approvals : Nat, rejections : Nat, expires : 0..(MaxTime + TTL)]

TypeOK ==
    /\ request \in [Requests -> RequestRow]
    /\ ballot \in [Requests -> [Users -> Choices \cup {"none"}]]
    /\ audit \in [Requests -> Seq([voter : Users, choice : Choices,
                                   status : Statuses, votes : Nat])]
    /\ lock \in [Requests -> Sessions \cup {Free}]
    /\ session \in [Sessions ->
         [pc : {"idle", "read", "expiring", "casting", "voted", "done"},
          op : {"none", "vote", "view", "list"}, user : Users, choice : Choices,
          target : Requests, todo : SUBSET Requests, expired : SUBSET Requests,
          row : RequestRow]]
    /\ now \in 0..MaxTime

Voters(r, c) == {u \in Users : ballot[r][u] = c}

\* approval_service.py:105-110: however many sessions vote at once, the
\* counters of a request are the numbers of its votes, one per approver.
CountersMatchBallots ==
    \A r \in Requests :
        /\ request[r].approvals = Cardinality(Voters(r, "approve"))
        /\ request[r].rejections = Cardinality(Voters(r, "reject"))

\* A request is approved by exactly the approvers it needs, none of them its
\* requester, and rejected by one; while it is pending no vote has decided it,
\* and once it is decided nobody's vote is counted any more.
DecidedByQuorum ==
    \A r \in Requests :
        LET row == request[r] IN
        /\ row.status = "approved" =>
             /\ Cardinality(Voters(r, "approve")) = row.required
             /\ Voters(r, "reject") = {}
        /\ row.status = "rejected" =>
             /\ Cardinality(Voters(r, "reject")) = 1
             /\ Cardinality(Voters(r, "approve")) < row.required
        /\ row.status = "pending" =>
             /\ Cardinality(Voters(r, "approve")) < row.required
             /\ Voters(r, "reject") = {}
        /\ row.status # "none" => ballot[r][row.requester] = "none"

\* The audit trail alone tells how a request was decided: one event per vote,
\* in the order the votes were counted, each with the status it led to.
AuditExplainsStatus ==
    \A r \in Requests :
        LET trail == audit[r] IN
        /\ Len(trail) = request[r].approvals + request[r].rejections
        /\ \A i \in 1..Len(trail) :
             /\ trail[i].votes = i
             /\ trail[i].choice = ballot[r][trail[i].voter]
             /\ i < Len(trail) => trail[i].status = "pending"
        /\ request[r].status # "expired" =>
             IF trail = <<>> THEN request[r].status \in {"none", "pending"}
             ELSE request[r].status = trail[Len(trail)].status

\* No step turns a rejection into an approval or the other way round, reopens a
\* request, or lets an expired request be decided.
NeverReversed ==
    [][\A r \in Requests :
          \/ request'[r].status = request[r].status
          \/ request[r].status \in {"none", "pending"}
          \/ request[r].status \in Decided /\ request'[r].status = "expired"]_vars

\* approval_service.py:107-110: status changes happen under the row lock, so
\* that a decided request is not overwritten.
DecisionIsFinal ==
    [][\A r \in Requests :
          request[r].status \in Decided => request'[r].status = request[r].status]_vars

\* A session that was opened is answered: no two of them wait for each other's
\* row locks for ever.
EverySessionEnds ==
    \A p \in Sessions : session[p].pc # "idle" ~> session[p].pc = "done"
=============================================================================
