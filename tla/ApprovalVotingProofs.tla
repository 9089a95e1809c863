------------------------ MODULE ApprovalVotingProofs ------------------------
(***************************************************************************)
(* Proofs about ApprovalVoting, for any finite set of users and any number *)
(* of requests and sessions: counters, quorum, audit trail, no reversal.   *)
(*                                                                         *)
(* The argument: what a session has flushed it holds the lock of, so a row *)
(* that vote() has counted is still the committed one when it commits, and *)
(* its voter has still no ballot.                                          *)
(***************************************************************************)
EXTENDS ApprovalVoting, FiniteSetTheorems, TLAPS

Sess ==
    [pc : {"idle", "read", "expiring", "casting", "voted", "done"},
     op : {"none", "vote", "view", "list"}, user : Users, choice : Choices,
     target : Requests, todo : SUBSET Requests, expired : SUBSET Requests,
     row : RequestRow]

Running(p) == session[p].pc \in {"read", "expiring", "casting", "voted"}

\* What a session relies on: the rows it has flushed are locked by it, its requests
\* exist, past the route's check its voter is not the requester, and the vote it has
\* counted is about the row as it is committed.
SessionInv(p) ==
    LET r == session[p].target IN
    /\ Running(p) => /\ request[r].status # "none"
                     /\ \A q \in session[p].todo \cup session[p].expired :
                           request[q].status # "none"
                     /\ \A q \in session[p].expired : lock[q] = p
    /\ session[p].pc \in {"casting", "voted"} => request[r].requester # session[p].user
    /\ session[p].pc = "voted" =>
          /\ lock[r] = p
          /\ request[r].status = "pending"
          /\ ballot[r][session[p].user] = "none"
          /\ session[p].row = Counted(request[r], session[p].choice)

\* A request that does not exist has no votes and no events.
NoneIsFresh ==
    \A r \in Requests : request[r].status = "none" =>
        /\ request[r].approvals = 0 /\ request[r].rejections = 0
        /\ \A u \in Users : ballot[r][u] = "none"
        /\ audit[r] = <<>>

\* DecidedByQuorum, said of the counters.
CountersDecide ==
    \A r \in Requests :
        LET row == request[r] IN
        /\ row.status = "approved" => row.approvals = row.required /\ row.rejections = 0
        /\ row.status = "rejected" => row.rejections = 1 /\ row.approvals < row.required
        /\ row.status = "pending" => row.approvals < row.required /\ row.rejections = 0
        /\ row.status # "none" => ballot[r][row.requester] = "none"

RowsInv == NoneIsFresh /\ CountersMatchBallots /\ CountersDecide /\ AuditExplainsStatus

IInv == TypeOK /\ (\A p \in Sessions : SessionInv(p)) /\ RowsInv

-----------------------------------------------------------------------------
(* One vote. *)

\* What counting a vote does to a row of a pending request.
LEMMA CountedFacts ==
    ASSUME NEW row \in RequestRow, NEW c \in Choices
    PROVE  /\ Counted(row, c) \in RequestRow
           /\ Counted(row, c).requester = row.requester
           /\ Counted(row, c).required = row.required
           /\ c = "approve" =>
                /\ Counted(row, c).approvals = row.approvals + 1
                /\ Counted(row, c).rejections = row.rejections
                /\ Counted(row, c).status =
                      IF row.approvals + 1 >= row.required THEN "approved" ELSE row.status
           /\ c = "reject" =>
                /\ Counted(row, c).approvals = row.approvals
                /\ Counted(row, c).rejections = row.rejections + 1
                /\ Counted(row, c).status = "rejected"
<1>1. row.approvals + 1 \in Nat /\ row.rejections + 1 \in Nat
  BY DEF RequestRow
<1>2. CASE c = "reject"
  <2>1. Counted(row, c) = [row EXCEPT !.rejections = row.rejections + 1, !.status = "rejected"]
    BY <1>2 DEF Counted
  <2> QED
    BY <1>1, <1>2, <2>1 DEF RequestRow, Statuses, Decided
<1>3. CASE c = "approve"
  <2> DEFINE s == IF row.approvals + 1 >= row.required THEN "approved" ELSE row.status
  <2>1. Counted(row, c) = [row EXCEPT !.approvals = row.approvals + 1, !.status = s]
    BY <1>3 DEF Counted, RequestRow
  <2>2. s \in Statuses
    BY DEF RequestRow, Statuses, Decided
  <2> HIDE DEF s
  <2>3. /\ Counted(row, c) \in RequestRow
        /\ Counted(row, c).requester = row.requester
        /\ Counted(row, c).required = row.required
        /\ Counted(row, c).approvals = row.approvals + 1
        /\ Counted(row, c).rejections = row.rejections
        /\ Counted(row, c).status = s
    BY <1>1, <2>1, <2>2 DEF RequestRow
  <2> QED
    BY <1>3, <2>3 DEF s
<1> QED
  BY <1>2, <1>3 DEF Choices

\* A first ballot adds one voter to its choice and none to the other.
LEMMA BallotCounts ==
    ASSUME TypeOK, NEW r \in Requests, NEW u \in Users, NEW c \in Choices,
           ballot[r][u] = "none", ballot' = [ballot EXCEPT ![r][u] = c],
           NEW d \in Choices
    PROVE  /\ Cardinality(Voters(r, d)) \in Nat
           /\ Cardinality(Voters(r, d)') =
                IF d = c THEN Cardinality(Voters(r, d)) + 1 ELSE Cardinality(Voters(r, d))
<1>1. IsFiniteSet(Voters(r, d))
  BY FS_Subset, ConstantsAssumption DEF Voters
<1>2. \A v \in Users : ballot'[r][v] = IF v = u THEN c ELSE ballot[r][v]
  BY DEF TypeOK
<1>3. u \notin Voters(r, d)
  BY DEF Voters, Choices
<1>4. Voters(r, d)' = IF d = c THEN Voters(r, d) \cup {u} ELSE Voters(r, d)
  <2>1. CASE d = c
    BY <1>2, <2>1 DEF Voters
  <2>2. CASE d # c
    BY <1>2, <1>3, <2>2 DEF Voters
  <2> QED
    BY <2>1, <2>2
<1> QED
  BY <1>1, <1>3, <1>4, FS_AddElement, FS_CardinalityType

-----------------------------------------------------------------------------
(* Types. *)

LEMMA TypeInitial == Init => TypeOK
<1> SUFFICES ASSUME Init PROVE TypeOK
  OBVIOUS
<1>1. NoRequest \in RequestRow
  BY ConstantsAssumption DEF NoRequest, RequestRow, Statuses
<1>2. Idle \in Sess
  BY <1>1, ConstantsAssumption DEF Idle, Sess, Choices
<1>3. session \in [Sessions -> Sess]
  BY <1>2 DEF Init
<1> QED
  BY <1>1, <1>3, ConstantsAssumption DEF Init, TypeOK, Sess

\* What Goto and Release leave and change.
LEMMA GotoFacts ==
    ASSUME TypeOK, NEW p \in Sessions, NEW pc \in {"casting", "done"}, Goto(p, pc)
    PROVE  /\ session' \in [Sessions -> Sess]
           /\ \A q \in Sessions : q # p => session'[q] = session[q]
           /\ session'[p].pc = pc
           /\ session'[p].user = session[p].user
           /\ session'[p].target = session[p].target
           /\ session'[p].expired = session[p].expired
           /\ session'[p].todo = session[p].todo
<1>1. session \in [Sessions -> Sess]
  BY DEF TypeOK, Sess
<1> QED
  BY <1>1 DEF Goto, Sess

LEMMA ReleaseFacts ==
    ASSUME TypeOK, NEW p \in Sessions, Release(p)
    PROVE  /\ lock' \in [Requests -> Sessions \cup {Free}]
           /\ \A q \in Sessions, r \in Requests : q # p /\ lock[r] = q => lock'[r] = q
BY DEF TypeOK, Release, Holds

LEMMA TypeStep == IInv /\ [Next]_vars => TypeOK'
<1> SUFFICES ASSUME IInv, [Next]_vars PROVE TypeOK'
  OBVIOUS
<1>0. TypeOK /\ session \in [Sessions -> Sess]
  BY DEF IInv, TypeOK, Sess
<1>1. ASSUME NEW r \in Requests, CreateRequest(r) PROVE TypeOK'
  <2>1. PICK u \in Requesters, n \in Quorums :
          request' = [request EXCEPT ![r] =
             [status |-> "pending", requester |-> u, required |-> n,
              approvals |-> 0, rejections |-> 0, expires |-> now + TTL]]
    BY <1>1 DEF CreateRequest
  <2>2. now + TTL \in 0..(MaxTime + TTL)
    BY <1>0, ConstantsAssumption DEF TypeOK
  <2>3. request' \in [Requests -> RequestRow]
    BY <1>0, <2>1, <2>2, ConstantsAssumption DEF TypeOK, RequestRow, Statuses
  <2> QED
    BY <1>0, <1>1, <2>3 DEF CreateRequest, TypeOK
<1>2. ASSUME NEW p \in Sessions, NEW op \in {"vote", "view", "list"}, NEW u \in Users,
             NEW r \in Requests, NEW c \in Choices, Open(p, op, u, r, c)
      PROVE  TypeOK'
  <2>1. NoRequest \in RequestRow
    BY ConstantsAssumption DEF NoRequest, RequestRow, Statuses
  <2>2. (IF op = "list" THEN Pending ELSE Pending \cap {r}) \in SUBSET Requests
    BY DEF Pending
  <2>3. session' \in [Sessions -> Sess]
    BY <1>0, <1>2, <2>1, <2>2 DEF Open, Sess
  <2> QED
    BY <1>0, <1>2, <2>3 DEF Open, TypeOK, Sess
<1>3. ASSUME NEW p \in Sessions, CheckExpiry(p) PROVE TypeOK'
  <2>1. PICK left \in SUBSET Requests :
          session' = [session EXCEPT ![p] = [@ EXCEPT !.pc = "expiring", !.todo = left]]
    <3>1. {r \in session[p].todo : Overdue(r)} \in SUBSET Requests
      BY <1>0 DEF Sess
    <3> QED
      BY <1>3, <3>1 DEF CheckExpiry
  <2>2. session' \in [Sessions -> Sess]
    <3>1. [session[p] EXCEPT !.pc = "expiring", !.todo = left] \in Sess
      BY <1>0, <2>1 DEF Sess
    <3>2. session' = [session EXCEPT ![p] = [session[p] EXCEPT !.pc = "expiring", !.todo = left]]
      BY <1>0, <2>1
    <3> QED
      BY <1>0, <3>1, <3>2
  <2> QED
    BY <1>0, <1>3, <2>2 DEF CheckExpiry, TypeOK, Sess
<1>4. ASSUME NEW p \in Sessions, FlushExpired(p) PROVE TypeOK'
  <2>1. PICK r \in NextToExpire(session[p].todo) :
          /\ lock' = [lock EXCEPT ![r] = p]
          /\ session' = [session EXCEPT ![p] = [@ EXCEPT
                                              !.todo = session[p].todo \ {r},
                                              !.expired = session[p].expired \cup {r}]]
    BY <1>4 DEF FlushExpired
  <2>2. r \in Requests
    BY <1>0 DEF NextToExpire, Sess
  <2>3. session' \in [Sessions -> Sess]
    <3>1. PICK left \in SUBSET Requests, gone \in SUBSET Requests :
            session' = [session EXCEPT ![p] = [@ EXCEPT !.todo = left, !.expired = gone]]
      <4>1. /\ session[p].todo \ {r} \in SUBSET Requests
            /\ session[p].expired \cup {r} \in SUBSET Requests
        BY <1>0, <2>2 DEF Sess
      <4> QED
        BY <1>0, <2>1, <4>1
    <3>2. [session[p] EXCEPT !.todo = left, !.expired = gone] \in Sess
      BY <1>0, <3>1 DEF Sess
    <3>3. session' = [session EXCEPT ![p] = [session[p] EXCEPT !.todo = left, !.expired = gone]]
      BY <1>0, <3>1
    <3> QED
      BY <1>0, <3>2, <3>3
  <2> QED
    BY <1>0, <1>4, <2>1, <2>2, <2>3 DEF FlushExpired, TypeOK, Sess
<1>5. ASSUME NEW p \in Sessions, CommitExpired(p) PROVE TypeOK'
  <2>1. request' \in [Requests -> RequestRow]
    <3>1. \A r \in Requests : [request[r] EXCEPT !.status = "expired"] \in RequestRow
      BY <1>0 DEF TypeOK, RequestRow, Statuses
    <3> QED
      BY <1>0, <1>5, <3>1 DEF CommitExpired, TypeOK
  <2> QED
    BY <1>0, <1>5, <2>1, GotoFacts, ReleaseFacts DEF CommitExpired, TypeOK, Sess
<1>6. ASSUME NEW p \in Sessions, GoVote(p) PROVE TypeOK'
  BY <1>0, <1>6, GotoFacts, ReleaseFacts DEF GoVote, TypeOK, Sess
<1>7. ASSUME NEW p \in Sessions, LockAndVote(p) PROVE TypeOK'
  <2> DEFINE r == session[p].target
             row == Counted(request[r], session[p].choice)
  <2>1. r \in Requests /\ row \in RequestRow
    BY <1>0, CountedFacts DEF TypeOK, Sess
  <2>2. session' = [session EXCEPT ![p] = [@ EXCEPT !.pc = "voted", !.row = row]]
    BY <1>7 DEF LockAndVote
  <2>3. lock' = [lock EXCEPT ![r] = p] /\ UNCHANGED <<request, ballot, audit, now>>
    BY <1>7 DEF LockAndVote
  <2> HIDE DEF r, row
  <2>4. session' \in [Sessions -> Sess]
    <3>1. [session[p] EXCEPT !.pc = "voted", !.row = row] \in Sess
      BY <1>0, <2>1 DEF Sess
    <3> QED
      BY <1>0, <2>2, <3>1
  <2> QED
    BY <1>0, <2>1, <2>3, <2>4 DEF TypeOK, Sess
<1>8. ASSUME NEW p \in Sessions, VoteRefused(p) PROVE TypeOK'
  BY <1>0, <1>8, GotoFacts, ReleaseFacts DEF VoteRefused, TypeOK, Sess
<1>9. ASSUME NEW p \in Sessions, CommitVote(p) PROVE TypeOK'
  <2> DEFINE r == session[p].target
             u == session[p].user
             c == session[p].choice
             row == session[p].row
             event == AuditEvent(row, u, c)
  <2>1. r \in Requests /\ u \in Users /\ c \in Choices /\ row \in RequestRow
    BY <1>0 DEF Sess
  <2>2. event \in [voter : Users, choice : Choices, status : Statuses, votes : Nat]
    BY <2>1 DEF AuditEvent, RequestRow
  <2>3. /\ request' = [request EXCEPT ![r] = row]
        /\ ballot' = [ballot EXCEPT ![r][u] = c]
        /\ audit' = [audit EXCEPT ![r] = Append(@, event)]
        /\ Release(p) /\ Goto(p, "done") /\ UNCHANGED now
    BY <1>9 DEF CommitVote
  <2> HIDE DEF r, u, c, row, event
  <2>4. audit' \in [Requests -> Seq([voter : Users, choice : Choices,
                                     status : Statuses, votes : Nat])]
    <3> DEFINE E == [voter : Users, choice : Choices, status : Statuses, votes : Nat]
    <3>1. audit \in [Requests -> Seq(E)] /\ event \in E
      BY <1>0, <2>2 DEF TypeOK
    <3>2. audit' = [audit EXCEPT ![r] = Append(audit[r], event)]
      BY <2>3
    <3> HIDE DEF E
    <3>3. Append(audit[r], event) \in Seq(E)
      BY <2>1, <3>1
    <3>4. audit' \in [Requests -> Seq(E)]
      BY <3>1, <3>2, <3>3
    <3> QED
      BY <3>4 DEF E
  <2>5. request' \in [Requests -> RequestRow]
    BY <1>0, <2>1, <2>3 DEF TypeOK
  <2>6. ballot' \in [Requests -> [Users -> Choices \cup {"none"}]]
    BY <1>0, <2>1, <2>3 DEF TypeOK
  <2> QED
    BY <1>0, <2>3, <2>4, <2>5, <2>6, GotoFacts, ReleaseFacts DEF TypeOK, Sess
<1>10. ASSUME NEW p \in Sessions, Rollback(p) PROVE TypeOK'
  BY <1>0, <1>10, GotoFacts, ReleaseFacts DEF Rollback, TypeOK, Sess
<1>11. CASE Tick
  <2>1. now' \in 0..MaxTime
    BY <1>0, <1>11, ConstantsAssumption DEF Tick, TypeOK
  <2> QED
    BY <1>0, <1>11, <2>1 DEF Tick, TypeOK
<1>12. CASE UNCHANGED vars
  BY <1>0, <1>12 DEF vars, TypeOK
<1>13. ASSUME NEW p \in Sessions, OpenAny(p) PROVE TypeOK'
  <2>1. Idle.user \in Users /\ "approve" \in Choices
    BY ConstantsAssumption DEF Idle, Choices
  <2> QED
    BY <1>2, <1>13, <2>1 DEF OpenAny
<1> QED
  BY <1>1, <1>3, <1>4, <1>5, <1>6, <1>7, <1>8, <1>9, <1>10, <1>11, <1>12, <1>13
     DEF Next, Proceed

-----------------------------------------------------------------------------
(* The sessions. *)

\* A session that does not step keeps what it relies on: the rows it holds are left
\* alone, and no request disappears or changes its requester.
LEMMA OthersRely ==
    ASSUME IInv, NEW q \in Sessions, session'[q] = session[q],
           \A r \in Requests : lock[r] = q => lock'[r] = q,
           \A r \in Requests : request[r].status # "none" =>
               /\ request'[r].status # "none"
               /\ request'[r].requester = request[r].requester
               /\ lock[r] = q => request'[r] = request[r] /\ ballot'[r] = ballot[r]
    PROVE  SessionInv(q)'
<1>1. /\ session[q].target \in Requests
      /\ session[q].todo \subseteq Requests /\ session[q].expired \subseteq Requests
      /\ SessionInv(q)
  BY DEF IInv, TypeOK
<1>2. session[q].pc \in {"casting", "voted"} => Running(q)
  BY DEF Running
<1>3. Running(q)' <=> Running(q)
  BY DEF Running
<1> DEFINE r == session[q].target
<1>4. Running(q) =>
        /\ request'[r].status # "none" /\ \A x \in session[q].expired : lock'[x] = q
        /\ \A x \in session[q].todo \cup session[q].expired : request'[x].status # "none"
  BY <1>1 DEF SessionInv
<1>5. session[q].pc \in {"casting", "voted"} => request'[r].requester # session[q].user
  BY <1>1, <1>2 DEF SessionInv
<1>6. session[q].pc = "voted" =>
        /\ lock'[r] = q /\ request'[r].status = "pending"
        /\ ballot'[r][session[q].user] = "none"
        /\ session[q].row = Counted(request'[r], session[q].choice)
  BY <1>1 DEF SessionInv
<1> QED
  BY <1>3, <1>4, <1>5, <1>6 DEF SessionInv

\* A session that has ended relies on nothing.
LEMMA EndedRelies ==
    ASSUME NEW p \in Sessions, session'[p].pc = "done"
    PROVE  SessionInv(p)'
BY DEF SessionInv, Running

LEMMA SessionsStep == IInv /\ [Next]_vars => \A q \in Sessions : SessionInv(q)'
<1> SUFFICES ASSUME IInv, [Next]_vars, NEW q \in Sessions PROVE SessionInv(q)'
  OBVIOUS
<1>0. /\ TypeOK /\ session \in [Sessions -> Sess] /\ q # Free
      /\ \A p \in Sessions : SessionInv(p)
  BY SessionsAssumption DEF IInv, TypeOK, Sess
<1>a. ASSUME session'[q] = session[q], UNCHANGED <<request, ballot>>,
             \A r \in Requests : lock[r] = q => lock'[r] = q
      PROVE  SessionInv(q)'
  BY <1>a, OthersRely
<1>1. ASSUME NEW r \in Requests, CreateRequest(r) PROVE SessionInv(q)'
  <2>1. \A x \in Requests : request[x].status # "none" => request'[x] = request[x]
    BY <1>0, <1>1 DEF CreateRequest, TypeOK
  <2>2. UNCHANGED <<ballot, lock, session>>
    BY <1>1 DEF CreateRequest
  <2> QED
    BY <2>1, <2>2, OthersRely
<1>2. ASSUME NEW p \in Sessions, NEW op \in {"vote", "view", "list"}, NEW u \in Users,
             NEW r \in Requests, NEW c \in Choices, Open(p, op, u, r, c)
      PROVE  SessionInv(q)'
  <2>1. CASE p = q
    <3>1. /\ session'[q].pc = "read" /\ session'[q].expired = {}
          /\ session'[q].target = r /\ request'[r].status # "none"
          /\ session'[q].todo \subseteq Pending /\ request' = request
      BY <1>0, <1>2, <2>1 DEF Open
    <3> QED
      BY <3>1 DEF SessionInv, Running, Pending
  <2>2. CASE p # q
    BY <1>0, <1>2, <1>a, <2>2 DEF Open
  <2> QED
    BY <2>1, <2>2
<1>3. ASSUME NEW p \in Sessions, CheckExpiry(p) PROVE SessionInv(q)'
  <2>1. CASE p = q
    <3>1. /\ session'[q].pc = "expiring" /\ session[q].pc = "read"
          /\ session'[q].expired = session[q].expired
          /\ session'[q].todo \subseteq session[q].todo
          /\ session'[q].target = session[q].target
          /\ UNCHANGED <<request, ballot, lock>>
      BY <1>0, <1>3, <2>1 DEF CheckExpiry, Sess
    <3> QED
      BY <1>0, <3>1 DEF SessionInv, Running
  <2>2. CASE p # q
    BY <1>0, <1>3, <1>a, <2>2 DEF CheckExpiry
  <2> QED
    BY <2>1, <2>2
<1>4. ASSUME NEW p \in Sessions, FlushExpired(p) PROVE SessionInv(q)'
  <2>1. PICK r \in NextToExpire(session[p].todo) :
          /\ CanLock(p, r)
          /\ lock' = [lock EXCEPT ![r] = p]
          /\ session' = [session EXCEPT ![p] = [@ EXCEPT
                                              !.todo = session[p].todo \ {r},
                                              !.expired = session[p].expired \cup {r}]]
    BY <1>4 DEF FlushExpired
  <2>2. r \in Requests /\ UNCHANGED <<request, ballot>>
    BY <1>0, <1>4 DEF NextToExpire, Sess, FlushExpired
  <2>3. CASE p = q
    <3>1. /\ session'[q].pc = "expiring" /\ session[q].pc = "expiring"
          /\ session'[q].expired = session[q].expired \cup {r}
          /\ session'[q].todo \subseteq session[q].todo /\ r \in session[q].todo
          /\ session'[q].target = session[q].target
      <4> DEFINE left == session[p].todo \ {r}
                 gone == session[p].expired \cup {r}
      <4>1. session'[q] = [session[q] EXCEPT !.todo = left, !.expired = gone]
        BY <1>0, <2>1, <2>3
      <4>2. session[q] \in Sess /\ session[q].pc = "expiring" /\ r \in session[q].todo
        BY <1>0, <1>4, <2>1, <2>3 DEF FlushExpired, NextToExpire
      <4> HIDE DEF left, gone
      <4>3. /\ session'[q].pc = session[q].pc /\ session'[q].target = session[q].target
            /\ session'[q].todo = left /\ session'[q].expired = gone
        BY <4>1, <4>2 DEF Sess
      <4> QED
        BY <2>3, <4>2, <4>3 DEF left, gone
    <3>2. \A x \in session[q].expired \cup {r} : lock'[x] = q
      BY <1>0, <2>1, <2>2, <2>3, <3>1 DEF SessionInv, Running, TypeOK, Sess
    <3> QED
      BY <1>0, <2>2, <3>1, <3>2 DEF SessionInv, Running
  <2>4. CASE p # q
    <3>1. session'[q] = session[q]
      BY <1>0, <2>1, <2>4
    <3>2. \A x \in Requests : lock[x] = q => lock'[x] = q
      BY <1>0, <2>1, <2>2, <2>4 DEF CanLock, TypeOK
    <3> QED
      BY <1>a, <2>2, <3>1, <3>2
  <2> QED
    BY <2>3, <2>4
<1>5. ASSUME NEW p \in Sessions, CommitExpired(p) PROVE SessionInv(q)'
  <2>1. CASE p = q
    BY <1>0, <1>5, <2>1, GotoFacts, EndedRelies DEF CommitExpired
  <2>2. CASE p # q
    <3>1. /\ session'[q] = session[q]
          /\ \A x \in Requests : lock[x] = q => lock'[x] = q
      BY <1>0, <1>5, <2>2, GotoFacts, ReleaseFacts DEF CommitExpired
    <3>2. ASSUME NEW x \in Requests, request[x].status # "none"
          PROVE  /\ request'[x].status # "none"
                 /\ request'[x].requester = request[x].requester
      BY <1>0, <1>5, <3>2 DEF CommitExpired, TypeOK, RequestRow
    <3>3. ASSUME NEW x \in Requests, lock[x] = q PROVE request'[x] = request[x]
      <4>1. x \notin session[p].expired
        BY <1>0, <1>5, <2>2, <3>3 DEF CommitExpired, SessionInv, Running
      <4> QED
        BY <1>5, <4>1 DEF CommitExpired
    <3>4. ballot' = ballot
      BY <1>5 DEF CommitExpired
    <3> QED
      BY <3>1, <3>2, <3>3, <3>4, OthersRely
  <2> QED
    BY <2>1, <2>2
<1>6. ASSUME NEW p \in Sessions, GoVote(p) PROVE SessionInv(q)'
  <2>1. CASE p = q /\ MayVote(p)
    <3>1. /\ session'[q].pc = "casting" /\ session[q].pc = "expiring"
          /\ session'[q].expired = session[q].expired
          /\ session'[q].todo = session[q].todo
          /\ session'[q].target = session[q].target
          /\ session'[q].user = session[q].user
          /\ UNCHANGED <<request, ballot, lock>>
      BY <1>0, <1>6, <2>1, GotoFacts DEF GoVote
    <3> QED
      BY <1>0, <2>1, <3>1 DEF SessionInv, Running, MayVote
  <2>2. CASE p = q /\ ~MayVote(p)
    BY <1>0, <1>6, <2>2, GotoFacts, EndedRelies DEF GoVote
  <2>3. CASE p # q
    BY <1>0, <1>6, <1>a, <2>3, GotoFacts, ReleaseFacts DEF GoVote
  <2> QED
    BY <2>1, <2>2, <2>3
<1>7. ASSUME NEW p \in Sessions, LockAndVote(p) PROVE SessionInv(q)'
  <2> DEFINE r == session[p].target
  <2>1. /\ r \in Requests /\ CanLock(p, r) /\ Votable(p, r)
        /\ session[p].pc = "casting"
        /\ lock' = [lock EXCEPT ![r] = p]
        /\ session' = [session EXCEPT ![p] = [@ EXCEPT !.pc = "voted",
                                                       !.row = Counted(request[r], session[p].choice)]]
        /\ UNCHANGED <<request, ballot>>
    BY <1>0, <1>7 DEF LockAndVote, Sess
  <2>2. CASE p = q
    <3>1. /\ session'[q].pc = "voted" /\ session'[q].target = r
          /\ session'[q].expired = session[q].expired
          /\ session'[q].todo = session[q].todo
          /\ session'[q].user = session[q].user
          /\ session'[q].choice = session[q].choice
          /\ session'[q].row = Counted(request[r], session[q].choice)
      BY <1>0, <2>1, <2>2 DEF Sess
    <3>2. request[r].status = "pending" /\ ballot[r][session[q].user] = "none"
      BY <2>1, <2>2 DEF Votable, VotableInTime, StatusFor
    <3>3. lock'[r] = q /\ \A x \in session[q].expired : lock'[x] = q
      BY <1>0, <2>1, <2>2 DEF SessionInv, Running, TypeOK, Sess
    <3>4. request[r].requester # session[q].user
      BY <1>0, <2>1, <2>2 DEF SessionInv
    <3> QED
      BY <1>0, <2>1, <2>2, <3>1, <3>2, <3>3, <3>4 DEF SessionInv, Running
  <2>3. CASE p # q
    <3>1. session'[q] = session[q]
      BY <1>0, <2>1, <2>3
    <3>2. \A x \in Requests : lock[x] = q => lock'[x] = q
      BY <1>0, <2>1, <2>3 DEF CanLock, TypeOK
    <3> QED
      BY <1>a, <2>1, <3>1, <3>2
  <2> QED
    BY <2>2, <2>3
<1>8. ASSUME NEW p \in Sessions, VoteRefused(p) \/ Rollback(p) PROVE SessionInv(q)'
  <2>1. Release(p) /\ Goto(p, "done") /\ UNCHANGED <<request, ballot>>
    BY <1>8 DEF VoteRefused, Rollback
  <2>2. CASE p = q
    BY <1>0, <2>1, <2>2, GotoFacts, EndedRelies
  <2>3. CASE p # q
    BY <1>0, <1>a, <2>1, <2>3, GotoFacts, ReleaseFacts
  <2> QED
    BY <2>2, <2>3
<1>9. ASSUME NEW p \in Sessions, CommitVote(p) PROVE SessionInv(q)'
  <2> DEFINE r == session[p].target
  <2>1. /\ r \in Requests /\ Release(p) /\ Goto(p, "done")
        /\ request' = [request EXCEPT ![r] = session[p].row]
        /\ ballot' = [ballot EXCEPT ![r][session[p].user] = session[p].choice]
    BY <1>0, <1>9 DEF CommitVote, Sess
  <2>2. CASE p = q
    BY <1>0, <2>1, <2>2, GotoFacts, EndedRelies
  <2>3. CASE p # q
    <3>1. /\ session'[q] = session[q]
          /\ \A x \in Requests : lock[x] = q => lock'[x] = q
      BY <1>0, <2>1, <2>3, GotoFacts, ReleaseFacts
    <3>2. /\ lock[r] = p /\ request[r].status = "pending"
          /\ session[p].row = Counted(request[r], session[p].choice)
      BY <1>0, <1>9 DEF CommitVote, SessionInv
    <3>3. session[p].row.requester = request[r].requester /\ session[p].row.status # "none"
      <4>1. request[r] \in RequestRow /\ session[p].choice \in Choices
        BY <1>0, <2>1 DEF TypeOK, Sess
      <4>2. session[p].row.status \in {"approved", "rejected", "pending"}
        BY <3>2, <4>1, CountedFacts DEF Choices
      <4> QED
        BY <3>2, <4>1, <4>2, CountedFacts
    <3>4. \A x \in Requests : x # r => request'[x] = request[x] /\ ballot'[x] = ballot[x]
      BY <1>0, <2>1 DEF TypeOK
    <3>5. request'[r] = session[p].row
      BY <1>0, <2>1 DEF TypeOK
    <3> HIDE DEF r
    <3> QED
      BY <2>1, <2>3, <3>1, <3>2, <3>3, <3>4, <3>5, OthersRely
  <2> QED
    BY <2>2, <2>3
<1>10. CASE Tick \/ UNCHANGED vars
  BY <1>a, <1>10 DEF Tick, vars
<1>11. ASSUME NEW p \in Sessions, OpenAny(p) PROVE SessionInv(q)'
  <2>1. Idle.user \in Users /\ "approve" \in Choices
    BY ConstantsAssumption DEF Idle, Choices
  <2> QED
    BY <1>2, <1>11, <2>1 DEF OpenAny
<1> QED
  BY <1>1, <1>3, <1>4, <1>5, <1>6, <1>7, <1>8, <1>9, <1>10, <1>11 DEF Next, Proceed

-----------------------------------------------------------------------------
(* The rows. *)

\* What the commit of a vote does.
LEMMA VoteCommitted ==
    ASSUME IInv, NEW p \in Sessions, CommitVote(p)
    PROVE  \E r \in Requests, u \in Users, c \in Choices :
             /\ request[r].status = "pending" /\ request[r].requester # u
             /\ ballot[r][u] = "none"
             /\ request' = [request EXCEPT ![r] = Counted(request[r], c)]
             /\ ballot' = [ballot EXCEPT ![r][u] = c]
             /\ audit' = [audit EXCEPT ![r] =
                             Append(audit[r], AuditEvent(Counted(request[r], c), u, c))]
<1> DEFINE r == session[p].target
           u == session[p].user
           c == session[p].choice
<1>1. session[p] \in Sess
  BY DEF IInv, TypeOK, Sess
<1>2. r \in Requests /\ u \in Users /\ c \in Choices
  BY <1>1 DEF Sess
<1>3. /\ request[r].status = "pending" /\ request[r].requester # u
      /\ ballot[r][u] = "none"
      /\ session[p].row = Counted(request[r], c)
  BY DEF IInv, SessionInv, CommitVote
<1>4. /\ request' = [request EXCEPT ![r] = Counted(request[r], c)]
      /\ ballot' = [ballot EXCEPT ![r][u] = c]
      /\ audit' = [audit EXCEPT ![r] =
                      Append(audit[r], AuditEvent(Counted(request[r], c), u, c))]
  BY <1>3 DEF CommitVote
<1> HIDE DEF r, u, c
<1> QED
  BY <1>2, <1>3, <1>4

\* Steps that write no row, create a request, expire some, or commit a vote.
LEMMA RowSteps ==
    ASSUME [Next]_vars
    PROVE  \/ UNCHANGED <<request, ballot, audit>>
           \/ \E r \in Requests : CreateRequest(r)
           \/ \E p \in Sessions : CommitExpired(p)
           \/ \E p \in Sessions : CommitVote(p)
<1>1. ASSUME NEW p \in Sessions, OpenAny(p) PROVE UNCHANGED <<request, ballot, audit>>
  BY <1>1 DEF OpenAny, Open
<1>2. ASSUME NEW p \in Sessions,
             CheckExpiry(p) \/ FlushExpired(p) \/ GoVote(p) \/ LockAndVote(p)
               \/ VoteRefused(p) \/ Rollback(p)
      PROVE  UNCHANGED <<request, ballot, audit>>
  BY <1>2 DEF CheckExpiry, FlushExpired, GoVote, LockAndVote, VoteRefused, Rollback
<1>3. CASE Tick \/ UNCHANGED vars
  BY <1>3 DEF Tick, vars
<1> QED
  BY <1>1, <1>2, <1>3 DEF Next, Proceed

\* The row invariants of one request depend on that request's rows only.
RowInv(r) ==
    LET row == request[r]
        trail == audit[r]
    IN /\ row.status = "none" =>
            /\ row.approvals = 0 /\ row.rejections = 0
            /\ \A u \in Users : ballot[r][u] = "none"
            /\ trail = <<>>
       /\ row.approvals = Cardinality(Voters(r, "approve"))
       /\ row.rejections = Cardinality(Voters(r, "reject"))
       /\ row.status = "approved" => row.approvals = row.required /\ row.rejections = 0
       /\ row.status = "rejected" => row.rejections = 1 /\ row.approvals < row.required
       /\ row.status = "pending" => row.approvals < row.required /\ row.rejections = 0
       /\ row.status # "none" => ballot[r][row.requester] = "none"
       /\ Len(trail) = row.approvals + row.rejections
       /\ \A i \in 1..Len(trail) :
             /\ trail[i].votes = i
             /\ trail[i].choice = ballot[r][trail[i].voter]
             /\ i < Len(trail) => trail[i].status = "pending"
       /\ row.status # "expired" =>
             IF trail = <<>> THEN row.status \in {"none", "pending"}
             ELSE row.status = trail[Len(trail)].status

LEMMA RowByRow == RowsInv <=> \A r \in Requests : RowInv(r)
BY DEF RowsInv, RowInv, NoneIsFresh, CountersMatchBallots, CountersDecide, AuditExplainsStatus

LEMMA RowUnchanged ==
    ASSUME NEW r \in Requests, RowInv(r), request'[r] = request[r], ballot'[r] = ballot[r],
           audit'[r] = audit[r]
    PROVE  RowInv(r)'
<1>1. Voters(r, "approve")' = Voters(r, "approve") /\ Voters(r, "reject")' = Voters(r, "reject")
  BY DEF Voters
<1> QED
  BY <1>1 DEF RowInv

\* A vote that is counted for a pending request.
LEMMA VoteKeepsRow ==
    ASSUME TypeOK, NEW r \in Requests, NEW u \in Users, NEW c \in Choices, RowInv(r),
           request[r].status = "pending", request[r].requester # u, ballot[r][u] = "none",
           request' = [request EXCEPT ![r] = Counted(request[r], c)],
           ballot' = [ballot EXCEPT ![r][u] = c],
           audit' = [audit EXCEPT ![r] =
                       Append(audit[r], AuditEvent(Counted(request[r], c), u, c))]
    PROVE  RowInv(r)'
<1> DEFINE old == request[r]
           new == Counted(request[r], c)
           event == AuditEvent(new, u, c)
           trail == audit[r]
           Entries == [voter : Users, choice : Choices, status : Statuses, votes : Nat]
<1>1. /\ request'[r] = new
      /\ \A v \in Users : ballot'[r][v] = IF v = u THEN c ELSE ballot[r][v]
      /\ audit'[r] = Append(trail, event)
  BY DEF TypeOK
<1>2. /\ old \in RequestRow /\ trail \in Seq(Entries)
      /\ old.approvals \in Nat /\ old.rejections \in Nat /\ old.required \in Nat
  <2>1. old \in RequestRow /\ trail \in Seq(Entries)
    BY DEF TypeOK
  <2> HIDE DEF old, trail, Entries
  <2> QED
    BY <2>1, ConstantsAssumption DEF RequestRow
<1>3. /\ new.requester = old.requester /\ new.required = old.required
      /\ c = "approve" =>
           /\ new.approvals = old.approvals + 1 /\ new.rejections = old.rejections
           /\ new.status = IF old.approvals + 1 >= old.required THEN "approved" ELSE old.status
      /\ c = "reject" =>
           /\ new.approvals = old.approvals /\ new.rejections = old.rejections + 1
           /\ new.status = "rejected"
  BY <1>2, CountedFacts
<1>4. /\ Cardinality(Voters(r, "approve"))' = new.approvals
      /\ Cardinality(Voters(r, "reject"))' = new.rejections
  <2>1. /\ old.approvals = Cardinality(Voters(r, "approve"))
        /\ old.rejections = Cardinality(Voters(r, "reject"))
    BY DEF RowInv
  <2>2. "approve" \in Choices /\ "reject" \in Choices
    BY DEF Choices
  <2>3. \A d \in Choices :
          Cardinality(Voters(r, d)') =
            IF d = c THEN Cardinality(Voters(r, d)) + 1 ELSE Cardinality(Voters(r, d))
    BY BallotCounts
  <2>4. CASE c = "approve"
    BY <1>3, <2>1, <2>2, <2>3, <2>4
  <2>5. CASE c = "reject"
    BY <1>3, <2>1, <2>2, <2>3, <2>5
  <2> QED
    BY <2>4, <2>5 DEF Choices
<1>6. /\ old.approvals < old.required /\ old.rejections = 0
      /\ ballot[r][old.requester] = "none"
      /\ Len(trail) = old.approvals + old.rejections
      /\ \A i \in 1..Len(trail) :
           /\ trail[i].votes = i
           /\ trail[i].choice = ballot[r][trail[i].voter]
           /\ i < Len(trail) => trail[i].status = "pending"
      /\ trail # <<>> => trail[Len(trail)].status = "pending"
  BY DEF RowInv
<1> HIDE DEF new
<1>a. event \in Entries
  <2>1. new \in RequestRow
    BY <1>2, CountedFacts DEF new
  <2> QED
    BY <2>1 DEF AuditEvent, RequestRow
<1>7. /\ event.voter = u /\ event.choice = c /\ event.status = new.status
      /\ event.votes = new.approvals + new.rejections
  BY DEF AuditEvent
<1> HIDE DEF event, old, Entries, trail
<1>8. /\ new.status = "approved" => new.approvals = new.required /\ new.rejections = 0
      /\ new.status = "rejected" => new.rejections = 1 /\ new.approvals < new.required
      /\ new.status = "pending" => new.approvals < new.required /\ new.rejections = 0
      /\ new.status \in {"approved", "rejected", "pending"}
      /\ new.approvals + new.rejections = old.approvals + old.rejections + 1
  <2>0. old.status = "pending"
    BY DEF old
  <2>1. CASE c = "approve"
    BY <1>2, <1>3, <1>6, <2>0, <2>1
  <2>2. CASE c = "reject"
    BY <1>2, <1>3, <1>6, <2>2
  <2> QED
    BY <2>1, <2>2 DEF Choices
<1>9. ballot'[r][new.requester] = "none"
  BY <1>1, <1>2, <1>3, <1>6 DEF old, RequestRow
<1>10. /\ Len(audit'[r]) = Len(trail) + 1
       /\ audit'[r] # <<>>
       /\ audit'[r][Len(trail) + 1] = event
       /\ \A i \in 1..Len(trail) : audit'[r][i] = trail[i] /\ trail[i] \in Entries
       /\ Len(trail) \in Nat
  BY <1>1, <1>2, <1>a
<1>11. \A i \in 1..Len(trail) :
          trail[i].voter # u /\ trail[i].choice = ballot'[r][trail[i].voter]
  <2> SUFFICES ASSUME NEW i \in 1..Len(trail)
               PROVE  trail[i].voter # u /\ trail[i].choice = ballot'[r][trail[i].voter]
    OBVIOUS
  <2>1. trail[i].voter \in Users /\ trail[i].choice \in Choices
    BY <1>10 DEF Entries
  <2>2. trail[i].choice # "none"
    BY <2>1 DEF Choices
  <2>3. trail[i].voter # u
    BY <1>6, <2>2
  <2> QED
    BY <1>1, <1>6, <2>1, <2>3
<1>12. \A i \in 1..Len(audit'[r]) :
          /\ audit'[r][i].votes = i
          /\ audit'[r][i].choice = ballot'[r][audit'[r][i].voter]
          /\ i < Len(audit'[r]) => audit'[r][i].status = "pending"
  <2> SUFFICES ASSUME NEW i \in 1..(Len(trail) + 1)
               PROVE  /\ audit'[r][i].votes = i
                      /\ audit'[r][i].choice = ballot'[r][audit'[r][i].voter]
                      /\ i < Len(trail) + 1 => audit'[r][i].status = "pending"
    BY <1>10
  <2>1. CASE i = Len(trail) + 1
    BY <1>1, <1>6, <1>7, <1>8, <1>10, <2>1
  <2>2. CASE i # Len(trail) + 1
    <3>1. i \in 1..Len(trail)
      BY <1>10, <2>2
    <3>2. audit'[r][i] = trail[i]
      BY <1>10, <3>1
    <3>3. trail[i].status = "pending"
      <4>1. CASE i = Len(trail)
        <5>1. trail # <<>>
          BY <3>1
        <5> QED
          BY <1>6, <4>1, <5>1
      <4>2. CASE i # Len(trail)
        BY <1>6, <1>10, <3>1, <4>2
      <4> QED
        BY <4>1, <4>2
    <3> QED
      BY <1>6, <1>11, <3>1, <3>2, <3>3
  <2> QED
    BY <2>1, <2>2
<1> QED
  BY <1>1, <1>4, <1>6, <1>7, <1>8, <1>9, <1>10, <1>12 DEF RowInv

LEMMA RowsStep == IInv /\ [Next]_vars => RowsInv'
<1> SUFFICES ASSUME IInv, [Next]_vars, NEW r \in Requests PROVE RowInv(r)'
  BY DEF RowsInv, RowInv, NoneIsFresh, CountersMatchBallots, CountersDecide, AuditExplainsStatus
<1>0. TypeOK /\ RowInv(r)
  BY RowByRow DEF IInv
<1>1. CASE UNCHANGED <<request, ballot, audit>>
  BY <1>0, <1>1, RowUnchanged
<1>2. ASSUME NEW x \in Requests, CreateRequest(x) PROVE RowInv(r)'
  <2>1. CASE x # r
    BY <1>0, <1>2, <2>1, RowUnchanged DEF CreateRequest, TypeOK
  <2>2. CASE x = r
    <3>1. PICK u \in Requesters, n \in Quorums :
            request'[r] = [status |-> "pending", requester |-> u, required |-> n,
                           approvals |-> 0, rejections |-> 0, expires |-> now + TTL]
      BY <1>0, <1>2, <2>2 DEF CreateRequest, TypeOK
    <3>2. /\ request[r].approvals = 0 /\ request[r].rejections = 0
          /\ \A v \in Users : ballot[r][v] = "none"
          /\ audit[r] = <<>>
      BY <1>0, <1>2, <2>2 DEF CreateRequest, RowInv
    <3>3. UNCHANGED <<ballot, audit>>
      BY <1>2 DEF CreateRequest
    <3>4. Voters(r, "approve")' = Voters(r, "approve") /\ Voters(r, "reject")' = Voters(r, "reject")
      BY <3>3 DEF Voters
    <3>5. n \in Nat /\ n > 0 /\ u \in Users
      BY <3>1, ConstantsAssumption
    <3>6. Cardinality(Voters(r, "approve")) = 0 /\ Cardinality(Voters(r, "reject")) = 0
      BY <1>0, <3>2 DEF RowInv
    <3> QED
      BY <3>1, <3>2, <3>3, <3>4, <3>5, <3>6 DEF RowInv
  <2> QED
    BY <2>1, <2>2
<1>3. ASSUME NEW p \in Sessions, CommitExpired(p) PROVE RowInv(r)'
  <2>1. UNCHANGED <<ballot, audit>>
    BY <1>3 DEF CommitExpired
  <2>2. CASE r \notin session[p].expired
    BY <1>0, <1>3, <2>1, <2>2, RowUnchanged DEF CommitExpired
  <2>3. CASE r \in session[p].expired
    <3>1. /\ request'[r].status = "expired"
          /\ request'[r].approvals = request[r].approvals
          /\ request'[r].rejections = request[r].rejections
          /\ request'[r].requester = request[r].requester
      BY <1>0, <1>3, <2>3 DEF CommitExpired, TypeOK, RequestRow
    <3>2. r \in session[p].expired => ballot[r][request[r].requester] = "none"
      <4>1. request[r].status # "none"
        BY <1>3, <2>3 DEF CommitExpired, IInv, SessionInv, Running
      <4> QED
        BY <1>0, <4>1 DEF RowInv
    <3>3. Voters(r, "approve")' = Voters(r, "approve") /\ Voters(r, "reject")' = Voters(r, "reject")
      BY <2>1 DEF Voters
    <3>4. \A i \in 1..Len(audit[r]) :
             /\ audit[r][i].votes = i
             /\ audit[r][i].choice = ballot[r][audit[r][i].voter]
             /\ i < Len(audit[r]) => audit[r][i].status = "pending"
      BY <1>0 DEF RowInv
    <3> QED
      BY <1>0, <2>1, <2>3, <3>1, <3>2, <3>3, <3>4 DEF RowInv
  <2> QED
    BY <2>2, <2>3
<1>4. ASSUME NEW p \in Sessions, CommitVote(p) PROVE RowInv(r)'
  <2>1. PICK x \in Requests, u \in Users, c \in Choices :
             /\ request[x].status = "pending" /\ request[x].requester # u
             /\ ballot[x][u] = "none"
             /\ request' = [request EXCEPT ![x] = Counted(request[x], c)]
             /\ ballot' = [ballot EXCEPT ![x][u] = c]
             /\ audit' = [audit EXCEPT ![x] =
                             Append(audit[x], AuditEvent(Counted(request[x], c), u, c))]
    BY <1>4, VoteCommitted
  <2>2. CASE x = r
    BY <1>0, <2>1, <2>2, VoteKeepsRow
  <2>3. CASE x # r
    <3>1. request'[r] = request[r] /\ ballot'[r] = ballot[r] /\ audit'[r] = audit[r]
      BY <1>0, <2>1, <2>3 DEF TypeOK
    <3> QED
      BY <1>0, <3>1, RowUnchanged
  <2> QED
    BY <2>2, <2>3
<1> QED
  BY <1>1, <1>2, <1>3, <1>4, RowSteps

-----------------------------------------------------------------------------
(* The theorems. *)

LEMMA Initial == Init => IInv
<1> SUFFICES ASSUME Init PROVE IInv
  OBVIOUS
<1>1. \A p \in Sessions : SessionInv(p)
  BY DEF Init, Idle, SessionInv, Running
<1>2. ASSUME NEW r \in Requests PROVE RowInv(r)
  <2>1. /\ request[r] = NoRequest /\ audit[r] = <<>>
        /\ \A u \in Users : ballot[r][u] = "none"
    BY DEF Init
  <2>2. Voters(r, "approve") = {} /\ Voters(r, "reject") = {}
    BY <2>1 DEF Voters
  <2>3. Cardinality(Voters(r, "approve")) = 0 /\ Cardinality(Voters(r, "reject")) = 0
    BY <2>2, FS_EmptySet
  <2> QED
    BY <2>1, <2>3 DEF RowInv, NoRequest
<1> QED
  BY <1>1, <1>2, RowByRow, TypeInitial DEF IInv

LEMMA Inductive == IInv /\ [Next]_vars => IInv'
BY TypeStep, SessionsStep, RowsStep DEF IInv

LEMMA Invariant == Spec => []IInv
BY Initial, Inductive, PTL DEF Spec

\* Every variable keeps its type.
THEOREM TypeCorrect == Spec => []TypeOK
<1>1. IInv => TypeOK
  BY DEF IInv
<1> QED
  BY Invariant, <1>1, PTL

\* However many sessions vote at once, the counters are the numbers of the votes.
THEOREM CountersMatchBallotsCorrect == Spec => []CountersMatchBallots
<1>1. IInv => CountersMatchBallots
  BY DEF IInv, RowsInv
<1> QED
  BY Invariant, <1>1, PTL

\* The status of a request is the quorum's: approved by exactly the approvers it
\* needs, rejected by one, never with a vote of its requester.
THEOREM DecidedByQuorumCorrect == Spec => []DecidedByQuorum
<1>1. IInv => DecidedByQuorum
  <2> SUFFICES ASSUME IInv, NEW r \in Requests
               PROVE  LET row == request[r] IN
                      /\ row.status = "approved" =>
                           /\ Cardinality(Voters(r, "approve")) = row.required
                           /\ Voters(r, "reject") = {}
                      /\ row.status = "rejected" =>
                           /\ Cardinality(Voters(r, "reject")) = 1
                           /\ Cardinality(Voters(r, "approve")) < row.required
                      /\ row.status = "pending" =>
                           /\ Cardinality(Voters(r, "approve")) < row.required
                           /\ Voters(r, "reject") = {}
                      /\ row.status # "none" => ballot[r][row.requester] = "none"
    BY DEF DecidedByQuorum
  <2>1. /\ request[r].approvals = Cardinality(Voters(r, "approve"))
        /\ request[r].rejections = Cardinality(Voters(r, "reject"))
    BY DEF IInv, RowsInv, CountersMatchBallots
  <2>2. Cardinality(Voters(r, "reject")) = 0 => Voters(r, "reject") = {}
    <3>1. IsFiniteSet(Voters(r, "reject"))
      BY FS_Subset, ConstantsAssumption DEF Voters
    <3> QED
      BY <3>1, FS_EmptySet
  <2> QED
    BY <2>1, <2>2 DEF IInv, RowsInv, CountersDecide
<1> QED
  BY Invariant, <1>1, PTL

\* The audit trail alone tells how every request was decided.
THEOREM AuditExplainsStatusCorrect == Spec => []AuditExplainsStatus
<1>1. IInv => AuditExplainsStatus
  BY DEF IInv, RowsInv
<1> QED
  BY Invariant, <1>1, PTL

\* A request changes its status from pending only, or is lost to a late expiry.
THEOREM NeverReversedCorrect == Spec => NeverReversed
<1> DEFINE Kept(r) ==
      \/ request'[r].status = request[r].status
      \/ request[r].status \in {"none", "pending"}
      \/ request[r].status \in Decided /\ request'[r].status = "expired"
<1>1. ASSUME IInv, [Next]_vars, NEW r \in Requests PROVE Kept(r)
  <2>0. request[r] \in RequestRow /\ request \in [Requests -> RequestRow]
    BY <1>1 DEF IInv, TypeOK
  <2>1. CASE UNCHANGED <<request, ballot, audit>>
    BY <2>1
  <2>2. ASSUME NEW x \in Requests, CreateRequest(x) PROVE Kept(r)
    BY <2>0, <2>2 DEF CreateRequest
  <2>3. ASSUME NEW p \in Sessions, CommitExpired(p) PROVE Kept(r)
    BY <2>0, <2>3 DEF CommitExpired, RequestRow, Statuses
  <2>4. ASSUME NEW p \in Sessions, CommitVote(p) PROVE Kept(r)
    <3>1. PICK x \in Requests, c \in Choices :
             /\ request[x].status = "pending"
             /\ request' = [request EXCEPT ![x] = Counted(request[x], c)]
      BY <1>1, <2>4, VoteCommitted
    <3> QED
      BY <2>0, <3>1
  <2> QED
    BY <1>1, <2>1, <2>2, <2>3, <2>4, RowSteps
<1>2. IInv /\ [Next]_vars => [\A r \in Requests : Kept(r)]_vars
  BY <1>1
<1> QED
  BY <1>2, Invariant, PTL DEF Spec, NeverReversed
=============================================================================
