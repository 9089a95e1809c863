----------------------------- MODULE AuditChain -----------------------------
(***************************************************************************)
(* The hash-chained audit log of one organization                          *)
(* (control_plane/services/audit.py), written by the routes' database      *)
(* transactions on PostgreSQL at READ COMMITTED: record() locks the row of *)
(* audit_seq_counters, numbers the event, links it to the last hash and    *)
(* moves the counter; everything becomes visible at the commit of get_db.  *)
(* The counter row is created by the first event of the organization.      *)
(*                                                                         *)
(* Routes call record() in three ways.  "hard": an exception goes through  *)
(* and get_db rolls back (policy, approval, revocation).  "soft": the      *)
(* route catches it and answers (enroll, rotate-token).  "sync":           *)
(* sync_pending catches it event by event.                                 *)
(***************************************************************************)
EXTENDS Naturals, FiniteSets, Sequences

CONSTANTS Txns,       \* the transactions
          BatchSizes  \* lengths of a device's offline queue

ASSUME BatchAssumption == BatchSizes \subseteq Nat \ {0}

VARIABLES events,   \* committed rows of audit_events
          counter,  \* committed row of audit_seq_counters
          owner,    \* transaction that locks, or has inserted, the counter row
          effect,   \* transactions whose own writes (the device, the bundle,
                    \* the vote ...) are committed
          txn       \* the transactions' own state

vars == <<events, counter, owner, effect, txn>>

Free == "free"

ASSUME TxnAssumption == Free \notin Txns

Kinds == {"hard", "soft", "sync"}
Genesis == <<>>
NoCounter == [exists |-> FALSE, seq |-> 0, hash |-> Genesis]

\* left: events still to record; accepted, rejected: sync_pending's answer;
\* mine: events flushed, not committed; seq, hash: the counter as this
\* transaction has it.
Idle == [pc |-> "idle", kind |-> "hard", left |-> 0, accepted |-> 0,
         rejected |-> 0, mine |-> {}, seq |-> 0, hash |-> Genesis]

\* Rolled back: nothing of it is left.
Gone == [Idle EXCEPT !.pc = "aborted"]

Working == {"open", "inserting", "creating", "counted"}
Running == Working \cup {"poisoned"}

Init ==
    /\ events = {}
    /\ counter = NoCounter
    /\ owner = Free
    /\ effect = {}
    /\ txn = [t \in Txns |-> Idle]

-----------------------------------------------------------------------------
\* SHA-256(previous hash + canonical JSON): different inputs, different hashes.
ComputeHash(prev, body) == Append(prev, body)

\* The body of an event: its sequence number and whose event it is.
Body(t, seq) == <<seq, t>>

\* The event record() makes from t's copy (seq, hash) of the counter.
NewEvent(t, seq, hash) ==
    [seq |-> seq + 1, prev |-> hash, hash |-> ComputeHash(hash, Body(t, seq + 1)),
     body |-> Body(t, seq + 1)]

Begin(t) ==
    /\ txn[t].pc = "idle"
    /\ \/ \E k \in {"hard", "soft"} :
            txn' = [txn EXCEPT ![t] = [Idle EXCEPT !.pc = "open", !.kind = k, !.left = 1]]
       \/ \E n \in BatchSizes :
            txn' = [txn EXCEPT ![t] = [Idle EXCEPT !.pc = "open", !.kind = "sync", !.left = n]]
    /\ UNCHANGED <<events, counter, owner, effect>>

ToRecord(t) == txn[t].pc = "open" /\ txn[t].left > 0

\* A later event of the same transaction: the row is already its own.
RecordAgain(t) ==
    /\ ToRecord(t) /\ owner = t
    /\ txn' = [txn EXCEPT ![t].pc = "counted"]
    /\ UNCHANGED <<events, counter, owner, effect>>

Copied(t) == [txn[t] EXCEPT !.pc = "counted", !.seq = counter.seq, !.hash = counter.hash]

\* Variant: the SELECT of the counter has no FOR UPDATE.
RecordUnlocked(t) ==
    /\ ToRecord(t) /\ txn[t].mine = {}
    /\ counter.exists
    /\ txn' = [txn EXCEPT ![t] = Copied(t)]
    /\ UNCHANGED <<events, counter, owner, effect>>

\* SELECT ... FOR UPDATE finds the row: it waits for the lock and then reads
\* what the last committed transaction left.
RecordLocked(t) ==
    /\ ToRecord(t)
    /\ counter.exists /\ owner = Free
    /\ owner' = t
    /\ txn' = [txn EXCEPT ![t] = Copied(t)]
    /\ UNCHANGED <<events, counter, effect>>

\* SELECT ... FOR UPDATE finds no committed row; somebody's uncommitted insert
\* does not make it wait.
CounterMissing(t) ==
    /\ ToRecord(t)
    /\ ~counter.exists /\ owner # t
    /\ txn' = [txn EXCEPT ![t].pc = "inserting"]
    /\ UNCHANGED <<events, counter, owner, effect>>

\* INSERT of the counter.  The primary key makes it wait while another
\* transaction has inserted the row and not ended.
CreateCounter(t) ==
    /\ txn[t].pc = "inserting"
    /\ ~counter.exists /\ owner = Free
    /\ owner' = t
    /\ txn' = [txn EXCEPT ![t] = [@ EXCEPT !.pc = "creating", !.seq = 0, !.hash = Genesis]]
    /\ UNCHANGED <<events, counter, effect>>

\* The same INSERT ends with the check of its foreign key, FOR KEY SHARE on the
\* organization row (models.py:221).  Who uses this module and locks that row
\* says when it is granted; so it does for Flush.
CounterCreated(t) ==
    /\ txn[t].pc = "creating"
    /\ txn' = [txn EXCEPT ![t].pc = "counted"]
    /\ UNCHANGED <<events, counter, owner, effect>>

Recorded(t) ==
    LET new == NewEvent(t, txn[t].seq, txn[t].hash) IN
    [txn[t] EXCEPT !.pc = "open", !.left = @ - 1, !.accepted = @ + 1,
                   !.mine = @ \cup {new}, !.seq = new.seq, !.hash = new.hash]

\* INSERT of the event, which has the same foreign key (models.py:186), and
\* UPDATE of the counter.
Flush(t) ==
    /\ txn[t].pc = "counted"
    /\ txn' = [txn EXCEPT ![t] = Recorded(t)]
    /\ UNCHANGED <<events, counter, owner, effect>>

\* t has inserted a row of the organization: it shares the organization row.
Shares(t) ==
    /\ owner = t /\ txn[t].pc \in {"open", "counted"}
    /\ txn[t].mine # {} \/ ~counter.exists

\* The body of a device's event cannot be encoded: record() raises before its
\* flush.  The transaction lives and keeps the counter row, and sync_pending
\* goes on.  (What the routes record themselves is made of plain names.)
RejectEvent(t) ==
    /\ txn[t].pc = "counted" /\ txn[t].kind = "sync"
    /\ txn' = [txn EXCEPT ![t] = [txn[t] EXCEPT !.pc = "open", !.rejected = @ + 1, !.left = @ - 1]]
    /\ UNCHANGED <<events, counter, owner, effect>>

Failed(t) ==
    IF txn[t].kind = "hard" THEN Gone
    ELSE [txn[t] EXCEPT !.pc = "poisoned", !.mine = {},
                        !.rejected = @ + 1, !.left = @ - 1]

\* A statement of record() fails: PostgreSQL has rolled the transaction back, with
\* the events accepted before, and releases its locks.  From then on the session
\* refuses every statement and the commit (after a failed flush), or PostgreSQL
\* does, which answers COMMIT with ROLLBACK.  A hard route is over, a soft one
\* answers all the same, and sync_pending goes on with its next event.
StatementFails(t) ==
    /\ owner' = IF owner = t THEN Free ELSE owner
    /\ txn' = [txn EXCEPT ![t] = Failed(t)]
    /\ UNCHANGED <<events, counter, effect>>

\* A value PostgreSQL refuses, a time-out of the server, a deadlock.
RecordFails(t) ==
    /\ ToRecord(t) \/ txn[t].pc \in {"inserting", "creating", "counted"}
    /\ StatementFails(t)

\* The other transaction has committed the counter: IntegrityError.
CreateConflict(t) == txn[t].pc = "inserting" /\ counter.exists /\ StatementFails(t)

\* Every further event of the batch is refused.
RejectRest(t) ==
    /\ txn[t].pc = "poisoned" /\ txn[t].left > 0
    /\ txn' = [txn EXCEPT ![t] = [txn[t] EXCEPT !.rejected = @ + 1, !.left = @ - 1]]
    /\ UNCHANGED <<events, counter, owner, effect>>

\* get_db's commit, after a failed statement.
CommitFails(t) ==
    /\ txn[t].pc = "poisoned" /\ txn[t].left = 0
    /\ txn' = [txn EXCEPT ![t] = Gone]
    /\ UNCHANGED <<events, counter, owner, effect>>

\* get_db: the route's writes, its events and the counter in one commit.
Commit(t) ==
    /\ txn[t].pc = "open" /\ txn[t].left = 0
    /\ events' = events \cup txn[t].mine
    /\ counter' = [exists |-> TRUE, seq |-> txn[t].seq, hash |-> txn[t].hash]
    /\ owner' = Free
    /\ effect' = effect \cup {t}
    /\ txn' = [txn EXCEPT ![t].pc = "committed"]

\* Variant: get_db does not roll back, the connection keeps its locks.
AbortWithoutRollback(t) ==
    /\ txn[t].pc \in Running
    /\ txn' = [txn EXCEPT ![t].pc = "aborted"]
    /\ UNCHANGED <<events, counter, owner, effect>>

\* The process or the connection dies, or the route fails after record().
Abort(t) ==
    /\ txn[t].pc \in Running
    /\ owner' = IF owner = t THEN Free ELSE owner
    /\ txn' = [txn EXCEPT ![t] = Gone]
    /\ UNCHANGED <<events, counter, effect>>

Proceed(t) ==
    \/ RecordAgain(t) \/ RecordLocked(t) \/ CounterMissing(t) \/ CreateCounter(t)
    \/ CounterCreated(t) \/ Flush(t) \/ CreateConflict(t)
    \/ RejectRest(t) \/ CommitFails(t) \/ Commit(t)

Next == \E t \in Txns : Begin(t) \/ Proceed(t) \/ RejectEvent(t) \/ RecordFails(t) \/ Abort(t)

Spec == Init /\ [][Next]_vars

-----------------------------------------------------------------------------
(* Properties *)

Events == [seq : Nat, prev : Seq(Nat \X Txns), hash : Seq(Nat \X Txns),
           body : Nat \X Txns]

TypeOK ==
    /\ events \subseteq Events
    /\ counter \in [exists : BOOLEAN, seq : Nat, hash : Seq(Nat \X Txns)]
    /\ owner \in Txns \cup {Free}
    /\ effect \subseteq Txns
    /\ txn \in [Txns ->
         [pc : Running \cup {"idle", "committed", "aborted"},
          kind : Kinds, left : Nat, accepted : Nat, rejected : Nat,
          mine : SUBSET Events, seq : Nat, hash : Seq(Nat \X Txns)]]

\* The event verify_chain visits before e.
Earlier(e) == {f \in events : f.seq < e.seq}
Previous(e) == CHOOSE f \in Earlier(e) : \A g \in Earlier(e) : g.seq <= f.seq

\* verify_chain walks the committed events by seq: each one links to the one
\* before it and hashes to what it says.
VerifyChain ==
    \A e \in events :
        /\ e.prev = IF Earlier(e) = {} THEN Genesis ELSE Previous(e).hash
        /\ e.hash = ComputeHash(e.prev, e.body)

\* verify_chain succeeds at every moment, in the middle of whatever transactions:
\* the numbers of the committed events are 1, 2, ... without a hole a rolled-back
\* transaction would have left, no flushed event has a number already in use
\* (uq_audit_org_seq never refuses one), and the counter ends the chain.
ChainIntact ==
    /\ VerifyChain
    /\ {e.seq : e \in events} = 1..counter.seq
    /\ \A e \in events : e.seq = counter.seq => e.hash = counter.hash
    /\ \A e, f \in events \cup UNION {txn[t].mine : t \in {u \in Txns : txn[u].pc \in Working}} :
          e.seq = f.seq => e = f

EventsOf(t) == {e \in events : e.body[2] = t}

\* A route's own writes and its audit events are committed together or not at
\* all, whichever of its events fails and when: what sync_pending counted as
\* accepted is in the log if the transaction ends in a commit and lost with it
\* otherwise, and no route that catches a failed record() commits without its event.
RecordedWithEffect ==
    \A t \in Txns :
        /\ t \in effect <=> txn[t].pc = "committed"
        /\ Cardinality(EventsOf(t)) = (IF t \in effect THEN txn[t].accepted ELSE 0)
        /\ t \in effect /\ txn[t].kind # "sync" => txn[t].accepted = 1

\* Transactions that wait for the counter row, or for the organization row, are
\* all served, or are chosen to break a cycle of waits.
EveryTxnEnds ==
    \A t \in Txns : txn[t].pc # "idle" ~> txn[t].pc \in {"committed", "aborted"}
=============================================================================
