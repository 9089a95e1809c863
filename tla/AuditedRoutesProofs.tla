------------------------- MODULE AuditedRoutesProofs -------------------------
(***************************************************************************)
(* Proofs about AuditChain and AuditedRoutes, for any number of            *)
(* transactions and any length of the offline queues.                      *)
(*                                                                         *)
(* 1. The chain of the log verifies at every moment.  What is committed is *)
(*    a chain that ends in the counter, and with the events of the         *)
(*    transaction that holds the counter row it is a longer chain, which   *)
(*    ends in that transaction's own copy of it.  No other transaction in  *)
(*    progress has events, so a commit or a rollback leaves one of the two.*)
(* 2. The routes are users of the audit log: every step is a step of       *)
(*    AuditChain or leaves the log alone, so the log's chain verifies.     *)
(* 3. A device that is out stays out.                                      *)
(* 4. Bundles are published in order.  The argument: a publisher between   *)
(*    its lock and its commit holds the organization row, so there is one  *)
(*    at a time, and what it has read is still true when it commits.       *)
(* 5. The log tells the history of the rows: a transaction's events are    *)
(*    numbered above all that is committed, and its rows name it in the    *)
(*    same commit.                                                         *)
(***************************************************************************)
EXTENDS AuditedRoutes, FiniteSetTheorems, TLAPS

-----------------------------------------------------------------------------
(* The chain of the log. *)

\* E is a chain of n events whose last hash is h.
ChainTo(E, n, h) ==
    /\ \A e \in E : e.seq \in 1..n /\ e.hash = ComputeHash(e.prev, e.body)
    /\ \A i \in 1..n : \E e \in E : e.seq = i
    /\ \A e, f \in E : e.seq = f.seq => e = f
    /\ \A e \in E : e.seq = 1 => e.prev = Genesis
    /\ \A e, f \in E : e.seq = f.seq + 1 => e.prev = f.hash
    /\ \A e \in E : e.seq = n => e.hash = h
    /\ n = 0 => h = Genesis

CommittedChain == ChainTo(events, counter.seq, counter.hash)

\* The owner of the counter row: its copy ends the chain with its own events.
OwnersChain ==
    \A t \in Txns : owner = t =>
        /\ txn[t].pc \in {"open", "creating", "counted"}
        /\ txn[t].pc # "open" => txn[t].left > 0
        /\ ChainTo(events \cup txn[t].mine, txn[t].seq, txn[t].hash)

OthersWait ==
    \A t \in Txns : owner # t /\ txn[t].pc \in Working =>
        /\ txn[t].pc \in {"open", "inserting"}
        /\ txn[t].mine = {} /\ txn[t].left > 0

NoCounterYet == ~counter.exists => counter.seq = 0

IInv == TypeOK /\ CommittedChain /\ OwnersChain /\ OthersWait /\ NoCounterYet

-----------------------------------------------------------------------------
(* Chains. *)

\* One event more, numbered and linked by record(), makes a longer chain.
LEMMA ChainGrows ==
    ASSUME NEW E, NEW n \in Nat, NEW h, NEW t, ChainTo(E, n, h)
    PROVE  ChainTo(E \cup {NewEvent(t, n, h)}, n + 1, NewEvent(t, n, h).hash)
<1> DEFINE new == NewEvent(t, n, h)
           F == E \cup {new}
<1>1. /\ new.seq = n + 1 /\ new.prev = h
      /\ new.hash = ComputeHash(new.prev, new.body)
  BY DEF NewEvent
<1>2. \A e \in E : e.seq \in 1..n /\ e.seq # n + 1 /\ e.seq \in 1..(n + 1)
  BY DEF ChainTo
<1> HIDE DEF new
<1>3. \A e \in F : e.seq \in 1..(n + 1) /\ e.hash = ComputeHash(e.prev, e.body)
  BY <1>1, <1>2 DEF ChainTo
<1>4. \A i \in 1..(n + 1) : \E e \in F : e.seq = i
  <2> SUFFICES ASSUME NEW i \in 1..(n + 1) PROVE \E e \in F : e.seq = i
    OBVIOUS
  <2>1. CASE i = n + 1
    BY <1>1, <2>1
  <2>2. CASE i # n + 1
    <3>1. i \in 1..n
      BY <2>2
    <3> QED
      BY <3>1 DEF ChainTo
  <2> QED
    BY <2>1, <2>2
<1>5. \A e, f \in F : e.seq = f.seq => e = f
  BY <1>1, <1>2 DEF ChainTo
<1>6. \A e \in F : e.seq = 1 => e.prev = Genesis
  <2> SUFFICES ASSUME new.seq = 1 PROVE new.prev = Genesis
    BY DEF ChainTo
  <2> QED
    BY <1>1 DEF ChainTo
<1>7. ASSUME NEW e \in F, NEW f \in F, e.seq = f.seq + 1
      PROVE  e.prev = f.hash
  <2>1. f # new
    BY <1>1, <1>2, <1>7
  <2>2. CASE e = new
    BY <1>1, <1>2, <1>7, <2>1, <2>2 DEF ChainTo
  <2> QED
    BY <1>7, <2>1, <2>2 DEF ChainTo
<1>8. \A e \in F : e.seq = n + 1 => e.hash = new.hash
  BY <1>2
<1>9. ChainTo(F, n + 1, new.hash)
  BY <1>3, <1>4, <1>5, <1>6, <1>7, <1>8 DEF ChainTo
<1> QED
  BY <1>9 DEF new

\* verify_chain accepts a chain.
LEMMA ChainVerifies == CommittedChain /\ counter.seq \in Nat => VerifyChain
<1> SUFFICES ASSUME CommittedChain, counter.seq \in Nat, NEW e \in events
             PROVE  /\ e.prev = IF Earlier(e) = {} THEN Genesis ELSE Previous(e).hash
                    /\ e.hash = ComputeHash(e.prev, e.body)
  BY Zenon DEF VerifyChain
<1>1. /\ e.hash = ComputeHash(e.prev, e.body)
      /\ \A f \in events : f.seq \in 1..counter.seq
  BY DEF CommittedChain, ChainTo
<1>2. CASE e.seq = 1
  <2>1. Earlier(e) = {}
    BY <1>1, <1>2 DEF Earlier
  <2>2. e.prev = Genesis
    BY <1>2 DEF CommittedChain, ChainTo
  <2> QED
    BY <1>1, <2>1, <2>2
<1>3. CASE e.seq # 1
  <2>1. PICK f \in events : f.seq = e.seq - 1
    <3>1. e.seq - 1 \in 1..counter.seq
      BY <1>1, <1>3
    <3> QED
      BY <3>1 DEF CommittedChain, ChainTo
  <2>2. f \in Earlier(e) /\ \A g \in Earlier(e) : g.seq <= f.seq
    BY <1>1, <2>1 DEF Earlier
  <2>3. ASSUME NEW p \in Earlier(e), \A g \in Earlier(e) : g.seq <= p.seq
        PROVE  p = f
    <3>1. p \in events /\ p.seq <= f.seq /\ f.seq <= p.seq
      BY <2>2, <2>3 DEF Earlier
    <3>2. p.seq = f.seq
      BY <1>1, <3>1
    <3> QED
      BY <3>1, <3>2 DEF CommittedChain, ChainTo
  <2>4. Previous(e) = f
    BY <2>2, <2>3 DEF Previous
  <2>5. e.prev = f.hash
    <3>1. e.seq = f.seq + 1
      BY <1>1, <2>1
    <3> QED
      BY <3>1 DEF CommittedChain, ChainTo
  <2> QED
    BY <1>1, <2>2, <2>4, <2>5
<1> QED
  BY <1>2, <1>3

-----------------------------------------------------------------------------
(* The invariant. *)

LEMMA Initial == Init => IInv
<1> SUFFICES ASSUME Init PROVE IInv
  OBVIOUS
<1>1. TypeOK
  BY DEF Init, TypeOK, NoCounter, Idle, Genesis, Kinds, Free
<1>2. CommittedChain
  BY DEF Init, CommittedChain, ChainTo, NoCounter
<1>3. OwnersChain
  BY TxnAssumption DEF Init, OwnersChain
<1>4. OthersWait
  BY DEF Init, OthersWait, Idle, Working
<1>5. NoCounterYet
  BY DEF Init, NoCounterYet, NoCounter
<1> QED
  BY <1>1, <1>2, <1>3, <1>4, <1>5 DEF IInv

TxnStates ==
    [pc : Running \cup {"idle", "committed", "aborted"},
     kind : Kinds, left : Nat, accepted : Nat, rejected : Nat,
     mine : SUBSET Events, seq : Nat, hash : Seq(Nat \X Txns)]

\* t moves to the state s, with the events it had.
KeepsEvents(t, s) ==
    /\ s \in TxnStates /\ txn' = [txn EXCEPT ![t] = s]
    /\ s.mine = txn[t].mine /\ s.kind = txn[t].kind /\ s.accepted = txn[t].accepted

\* t moves to the state s, which has none.
DropsEvents(t, s) ==
    /\ s \in TxnStates /\ txn' = [txn EXCEPT ![t] = s]
    /\ s.mine = {} /\ s.pc \in {"poisoned", "aborted"}
    /\ s.pc = "aborted" => s = Gone
    /\ s.pc = "poisoned" => s.kind = txn[t].kind

MovesTo(t, pc, n, h) ==
    txn' = [txn EXCEPT ![t] = [txn[t] EXCEPT !.pc = pc, !.seq = n, !.hash = h]]

LEMMA TxnTypes == ASSUME TypeOK, NEW t \in Txns
                  PROVE  txn \in [Txns -> TxnStates] /\ txn[t] \in TxnStates
BY DEF TypeOK, TxnStates

\* Where the steps take the transaction.  A step to or from the counter row:
LEMMA CountingStates ==
    ASSUME TypeOK, NEW t \in Txns
    PROVE  /\ RecordAgain(t) => \E s : /\ KeepsEvents(t, s) /\ s.pc = "counted"
                 /\ s.left = txn[t].left /\ s.seq = txn[t].seq /\ s.hash = txn[t].hash
           /\ RecordLocked(t) => \E s : /\ KeepsEvents(t, s) /\ s.pc = "counted"
                 /\ s.left = txn[t].left /\ s.seq = counter.seq /\ s.hash = counter.hash
           /\ CounterMissing(t) => \E s : /\ KeepsEvents(t, s) /\ s.pc = "inserting"
                 /\ s.left = txn[t].left
           /\ CreateCounter(t) => \E s : /\ KeepsEvents(t, s) /\ s.pc = "creating"
                 /\ s.left = txn[t].left /\ s.seq = 0 /\ s.hash = Genesis
           /\ CounterCreated(t) => \E s : /\ KeepsEvents(t, s) /\ s.pc = "counted"
                 /\ s.left = txn[t].left /\ s.seq = txn[t].seq /\ s.hash = txn[t].hash
<1>0. txn \in [Txns -> TxnStates] /\ txn[t] \in TxnStates
  BY TxnTypes
<1>1. \A pc \in Working : [txn[t] EXCEPT !.pc = pc] \in TxnStates
  BY <1>0 DEF TxnStates, Running
<1>2. ASSUME NEW pc \in Working, txn' = [txn EXCEPT ![t].pc = pc]
      PROVE  \E s : /\ KeepsEvents(t, s) /\ s.pc = pc
                    /\ s.left = txn[t].left /\ s.seq = txn[t].seq /\ s.hash = txn[t].hash
  <2> DEFINE s == [txn[t] EXCEPT !.pc = pc]
  <2>1. txn' = [txn EXCEPT ![t] = s] /\ s \in TxnStates
    BY <1>1, <1>2
  <2>2. /\ s.mine = txn[t].mine /\ s.kind = txn[t].kind /\ s.accepted = txn[t].accepted
        /\ s.pc = pc /\ s.left = txn[t].left /\ s.seq = txn[t].seq /\ s.hash = txn[t].hash
    BY <1>0 DEF TxnStates
  <2> HIDE DEF s
  <2> QED
    BY <2>1, <2>2 DEF KeepsEvents
<1>3. ASSUME NEW pc \in Working, NEW n \in Nat, NEW h \in Seq(Nat \X Txns),
             MovesTo(t, pc, n, h)
      PROVE  \E s : /\ KeepsEvents(t, s) /\ s.pc = pc
                    /\ s.left = txn[t].left /\ s.seq = n /\ s.hash = h
  <2> DEFINE s == [txn[t] EXCEPT !.pc = pc, !.seq = n, !.hash = h]
  <2>1. txn' = [txn EXCEPT ![t] = s] /\ s \in TxnStates
    BY <1>0, <1>3 DEF TxnStates, Running, MovesTo
  <2>2. /\ s.mine = txn[t].mine /\ s.kind = txn[t].kind /\ s.accepted = txn[t].accepted
        /\ s.pc = pc /\ s.left = txn[t].left /\ s.seq = n /\ s.hash = h
    BY <1>0 DEF TxnStates
  <2> HIDE DEF s
  <2> QED
    BY <2>1, <2>2 DEF KeepsEvents
<1>4. "counted" \in Working /\ "inserting" \in Working /\ "creating" \in Working
  BY DEF Working
<1>5. counter.seq \in Nat /\ counter.hash \in Seq(Nat \X Txns)
  BY DEF TypeOK
<1>6. Genesis \in Seq(Nat \X Txns) /\ 0 \in Nat
  BY DEF Genesis
<1>8. RecordAgain(t) => txn' = [txn EXCEPT ![t].pc = "counted"]
  BY DEF RecordAgain
<1>9. CounterMissing(t) => txn' = [txn EXCEPT ![t].pc = "inserting"]
  BY DEF CounterMissing
<1>10. CounterCreated(t) => txn' = [txn EXCEPT ![t].pc = "counted"]
  BY DEF CounterCreated
<1>11. RecordLocked(t) =>
         txn' = [txn EXCEPT ![t] = [txn[t] EXCEPT !.pc = "counted", !.seq = counter.seq,
                                                  !.hash = counter.hash]]
  BY DEF RecordLocked, Copied
<1>12. CreateCounter(t) =>
         txn' = [txn EXCEPT ![t] = [txn[t] EXCEPT !.pc = "creating", !.seq = 0, !.hash = Genesis]]
  BY <1>0 DEF CreateCounter
<1>13. RecordAgain(t) => \E s : /\ KeepsEvents(t, s) /\ s.pc = "counted"
           /\ s.left = txn[t].left /\ s.seq = txn[t].seq /\ s.hash = txn[t].hash
  BY <1>2, <1>4, <1>8
<1>14. CounterMissing(t) => \E s : KeepsEvents(t, s) /\ s.pc = "inserting" /\ s.left = txn[t].left
  BY <1>2, <1>4, <1>9
<1>15. CounterCreated(t) => \E s : /\ KeepsEvents(t, s) /\ s.pc = "counted"
           /\ s.left = txn[t].left /\ s.seq = txn[t].seq /\ s.hash = txn[t].hash
  BY <1>2, <1>4, <1>10
<1>16. RecordLocked(t) => \E s : /\ KeepsEvents(t, s) /\ s.pc = "counted"
           /\ s.left = txn[t].left /\ s.seq = counter.seq /\ s.hash = counter.hash
  <2> SUFFICES ASSUME RecordLocked(t)
               PROVE  \E s : /\ KeepsEvents(t, s) /\ s.pc = "counted"
                             /\ s.left = txn[t].left /\ s.seq = counter.seq
                             /\ s.hash = counter.hash
    OBVIOUS
  <2>1. PICK n \in Nat, h \in Seq(Nat \X Txns) : n = counter.seq /\ h = counter.hash
    BY <1>5
  <2>2. MovesTo(t, "counted", n, h)
    BY <1>11, <2>1 DEF MovesTo
  <2>3. \E s : /\ KeepsEvents(t, s) /\ s.pc = "counted"
               /\ s.left = txn[t].left /\ s.seq = n /\ s.hash = h
    BY <1>3, <1>4, <2>2
  <2> QED
    BY <2>1, <2>3
<1>17. CreateCounter(t) => \E s : /\ KeepsEvents(t, s) /\ s.pc = "creating"
           /\ s.left = txn[t].left /\ s.seq = 0 /\ s.hash = Genesis
  <2> SUFFICES ASSUME CreateCounter(t)
               PROVE  \E s : /\ KeepsEvents(t, s) /\ s.pc = "creating"
                             /\ s.left = txn[t].left /\ s.seq = 0 /\ s.hash = Genesis
    OBVIOUS
  <2>1. PICK n \in Nat, h \in Seq(Nat \X Txns) : n = 0 /\ h = Genesis
    BY <1>6
  <2>2. MovesTo(t, "creating", n, h)
    BY <1>12, <2>1 DEF MovesTo
  <2>3. \E s : /\ KeepsEvents(t, s) /\ s.pc = "creating"
               /\ s.left = txn[t].left /\ s.seq = n /\ s.hash = h
    BY <1>3, <1>4, <2>2
  <2> QED
    BY <2>1, <2>3
<1> QED
  BY <1>13, <1>14, <1>15, <1>16, <1>17

\* Events that are refused, alone or with all that went before them:
LEMMA RefusingStates ==
    ASSUME IInv, NEW t \in Txns
    PROVE  /\ RejectEvent(t) => \E s : /\ KeepsEvents(t, s) /\ s.pc = "open"
                 /\ s.seq = txn[t].seq /\ s.hash = txn[t].hash
           /\ RejectRest(t) => \E s : KeepsEvents(t, s) /\ s.pc = "poisoned"
           /\ RecordFails(t) \/ CreateConflict(t) => \E s : DropsEvents(t, s)
           /\ CommitFails(t) \/ Abort(t) => \E s : DropsEvents(t, s)
<1>0. TypeOK /\ txn \in [Txns -> TxnStates] /\ txn[t] \in TxnStates
  BY TxnTypes DEF IInv
<1>1. ASSUME RejectEvent(t) \/ RejectRest(t) \/ RecordFails(t) \/ CreateConflict(t)
      PROVE  txn[t].left - 1 \in Nat /\ txn[t].rejected + 1 \in Nat
  <2>1. txn[t].left > 0
    BY <1>1 DEF RejectEvent, RejectRest, RecordFails, CreateConflict, ToRecord, IInv, OwnersChain,
       OthersWait, Working
  <2> QED
    BY <1>0, <2>1 DEF TxnStates
<1>2. ASSUME NEW l \in Nat, NEW r \in Nat
      PROVE  /\ [txn[t] EXCEPT !.pc = "open", !.rejected = r, !.left = l] \in TxnStates
             /\ [txn[t] EXCEPT !.rejected = r, !.left = l] \in TxnStates
             /\ [txn[t] EXCEPT !.pc = "poisoned", !.mine = {}, !.rejected = r, !.left = l]
                   \in TxnStates
  BY <1>0 DEF TxnStates, Running, Working
<1>3. Gone \in TxnStates /\ Gone.mine = {} /\ Gone.pc = "aborted"
  <2>1. Idle \in TxnStates /\ Idle.mine = {}
    BY DEF Idle, TxnStates, Kinds, Genesis
  <2> QED
    BY <2>1 DEF Gone, TxnStates
<1>4. RejectEvent(t) => \E s : /\ KeepsEvents(t, s) /\ s.pc = "open"
                               /\ s.seq = txn[t].seq /\ s.hash = txn[t].hash
  <2> SUFFICES ASSUME RejectEvent(t)
               PROVE  \E s : /\ KeepsEvents(t, s) /\ s.pc = "open"
                             /\ s.seq = txn[t].seq /\ s.hash = txn[t].hash
    OBVIOUS
  <2> DEFINE s == [txn[t] EXCEPT !.pc = "open", !.rejected = txn[t].rejected + 1,
                                 !.left = txn[t].left - 1]
  <2>1. txn' = [txn EXCEPT ![t] = s]
    BY <1>0 DEF RejectEvent
  <2>2. s \in TxnStates
    BY <1>1, <1>2
  <2>3. /\ s.mine = txn[t].mine /\ s.kind = txn[t].kind /\ s.accepted = txn[t].accepted
        /\ s.pc = "open" /\ s.seq = txn[t].seq /\ s.hash = txn[t].hash
    BY <1>0 DEF TxnStates
  <2> HIDE DEF s
  <2> QED
    BY <2>1, <2>2, <2>3 DEF KeepsEvents
<1>5. RejectRest(t) => \E s : KeepsEvents(t, s) /\ s.pc = "poisoned"
  <2> SUFFICES ASSUME RejectRest(t) PROVE \E s : KeepsEvents(t, s) /\ s.pc = "poisoned"
    OBVIOUS
  <2> DEFINE s == [txn[t] EXCEPT !.rejected = txn[t].rejected + 1, !.left = txn[t].left - 1]
  <2>1. txn' = [txn EXCEPT ![t] = s] /\ txn[t].pc = "poisoned"
    BY <1>0 DEF RejectRest
  <2>2. s \in TxnStates
    BY <1>1, <1>2
  <2>3. /\ s.mine = txn[t].mine /\ s.kind = txn[t].kind /\ s.accepted = txn[t].accepted
        /\ s.pc = "poisoned"
    BY <1>0, <2>1 DEF TxnStates
  <2> HIDE DEF s
  <2> QED
    BY <2>1, <2>2, <2>3 DEF KeepsEvents
<1>6. RecordFails(t) \/ CreateConflict(t) => \E s : DropsEvents(t, s)
  <2> SUFFICES ASSUME RecordFails(t) \/ CreateConflict(t) PROVE \E s : DropsEvents(t, s)
    OBVIOUS
  <2>1. txn' = [txn EXCEPT ![t] = Failed(t)]
    BY DEF RecordFails, CreateConflict, StatementFails
  <2>2. CASE txn[t].kind = "hard"
    BY <1>3, <2>1, <2>2 DEF Failed, DropsEvents
  <2>3. CASE txn[t].kind # "hard"
    <3> DEFINE s == [txn[t] EXCEPT !.pc = "poisoned", !.mine = {},
                                   !.rejected = txn[t].rejected + 1, !.left = txn[t].left - 1]
    <3>1. txn' = [txn EXCEPT ![t] = s]
      BY <2>1, <2>3 DEF Failed
    <3>2. s \in TxnStates
      BY <1>1, <1>2
    <3>3. s.mine = {} /\ s.pc = "poisoned" /\ s.kind = txn[t].kind
      BY <1>0 DEF TxnStates
    <3> HIDE DEF s
    <3> QED
      BY <3>1, <3>2, <3>3 DEF DropsEvents
  <2> QED
    BY <2>2, <2>3
<1>7. CommitFails(t) \/ Abort(t) => \E s : DropsEvents(t, s)
  BY <1>3 DEF CommitFails, Abort, DropsEvents
<1> QED
  BY <1>4, <1>5, <1>6, <1>7

\* One more event:
LEMMA FlushedState ==
    ASSUME IInv, NEW t \in Txns, Flush(t)
    PROVE  /\ owner = t
           /\ ChainTo(events \cup txn[t].mine, txn[t].seq, txn[t].hash)
           /\ NewEvent(t, txn[t].seq, txn[t].hash) \notin txn[t].mine
           /\ \E s \in TxnStates :
                LET new == NewEvent(t, txn[t].seq, txn[t].hash) IN
                /\ txn' = [txn EXCEPT ![t] = s]
                /\ s.pc = "open" /\ s.kind = txn[t].kind
                /\ s.left = txn[t].left - 1 /\ s.accepted = txn[t].accepted + 1
                /\ s.mine = txn[t].mine \cup {new}
                /\ s.seq = txn[t].seq + 1 /\ s.hash = new.hash
<1>0. TypeOK /\ txn \in [Txns -> TxnStates] /\ txn[t] \in TxnStates
  BY TxnTypes DEF IInv
<1>1. owner = t /\ txn[t].left > 0
  BY DEF Flush, IInv, OwnersChain, OthersWait, Working
<1>2. ChainTo(events \cup txn[t].mine, txn[t].seq, txn[t].hash)
  BY <1>1 DEF IInv, OwnersChain
<1>3. PICK n \in Nat, h \in Seq(Nat \X Txns) : n = txn[t].seq /\ h = txn[t].hash
  BY <1>0 DEF TxnStates
<1> DEFINE new == NewEvent(t, n, h)
<1>4. new \in Events /\ new.seq = n + 1
  <2>1. /\ Body(t, n + 1) \in Nat \X Txns
        /\ ComputeHash(h, Body(t, n + 1)) \in Seq(Nat \X Txns)
    BY DEF Body, ComputeHash
  <2> QED
    BY <2>1 DEF NewEvent, Events
<1>5. new \notin txn[t].mine
  BY <1>2, <1>3, <1>4 DEF ChainTo
<1>6. PICK g \in Seq(Nat \X Txns) : g = new.hash
  BY <1>4 DEF Events
<1> HIDE DEF new
<1>7. PICK l \in Nat, a \in Nat, k \in Nat, m \in SUBSET Events :
         /\ l = txn[t].left - 1 /\ a = txn[t].accepted + 1 /\ k = n + 1
         /\ m = txn[t].mine \cup {new}
  <2>1. txn[t].left - 1 \in Nat /\ txn[t].accepted + 1 \in Nat /\ n + 1 \in Nat
    BY <1>0, <1>1 DEF TxnStates
  <2>2. txn[t].mine \cup {new} \in SUBSET Events
    BY <1>0, <1>4 DEF TxnStates
  <2> QED
    BY <2>1, <2>2
<1> DEFINE s == [txn[t] EXCEPT !.pc = "open", !.left = l, !.accepted = a,
                               !.mine = m, !.seq = k, !.hash = g]
<1>8. Recorded(t) = s
  BY <1>3, <1>4, <1>6, <1>7 DEF Recorded, new
<1>9. s \in TxnStates
  BY <1>0 DEF TxnStates, Running, Working
<1>10. /\ s.pc = "open" /\ s.kind = txn[t].kind /\ s.left = l /\ s.accepted = a
       /\ s.mine = m /\ s.seq = k /\ s.hash = g
  BY <1>0 DEF TxnStates
<1>11. txn' = [txn EXCEPT ![t] = s]
  BY <1>8 DEF Flush
<1> HIDE DEF s
<1> QED
  BY <1>1, <1>2, <1>3, <1>5, <1>6, <1>7, <1>9, <1>10, <1>11 DEF new

\* The types are kept.
LEMMA TypeStep == IInv /\ [Next]_vars => TypeOK'
<1> SUFFICES ASSUME IInv, [Next]_vars PROVE TypeOK'
  OBVIOUS
<1>0. /\ TypeOK
      /\ txn \in [Txns -> TxnStates]
  BY DEF IInv, TypeOK, TxnStates
<1>a. ASSUME NEW t \in Txns, NEW s \in TxnStates, txn' = [txn EXCEPT ![t] = s]
      PROVE  txn' \in [Txns -> TxnStates]
  BY <1>0, <1>a
<1>b. ASSUME txn' \in [Txns -> TxnStates], owner' \in Txns \cup {Free},
             UNCHANGED <<events, counter, effect>>
      PROVE  TypeOK'
  BY <1>0, <1>b DEF TypeOK, TxnStates
<1>1. ASSUME NEW t \in Txns, Begin(t) PROVE TypeOK'
  <2>1. ASSUME NEW k \in {"hard", "soft", "sync"}, NEW n \in Nat
        PROVE  [Idle EXCEPT !.pc = "open", !.kind = k, !.left = n] \in TxnStates
    <3>1. Idle \in TxnStates
      BY DEF Idle, TxnStates, Kinds, Genesis
    <3> QED
      BY <3>1 DEF TxnStates, Kinds, Running, Working
  <2>2. txn' \in [Txns -> TxnStates]
    BY <1>1, <1>a, <2>1, BatchAssumption DEF Begin
  <2> QED
    BY <1>0, <1>1, <1>b, <2>2 DEF Begin, TypeOK
<1>2. ASSUME NEW t \in Txns,
             \/ RecordAgain(t) \/ RecordLocked(t) \/ CounterMissing(t) \/ CreateCounter(t)
             \/ CounterCreated(t) \/ RejectEvent(t) \/ RejectRest(t)
      PROVE  TypeOK'
  <2>1. \E s : KeepsEvents(t, s)
    BY <1>0, <1>2, CountingStates, RefusingStates
  <2>2. txn' \in [Txns -> TxnStates]
    BY <1>a, <2>1 DEF KeepsEvents
  <2>3. owner' \in Txns \cup {Free} /\ UNCHANGED <<events, counter, effect>>
    BY <1>0, <1>2 DEF RecordAgain, RecordLocked, CounterMissing, CreateCounter, CounterCreated,
       RejectEvent, RejectRest, TypeOK
  <2> QED
    BY <1>b, <2>2, <2>3
<1>3. ASSUME NEW t \in Txns,
             RecordFails(t) \/ CreateConflict(t) \/ CommitFails(t) \/ Abort(t)
      PROVE  TypeOK'
  <2>1. \E s : DropsEvents(t, s)
    BY <1>3, RefusingStates
  <2>2. txn' \in [Txns -> TxnStates]
    BY <1>a, <2>1 DEF DropsEvents
  <2>3. owner' \in Txns \cup {Free} /\ UNCHANGED <<events, counter, effect>>
    BY <1>0, <1>3 DEF RecordFails, CreateConflict, StatementFails, CommitFails, Abort, TypeOK
  <2> QED
    BY <1>b, <2>2, <2>3
<1>4. ASSUME NEW t \in Txns, Flush(t) PROVE TypeOK'
  <2>1. txn' \in [Txns -> TxnStates]
    BY <1>a, <1>4, FlushedState
  <2> QED
    BY <1>0, <1>4, <1>b, <2>1 DEF Flush, TypeOK
<1>5. ASSUME NEW t \in Txns, Commit(t) PROVE TypeOK'
  <2>1. txn' \in [Txns -> TxnStates]
    BY <1>0, <1>5 DEF Commit, TxnStates
  <2>2. /\ events' \subseteq Events /\ owner' \in Txns \cup {Free} /\ effect' \subseteq Txns
        /\ counter' \in [exists : BOOLEAN, seq : Nat, hash : Seq(Nat \X Txns)]
    BY <1>0, <1>5 DEF Commit, TypeOK
  <2> QED
    BY <2>1, <2>2 DEF TypeOK, TxnStates
<1>6. CASE UNCHANGED vars
  BY <1>0, <1>6 DEF vars, TypeOK
<1> QED
  BY <1>1, <1>2, <1>3, <1>4, <1>5, <1>6 DEF Next, Proceed

-----------------------------------------------------------------------------
(* The chain. *)

\* The transaction that holds, or takes, the counter row moves on: its copy ends
\* the chain of the committed events and its own.
LEMMA OwnerMoves ==
    ASSUME IInv, NEW t \in Txns, NEW s, txn' = [txn EXCEPT ![t] = s],
           s.pc \in {"open", "creating", "counted"}, s.pc # "open" => s.left > 0,
           ChainTo(events \cup s.mine, s.seq, s.hash),
           owner \in {t, Free}, owner' = t, UNCHANGED <<events, counter>>
    PROVE  CommittedChain' /\ OwnersChain' /\ OthersWait' /\ NoCounterYet'
<1>0. DOMAIN txn = Txns
  BY DEF IInv, TypeOK
<1>1. txn'[t] = s /\ \A u \in Txns : u # t => txn'[u] = txn[u]
  BY <1>0
<1>2. CommittedChain' /\ NoCounterYet'
  BY DEF IInv, CommittedChain, NoCounterYet, ChainTo
<1>3. OwnersChain'
  <2>1. ChainTo(events' \cup txn'[t].mine, txn'[t].seq, txn'[t].hash)
    BY <1>1
  <2> QED
    BY <1>1, <2>1 DEF OwnersChain, ChainTo
<1>4. OthersWait'
  BY <1>1, TxnAssumption DEF IInv, OthersWait
<1> QED
  BY <1>2, <1>3, <1>4

\* A step of a transaction that leaves the committed rows, the lock and
\* everyone's events alone.
LEMMA OwnerUntouched ==
    ASSUME IInv, NEW t \in Txns, NEW s,
           txn' = [txn EXCEPT ![t] = s],
           UNCHANGED <<events, counter, owner>>,
           owner # t,
           s.pc \in Working => s.pc \in {"open", "inserting"} /\ s.mine = {} /\ s.left > 0
    PROVE  CommittedChain' /\ OwnersChain' /\ OthersWait' /\ NoCounterYet'
<1>0. DOMAIN txn = Txns
  BY DEF IInv, TypeOK
<1>1. \A u \in Txns : u # t => txn'[u] = txn[u]
  BY <1>0
<1>2. txn'[t] = s
  BY <1>0
<1>3. CommittedChain' /\ NoCounterYet'
  BY DEF IInv, CommittedChain, NoCounterYet, ChainTo
<1>4. OwnersChain'
  BY <1>1 DEF IInv, OwnersChain, ChainTo
<1>5. OthersWait'
  BY <1>1, <1>2 DEF IInv, OthersWait
<1> QED
  BY <1>3, <1>4, <1>5

\* A transaction is over, or its session of no use, and its lock is free.
LEMMA OwnerGone ==
    ASSUME IInv, NEW t \in Txns, NEW s, txn' = [txn EXCEPT ![t] = s], s.pc \notin Working,
           owner' = (IF owner = t THEN Free ELSE owner), UNCHANGED <<events, counter>>
    PROVE  CommittedChain' /\ OwnersChain' /\ OthersWait' /\ NoCounterYet'
<1>0. DOMAIN txn = Txns
  BY DEF IInv, TypeOK
<1>1. txn'[t] = s /\ \A u \in Txns : u # t => txn'[u] = txn[u]
  BY <1>0
<1>2. CommittedChain' /\ NoCounterYet'
  BY DEF IInv, CommittedChain, NoCounterYet, ChainTo
<1>3. owner' # t /\ (owner' = owner \/ (owner = t /\ owner' = Free))
  BY TxnAssumption
<1>4. OwnersChain'
  BY <1>1, <1>3, TxnAssumption DEF IInv, OwnersChain, ChainTo
<1>5. OthersWait'
  BY <1>1, <1>3 DEF IInv, OthersWait
<1> QED
  BY <1>2, <1>4, <1>5

LEMMA ChainStep ==
    IInv /\ [Next]_vars => CommittedChain' /\ OwnersChain' /\ OthersWait' /\ NoCounterYet'
<1> DEFINE Goal == CommittedChain' /\ OwnersChain' /\ OthersWait' /\ NoCounterYet'
<1> SUFFICES ASSUME IInv, [Next]_vars PROVE Goal
  OBVIOUS
<1>0. txn \in [Txns -> TxnStates] /\ TypeOK
  BY DEF IInv, TypeOK, TxnStates
<1> HIDE DEF Goal
<1>1. ASSUME NEW t \in Txns, Begin(t) PROVE Goal
  <2>1. owner # t
    BY <1>1 DEF Begin, IInv, OwnersChain
  <2>2. PICK s : /\ txn' = [txn EXCEPT ![t] = s]
                 /\ s.pc = "open" /\ s.mine = {} /\ s.left > 0
    <3>1. ASSUME NEW k, NEW n \in Nat \ {0},
                 txn' = [txn EXCEPT ![t] = [Idle EXCEPT !.pc = "open", !.kind = k, !.left = n]]
          PROVE  \E s : /\ txn' = [txn EXCEPT ![t] = s]
                        /\ s.pc = "open" /\ s.mine = {} /\ s.left > 0
      <4> DEFINE s == [Idle EXCEPT !.pc = "open", !.kind = k, !.left = n]
      <4>1. s.pc = "open" /\ s.mine = {} /\ s.left > 0
        BY DEF Idle
      <4>2. txn' = [txn EXCEPT ![t] = s]
        BY <3>1
      <4> HIDE DEF s
      <4> QED
        BY <4>1, <4>2
    <3>2. \E k \in Kinds, n \in Nat \ {0} :
             txn' = [txn EXCEPT ![t] = [Idle EXCEPT !.pc = "open", !.kind = k, !.left = n]]
      <4>1. CASE \E k \in {"hard", "soft"} :
                   txn' = [txn EXCEPT ![t] = [Idle EXCEPT !.pc = "open", !.kind = k, !.left = 1]]
        <5>1. 1 \in Nat \ {0}
          OBVIOUS
        <5> QED
          BY <4>1, <5>1, Zenon DEF Kinds
      <4>2. CASE \E n \in BatchSizes :
                   txn' = [txn EXCEPT ![t] = [Idle EXCEPT !.pc = "open", !.kind = "sync",
                                                          !.left = n]]
        BY <4>2, BatchAssumption, Zenon DEF Kinds
      <4> QED
        BY <1>1, <4>1, <4>2 DEF Begin
    <3> QED
      BY <3>1, <3>2
  <2> QED
    BY <1>1, <2>1, <2>2, OwnerUntouched DEF Begin, Goal
<1>2. ASSUME NEW t \in Txns, RecordAgain(t) PROVE Goal
  <2>1. /\ ChainTo(events \cup txn[t].mine, txn[t].seq, txn[t].hash)
        /\ owner = t /\ owner' = t /\ txn[t].left > 0 /\ UNCHANGED <<events, counter>>
    BY <1>2 DEF RecordAgain, ToRecord, IInv, OwnersChain
  <2>2. PICK s : /\ KeepsEvents(t, s) /\ s.pc = "counted"
                 /\ s.left = txn[t].left /\ s.seq = txn[t].seq /\ s.hash = txn[t].hash
    BY <1>0, <1>2, CountingStates
  <2> QED
    BY <2>1, <2>2, OwnerMoves DEF KeepsEvents, Goal
<1>3. ASSUME NEW t \in Txns, RecordLocked(t) PROVE Goal
  <2>1. /\ owner = Free /\ owner' = t /\ txn[t].left > 0 /\ UNCHANGED <<events, counter>>
        /\ txn[t].mine = {}
    BY <1>3, TxnAssumption DEF RecordLocked, ToRecord, IInv, OthersWait, Working
  <2>2. PICK s : /\ KeepsEvents(t, s) /\ s.pc = "counted"
                 /\ s.left = txn[t].left /\ s.seq = counter.seq /\ s.hash = counter.hash
    BY <1>0, <1>3, CountingStates
  <2>3. ChainTo(events \cup s.mine, s.seq, s.hash)
    BY <2>1, <2>2 DEF KeepsEvents, IInv, CommittedChain
  <2> QED
    BY <2>1, <2>2, <2>3, OwnerMoves DEF KeepsEvents, Goal
<1>4. ASSUME NEW t \in Txns, CounterMissing(t) PROVE Goal
  <2>1. owner # t /\ txn[t].left > 0 /\ txn[t].mine = {} /\ UNCHANGED <<events, counter, owner>>
    BY <1>4 DEF CounterMissing, ToRecord, IInv, OthersWait, Working
  <2>2. PICK s : KeepsEvents(t, s) /\ s.pc = "inserting" /\ s.left = txn[t].left
    BY <1>0, <1>4, CountingStates
  <2> QED
    BY <2>1, <2>2, OwnerUntouched DEF KeepsEvents, Goal
<1>5. ASSUME NEW t \in Txns, CreateCounter(t) PROVE Goal
  <2>1. /\ owner = Free /\ owner' = t /\ txn[t].left > 0 /\ UNCHANGED <<events, counter>>
        /\ txn[t].mine = {}
    BY <1>5, TxnAssumption DEF CreateCounter, IInv, OthersWait, Working
  <2>2. PICK s : /\ KeepsEvents(t, s) /\ s.pc = "creating"
                 /\ s.left = txn[t].left /\ s.seq = 0 /\ s.hash = Genesis
    BY <1>0, <1>5, CountingStates
  <2>3. counter.seq = 0 /\ counter.hash = Genesis
    BY <1>5 DEF CreateCounter, IInv, NoCounterYet, CommittedChain, ChainTo
  <2>4. ChainTo(events \cup s.mine, s.seq, s.hash)
    BY <2>1, <2>2, <2>3 DEF KeepsEvents, IInv, CommittedChain
  <2> QED
    BY <2>1, <2>2, <2>4, OwnerMoves DEF KeepsEvents, Goal
<1>6. ASSUME NEW t \in Txns, CounterCreated(t) PROVE Goal
  <2>1. /\ owner = t /\ owner' = t /\ txn[t].left > 0 /\ UNCHANGED <<events, counter>>
        /\ ChainTo(events \cup txn[t].mine, txn[t].seq, txn[t].hash)
    BY <1>6 DEF CounterCreated, IInv, OwnersChain, OthersWait, Working
  <2>2. PICK s : /\ KeepsEvents(t, s) /\ s.pc = "counted"
                 /\ s.left = txn[t].left /\ s.seq = txn[t].seq /\ s.hash = txn[t].hash
    BY <1>0, <1>6, CountingStates
  <2> QED
    BY <2>1, <2>2, OwnerMoves DEF KeepsEvents, Goal
<1>7. ASSUME NEW t \in Txns, RejectEvent(t) PROVE Goal
  <2>1. /\ owner = t /\ owner' = t /\ UNCHANGED <<events, counter>>
        /\ ChainTo(events \cup txn[t].mine, txn[t].seq, txn[t].hash)
    BY <1>7 DEF RejectEvent, IInv, OwnersChain, OthersWait, Working
  <2>2. PICK s : /\ KeepsEvents(t, s) /\ s.pc = "open"
                 /\ s.seq = txn[t].seq /\ s.hash = txn[t].hash
    BY <1>0, <1>7, RefusingStates
  <2> QED
    BY <2>1, <2>2, OwnerMoves DEF KeepsEvents, Goal
<1>8. ASSUME NEW t \in Txns, Flush(t) PROVE Goal
  <2> DEFINE new == NewEvent(t, txn[t].seq, txn[t].hash)
  <2>1. /\ owner = t /\ owner' = t /\ UNCHANGED <<events, counter>>
        /\ ChainTo(events \cup txn[t].mine, txn[t].seq, txn[t].hash)
    BY <1>8, FlushedState DEF Flush
  <2>2. ChainTo((events \cup txn[t].mine) \cup {new}, txn[t].seq + 1, new.hash)
    <3>1. txn[t].seq \in Nat
      BY <1>0 DEF TxnStates
    <3> QED
      BY <2>1, <3>1, ChainGrows
  <2>3. PICK s : /\ txn' = [txn EXCEPT ![t] = s] /\ s.pc = "open"
                 /\ s.mine = txn[t].mine \cup {new}
                 /\ s.seq = txn[t].seq + 1 /\ s.hash = new.hash
    BY <1>8, FlushedState
  <2> HIDE DEF new
  <2>4. (events \cup txn[t].mine) \cup {new} = events \cup s.mine
    BY <2>3
  <2>5. ChainTo(events \cup s.mine, s.seq, s.hash)
    BY <2>2, <2>3, <2>4
  <2> QED
    BY <2>1, <2>3, <2>5, OwnerMoves DEF Goal
<1>9. ASSUME NEW t \in Txns, RejectRest(t) PROVE Goal
  <2>1. owner # t /\ UNCHANGED <<events, counter, owner>>
    BY <1>9 DEF RejectRest, IInv, OwnersChain
  <2>2. PICK s : KeepsEvents(t, s) /\ s.pc = "poisoned"
    BY <1>9, RefusingStates
  <2> QED
    BY <2>1, <2>2, OwnerUntouched DEF KeepsEvents, Goal, Working
<1>10. ASSUME NEW t \in Txns, CommitFails(t) PROVE Goal
  <2>1. owner # t /\ UNCHANGED <<events, counter, owner>>
    BY <1>10 DEF CommitFails, IInv, OwnersChain
  <2>2. PICK s : DropsEvents(t, s)
    BY <1>10, RefusingStates
  <2> QED
    BY <2>1, <2>2, OwnerUntouched DEF DropsEvents, Goal, Working
<1>11. ASSUME NEW t \in Txns, RecordFails(t) \/ CreateConflict(t) \/ Abort(t) PROVE Goal
  <2>1. owner' = (IF owner = t THEN Free ELSE owner) /\ UNCHANGED <<events, counter>>
    BY <1>11 DEF RecordFails, CreateConflict, StatementFails, Abort
  <2>2. PICK s : DropsEvents(t, s)
    BY <1>11, RefusingStates
  <2>3. s.pc \notin Working
    BY <2>2 DEF DropsEvents, Working
  <2> QED
    BY <2>1, <2>2, <2>3, OwnerGone DEF DropsEvents, Goal
<1>12. ASSUME NEW t \in Txns, Commit(t) PROVE Goal
  <2>1. owner = t
    BY <1>12 DEF Commit, IInv, OthersWait, Working
  <2>2. ChainTo(events \cup txn[t].mine, txn[t].seq, txn[t].hash)
    BY <2>1 DEF IInv, OwnersChain
  <2>3. CommittedChain' /\ NoCounterYet'
    BY <1>12, <2>2 DEF Commit, CommittedChain, NoCounterYet, ChainTo
  <2>4. OwnersChain'
    BY <1>12, TxnAssumption DEF Commit, OwnersChain
  <2>5. OthersWait'
    <3> SUFFICES ASSUME NEW u \in Txns, txn'[u].pc \in Working
                 PROVE  /\ txn'[u].pc \in {"open", "inserting"}
                        /\ txn'[u].mine = {} /\ txn'[u].left > 0
      BY DEF OthersWait
    <3>1. u # t /\ txn'[u] = txn[u]
      BY <1>0, <1>12 DEF Commit, TxnStates, Working
    <3> QED
      BY <2>1, <3>1 DEF IInv, OthersWait
  <2> QED
    BY <2>3, <2>4, <2>5 DEF Goal
<1>13. CASE UNCHANGED vars
  BY <1>13 DEF vars, Goal, IInv, CommittedChain, OwnersChain, OthersWait, NoCounterYet, ChainTo
<1> QED
  BY <1>1, <1>2, <1>3, <1>4, <1>5, <1>6, <1>7, <1>8, <1>9, <1>10, <1>11, <1>12, <1>13
     DEF Next, Proceed

-----------------------------------------------------------------------------
(* The theorems. *)

LEMMA Inductive == IInv /\ [Next]_vars => IInv'
BY TypeStep, ChainStep DEF IInv

LEMMA Invariant == Spec => []IInv
BY Initial, Inductive, PTL DEF Spec

\* Every variable keeps its type.
THEOREM TypeCorrect == Spec => []TypeOK
<1>1. IInv => TypeOK
  BY DEF IInv
<1> QED
  BY Invariant, <1>1, PTL

\* What the transactions in progress have flushed is the owner's.
LEMMA ChainFromInvariant == IInv => ChainIntact
<1> SUFFICES ASSUME IInv PROVE ChainIntact
  OBVIOUS
<1> DEFINE Open == {u \in Txns : txn[u].pc \in Working}
           Flushed == UNION {txn[t].mine : t \in Open}
<1>0. counter.seq \in Nat
  BY DEF IInv, TypeOK
<1>1. VerifyChain
  BY <1>0, ChainVerifies DEF IInv
<1>2. {e.seq : e \in events} = 1..counter.seq
  BY DEF IInv, CommittedChain, ChainTo
<1>3. \A e \in events : e.seq = counter.seq => e.hash = counter.hash
  BY DEF IInv, CommittedChain, ChainTo
<1>4. \A e, f \in events \cup Flushed : e.seq = f.seq => e = f
  <2>1. \A t \in Open : owner # t => txn[t].mine = {}
    BY DEF IInv, OthersWait
  <2>2. CASE \E t \in Txns : owner = t
    <3>1. PICK t \in Txns : owner = t
      BY <2>2
    <3>2. Flushed \subseteq txn[t].mine
      BY <2>1, <3>1
    <3>3. \A e, f \in events \cup txn[t].mine : e.seq = f.seq => e = f
      BY <3>1 DEF IInv, OwnersChain, ChainTo
    <3> QED
      BY <3>2, <3>3
  <2>3. CASE ~ \E t \in Txns : owner = t
    <3>1. Flushed = {}
      BY <2>1, <2>3
    <3> QED
      BY <3>1 DEF IInv, CommittedChain, ChainTo
  <2> QED
    BY <2>2, <2>3
<1> QED
  BY <1>1, <1>2, <1>3, <1>4 DEF ChainIntact

\* verify_chain accepts the committed events at every moment, they are numbered
\* without a hole, and no event in flight has the number of another one.
THEOREM ChainIntactCorrect == Spec => []ChainIntact
BY Invariant, ChainFromInvariant, PTL

-----------------------------------------------------------------------------
(* The routes. *)

Bundle == [version : Nat, active : BOOLEAN, by : Txns]

Ats == {"idle", "read", "latest", "write", "written"}

Jobs == [op : Ops, at : Ats, seen : Statuses, version : Nat, old : SUBSET Bundle]

\* A publisher that has locked the organization and not ended.
Publishing(t) ==
    /\ job[t].op = "publish"
    /\ job[t].at \in {"latest", "write", "written"}
    /\ txn[t].pc \in Working

Newest == {b \in Active : \A c \in Active : c.version <= b.version}

\* It holds the row, and what it has read is true.
HoldsAndKnows(t) ==
    Publishing(t) =>
        /\ orglock = t
        /\ job[t].at \in {"write", "written"} =>
              job[t].old = Newest /\ job[t].version = NextVersion(Newest)

\* The bundles are those of the versions 1..n, and the n-th is active.
Published(n) ==
    /\ {b.version : b \in bundles} = 1..n
    /\ \A b, c \in bundles : b.version = c.version => b = c
    /\ \A b \in bundles : b.active <=> b.version = n

RoutesIInv ==
    /\ IInv
    /\ RoutesTypeOK
    /\ \A t \in Txns : HoldsAndKnows(t)
    /\ \E n \in Nat : Published(n)

-----------------------------------------------------------------------------
(* The log. *)

LEMMA RoutesStep == [RoutesNext]_allVars => [Next]_vars
<1> SUFFICES ASSUME RoutesNext PROVE [Next]_vars
  BY DEF allVars
<1>1. PICK t \in Txns : Request(t) \/ Serve(t) \/ Mishap(t)
  BY DEF RoutesNext
<1>2. CASE Request(t)
  BY <1>2 DEF Request, Next
<1>3. CASE Mishap(t)
  BY <1>3 DEF Mishap, Refuse, RefuseEvent, Lose, Next
<1>4. CASE Serve(t)
  <2>1. CASE LockOrganization(t)
    BY <2>1 DEF LockOrganization
  <2>2. CASE ReadLatest(t)
    BY <2>2 DEF ReadLatest
  <2>3. CASE InsertBundle(t)
    BY <2>3 DEF InsertBundle, Refuse, Next
  <2>4. CASE LoadDevice(t)
    BY <2>4 DEF LoadDevice, Refuse, Next
  <2>5. CASE UpdateDevice(t)
    BY <2>5 DEF UpdateDevice
  <2>6. CASE Audit(t)
    BY <2>6 DEF Audit, Next, Proceed
  <2>7. CASE CommitAll(t)
    BY <2>7 DEF CommitAll, Next, Proceed
  <2>8. CASE Lose(t, CreateConflict(t)) \/ BreakDeadlock(t)
    BY <2>8 DEF Lose, BreakDeadlock, Next, Proceed
  <2> QED
    BY <1>4, <2>1, <2>2, <2>3, <2>4, <2>5, <2>6, <2>7, <2>8 DEF Serve
<1> QED
  BY <1>1, <1>2, <1>3, <1>4

\* The routes together implement the audit log: whatever they do to their own
\* rows, to the log they are transactions of AuditChain.
THEOREM RoutesImplementLog == RoutesSpec => Spec
<1>1. RoutesInit => Init
  BY DEF RoutesInit
<1> QED
  BY <1>1, RoutesStep, PTL DEF RoutesSpec, Spec

\* verify_chain accepts the log of the routes at every moment.
THEOREM RoutesChainIntact == RoutesSpec => []ChainIntact
BY RoutesImplementLog, ChainIntactCorrect, PTL

-----------------------------------------------------------------------------
(* The bundles. *)

\* With the versions 1..n in use, the next one is n + 1.
LEMMA NextIsNew ==
    ASSUME NEW n \in Nat, Published(n), RoutesTypeOK
    PROVE  /\ Newest = {b \in bundles : b.version = n}
           /\ NextVersion(Newest) = n + 1
<1>1. \A b \in bundles : b.version \in Nat /\ b.version \in 1..n
  BY DEF RoutesTypeOK, Published
<1>2. Active = {b \in bundles : b.version = n}
  BY DEF Active, Published
<1>3. Newest = {b \in bundles : b.version = n}
  BY <1>1, <1>2 DEF Newest
<1>4. CASE n = 0
  <2>1. Newest = {}
    BY <1>1, <1>3, <1>4
  <2> QED
    BY <1>3, <1>4, <2>1 DEF NextVersion
<1>5. CASE n # 0
  <2>1. n \in {b.version : b \in bundles}
    BY <1>5 DEF Published
  <2>2. Newest # {}
    BY <1>3, <2>1
  <2>3. (CHOOSE b \in Newest : TRUE) \in Newest
    BY <2>2
  <2> QED
    BY <1>3, <2>2, <2>3 DEF NextVersion
<1> QED
  BY <1>4, <1>5

\* The commit of a publisher adds that version.
LEMMA PublishAdds ==
    ASSUME NEW n \in Nat, Published(n), RoutesTypeOK, NEW t \in Txns,
           job[t].op = "publish", job[t].old = Newest, job[t].version = n + 1,
           bundles' = BundleRows(t)
    PROVE  Published(n + 1)'
<1> DEFINE new == [version |-> n + 1, active |-> TRUE, by |-> t]
           off(b) == [b EXCEPT !.active = FALSE]
<1>1. \A b \in bundles : /\ b \in Bundle /\ b.version \in 1..n
                         /\ b.active <=> b.version = n
  BY DEF RoutesTypeOK, Published, Bundle
<1>2. \A b \in bundles : b.version \in {o.version : o \in job[t].old} <=> b.version = n
  BY NextIsNew
<1>3. \A b \in bundles : ~(b.active /\ b.version \notin {o.version : o \in job[t].old})
  BY <1>1, <1>2
<1>4. bundles' = {off(b) : b \in bundles} \cup {new}
  <2>1. \A b \in bundles :
          [b EXCEPT !.active = @ /\ b.version \notin {o.version : o \in job[t].old}] = off(b)
    BY <1>1, <1>3 DEF Bundle
  <2> QED
    BY <2>1 DEF BundleRows
<1>5. \A b \in bundles : off(b).version = b.version /\ off(b).active = FALSE
  BY <1>1 DEF Bundle
<1>6. new.version = n + 1 /\ new.active = TRUE
  OBVIOUS
<1> HIDE DEF new, off
<1>7. {b.version : b \in bundles'} = 1..(n + 1)
  <2>1. {b.version : b \in bundles'} = {off(b).version : b \in bundles} \cup {n + 1}
    BY <1>4, <1>6
  <2>2. {off(b).version : b \in bundles} = 1..n
    BY <1>5 DEF Published
  <2> QED
    BY <2>1, <2>2
<1>8. \A b, c \in bundles' : b.version = c.version => b = c
  <2>1. \A b \in bundles : off(b).version # n + 1
    BY <1>1, <1>5
  <2>2. \A b, c \in bundles : off(b).version = off(c).version => off(b) = off(c)
    BY <1>5 DEF Published
  <2> QED
    BY <1>4, <1>6, <2>1, <2>2
<1>9. \A b \in bundles' : b.active <=> b.version = n + 1
  BY <1>1, <1>4, <1>5, <1>6
<1> QED
  BY <1>7, <1>8, <1>9 DEF Published

-----------------------------------------------------------------------------
(* What the steps do to the transactions. *)

\* A statement of record() fails, for whatever reason.
Failure(t) == Lose(t, CreateConflict(t) \/ RecordFails(t))

LEMMA StepsOf ==
    RoutesNext => \E t \in Txns :
        \/ Request(t) \/ LockOrganization(t) \/ ReadLatest(t) \/ InsertBundle(t)
        \/ LoadDevice(t) \/ UpdateDevice(t) \/ Audit(t) \/ RefuseEvent(t) \/ Failure(t)
        \/ CommitAll(t) \/ Refuse(t)
BY DEF RoutesNext, Serve, Mishap, BreakDeadlock, Failure, Lose

\* A transaction that fails or is refused is over, and so is its hold.
LEMMA RefuseEnds ==
    ASSUME IInv, NEW t \in Txns, Refuse(t) \/ Failure(t)
    PROVE  /\ \A u \in Txns : u # t => txn'[u] = txn[u] /\ job'[u] = job[u]
           /\ txn'[t].pc \in {"poisoned", "aborted"}
           /\ txn[t].pc \in Running
           /\ Unlock(t) /\ UNCHANGED <<device, bundles>>
           /\ txn'[t].pc = "poisoned" => txn'[t].kind = txn[t].kind /\ job' = job
           /\ job'[t] = job[t] \/ job'[t] = NoJob
<1>0. txn \in [Txns -> TxnStates]
  BY DEF IInv, TypeOK, TxnStates
<1>1. CASE Refuse(t)
  <2>1. txn' = [txn EXCEPT ![t] = Gone] /\ Gone.pc = "aborted" /\ txn[t].pc \in Running
    BY <1>1 DEF Refuse, Abort, Gone, Idle
  <2>2. \A u \in Txns : u # t => job'[u] = job[u]
    BY <1>1 DEF Refuse
  <2>3. job'[t] = job[t] \/ job'[t] = NoJob
    BY <1>1 DEF Refuse
  <2> HIDE DEF Gone
  <2> QED
    BY <1>0, <1>1, <2>1, <2>2, <2>3 DEF Refuse
<1>2. CASE Failure(t)
  <2>1. PICK s : DropsEvents(t, s)
    BY <1>2, RefusingStates DEF Failure, Lose
  <2>2. txn[t].pc \in Running
    BY <1>2 DEF Failure, Lose, CreateConflict, RecordFails, ToRecord, Running, Working
  <2>3. Unlock(t) /\ UNCHANGED <<device, bundles, job>>
    BY <1>2 DEF Failure, Lose
  <2> QED
    BY <1>0, <2>1, <2>2, <2>3 DEF DropsEvents
<1> QED
  BY <1>1, <1>2

\* A step of the log that leaves the transaction in progress found it so.
LEMMA AuditKeeps ==
    ASSUME IInv, NEW t \in Txns, Audit(t) \/ RefuseEvent(t)
    PROVE  /\ \A u \in Txns : u # t => txn'[u] = txn[u]
           /\ UNCHANGED routeVars
           /\ txn'[t].pc \in Working => txn[t].pc \in Working
           /\ txn[t].pc \in Running
           /\ txn'[t].kind = txn[t].kind \/ txn'[t].pc = "aborted"
<1>0. TypeOK /\ txn \in [Txns -> TxnStates]
  BY DEF IInv, TypeOK, TxnStates
<1>1. UNCHANGED routeVars
  BY DEF Audit, RefuseEvent
<1>2. CASE \/ RecordAgain(t) \/ RecordLocked(t) \/ CounterMissing(t) \/ CreateCounter(t)
           \/ CounterCreated(t) \/ RejectEvent(t)
  <2>1. PICK s : KeepsEvents(t, s)
    BY <1>0, <1>2, CountingStates, RefusingStates
  <2>2. txn[t].pc \in Working
    BY <1>2 DEF RecordAgain, RecordLocked, CounterMissing, CreateCounter, CounterCreated,
       RejectEvent, ToRecord, Working
  <2> QED
    BY <1>0, <1>1, <2>1, <2>2 DEF KeepsEvents, Running
<1>3. CASE Flush(t)
  <2>1. PICK s : txn' = [txn EXCEPT ![t] = s] /\ s.kind = txn[t].kind
    BY <1>3, FlushedState
  <2>2. txn[t].pc \in Working
    BY <1>3 DEF Flush, Working
  <2> QED
    BY <1>0, <1>1, <2>1, <2>2 DEF Running
<1>4. CASE RejectRest(t)
  <2>1. PICK s : KeepsEvents(t, s) /\ s.pc = "poisoned"
    BY <1>4, RefusingStates
  <2> QED
    BY <1>0, <1>1, <1>4, <2>1 DEF KeepsEvents, RejectRest, Running, Working
<1>5. CASE CommitFails(t)
  <2>1. txn'[t] = Gone /\ \A u \in Txns : u # t => txn'[u] = txn[u]
    BY <1>0, <1>5 DEF CommitFails
  <2>2. Gone.pc = "aborted"
    BY DEF Gone, Idle
  <2> HIDE DEF Gone
  <2> QED
    BY <1>1, <1>5, <2>1, <2>2 DEF CommitFails, Running, Working
<1> QED
  BY <1>2, <1>3, <1>4, <1>5 DEF Audit, RefuseEvent

-----------------------------------------------------------------------------
(* Types. *)

LEMMA RoutesTypeStep == RoutesIInv /\ [RoutesNext]_allVars => RoutesTypeOK'
<1> SUFFICES ASSUME RoutesIInv, [RoutesNext]_allVars PROVE RoutesTypeOK'
  OBVIOUS
<1>0. /\ RoutesTypeOK /\ IInv
      /\ job \in [Txns -> Jobs]
      /\ bundles \subseteq Bundle
  BY DEF RoutesIInv, RoutesTypeOK, Jobs, Ats, Bundle
<1>a. TypeOK'
  BY <1>0, RoutesStep, TypeStep
<1>b. ASSUME NEW t \in Txns, Unlock(t)
      PROVE  devicelock' \in Txns \cup {Free} /\ orglock' \in Txns \cup {Free}
  BY <1>0, <1>b DEF Unlock, RoutesTypeOK
<1>c. ASSUME NEW t \in Txns, Refuse(t) \/ Failure(t) PROVE RoutesTypeOK'
  <2>1. NoJob \in Jobs
    BY DEF NoJob, Jobs, Ats, Ops, Statuses
  <2>2. job' \in [Txns -> Jobs]
    BY <1>0, <1>c, <2>1 DEF Refuse, Failure, Lose
  <2> QED
    BY <1>0, <1>a, <1>b, <1>c, <2>2, RefuseEnds DEF RoutesTypeOK, Jobs, Ats, Bundle
<1>d. ASSUME NEW t \in Txns, NEW at \in Ats, Goto(t, at) PROVE job' \in [Txns -> Jobs]
  BY <1>0, <1>d DEF Goto, Jobs
<1>1. ASSUME NEW t \in Txns, Request(t) PROVE RoutesTypeOK'
  <2>1. PICK op \in Ops : job' = [job EXCEPT ![t] = [NoJob EXCEPT !.op = op, !.at = "read"]]
    BY <1>1 DEF Request
  <2>2. NoJob \in Jobs
    BY DEF NoJob, Jobs, Ats, Ops, Statuses
  <2>3. [NoJob EXCEPT !.op = op, !.at = "read"] \in Jobs
    BY <2>2 DEF Jobs, Ats
  <2>4. job' \in [Txns -> Jobs]
    BY <1>0, <2>1, <2>3
  <2> QED
    BY <1>0, <1>1, <1>a, <2>4 DEF Request, RoutesTypeOK, Jobs, Ats, Bundle
<1>2. ASSUME NEW t \in Txns, LockOrganization(t) PROVE RoutesTypeOK'
  <2>1. job' \in [Txns -> Jobs]
    BY <1>2, <1>d DEF LockOrganization, Ats
  <2> QED
    BY <1>0, <1>2, <1>a, <2>1 DEF LockOrganization, RoutesTypeOK, Jobs, Ats, Bundle
<1>3. ASSUME NEW t \in Txns, ReadLatest(t) PROVE RoutesTypeOK'
  <2>1. PICK n \in Nat : Published(n)
    BY DEF RoutesIInv
  <2>2. Newest \in SUBSET Bundle /\ NextVersion(Newest) \in Nat
    <3>1. NextVersion(Newest) = n + 1
      BY <1>0, <2>1, NextIsNew
    <3> QED
      BY <1>0, <3>1 DEF Newest, Active
  <2>3. job' = [job EXCEPT ![t] = [@ EXCEPT !.at = "write",
                                            !.version = NextVersion(Newest),
                                            !.old = Newest]]
    BY <1>3 DEF ReadLatest, Newest
  <2>4. job' \in [Txns -> Jobs]
    <3> HIDE DEF Newest
    <3> QED
      BY <1>0, <2>2, <2>3 DEF Jobs, Ats
  <2> QED
    BY <1>0, <1>3, <1>a, <2>4 DEF ReadLatest, RoutesTypeOK, Jobs, Ats, Bundle
<1>4. ASSUME NEW t \in Txns, InsertBundle(t) PROVE RoutesTypeOK'
  <2>1. CASE Refuse(t)
    BY <1>c, <2>1
  <2>2. CASE Goto(t, "written") /\ UNCHANGED <<vars, device, devicelock, bundles, orglock>>
    <3>1. job' \in [Txns -> Jobs]
      BY <2>2, <1>d DEF Ats
    <3> QED
      BY <1>0, <2>2, <1>a, <3>1 DEF RoutesTypeOK, Jobs, Ats, Bundle
  <2> QED
    BY <1>4, <2>1, <2>2 DEF InsertBundle
<1>5. ASSUME NEW t \in Txns, LoadDevice(t) PROVE RoutesTypeOK'
  <2>1. CASE Refuse(t)
    BY <1>c, <2>1
  <2>2. CASE /\ job' = [job EXCEPT ![t] = [@ EXCEPT !.seen = device.status,
                                                    !.at = IF job[t].op = "sync" THEN "written" ELSE "write"]]
             /\ UNCHANGED <<vars, device, devicelock, bundles, orglock>>
    <3>1. device.status \in Statuses
      BY <1>0 DEF RoutesTypeOK
    <3>2. job' \in [Txns -> Jobs]
      BY <1>0, <2>2, <3>1 DEF Jobs, Ats
    <3> QED
      BY <1>0, <2>2, <1>a, <3>2 DEF RoutesTypeOK, Jobs, Ats, Bundle
  <2> QED
    BY <1>5, <2>1, <2>2 DEF LoadDevice
<1>6. ASSUME NEW t \in Txns, UpdateDevice(t) PROVE RoutesTypeOK'
  <2>1. job' \in [Txns -> Jobs]
    BY <1>6, <1>d DEF UpdateDevice, Ats
  <2> QED
    BY <1>0, <1>6, <1>a, <2>1 DEF UpdateDevice, RoutesTypeOK, Jobs, Ats, Bundle
<1>7. ASSUME NEW t \in Txns, Audit(t) \/ RefuseEvent(t) PROVE RoutesTypeOK'
  BY <1>0, <1>7, <1>a, AuditKeeps DEF RoutesTypeOK, routeVars
<1>8. ASSUME NEW t \in Txns, CommitAll(t) PROVE RoutesTypeOK'
  <2>0. job[t] \in Jobs
    BY <1>0
  <2>1. device' \in [status : Statuses, token : Txns \cup {Free}, by : Txns \cup {Free}]
    <3>1. CASE job[t].op = "rotate"
      BY <1>0, <1>8, <3>1 DEF CommitAll, DeviceRow, RoutesTypeOK
    <3>2. CASE job[t].op \in {"revoke", "lose"}
      <4>1. StatusOf(job[t].op) \in Statuses
        BY <3>2 DEF StatusOf, Statuses
      <4>2. PICK s \in Statuses : device' = [device EXCEPT !.by = t, !.status = s]
        <5>1. CASE StatusOf(job[t].op) = job[t].seen
          BY <1>0, <1>8, <3>2, <5>1 DEF CommitAll, DeviceRow, RoutesTypeOK
        <5>2. CASE StatusOf(job[t].op) # job[t].seen
          BY <1>0, <1>8, <3>2, <4>1, <5>2 DEF CommitAll, DeviceRow, RoutesTypeOK
        <5> QED
          BY <5>1, <5>2
      <4> QED
        BY <1>0, <4>2 DEF RoutesTypeOK
    <3>3. CASE job[t].op \notin {"rotate", "revoke", "lose"}
      BY <1>0, <1>8, <3>3 DEF CommitAll, DeviceRow, RoutesTypeOK
    <3> QED
      BY <3>1, <3>2, <3>3
  <2>2. bundles' \subseteq Bundle
    <3>1. ASSUME NEW b \in bundles
          PROVE  [b EXCEPT !.active = @ /\ b.version \notin {o.version : o \in job[t].old}] \in Bundle
      BY <1>0, <3>1 DEF Bundle
    <3>2. [version |-> job[t].version, active |-> TRUE, by |-> t] \in Bundle
      BY <2>0 DEF Bundle, Jobs
    <3> QED
      BY <1>0, <1>8, <3>1, <3>2 DEF CommitAll, BundleRows
  <2> QED
    BY <1>0, <1>8, <1>a, <1>b, <2>1, <2>2 DEF CommitAll, RoutesTypeOK, Bundle
<1>9. CASE UNCHANGED allVars
  BY <1>0, <1>9, <1>a DEF allVars, routeVars, RoutesTypeOK
<1> QED
  BY <1>1, <1>2, <1>3, <1>4, <1>5, <1>6, <1>7, <1>8, <1>9, <1>c, StepsOf

-----------------------------------------------------------------------------
(* The publishers. *)

\* A step of t leaves the other publishers their row and what they know.
LEMMA OthersKnow ==
    ASSUME RoutesIInv, NEW t \in Txns,
           \A u \in Txns : u # t => txn'[u] = txn[u] /\ job'[u] = job[u],
           bundles' = bundles,
           orglock' = orglock \/ orglock \in {t, Free},
           HoldsAndKnows(t)'
    PROVE  \A u \in Txns : HoldsAndKnows(u)'
<1>1. Newest' = Newest
  BY DEF Newest, Active
<1> SUFFICES ASSUME NEW u \in Txns, u # t, Publishing(u) PROVE HoldsAndKnows(u)'
  BY DEF HoldsAndKnows, Publishing
<1>2. u # Free
  BY TxnAssumption
<1>3. orglock = u
  BY DEF RoutesIInv, HoldsAndKnows
<1>4. orglock' = u
  BY <1>2, <1>3
<1>5. NextVersion(Newest)' = NextVersion(Newest)
  BY <1>1 DEF NextVersion
<1> QED
  BY <1>1, <1>4, <1>5 DEF RoutesIInv, HoldsAndKnows

LEMMA HoldsStep ==
    RoutesIInv /\ [RoutesNext]_allVars => \A t \in Txns : HoldsAndKnows(t)'
<1> DEFINE Goal == \A t \in Txns : HoldsAndKnows(t)'
<1> SUFFICES ASSUME RoutesIInv, [RoutesNext]_allVars PROVE Goal
  OBVIOUS
<1>0. /\ RoutesTypeOK /\ IInv
      /\ job \in [Txns -> Jobs] /\ txn \in [Txns -> TxnStates]
      /\ \A t \in Txns : HoldsAndKnows(t)
  BY DEF RoutesIInv, IInv, TypeOK, RoutesTypeOK, Jobs, Ats, Bundle, TxnStates
<1> HIDE DEF Goal
<1>a. ASSUME NEW t \in Txns, NEW at \in Ats, Goto(t, at)
      PROVE  /\ \A u \in Txns : u # t => job'[u] = job[u]
             /\ job'[t] = [job[t] EXCEPT !.at = at]
             /\ job'[t].op = job[t].op /\ job'[t].at = at
             /\ job'[t].old = job[t].old /\ job'[t].version = job[t].version
  BY <1>0, <1>a DEF Goto, Jobs
<1>b. ASSUME NEW t \in Txns, Unlock(t) PROVE orglock' = orglock \/ orglock \in {t, Free}
  BY <1>b DEF Unlock
<1>c. ASSUME NEW t \in Txns, Refuse(t) \/ Failure(t) PROVE Goal
  <2>1. ~Publishing(t)'
    BY <1>0, <1>c, RefuseEnds DEF Publishing, Working
  <2>2. orglock' = orglock \/ orglock \in {t, Free}
    BY <1>0, <1>b, <1>c, RefuseEnds
  <2>3. \A u \in Txns : u # t => txn'[u] = txn[u] /\ job'[u] = job[u]
    BY <1>0, <1>c, RefuseEnds
  <2>4. bundles' = bundles
    BY <1>0, <1>c, RefuseEnds
  <2> QED
    BY <2>1, <2>2, <2>3, <2>4, OthersKnow DEF HoldsAndKnows, Goal
<1>1. ASSUME NEW t \in Txns, Request(t) PROVE Goal
  <2>1. PICK op \in Ops : job' = [job EXCEPT ![t] = [NoJob EXCEPT !.op = op, !.at = "read"]]
    BY <1>1 DEF Request
  <2>2. ~Publishing(t)'
    BY <1>0, <2>1 DEF Publishing, NoJob
  <2>3. \A u \in Txns : u # t => txn'[u] = txn[u] /\ job'[u] = job[u]
    BY <1>0, <1>1, <2>1 DEF Request, Begin
  <2> QED
    BY <1>1, <2>2, <2>3, OthersKnow DEF Request, HoldsAndKnows, Goal
<1>2. ASSUME NEW t \in Txns, LockOrganization(t) PROVE Goal
  <2>1. HoldsAndKnows(t)'
    BY <1>2, <1>a DEF LockOrganization, HoldsAndKnows, Ats
  <2>2. \A u \in Txns : u # t => txn'[u] = txn[u] /\ job'[u] = job[u]
    BY <1>2, <1>a DEF LockOrganization, Ats, vars
  <2> QED
    BY <1>2, <2>1, <2>2, OthersKnow DEF LockOrganization, Goal
<1>3. ASSUME NEW t \in Txns, ReadLatest(t) PROVE Goal
  <2>1. job' = [job EXCEPT ![t] = [@ EXCEPT !.at = "write",
                                            !.version = NextVersion(Newest),
                                            !.old = Newest]]
    BY <1>3 DEF ReadLatest, Newest
  <2>2. /\ \A u \in Txns : u # t => txn'[u] = txn[u] /\ job'[u] = job[u]
        /\ txn'[t] = txn[t]
    BY <1>0, <1>3, <2>1 DEF ReadLatest, vars
  <2>3. job'[t].op = job[t].op /\ job'[t].old = Newest /\ job'[t].version = NextVersion(Newest)
    BY <1>0, <2>1 DEF Jobs
  <2>4. Newest' = Newest /\ NextVersion(Newest)' = NextVersion(Newest)
    <3>1. Newest' = Newest
      BY <1>3 DEF ReadLatest, Newest, Active
    <3> QED
      BY <3>1 DEF NextVersion
  <2>5. HoldsAndKnows(t)'
    <3>1. Publishing(t)' => Publishing(t)
      BY <1>3, <2>2, <2>3 DEF ReadLatest, At, Publishing, Working
    <3> QED
      BY <1>0, <1>3, <2>3, <2>4, <3>1 DEF ReadLatest, HoldsAndKnows
  <2> QED
    BY <1>3, <2>2, <2>5, OthersKnow DEF ReadLatest, Goal
<1>4. ASSUME NEW t \in Txns, InsertBundle(t), Goto(t, "written"),
             UNCHANGED <<vars, device, devicelock, bundles, orglock>> PROVE Goal
  <2>1. Publishing(t) /\ job[t].at = "write"
    BY <1>4 DEF InsertBundle, At, Publishing, Working
  <2>2. Newest' = Newest /\ NextVersion(Newest)' = NextVersion(Newest)
    BY <1>4 DEF Newest, Active, NextVersion
  <2>3. HoldsAndKnows(t)'
    BY <1>0, <1>4, <1>a, <2>1, <2>2 DEF HoldsAndKnows, Ats
  <2>4. \A u \in Txns : u # t => txn'[u] = txn[u] /\ job'[u] = job[u]
    BY <1>4, <1>a DEF Ats, vars
  <2> QED
    BY <1>4, <2>3, <2>4, OthersKnow DEF Goal
<1>5. ASSUME NEW t \in Txns, LoadDevice(t), ~Refuse(t) PROVE Goal
  <2>1. job' = [job EXCEPT ![t] = [@ EXCEPT !.seen = device.status,
                                            !.at = IF job[t].op = "sync" THEN "written" ELSE "write"]]
    BY <1>5 DEF LoadDevice
  <2>2. UNCHANGED <<vars, bundles, orglock>>
    BY <1>5 DEF LoadDevice
  <2>3. job'[t].op = job[t].op /\ job[t].op # "publish"
    BY <1>0, <1>5, <2>1 DEF LoadDevice, Jobs
  <2>4. \A u \in Txns : u # t => txn'[u] = txn[u] /\ job'[u] = job[u]
    BY <1>0, <2>1, <2>2 DEF vars
  <2> QED
    BY <2>2, <2>3, <2>4, OthersKnow DEF HoldsAndKnows, Publishing, Goal
<1>6. ASSUME NEW t \in Txns, UpdateDevice(t) PROVE Goal
  <2>1. job'[t].op = job[t].op /\ job[t].op # "publish"
    BY <1>6, <1>a DEF UpdateDevice, Ats
  <2>2. \A u \in Txns : u # t => txn'[u] = txn[u] /\ job'[u] = job[u]
    BY <1>6, <1>a DEF UpdateDevice, Ats, vars
  <2> QED
    BY <1>6, <2>1, <2>2, OthersKnow DEF UpdateDevice, HoldsAndKnows, Publishing, Goal
<1>7. ASSUME NEW t \in Txns, Audit(t) \/ RefuseEvent(t) PROVE Goal
  <2>1. /\ \A u \in Txns : u # t => txn'[u] = txn[u] /\ job'[u] = job[u]
        /\ bundles' = bundles /\ job' = job /\ orglock' = orglock
    BY <1>0, <1>7, AuditKeeps DEF routeVars
  <2>2. Newest' = Newest /\ NextVersion(Newest)' = NextVersion(Newest)
    BY <2>1 DEF Newest, Active, NextVersion
  <2>3. Publishing(t)' => Publishing(t)
    BY <1>0, <1>7, <2>1, AuditKeeps DEF Publishing
  <2>4. HoldsAndKnows(t)'
    BY <1>0, <2>1, <2>2, <2>3 DEF HoldsAndKnows
  <2> QED
    BY <2>1, <2>4, OthersKnow DEF Goal
<1>8. ASSUME NEW t \in Txns, CommitAll(t) PROVE Goal
  <2>1. ~Publishing(t)' /\ \A u \in Txns : u # t => txn'[u] = txn[u] /\ job'[u] = job[u]
    BY <1>0, <1>8 DEF CommitAll, Commit, Publishing, TxnStates, Working
  <2>2. orglock' = orglock \/ orglock \in {t, Free}
    BY <1>8, <1>b DEF CommitAll
  <2>3. CASE job[t].op # "publish"
    <3>1. bundles' = bundles
      BY <1>8, <2>3 DEF CommitAll, BundleRows
    <3> QED
      BY <2>1, <2>2, <3>1, OthersKnow DEF HoldsAndKnows, Goal
  <2>4. CASE job[t].op = "publish"
    <3>1. orglock = t
      BY <1>0, <1>8, <2>4 DEF CommitAll, Commit, HoldsAndKnows, Publishing, Working
    <3>2. ASSUME NEW u \in Txns PROVE ~Publishing(u)'
      BY <1>0, <2>1, <3>1 DEF HoldsAndKnows, Publishing
    <3> QED
      BY <3>2 DEF HoldsAndKnows, Goal
  <2> QED
    BY <2>3, <2>4
<1>9. CASE UNCHANGED allVars
  BY <1>0, <1>9 DEF allVars, vars, routeVars, HoldsAndKnows, Publishing, Newest, Active,
                    NextVersion, Goal
<1>10. ASSUME NEW t \in Txns, InsertBundle(t) PROVE Goal
  BY <1>c, <1>4, <1>10 DEF InsertBundle
<1>11. ASSUME NEW t \in Txns, LoadDevice(t) PROVE Goal
  BY <1>c, <1>5, <1>11
<1> QED
  BY <1>1, <1>2, <1>3, <1>6, <1>7, <1>8, <1>9, <1>10, <1>11, <1>c, StepsOf

LEMMA PublishedStep ==
    RoutesIInv /\ [RoutesNext]_allVars => (\E n \in Nat : Published(n))'
<1> SUFFICES ASSUME RoutesIInv, [RoutesNext]_allVars PROVE \E n \in Nat : Published(n)'
  OBVIOUS
<1>0. RoutesTypeOK /\ IInv
  BY DEF RoutesIInv
<1>1. PICK n \in Nat : Published(n)
  BY DEF RoutesIInv
<1>2. CASE bundles' = bundles
  BY <1>1, <1>2 DEF Published
<1>3. ASSUME NEW t \in Txns, CommitAll(t), job[t].op = "publish"
      PROVE  \E m \in Nat : Published(m)'
  <2>1. job[t].old = Newest /\ job[t].version = NextVersion(Newest)
    BY <1>3 DEF CommitAll, Commit, Publishing, HoldsAndKnows, RoutesIInv, Working
  <2>2. Published(n + 1)'
    BY <1>0, <1>1, <1>3, <2>1, NextIsNew, PublishAdds DEF CommitAll
  <2>3. n + 1 \in Nat
    OBVIOUS
  <2> QED
    BY <2>2, <2>3
<1>4. \/ bundles' = bundles
      \/ \E t \in Txns : CommitAll(t) /\ job[t].op = "publish"
  <2>1. CASE UNCHANGED allVars
    BY <2>1 DEF allVars, routeVars
  <2>2. ASSUME NEW t \in Txns, Refuse(t) \/ Failure(t) PROVE bundles' = bundles
    BY <1>0, <2>2, RefuseEnds
  <2>3. ASSUME NEW t \in Txns,
               Request(t) \/ LockOrganization(t) \/ ReadLatest(t) \/ UpdateDevice(t)
        PROVE  bundles' = bundles
    BY <2>3 DEF Request, LockOrganization, ReadLatest, UpdateDevice
  <2>4. ASSUME NEW t \in Txns, InsertBundle(t) \/ LoadDevice(t) PROVE bundles' = bundles
    BY <2>2, <2>4 DEF InsertBundle, LoadDevice
  <2>5. ASSUME NEW t \in Txns, Audit(t) \/ RefuseEvent(t) PROVE bundles' = bundles
    BY <1>0, <2>5, AuditKeeps DEF routeVars
  <2>6. ASSUME NEW t \in Txns, CommitAll(t), job[t].op # "publish" PROVE bundles' = bundles
    BY <2>6 DEF CommitAll, BundleRows
  <2> QED
    BY <2>1, <2>2, <2>3, <2>4, <2>5, <2>6, StepsOf
<1> QED
  BY <1>2, <1>3, <1>4

-----------------------------------------------------------------------------
(* The theorems. *)

LEMMA RoutesInitial == RoutesInit => RoutesIInv
<1> SUFFICES ASSUME RoutesInit PROVE RoutesIInv
  OBVIOUS
<1>1. IInv
  BY Initial DEF RoutesInit
<1>2. RoutesTypeOK
  BY <1>1 DEF RoutesInit, RoutesTypeOK, IInv, Statuses, NoJob, Ops
<1>3. \A t \in Txns : HoldsAndKnows(t)
  BY DEF RoutesInit, HoldsAndKnows, Publishing, NoJob
<1>4. Published(0)
  BY DEF RoutesInit, Published
<1> QED
  BY <1>1, <1>2, <1>3, <1>4 DEF RoutesIInv

LEMMA RoutesInductive == RoutesIInv /\ [RoutesNext]_allVars => RoutesIInv'
<1> SUFFICES ASSUME RoutesIInv, [RoutesNext]_allVars PROVE RoutesIInv'
  OBVIOUS
<1>1. IInv'
  BY RoutesStep, Inductive DEF RoutesIInv
<1> QED
  BY <1>1, RoutesTypeStep, HoldsStep, PublishedStep DEF RoutesIInv

LEMMA RoutesInvariant == RoutesSpec => []RoutesIInv
BY RoutesInitial, RoutesInductive, PTL DEF RoutesSpec

\* Every variable keeps its type.
THEOREM RoutesTypeCorrect == RoutesSpec => []RoutesTypeOK
<1>1. RoutesIInv => RoutesTypeOK
  BY DEF RoutesIInv
<1> QED
  BY <1>1, RoutesInvariant, PTL

\* A device that was revoked or lost never becomes active again.
THEOREM RevokedStaysOutCorrect == RoutesSpec => RevokedStaysOut
<1>1. ASSUME RoutesTypeOK, NEW t \in Txns, CommitAll(t), device.status # "active"
      PROVE  device'.status # "active"
  BY <1>1 DEF CommitAll, DeviceRow, StatusOf, RoutesTypeOK
<1>2. ASSUME IInv, NEW t \in Txns, Refuse(t) \/ Failure(t) PROVE device' = device
  BY <1>2, RefuseEnds
<1>3. ASSUME IInv, NEW t \in Txns, Audit(t) \/ RefuseEvent(t) PROVE device' = device
  BY <1>3, AuditKeeps DEF routeVars
<1>4. ASSUME RoutesIInv, [RoutesNext]_allVars
      PROVE  [device.status # "active" => device'.status # "active"]_allVars
  <2>1. CASE UNCHANGED allVars
    BY <2>1
  <2>2. CASE RoutesNext
    <3>1. PICK t \in Txns :
            \/ Request(t) \/ LockOrganization(t) \/ ReadLatest(t) \/ InsertBundle(t)
            \/ LoadDevice(t) \/ UpdateDevice(t) \/ Audit(t) \/ RefuseEvent(t) \/ Failure(t)
            \/ CommitAll(t) \/ Refuse(t)
      BY <2>2, StepsOf
    <3>2. CASE CommitAll(t)
      BY <1>1, <1>4, <3>2 DEF RoutesIInv
    <3>3. CASE ~CommitAll(t)
      BY <1>2, <1>3, <1>4, <3>1, <3>3
         DEF RoutesIInv, Request, LockOrganization, ReadLatest, InsertBundle, LoadDevice,
             UpdateDevice
    <3> QED
      BY <3>2, <3>3
  <2> QED
    BY <1>4, <2>1, <2>2
<1> QED
  BY <1>4, RoutesInvariant, PTL DEF RoutesSpec, RevokedStaysOut

\* Bundles are published one version after the other, no publisher is refused
\* for a version in use, and the newest is the active one.
THEOREM PublishedInOrderCorrect == RoutesSpec => []PublishedInOrder
<1>1. RoutesIInv => PublishedInOrder
  <2> SUFFICES ASSUME RoutesIInv PROVE PublishedInOrder
    OBVIOUS
  <2>0. RoutesTypeOK
    BY DEF RoutesIInv
  <2>1. PICK n \in Nat : Published(n)
    BY DEF RoutesIInv
  <2>2. \A b \in bundles : b.version \in 1..n /\ (b.active <=> b.version = n)
    BY <2>1 DEF Published
  <2>3. ASSUME NEW t \in Txns, At(t, "write"), job[t].op = "publish"
        PROVE  ~VersionTaken(job[t].version) /\ job[t].version \notin Inserted
    <3>1. orglock = t /\ job[t].version = NextVersion(Newest)
      BY <2>3 DEF RoutesIInv, HoldsAndKnows, Publishing, At, Working
    <3>2. ~VersionTaken(job[t].version)
      BY <2>0, <2>1, <2>2, <3>1, NextIsNew DEF VersionTaken
    <3>3. Inserted = {}
      BY <2>3, <3>1 DEF Inserted, RoutesIInv, HoldsAndKnows, Publishing, At
    <3> QED
      BY <3>2, <3>3
  <2>4. \A b, c \in bundles : b.version = c.version => b = c
    BY <2>1 DEF Published
  <2>5. ASSUME NEW b \in bundles PROVE b.version = 1 \/ \E c \in bundles : c.version + 1 = b.version
    <3> SUFFICES ASSUME b.version # 1 PROVE \E c \in bundles : c.version + 1 = b.version
      OBVIOUS
    <3>1. b.version - 1 \in 1..n
      BY <2>2
    <3>2. PICK c \in bundles : c.version = b.version - 1
      BY <2>1, <3>1 DEF Published
    <3> QED
      BY <2>2, <3>2
  <2>6. ASSUME NEW b \in bundles PROVE b.active <=> \A c \in bundles : c.version <= b.version
    <3>1. CASE b.version = n
      BY <2>2, <3>1
    <3>2. CASE b.version # n
      <4>1. n \in 1..n
        BY <2>2, <3>2
      <4>2. PICK c \in bundles : c.version = n
        BY <2>1, <4>1 DEF Published
      <4> QED
        BY <2>2, <3>2, <4>2
    <3> QED
      BY <3>1, <3>2
  <2> QED
    BY <2>3, <2>4, <2>5, <2>6 DEF PublishedInOrder
<1> QED
  BY <1>1, RoutesInvariant, PTL

-----------------------------------------------------------------------------
(* The log and the rows it is about. *)

\* The events of a transaction: they are its own, as many as it has accepted
\* as long as its session is of use, and in the log once its effect is.  A route
\* that is no queue has one event.
Filed(t) ==
    /\ \A e \in txn[t].mine : e.body[2] = t
    /\ IsFiniteSet(txn[t].mine)
    /\ txn[t].pc # "poisoned" => Cardinality(txn[t].mine) = txn[t].accepted
    /\ t \in effect <=> txn[t].pc = "committed"
    /\ txn[t].kind # "sync" /\ txn[t].pc \in Working \cup {"committed"} =>
          txn[t].left + txn[t].accepted = 1
    /\ txn[t].pc = "committed" => txn[t].left = 0 /\ EventsOf(t) = txn[t].mine

LogInv == /\ \A e \in events : e.body[2] \in effect
          /\ \A t \in Txns : Filed(t)

\* A part of RowsInv: a transaction is of the kind of its route.
KindsMatch ==
    \A t \in Txns : txn[t].pc \notin {"idle", "aborted"} => txn[t].kind = KindOf(job[t].op)

\* The rows name those who wrote them, in the order of their events.
RowsInv ==
    /\ KindsMatch
    /\ {b.by : b \in bundles} = {t \in effect : job[t].op = "publish"}
    /\ \A b, c \in bundles : b.version < c.version => SeqOf(b.by) < SeqOf(c.by)
    /\ IF DeviceEvents = {} THEN device.by = Free ELSE device.by \in DeviceEvents
    /\ \A t \in DeviceEvents : SeqOf(t) <= SeqOf(device.by)

HistoryIInv == RoutesIInv /\ LogInv /\ RowsInv

\* A step of a transaction that does not commit.
LEMMA OthersFiled ==
    ASSUME TypeOK, LogInv, NEW t \in Txns, NEW s, txn' = [txn EXCEPT ![t] = s],
           UNCHANGED <<events, effect>>, Filed(t)'
    PROVE  LogInv'
<1>1. \A u \in Txns : u # t => txn'[u] = txn[u]
  BY DEF TypeOK
<1>2. \A u \in Txns : u # t => Filed(u)'
  BY <1>1 DEF LogInv, Filed, EventsOf
<1> QED
  BY <1>2 DEF LogInv

\* What a transaction commits comes after all that is committed, and is the last
\* it will ever have in the log.
LEMMA CommitFiles ==
    ASSUME IInv, LogInv, NEW t \in Txns, Commit(t)
    PROVE  /\ EventsOf(t)' = txn[t].mine
           /\ \A u \in Txns : u # t => EventsOf(u)' = EventsOf(u)
           /\ \A e \in events, f \in txn[t].mine : e.seq < f.seq
<1>0. txn[t] \in TxnStates /\ Filed(t) /\ t \notin effect
  BY DEF IInv, TypeOK, TxnStates, LogInv, Filed, Commit
<1>1. EventsOf(t) = {}
  BY <1>0 DEF LogInv, EventsOf
<1>2. EventsOf(t)' = txn[t].mine
  BY <1>0, <1>1 DEF EventsOf, Commit, Filed
<1>3. \A u \in Txns : u # t => EventsOf(u)' = EventsOf(u)
  BY <1>0 DEF EventsOf, Commit, Filed
<1>4. owner = t
  BY DEF IInv, OthersWait, Commit, Working
<1>5. ChainTo(events \cup txn[t].mine, txn[t].seq, txn[t].hash)
  BY <1>4 DEF IInv, OwnersChain
<1>6. ASSUME NEW e \in events, NEW f \in txn[t].mine PROVE e.seq < f.seq
  <2>1. e.seq \in 1..counter.seq /\ f.seq \in Nat /\ f.seq >= 1 /\ counter.seq \in Nat
    BY <1>5 DEF IInv, TypeOK, CommittedChain, ChainTo
  <2>2. CASE f.seq \in 1..counter.seq
    <3>1. PICK g \in events : g.seq = f.seq
      BY <2>2 DEF IInv, CommittedChain, ChainTo
    <3>2. g = f
      BY <1>5, <3>1 DEF ChainTo
    <3> QED
      BY <1>0, <3>2 DEF LogInv, Filed
  <2> QED
    BY <2>1, <2>2
<1> QED
  BY <1>2, <1>3, <1>6

\* An empty log.
LEMMA LogInitial == Init => LogInv
BY FS_EmptySet DEF Init, Idle, LogInv, Filed, EventsOf, Working

\* Every transaction keeps its books, whatever the others record and commit.
LEMMA LogStep == IInv /\ LogInv /\ [Next]_vars => LogInv'
<1> SUFFICES ASSUME IInv, LogInv, [Next]_vars PROVE LogInv'
  OBVIOUS
<1>0. /\ TypeOK /\ txn \in [Txns -> TxnStates]
      /\ \A t \in Txns : Filed(t) /\ txn[t] \in TxnStates /\ txn[t].left \in Nat
                         /\ txn[t].accepted \in Nat
  BY DEF IInv, TypeOK, TxnStates, LogInv
<1>1. ASSUME NEW t \in Txns, Begin(t) PROVE LogInv'
  <2>1. PICK s : /\ txn' = [txn EXCEPT ![t] = s] /\ s.mine = {} /\ s.accepted = 0
                 /\ s.pc = "open" /\ (s.kind # "sync" => s.left = 1)
    <3>1. ASSUME NEW k \in Kinds, NEW n \in Nat, k # "sync" => n = 1,
                 txn' = [txn EXCEPT ![t] = [Idle EXCEPT !.pc = "open", !.kind = k, !.left = n]]
          PROVE  \E s : /\ txn' = [txn EXCEPT ![t] = s] /\ s.mine = {} /\ s.accepted = 0
                        /\ s.pc = "open" /\ (s.kind # "sync" => s.left = 1)
      <4> DEFINE s == [Idle EXCEPT !.pc = "open", !.kind = k, !.left = n]
      <4>1. /\ s.mine = {} /\ s.accepted = 0 /\ s.pc = "open"
            /\ s.kind # "sync" => s.left = 1
        BY <3>1 DEF Idle
      <4>2. txn' = [txn EXCEPT ![t] = s]
        BY <3>1
      <4> HIDE DEF s
      <4> QED
        BY <4>1, <4>2
    <3> QED
      BY <1>1, <3>1, BatchAssumption DEF Begin, Kinds
  <2>2. txn'[t] = s /\ t \notin effect /\ UNCHANGED <<events, effect>>
    BY <1>0, <1>1, <2>1 DEF Begin, Filed
  <2>3. Filed(t)'
    BY <2>1, <2>2, FS_EmptySet DEF Filed
  <2> QED
    BY <1>0, <2>1, <2>2, <2>3, OthersFiled
<1>2. ASSUME NEW t \in Txns,
             \/ RecordAgain(t) \/ RecordLocked(t) \/ CounterMissing(t) \/ CreateCounter(t)
             \/ CounterCreated(t)
      PROVE  LogInv'
  <2>1. PICK s : KeepsEvents(t, s) /\ s.pc \in Working /\ s.left = txn[t].left
    BY <1>0, <1>2, CountingStates DEF Working
  <2>2. /\ UNCHANGED <<events, effect>> /\ txn[t].pc \in Working
        /\ txn'[t] = s /\ txn' = [txn EXCEPT ![t] = s]
    BY <1>0, <1>2, <2>1 DEF RecordAgain, RecordLocked, CounterMissing, CreateCounter,
       CounterCreated, ToRecord, Working, KeepsEvents
  <2>3. Filed(t)'
    BY <1>0, <2>1, <2>2 DEF Filed, KeepsEvents, Working
  <2> QED
    BY <1>0, <2>2, <2>3, OthersFiled
<1>3. ASSUME NEW t \in Txns, RejectEvent(t) PROVE LogInv'
  <2>1. PICK s : KeepsEvents(t, s) /\ s.pc = "open"
    BY <1>3, RefusingStates
  <2>2. /\ UNCHANGED <<events, effect>> /\ txn[t].pc = "counted" /\ txn[t].kind = "sync"
        /\ txn'[t] = s /\ txn' = [txn EXCEPT ![t] = s]
    BY <1>0, <1>3, <2>1 DEF RejectEvent, KeepsEvents
  <2>3. Filed(t)'
    BY <1>0, <2>1, <2>2 DEF Filed, KeepsEvents
  <2> QED
    BY <1>0, <2>2, <2>3, OthersFiled
<1>4. ASSUME NEW t \in Txns, RejectRest(t) PROVE LogInv'
  <2>1. PICK s : KeepsEvents(t, s) /\ s.pc = "poisoned"
    BY <1>4, RefusingStates
  <2>2. /\ UNCHANGED <<events, effect>> /\ txn[t].pc = "poisoned"
        /\ txn'[t] = s /\ txn' = [txn EXCEPT ![t] = s]
    BY <1>0, <1>4, <2>1 DEF RejectRest, KeepsEvents
  <2>3. Filed(t)'
    BY <1>0, <2>1, <2>2 DEF Filed, KeepsEvents, Working
  <2> QED
    BY <1>0, <2>2, <2>3, OthersFiled
<1>5. ASSUME NEW t \in Txns, RecordFails(t) \/ CreateConflict(t) \/ CommitFails(t) \/ Abort(t)
      PROVE  LogInv'
  <2>1. PICK s : DropsEvents(t, s)
    BY <1>5, RefusingStates
  <2>2. UNCHANGED <<events, effect>> /\ txn[t].pc \in Running
    BY <1>5 DEF RecordFails, CreateConflict, StatementFails, CommitFails, Abort, ToRecord,
       Running, Working
  <2>3. txn'[t] = s /\ txn' = [txn EXCEPT ![t] = s]
    BY <1>0, <2>1 DEF DropsEvents
  <2>4. s.pc = "aborted" => s.accepted = 0
    BY <2>1 DEF DropsEvents, Gone, Idle
  <2>5. t \notin effect
    BY <1>0, <2>2 DEF Filed, Running, Working
  <2>6. Filed(t)'
    BY <2>1, <2>2, <2>3, <2>4, <2>5, FS_EmptySet DEF Filed, DropsEvents, Working
  <2> QED
    BY <1>0, <2>2, <2>3, <2>6, OthersFiled
<1>6. ASSUME NEW t \in Txns, Flush(t) PROVE LogInv'
  <2> DEFINE new == NewEvent(t, txn[t].seq, txn[t].hash)
  <2>1. PICK s \in TxnStates :
           /\ txn' = [txn EXCEPT ![t] = s]
           /\ s.pc = "open" /\ s.kind = txn[t].kind
           /\ s.left = txn[t].left - 1 /\ s.accepted = txn[t].accepted + 1
           /\ s.mine = txn[t].mine \cup {new}
    BY <1>6, FlushedState
  <2>2. new \notin txn[t].mine /\ new.body[2] = t
    BY <1>6, FlushedState DEF NewEvent, Body
  <2> HIDE DEF new
  <2>3. /\ UNCHANGED <<events, effect>> /\ txn[t].pc = "counted" /\ txn'[t] = s
    BY <1>0, <1>6, <2>1 DEF Flush
  <2>4. IsFiniteSet(s.mine) /\ Cardinality(s.mine) = s.accepted
    <3>1. IsFiniteSet(txn[t].mine) /\ Cardinality(txn[t].mine) = txn[t].accepted
      BY <1>0, <2>3 DEF Filed
    <3>2. /\ IsFiniteSet(txn[t].mine \cup {new})
          /\ Cardinality(txn[t].mine \cup {new}) = Cardinality(txn[t].mine) + 1
      BY <2>2, <3>1, FS_AddElement
    <3> QED
      BY <2>1, <3>1, <3>2
  <2>5. Filed(t)'
    <3>1. /\ \A e \in txn[t].mine : e.body[2] = t
          /\ t \notin effect
          /\ txn[t].kind # "sync" => txn[t].left + txn[t].accepted = 1
      BY <1>0, <2>3 DEF Filed, Working
    <3>2. \A e \in s.mine : e.body[2] = t
      BY <2>1, <2>2, <3>1
    <3>3. s.kind # "sync" => s.left + s.accepted = 1
      BY <1>0, <2>1, <3>1
    <3> QED
      BY <2>1, <2>3, <2>4, <3>1, <3>2, <3>3 DEF Filed
  <2> QED
    BY <1>0, <2>1, <2>3, <2>5, OthersFiled
<1>7. ASSUME NEW t \in Txns, Commit(t) PROVE LogInv'
  <2>1. /\ EventsOf(t)' = txn[t].mine
        /\ \A u \in Txns : u # t => EventsOf(u)' = EventsOf(u)
    BY <1>7, CommitFiles
  <2>2. /\ txn' = [txn EXCEPT ![t] = [txn[t] EXCEPT !.pc = "committed"]]
        /\ effect' = effect \cup {t} /\ txn[t].pc = "open" /\ txn[t].left = 0
        /\ events' = events \cup txn[t].mine
    BY <1>7 DEF Commit
  <2>3. /\ txn'[t].mine = txn[t].mine /\ txn'[t].accepted = txn[t].accepted
        /\ txn'[t].kind = txn[t].kind
        /\ txn'[t].left = txn[t].left /\ txn'[t].pc = "committed"
    BY <1>0, <2>2 DEF TxnStates
  <2>4. Filed(t)'
    BY <1>0, <2>1, <2>2, <2>3 DEF Filed, Working
  <2>5. ASSUME NEW u \in Txns, u # t PROVE Filed(u)'
    <3>1. txn'[u] = txn[u] /\ (u \in effect' <=> u \in effect)
      BY <1>0, <2>2, <2>5
    <3> QED
      BY <1>0, <2>1, <2>5, <3>1 DEF Filed
  <2>6. \A e \in events' : e.body[2] \in effect'
    BY <1>0, <2>2 DEF LogInv, Filed
  <2> QED
    BY <2>4, <2>5, <2>6 DEF LogInv
<1>8. CASE UNCHANGED vars
  BY <1>8 DEF vars, LogInv, Filed, EventsOf
<1> QED
  BY <1>1, <1>2, <1>3, <1>4, <1>5, <1>6, <1>7, <1>8 DEF Next, Proceed

-----------------------------------------------------------------------------
\* What the routes do to the log unless they commit: nothing that is committed.
LEMMA RoutesKeepLog ==
    ASSUME NEW t \in Txns,
           \/ Request(t) \/ LockOrganization(t) \/ ReadLatest(t) \/ InsertBundle(t)
           \/ LoadDevice(t) \/ UpdateDevice(t) \/ Audit(t) \/ RefuseEvent(t)
           \/ Failure(t) \/ Refuse(t)
    PROVE  UNCHANGED <<events, effect, device, bundles>>
<1>1. CASE Request(t)
  BY <1>1 DEF Request, Begin
<1>2. CASE LockOrganization(t) \/ ReadLatest(t) \/ UpdateDevice(t)
  BY <1>2 DEF LockOrganization, ReadLatest, UpdateDevice, vars
<1>3. CASE Refuse(t)
  BY <1>3 DEF Refuse, Abort
<1>4. CASE InsertBundle(t)
  BY <1>3, <1>4 DEF InsertBundle, vars
<1>5. CASE LoadDevice(t)
  BY <1>3, <1>5 DEF LoadDevice, vars
<1>6. CASE Audit(t)
  BY <1>6 DEF Audit, routeVars, RecordAgain, RecordLocked, CounterMissing, CreateCounter,
     CounterCreated, Flush, RejectRest, CommitFails
<1>7. CASE RefuseEvent(t)
  BY <1>7 DEF RefuseEvent, RejectEvent, routeVars
<1>8. CASE Failure(t)
  BY <1>8 DEF Failure, Lose, CreateConflict, RecordFails, StatementFails
<1> QED
  BY <1>1, <1>2, <1>3, <1>4, <1>5, <1>6, <1>7, <1>8

\* Only the arrival of a request changes what kind of route a transaction is.
LEMMA RoutesKeepKinds ==
    ASSUME IInv, RoutesTypeOK, LogInv, KindsMatch, NEW t \in Txns,
           \/ LockOrganization(t) \/ ReadLatest(t) \/ InsertBundle(t) \/ LoadDevice(t)
           \/ UpdateDevice(t) \/ Audit(t) \/ RefuseEvent(t) \/ Failure(t)
           \/ CommitAll(t) \/ Refuse(t)
    PROVE  KindsMatch' /\ \A u \in effect : job'[u].op = job[u].op
<1> DEFINE SameOps == \A u \in Txns : job'[u].op = job[u].op
<1>0. /\ txn \in [Txns -> TxnStates] /\ job \in [Txns -> Jobs]
      /\ effect \subseteq Txns
  BY DEF IInv, TypeOK, TxnStates, RoutesTypeOK, Jobs, Ats, Bundle
<1>1. ASSUME NEW at, Goto(t, at) PROVE SameOps
  BY <1>0, <1>1 DEF Goto, Jobs
<1>2. ASSUME txn' = txn, SameOps PROVE KindsMatch'
  BY <1>2 DEF KindsMatch
<1>3. CASE Refuse(t) \/ Failure(t)
  <2>1. t \notin effect /\ txn[t].pc \notin {"idle", "aborted"}
    BY <1>3, RefuseEnds DEF LogInv, Filed, Running, Working
  <2>2. \A u \in effect : job'[u].op = job[u].op
    BY <1>0, <1>3, <2>1, RefuseEnds
  <2>3. KindsMatch'
    BY <1>3, <2>1, RefuseEnds DEF KindsMatch
  <2> QED
    BY <2>2, <2>3
<1>4. CASE LockOrganization(t) \/ UpdateDevice(t)
  <2>1. SameOps /\ txn' = txn
    BY <1>1, <1>4 DEF LockOrganization, UpdateDevice, vars
  <2> QED
    BY <1>0, <1>2, <2>1
<1>5. CASE ReadLatest(t)
  <2>1. SameOps /\ txn' = txn
    BY <1>0, <1>5 DEF ReadLatest, Jobs, vars
  <2> QED
    BY <1>0, <1>2, <2>1
<1>6. CASE InsertBundle(t)
  <2>1. CASE ~Refuse(t)
    <3>1. Goto(t, "written") /\ txn' = txn
      BY <1>6, <2>1 DEF InsertBundle, vars
    <3>2. SameOps
      BY <1>1, <3>1
    <3> QED
      BY <1>0, <1>2, <3>1, <3>2
  <2> QED
    BY <1>3, <2>1
<1>7. CASE LoadDevice(t)
  <2>1. CASE ~Refuse(t)
    <3>1. SameOps
      <4>1. job' = [job EXCEPT ![t] = [@ EXCEPT !.seen = device.status,
                                  !.at = IF job[t].op = "sync" THEN "written" ELSE "write"]]
        BY <1>7, <2>1 DEF LoadDevice
      <4> QED
        BY <1>0, <4>1 DEF Jobs
    <3>2. txn' = txn
      BY <1>7, <2>1 DEF LoadDevice, vars
    <3> QED
      BY <1>0, <1>2, <3>1, <3>2
  <2> QED
    BY <1>3, <2>1
<1>8. CASE CommitAll(t)
  <2>1. job' = job /\ txn' = [txn EXCEPT ![t].pc = "committed"] /\ txn[t].pc = "open"
    BY <1>8 DEF CommitAll, Commit
  <2>2. \A u \in Txns : txn'[u].kind = txn[u].kind /\ (u # t => txn'[u] = txn[u])
    BY <1>0, <2>1 DEF TxnStates
  <2>3. KindsMatch'
    BY <2>1, <2>2 DEF KindsMatch
  <2> QED
    BY <2>1, <2>3
<1>9. CASE Audit(t) \/ RefuseEvent(t)
  <2>1. job' = job
    BY <1>9, AuditKeeps DEF routeVars
  <2>2. KindsMatch'
    BY <1>9, <2>1, AuditKeeps DEF KindsMatch, Running, Working
  <2> QED
    BY <2>1, <2>2
<1> QED
  BY <1>3, <1>4, <1>5, <1>6, <1>7, <1>8, <1>9

\* A committed route that is no queue has one event.
LEMMA OneEvent ==
    ASSUME TypeOK, LogInv, KindsMatch,
           NEW t \in effect, job[t].op # "sync", job[t].op \in Ops
    PROVE  \E e \in events : EventsOf(t) = {e} /\ SeqOf(t) = e.seq /\ e.seq \in Nat
<1>1. t \in Txns /\ Filed(t) /\ txn[t] \in TxnStates
  BY DEF LogInv, TypeOK, TxnStates
<1>2. txn[t].pc = "committed" /\ txn[t].kind # "sync"
  BY <1>1 DEF Filed, KindsMatch, KindOf, Ops
<1>3. IsFiniteSet(EventsOf(t)) /\ Cardinality(EventsOf(t)) = 1
  BY <1>1, <1>2 DEF Filed, TxnStates
<1>4. PICK e : EventsOf(t) = {e}
  BY <1>3, FS_Singleton
<1>5. e \in events
  BY <1>4 DEF EventsOf
<1>6. SeqOf(t) = e.seq
  BY <1>4 DEF SeqOf, EventsOf
<1>7. e.seq \in Nat
  BY <1>5 DEF TypeOK, Events
<1> QED
  BY <1>4, <1>5, <1>6, <1>7

\* The event of a route that commits follows those of all that have committed.
LEMMA CommitIsLast ==
    ASSUME IInv, RoutesTypeOK, LogInv, KindsMatch, NEW t \in Txns, CommitAll(t)
    PROVE  /\ \A u \in effect :
                 job[u].op # "sync" => SeqOf(u)' = SeqOf(u) /\ SeqOf(u) \in Nat
           /\ job[t].op # "sync" =>
                /\ SeqOf(t)' \in Nat
                /\ \A u \in effect : job[u].op # "sync" => SeqOf(u) < SeqOf(t)'
<1>0. /\ Commit(t) /\ t \notin effect /\ Filed(t) /\ txn[t] \in TxnStates /\ TypeOK
      /\ effect \subseteq Txns /\ \A u \in Txns : job[u].op \in Ops
  BY DEF CommitAll, Commit, LogInv, Filed, IInv, TypeOK, TxnStates, RoutesTypeOK
<1>1. /\ EventsOf(t)' = txn[t].mine
      /\ \A u \in Txns : u # t => EventsOf(u)' = EventsOf(u)
      /\ \A e \in events, f \in txn[t].mine : e.seq < f.seq
  BY <1>0, CommitFiles
<1>2. \A u, e : EventsOf(u)' = {e} => SeqOf(u)' = e.seq
  <2> SUFFICES ASSUME NEW u, NEW e, EventsOf(u)' = {e} PROVE SeqOf(u)' = e.seq
    OBVIOUS
  <2>1. \A f \in events' : f.body[2] = u <=> f = e
    BY DEF EventsOf
  <2>2. e \in events'
    BY DEF EventsOf
  <2> QED
    BY <2>1, <2>2 DEF SeqOf
<1>3. ASSUME NEW u \in effect, job[u].op # "sync"
      PROVE  \E e \in events : SeqOf(u) = e.seq /\ SeqOf(u)' = e.seq /\ e.seq \in Nat
  <2>1. PICK e \in events : EventsOf(u) = {e} /\ SeqOf(u) = e.seq /\ e.seq \in Nat
    BY <1>0, <1>3, OneEvent
  <2>2. EventsOf(u)' = {e}
    BY <1>0, <1>1, <1>3, <2>1
  <2> QED
    BY <1>2, <2>1, <2>2
<1>4. ASSUME job[t].op # "sync"
      PROVE  \E f \in txn[t].mine : SeqOf(t)' = f.seq /\ f.seq \in Nat
  <2>1. txn[t].kind # "sync" /\ txn[t].pc = "open" /\ txn[t].left = 0
    BY <1>0, <1>4 DEF KindsMatch, KindOf, Ops, Commit
  <2>2. IsFiniteSet(txn[t].mine) /\ Cardinality(txn[t].mine) = 1
    BY <1>0, <2>1 DEF Filed, TxnStates, Working
  <2>3. PICK f : txn[t].mine = {f}
    BY <2>2, FS_Singleton
  <2>4. f.seq \in Nat
    <3>1. txn[t].mine \in SUBSET Events
      BY <1>0 DEF TxnStates
    <3>2. f \in Events
      BY <2>3, <3>1
    <3> QED
      BY <3>2 DEF Events
  <2> QED
    BY <1>1, <1>2, <2>3, <2>4
<1> QED
  BY <1>1, <1>3, <1>4

\* As long as nothing is committed the rows and the log stay as they are.
LEMMA RowsKept ==
    ASSUME RowsInv, UNCHANGED <<events, effect, device, bundles>>,
           \A u \in effect : job'[u].op = job[u].op, KindsMatch'
    PROVE  RowsInv'
<1>1. \A u : SeqOf(u)' = SeqOf(u)
  BY DEF SeqOf
<1>2. DeviceEvents' = DeviceEvents
  BY DEF DeviceEvents
<1>3. {u \in effect' : job'[u].op = "publish"} = {u \in effect : job[u].op = "publish"}
  OBVIOUS
<1> QED
  BY <1>1, <1>2, <1>3 DEF RowsInv, KindsMatch

\* A commit adds the bundle of a publisher under its own name, with a version
\* higher than any.
LEMMA CommitAddsBundle ==
    ASSUME RoutesIInv, NEW t \in Txns, CommitAll(t)
    PROVE  \A b \in bundles' :
              \/ \E c \in bundles : b.version = c.version /\ b.by = c.by
              \/ /\ job[t].op = "publish" /\ b.by = t
                 /\ b.version = job[t].version
                 /\ \A c \in bundles : c.version < b.version
<1>0. RoutesTypeOK
  BY DEF RoutesIInv
<1>1. CASE job[t].op # "publish"
  BY <1>1 DEF CommitAll, BundleRows
<1>2. CASE job[t].op = "publish"
  <2> DEFINE off(b) == [b EXCEPT !.active =
                           @ /\ b.version \notin {o.version : o \in job[t].old}]
             new == [version |-> job[t].version, active |-> TRUE, by |-> t]
  <2>1. bundles' = {off(b) : b \in bundles} \cup {new}
    BY <1>2 DEF CommitAll, BundleRows
  <2>2. \A b \in bundles : off(b).version = b.version /\ off(b).by = b.by
    BY <1>0 DEF RoutesTypeOK
  <2>3. PICK n \in Nat : Published(n)
    BY DEF RoutesIInv
  <2>4. job[t].version = n + 1
    <3>1. job[t].version = NextVersion(Newest)
      BY <1>2 DEF CommitAll, Commit, Publishing, HoldsAndKnows, RoutesIInv, Working
    <3> QED
      BY <1>0, <2>3, <3>1, NextIsNew
  <2>5. \A c \in bundles : c.version \in 1..n
    BY <2>3 DEF Published
  <2>6. new.version = job[t].version /\ new.by = t
    OBVIOUS
  <2> HIDE DEF off, new
  <2>7. \A c \in bundles : c.version < new.version
    BY <2>4, <2>5, <2>6
  <2> QED
    BY <1>2, <2>1, <2>2, <2>6, <2>7
<1> QED
  BY <1>1, <1>2

\* Who is named by the bundles and the device after a commit.
LEMMA CommitNames ==
    ASSUME RoutesIInv, NEW t \in Txns, CommitAll(t)
    PROVE  /\ {b.by : b \in bundles'} = {b.by : b \in bundles} \cup
                                        {u \in {t} : job[t].op = "publish"}
           /\ device'.by = IF job[t].op \in {"revoke", "lose", "rotate"} THEN t
                           ELSE device.by
<1>0. RoutesTypeOK
  BY DEF RoutesIInv
<1>1. device'.by = IF job[t].op \in {"revoke", "lose", "rotate"} THEN t ELSE device.by
  BY <1>0 DEF CommitAll, DeviceRow, RoutesTypeOK
<1>2. CASE job[t].op # "publish"
  BY <1>1, <1>2 DEF CommitAll, BundleRows
<1>3. CASE job[t].op = "publish"
  <2> DEFINE off(b) == [b EXCEPT !.active =
                           @ /\ b.version \notin {o.version : o \in job[t].old}]
             new == [version |-> job[t].version, active |-> TRUE, by |-> t]
  <2>1. bundles' = {off(b) : b \in bundles} \cup {new}
    BY <1>3 DEF CommitAll, BundleRows
  <2>2. \A b \in bundles : off(b).by = b.by
    BY <1>0 DEF RoutesTypeOK
  <2>3. new.by = t
    OBVIOUS
  <2> HIDE DEF off, new
  <2>4. {b.by : b \in bundles'} = {b.by : b \in bundles} \cup {t}
    BY <2>1, <2>2, <2>3
  <2> QED
    BY <1>1, <1>3, <2>4
<1> QED
  BY <1>2, <1>3

\* The rows keep naming their writers, in the order of their events.
LEMMA RowsStep == HistoryIInv /\ [RoutesNext]_allVars => RowsInv'
<1> SUFFICES ASSUME HistoryIInv, [RoutesNext]_allVars PROVE RowsInv'
  OBVIOUS
<1>0. /\ RoutesIInv /\ IInv /\ TypeOK /\ RoutesTypeOK /\ LogInv /\ RowsInv /\ KindsMatch
      /\ effect \subseteq Txns /\ \A u \in Txns : job[u].op \in Ops
  BY DEF HistoryIInv, RoutesIInv, IInv, TypeOK, RoutesTypeOK, RowsInv, KindsMatch
<1>1. CASE UNCHANGED allVars
  <2>1. /\ UNCHANGED <<events, effect, device, bundles>> /\ job' = job /\ txn' = txn
    BY <1>1 DEF allVars, vars, routeVars
  <2> QED
    BY <1>0, <2>1, RowsKept DEF KindsMatch
<1>2. ASSUME NEW t \in Txns, Request(t) PROVE RowsInv'
  <2>1. t \notin effect
    BY <1>0, <1>2 DEF Request, Begin, LogInv, Filed
  <2>2. /\ \A u \in Txns : u # t => txn'[u] = txn[u] /\ job'[u] = job[u]
        /\ txn'[t].kind = KindOf(job'[t].op)
    <3>1. PICK op \in Ops :
             /\ txn'[t].kind = KindOf(op)
             /\ job' = [job EXCEPT ![t] = [NoJob EXCEPT !.op = op, !.at = "read"]]
      BY <1>2 DEF Request
    <3>2. job'[t].op = op /\ \A u \in Txns : u # t => job'[u] = job[u]
      BY <1>0, <3>1 DEF RoutesTypeOK, NoJob
    <3>3. \A u \in Txns : u # t => txn'[u] = txn[u]
      BY <1>0, <1>2 DEF Request, Begin, TypeOK
    <3> QED
      BY <3>1, <3>2, <3>3
  <2> QED
    BY <1>0, <1>2, <2>1, <2>2, RowsKept, RoutesKeepLog DEF KindsMatch
<1>3. ASSUME NEW t \in Txns,
             \/ LockOrganization(t) \/ ReadLatest(t) \/ InsertBundle(t) \/ LoadDevice(t)
             \/ UpdateDevice(t) \/ Audit(t) \/ RefuseEvent(t) \/ Failure(t) \/ Refuse(t)
      PROVE  RowsInv'
  <2>1. KindsMatch' /\ \A u \in effect : job'[u].op = job[u].op
    BY <1>0, <1>3, RoutesKeepKinds
  <2> QED
    BY <1>0, <1>3, <2>1, RowsKept, RoutesKeepLog
<1>4. ASSUME NEW t \in Txns, CommitAll(t) PROVE RowsInv'
  <2>0. /\ job' = job /\ effect' = effect \cup {t} /\ t \notin effect
    BY <1>0, <1>4 DEF CommitAll, Commit, LogInv, Filed
  <2>1. KindsMatch'
    BY <1>0, <1>4, RoutesKeepKinds
  <2>2. /\ \A u \in effect :
              job[u].op # "sync" => SeqOf(u)' = SeqOf(u) /\ SeqOf(u) \in Nat
        /\ job[t].op # "sync" =>
             /\ SeqOf(t)' \in Nat
             /\ \A u \in effect : job[u].op # "sync" => SeqOf(u) < SeqOf(t)'
    BY <1>0, <1>4, CommitIsLast
  <2>3. /\ {b.by : b \in bundles'} = {b.by : b \in bundles} \cup
                                     {u \in {t} : job[t].op = "publish"}
        /\ device'.by = IF job[t].op \in {"revoke", "lose", "rotate"} THEN t
                        ELSE device.by
    BY <1>0, <1>4, CommitNames
  <2>4. {b.by : b \in bundles'} = {u \in effect' : job'[u].op = "publish"}
    BY <1>0, <2>0, <2>3 DEF RowsInv
  <2>5. \A b \in bundles : b.by \in effect /\ job[b.by].op = "publish"
    BY <1>0 DEF RowsInv
  <2>6. ASSUME NEW b \in bundles', NEW c \in bundles', b.version < c.version
        PROVE  SeqOf(b.by)' < SeqOf(c.by)'
    <3>1. \A d \in bundles' :
              \/ \E e \in bundles : d.version = e.version /\ d.by = e.by
              \/ /\ job[t].op = "publish" /\ d.by = t /\ d.version = job[t].version
                 /\ \A e \in bundles : e.version < d.version
      BY <1>0, <1>4, CommitAddsBundle
    <3>2. b.version \in Nat /\ c.version \in Nat /\ \A e \in bundles : e.version \in Nat
      BY <1>0, RoutesTypeStep DEF RoutesTypeOK
    <3>3. ASSUME NEW d \in bundles, d.version = b.version, d.by = b.by
          PROVE  SeqOf(b.by)' < SeqOf(c.by)'
      <4>1. SeqOf(b.by)' = SeqOf(b.by)
        BY <2>2, <2>5, <3>3
      <4>2. CASE \E e \in bundles : c.version = e.version /\ c.by = e.by
        <5>1. PICK e \in bundles : c.version = e.version /\ c.by = e.by
          BY <4>2
        <5>2. SeqOf(d.by) < SeqOf(e.by)
          BY <1>0, <2>6, <3>3, <5>1 DEF RowsInv
        <5>3. SeqOf(c.by)' = SeqOf(c.by)
          BY <2>2, <2>5, <5>1
        <5> QED
          BY <3>3, <4>1, <5>1, <5>2, <5>3
      <4>3. CASE job[t].op = "publish" /\ c.by = t
        BY <2>2, <2>5, <3>3, <4>1, <4>3
      <4> QED
        BY <3>1, <4>2, <4>3
    <3>4. CASE /\ b.version = job[t].version
               /\ \A e \in bundles : e.version < b.version
      <4>1. ~ \E e \in bundles : c.version = e.version
        BY <2>6, <3>2, <3>4
      <4>2. c.version = job[t].version
        BY <3>1, <4>1
      <4> QED
        BY <2>6, <3>2, <3>4, <4>2
    <3> QED
      BY <3>1, <3>3, <3>4
  <2>7. DeviceEvents' = DeviceEvents \cup
                        {u \in {t} : job[t].op \in {"revoke", "lose", "rotate"}}
    BY <2>0 DEF DeviceEvents
  <2>8. \A u \in DeviceEvents : u \in effect /\ job[u].op # "sync"
    BY DEF DeviceEvents
  <2>9. CASE job[t].op \in {"revoke", "lose", "rotate"}
    <3>1. device'.by = t /\ t \in DeviceEvents'
      BY <2>3, <2>7, <2>9
    <3>2. ASSUME NEW u \in DeviceEvents' PROVE SeqOf(u)' <= SeqOf(device.by)'
      <4>1. CASE u = t
        <5>1. SeqOf(t)' \in Nat /\ SeqOf(device.by)' = SeqOf(t)'
          BY <2>2, <2>9, <3>1
        <5> QED
          BY <4>1, <5>1
      <4>2. CASE u # t
        <5>1. u \in DeviceEvents
          BY <2>7, <3>2, <4>2
        <5>2. /\ SeqOf(u)' = SeqOf(u) /\ SeqOf(u) < SeqOf(t)'
              /\ SeqOf(u) \in Nat /\ SeqOf(t)' \in Nat
          BY <2>2, <2>8, <2>9, <5>1
        <5>3. SeqOf(device.by)' = SeqOf(t)'
          BY <3>1
        <5> QED
          BY <5>2, <5>3
      <4> QED
        BY <4>1, <4>2
    <3> QED
      BY <2>1, <2>4, <2>6, <3>1, <3>2 DEF RowsInv, KindsMatch
  <2>10. CASE job[t].op \notin {"revoke", "lose", "rotate"}
    <3>1. device'.by = device.by /\ DeviceEvents' = DeviceEvents
      BY <2>3, <2>7, <2>10
    <3>2. ASSUME NEW u \in DeviceEvents PROVE SeqOf(u)' <= SeqOf(device.by)'
      <4>1. device.by \in DeviceEvents
        BY <1>0, <3>2 DEF RowsInv
      <4>2. SeqOf(u)' = SeqOf(u) /\ SeqOf(device.by)' = SeqOf(device.by)
        BY <2>2, <2>8, <3>1, <3>2, <4>1
      <4> QED
        BY <1>0, <3>2, <4>2 DEF RowsInv
    <3> QED
      BY <1>0, <2>1, <2>4, <2>6, <3>1, <3>2 DEF RowsInv, KindsMatch
  <2> QED
    BY <2>9, <2>10
<1> QED
  BY <1>1, <1>2, <1>3, <1>4, StepsOf

\* The invariant of the log and its rows.
LEMMA HistoryInvariant == RoutesSpec => []HistoryIInv
<1>1. RoutesInit => HistoryIInv
  <2>1. RoutesInit => RoutesIInv /\ LogInv
    BY RoutesInitial, LogInitial DEF RoutesInit
  <2>2. RoutesInit => RowsInv
    BY DEF RoutesInit, RowsInv, KindsMatch, Init, Idle, DeviceEvents
  <2> QED
    BY <2>1, <2>2 DEF HistoryIInv
<1>2. HistoryIInv /\ [RoutesNext]_allVars => HistoryIInv'
  <2>1. HistoryIInv /\ [RoutesNext]_allVars => RoutesIInv'
    BY RoutesInductive DEF HistoryIInv
  <2>2. HistoryIInv /\ [RoutesNext]_allVars => LogInv'
    BY RoutesStep, LogStep DEF HistoryIInv, RoutesIInv
  <2> QED
    BY <2>1, <2>2, RowsStep DEF HistoryIInv
<1> QED
  BY <1>1, <1>2, PTL DEF RoutesSpec

\* The events of a route and its rows are committed together or not at all,
\* whichever events of a queue fail, before or in their flush; and the log tells
\* the bundles and the last change of the device in their order, for any number
\* of routes.
THEOREM LogTellsHistoryCorrect == RoutesSpec => []LogTellsHistory
<1>1. HistoryIInv => LogTellsHistory
  <2> SUFFICES ASSUME HistoryIInv PROVE LogTellsHistory
    OBVIOUS
  <2>1. RecordedWithEffect
    <3> SUFFICES ASSUME NEW t \in Txns
                 PROVE  /\ t \in effect <=> txn[t].pc = "committed"
                        /\ Cardinality(EventsOf(t)) =
                              (IF t \in effect THEN txn[t].accepted ELSE 0)
                        /\ t \in effect /\ txn[t].kind # "sync" => txn[t].accepted = 1
      BY DEF RecordedWithEffect
    <3>1. Filed(t) /\ txn[t] \in TxnStates
      BY DEF HistoryIInv, LogInv, RoutesIInv, IInv, TypeOK, TxnStates
    <3>2. t \notin effect => EventsOf(t) = {}
      BY DEF HistoryIInv, LogInv, EventsOf
    <3>3. t \in effect /\ txn[t].kind # "sync" => txn[t].accepted = 1
      BY <3>1 DEF Filed, TxnStates
    <3>4. Cardinality(EventsOf(t)) = (IF t \in effect THEN txn[t].accepted ELSE 0)
      BY <3>1, <3>2, FS_EmptySet DEF Filed
    <3> QED
      BY <3>1, <3>3, <3>4 DEF Filed
  <2>2. Free \notin DeviceEvents
    BY TxnAssumption DEF DeviceEvents, HistoryIInv, RoutesIInv, IInv, TypeOK
  <2> QED
    BY <2>1, <2>2 DEF HistoryIInv, RowsInv, LogTellsHistory
<1> QED
  BY <1>1, HistoryInvariant, PTL
=============================================================================
