------------------------- MODULE GatewayQuotaProofs -------------------------
(***************************************************************************)
(* Proofs about GatewayQuota, for every set of students and invocations,   *)
(* every price, cap and length of day.                                     *)
(***************************************************************************)
EXTENDS GatewayQuota, FiniteSetTheorems, TLAPS

\* The day of a tick is a natural number (_today).
LEMMA DayIsNat == ASSUME NEW t \in Nat PROVE Day(t) \in Nat
  BY TimeType DEF Day

\* A reservation costs a natural number of units (_reservation_cost).
LEMMA ReservationCostIsNat == ASSUME NEW b \in Nat PROVE ReservationCost(b) \in Nat
  <1>1. Max2(PriceIn, PriceOut) \in Nat
    BY PricesType DEF Max2
  <1> QED BY <1>1, SMTT(30) DEF ReservationCost

\* So does a reported usage (reconcile_usage).
LEMMA CostIsNat ==
  ASSUME NEW u \in [input : Nat, output : Nat] PROVE Cost(u) \in Nat /\ Tokens(u) \in Nat
  <1>1. u.input * PriceIn \in Nat /\ u.output * PriceOut \in Nat
    BY PricesType, SMTT(30)
  <1> QED BY <1>1 DEF Cost, Tokens

\* A page of expired reservations is a finite sequence of invocations
\* (recover_expired_reservations).
LEMMA PagesAreSequences == ASSUME NEW p \in Pages PROVE p \in Seq(Expired)
  <1>1. IsFiniteSet(Expired) 
    BY RequestsFinite, FS_Subset DEF Expired
  <1>2. Cardinality(Expired) \in Nat
    BY <1>1, FS_CardinalityType
  <1>3. Min2(RecoveryLimit, Cardinality(Expired)) \in Nat
    BY <1>2, TimeType DEF Min2
  <1> QED BY <1>3 DEF Pages

LEMMA IdleType ==
  ASSUME NEW pc \in Finished \cup {"idle"}, NEW conflict \in BOOLEAN
  PROVE  /\ Idle \in Invocation
         /\ [Idle EXCEPT !.pc = pc] \in Invocation
         /\ [Idle EXCEPT !.pc = pc, !.conflict = conflict] \in Invocation
  <1>1. FreshStudent \in StudentItem
    BY DEF FreshStudent, StudentItem
  <1>2. <<>> \in Seq(Requests \X Stored)
    OBVIOUS
  <1> QED BY <1>1, <1>2 DEF Idle, Invocation

\* The last step of an invocation keeps the type of the locals.
LEMMA EndType ==
  ASSUME TypeOK, NEW r \in Requests, NEW pc \in Finished, End(r, pc)
  PROVE  inv' \in [Requests -> Invocation]
  <1>1. [Idle EXCEPT !.pc = pc] \in Invocation
    BY IdleType
  <1> QED BY <1>1 DEF End, TypeOK

\* Replacing the locals of one invocation.
LEMMA InvType ==
  ASSUME TypeOK, NEW r \in Requests, NEW v \in Invocation, inv' = [inv EXCEPT ![r] = v]
  PROVE  inv' \in [Requests -> Invocation]
  BY DEF TypeOK

\* The items and locals of one invocation, taken out of the functions.
LEMMA ElementTypes ==
  ASSUME TypeOK, NEW r \in Requests
  PROVE  /\ inv[r] \in Invocation
         /\ res[r] \in ReservationItem
         /\ bill[r] \in [input : Nat, output : Nat]
         /\ StudentOf[r] \in Students
         /\ student[StudentOf[r]] \in StudentItem
  BY StudentOfType DEF TypeOK

\* The numbers among them.
LEMMA ElementNumbers ==
  ASSUME TypeOK, NEW r \in Requests
  PROVE  /\ inv[r].budget \in Nat /\ inv[r].readAt \in Nat /\ inv[r].start \in Nat
         /\ inv[r].attempt \in {1, 2}
         /\ res[r].budget \in Nat /\ res[r].day \in Nat /\ res[r].expires \in Nat
         /\ res[r].status \in Stored \cup Consumed \cup {"NONE"}
         /\ inv[r].budget \in Budgets \cup {0} /\ res[r].budget \in Budgets \cup {0}
         /\ Cost(bill[r]) \in Nat /\ Tokens(bill[r]) \in Nat
         /\ student[StudentOf[r]].total \in Int /\ student[StudentOf[r]].today \in Int
         /\ student[StudentOf[r]].day \in Nat
  <1>1. inv[r] \in Invocation /\ res[r] \in ReservationItem /\ student[StudentOf[r]] \in StudentItem
    BY ElementTypes
  <1>2. Cost(bill[r]) \in Nat /\ Tokens(bill[r]) \in Nat
    BY ElementTypes, CostIsNat
  <1>3. inv[r].budget \in Budgets \cup {0} /\ inv[r].readAt \in Nat /\ inv[r].start \in Nat
        /\ inv[r].attempt \in {1, 2}
    BY <1>1 DEF Invocation
  <1>4. /\ res[r].budget \in Budgets \cup {0} /\ res[r].day \in Nat /\ res[r].expires \in Nat
        /\ res[r].status \in Stored \cup Consumed \cup {"NONE"}
    BY <1>1 DEF ReservationItem
  <1>5. /\ student[StudentOf[r]].total \in Int /\ student[StudentOf[r]].today \in Int
        /\ student[StudentOf[r]].day \in Nat
    BY <1>1 DEF StudentItem
  <1>6. Budgets \cup {0} \subseteq Nat
    BY BudgetsType
  <1> QED BY <1>2, <1>3, <1>4, <1>5, <1>6

\* Moving an invocation to another program point.
LEMMA PcType ==
  ASSUME TypeOK, NEW r \in Requests, NEW pc \in Running, inv' = [inv EXCEPT ![r].pc = pc]
  PROVE  inv' \in [Requests -> Invocation]
  <1>1. [inv[r] EXCEPT !.pc = pc] \in Invocation
    BY ElementTypes DEF Invocation
  <1>2. inv' = [inv EXCEPT ![r] = [inv[r] EXCEPT !.pc = pc]]
    OBVIOUS
  <1> QED BY <1>1, <1>2, InvType

\* Starting on a page, or on the next item of one.
LEMMA PageType ==
  ASSUME NEW v \in Invocation, NEW pc \in Running, NEW page \in Seq(Requests \X Stored)
  PROVE  /\ [v EXCEPT !.pc = pc, !.attempt = 1, !.todo = page] \in Invocation
         /\ [v EXCEPT !.todo = page, !.attempt = 1] \in Invocation
         /\ [v EXCEPT !.pc = pc, !.attempt = 1] \in Invocation
  BY DEF Invocation

\* Moving on to the second transaction of a pair.
LEMMA AttemptType ==
  ASSUME TypeOK, NEW r \in Requests, inv' = [inv EXCEPT ![r].attempt = 2]
  PROVE  inv' \in [Requests -> Invocation]
  <1>1. [inv[r] EXCEPT !.attempt = 2] \in Invocation
    BY ElementTypes DEF Invocation
  <1>2. inv' = [inv EXCEPT ![r] = [inv[r] EXCEPT !.attempt = 2]]
    OBVIOUS
  <1> QED BY <1>1, <1>2, InvType

\* Passing the quick check.
LEMMA CheckedType ==
  ASSUME TypeOK, NEW r \in Requests,
         inv' = [inv EXCEPT ![r] = [@ EXCEPT !.pc = "checked",
                                             !.item = [FreshStudent EXCEPT !.day = inv[r].item.day]]]
  PROVE  inv' \in [Requests -> Invocation]
  <1>1. inv[r] \in Invocation
    BY ElementTypes
  <1>2. [FreshStudent EXCEPT !.day = inv[r].item.day] \in StudentItem
    <2>1. inv[r].item \in StudentItem
      BY <1>1 DEF Invocation
    <2>2. inv[r].item.day \in Nat
      BY <2>1 DEF StudentItem
    <2> QED BY <2>2 DEF FreshStudent, StudentItem
  <1> DEFINE copy == [FreshStudent EXCEPT !.day = inv[r].item.day]
  <1>3. inv' = [inv EXCEPT ![r] = [inv[r] EXCEPT !.pc = "checked", !.item = copy]]
    OBVIOUS
  <1> HIDE DEF copy
  <1>4. [inv[r] EXCEPT !.pc = "checked", !.item = copy] \in Invocation
    BY <1>1, <1>2 DEF Invocation, Running, copy
  <1> QED BY <1>3, <1>4, InvType

\* A cancelled reconciliation: the next transaction is tried, or none is left.
CancelledTo(r) ==
    LET conflict == \/ inv[r].conflict
                    \/ CanSettle(r, "DISPATCHED", ReconcileDelta(r), inv[r].attempt)
    IN  IF LastAttempt(ReconcileDelta(r), inv[r].attempt)
        THEN [Idle EXCEPT !.pc = "late", !.conflict = conflict]
        ELSE [inv[r] EXCEPT !.attempt = 2, !.conflict = conflict]

LEMMA CancelledType ==
  ASSUME TypeOK, NEW r \in Requests, ReconcileCancelled(r)
  PROVE  /\ inv' = [inv EXCEPT ![r] = CancelledTo(r)]
         /\ inv' \in [Requests -> Invocation]
  <1>1. inv' = [inv EXCEPT ![r] = CancelledTo(r)]
    BY DEF ReconcileCancelled, CancelledTo
  <1>2. inv[r] \in Invocation /\ inv[r].conflict \in BOOLEAN
    BY ElementTypes DEF Invocation
  <1>3. ASSUME NEW conflict \in BOOLEAN
        PROVE  /\ [Idle EXCEPT !.pc = "late", !.conflict = conflict] \in Invocation
               /\ [inv[r] EXCEPT !.attempt = 2, !.conflict = conflict] \in Invocation
    BY <1>2, IdleType DEF Invocation, Finished
  <1>4. CanSettle(r, "DISPATCHED", ReconcileDelta(r), inv[r].attempt) \in BOOLEAN
    BY DEF CanSettle
  <1>5. (inv[r].conflict \/ CanSettle(r, "DISPATCHED", ReconcileDelta(r), inv[r].attempt)) \in BOOLEAN
    OBVIOUS
  <1>6. CancelledTo(r) \in Invocation
    BY <1>3, <1>5 DEF CancelledTo
  <1> QED BY <1>1, <1>6, InvType

\* Dropping the head of the page.
LEMMA NextInPageType ==
  ASSUME TypeOK, NEW r \in Requests, inv[r].todo # <<>>, NextInPage(r)
  PROVE  inv' \in [Requests -> Invocation]
  <1> DEFINE rest == Tail(inv[r].todo)
  <1>1. rest \in Seq(Requests \X Stored)
    BY ElementTypes DEF Invocation
  <1>2. [inv[r] EXCEPT !.todo = rest, !.attempt = 1] \in Invocation
    <2>1. inv[r] \in Invocation /\ "called" \in Running
      BY ElementTypes DEF Running
    <2> HIDE DEF rest
    <2> QED BY <1>1, <2>1, PageType
  <1>3. inv' = [inv EXCEPT ![r] = [inv[r] EXCEPT !.todo = rest, !.attempt = 1]]
    BY DEF NextInPage, TypeOK
  <1> QED BY <1>2, <1>3, InvType

\* A settling transaction keeps the types of the three items it updates.
LEMMA SettleType ==
  ASSUME TypeOK, NEW q \in Requests, NEW delta \in Int, NEW tokens \in Nat, NEW cost \in Int,
         NEW attempt \in {1, 2}, NEW outcome \in Consumed,
         Settle(q, delta, tokens, cost, attempt, outcome)
  PROVE  /\ student' \in [Students -> StudentItem]
         /\ pool' \in [cost : Int, tokens : Nat]
         /\ res' \in [Requests -> ReservationItem]
  <1>1. StudentOf[q] \in Students
    BY StudentOfType
  <1>2. res[q].budget \in Nat
    BY ElementNumbers
  <1>3. ReservationCost(res[q].budget) \in Nat
    BY <1>2, ReservationCostIsNat
  <1>4. pool' \in [cost : Int, tokens : Nat]
    BY <1>3 DEF Settle, TypeOK
  <1>5. [res[q] EXCEPT !.status = outcome] \in ReservationItem
    BY ElementTypes DEF ReservationItem
  <1>6. res' = [res EXCEPT ![q] = [res[q] EXCEPT !.status = outcome]]
    BY DEF Settle
  <1>7. res' \in [Requests -> ReservationItem]
    BY <1>5, <1>6 DEF TypeOK
  <1> DEFINE s == student[StudentOf[q]]
             next == [total |-> s.total + delta,
                      today |-> IF attempt = 1 THEN s.today + delta ELSE s.today,
                      day |-> s.day]
  <1>8. next \in StudentItem
    <2>1. s \in StudentItem
      BY ElementTypes
    <2>2. s.total + delta \in Int /\ s.today + delta \in Int /\ s.today \in Int
      BY <2>1 DEF StudentItem
    <2> HIDE DEF s
    <2> QED BY <2>1, <2>2 DEF StudentItem
  <1>9. student' \in [Students -> StudentItem]
    <2>1. student' = [student EXCEPT ![StudentOf[q]] = next]
      BY DEF Settle
    <2> HIDE DEF next
    <2> QED BY <1>1, <1>8, <2>1 DEF TypeOK
  <1> QED BY <1>4, <1>7, <1>9

\* So does writing off an ambiguous reservation.
LEMMA FinalizeType ==
  ASSUME TypeOK, NEW q \in Requests, Finalize(q)
  PROVE  /\ pool' \in [cost : Int, tokens : Nat]
         /\ res' \in [Requests -> ReservationItem]
  <1>1. CASE /\ pool' = [pool EXCEPT !.tokens = @ + res[q].budget]
             /\ res' = [res EXCEPT ![q].status = "AMBIGUOUS"]
    <2>1. res[q].budget \in Nat
      BY ElementNumbers
    <2>2. [res[q] EXCEPT !.status = "AMBIGUOUS"] \in ReservationItem
      BY ElementTypes DEF ReservationItem, Consumed
    <2>3. res' = [res EXCEPT ![q] = [res[q] EXCEPT !.status = "AMBIGUOUS"]]
      BY <1>1
    <2> QED BY <1>1, <2>1, <2>2, <2>3 DEF TypeOK
  <1>2. CASE UNCHANGED <<pool, res>>
    BY <1>2 DEF TypeOK
  <1> QED BY <1>1, <1>2 DEF Finalize

\* The pool and the reservation item written by either reserving transaction.
LEMMA ReserveType ==
  ASSUME TypeOK, NEW r \in Requests, ReservePoolAndItem(r)
  PROVE  /\ pool' \in [cost : Int, tokens : Nat]
         /\ res' \in [Requests -> ReservationItem]
         /\ inv' \in [Requests -> Invocation]
  <1>1. inv[r].budget \in Budgets \cup {0} /\ inv[r].budget \in Nat /\ inv[r].readAt \in Nat
    BY ElementNumbers
  <1>2. ReservationCost(inv[r].budget) \in Nat /\ Today(r) \in Nat
    BY <1>1, ReservationCostIsNat, DayIsNat DEF Today
  <1>3. [status |-> "RESERVED", budget |-> inv[r].budget, day |-> Today(r),
         expires |-> inv[r].readAt + TTL] \in ReservationItem
    BY <1>1, <1>2, TTLOutlivesLambda DEF ReservationItem, Stored
  <1>4. inv' \in [Requests -> Invocation]
    <2>1. FreshStudent \in StudentItem
      BY DEF FreshStudent, StudentItem
    <2>2. [inv[r] EXCEPT !.pc = "reserved", !.attempt = 1, !.item = FreshStudent] \in Invocation
      BY <2>1, ElementTypes DEF Invocation, Running
    <2>3. inv' = [inv EXCEPT ![r] = [inv[r] EXCEPT !.pc = "reserved", !.attempt = 1,
                                                   !.item = FreshStudent]]
      BY DEF ReservePoolAndItem
    <2> QED BY <2>2, <2>3, InvType
  <1> QED BY <1>2, <1>3, <1>4 DEF ReservePoolAndItem, TypeOK

LEMMA TypeInit == Init => TypeOK
  <1> SUFFICES ASSUME Init PROVE TypeOK
    OBVIOUS
  <1>1. Idle \in Invocation
    BY IdleType
  <1>2. FreshStudent \in StudentItem
    BY DEF FreshStudent, StudentItem
  <1>3. NoReservation \in ReservationItem
    BY DEF NoReservation, ReservationItem
  <1>4. NoUsage \in [input : Nat, output : Nat]
    BY DEF NoUsage
  <1>5. student \in [Students -> StudentItem]
    BY <1>2 DEF Init
  <1>6. res \in [Requests -> ReservationItem]
    BY <1>3 DEF Init
  <1>7. inv \in [Requests -> Invocation]
    BY <1>1 DEF Init
  <1>8. bill \in [Requests -> [input : Nat, output : Nat]]
    BY <1>4 DEF Init
  <1>9. now \in Nat
    BY DEF Init
  <1>10. pool \in [cost : Int, tokens : Nat]
    <2>1. pool = [cost |-> 0, tokens |-> 0]
      BY DEF Init
    <2> QED BY <2>1
  <1>11. backdated \in BOOLEAN
    BY DEF Init
  <1> QED BY <1>5, <1>6, <1>7, <1>8, <1>9, <1>10, <1>11 DEF TypeOK

LEMMA TypeNext == TypeOK /\ [Next]_vars => TypeOK'
  <1> SUFFICES ASSUME TypeOK, [Next]_vars PROVE TypeOK'
    OBVIOUS
  <1>1. ASSUME Tick PROVE TypeOK'
    BY <1>1 DEF Tick, TypeOK
  <1>2. ASSUME NEW r \in Requests, Crash(r) PROVE TypeOK'
    BY <1>2, EndType DEF Crash, Finished, TypeOK
  <1>3. ASSUME NEW r \in Requests, NEW b \in Budgets, Authenticate(r, b) PROVE TypeOK'
    <2>1. [inv[r] EXCEPT !.pc = "admitted", !.start = now, !.budget = b,
                         !.item = student[StudentOf[r]]] \in Invocation
      <3>1. now \in Nat
        BY DEF TypeOK
      <3> QED BY <3>1, ElementTypes DEF Running, Invocation
    <2>2. inv' \in [Requests -> Invocation]
      BY <1>3, <2>1, InvType DEF Authenticate
    <2> QED BY <1>3, <2>2 DEF Authenticate, TypeOK
  <1>4. ASSUME NEW r \in Requests, CheckQuotaBefore(r) PROVE TypeOK'
    <2>1. inv' \in [Requests -> Invocation]
      BY <1>4, CheckedType, EndType DEF CheckQuotaBefore, Finished
    <2> QED BY <1>4, <2>1 DEF CheckQuotaBefore, TypeOK
  <1>5. ASSUME NEW r \in Requests, RecoveryQuery(r) PROVE TypeOK'
    <2>1. PICK p \in Pages :
            inv' = [inv EXCEPT ![r] = [@ EXCEPT !.pc = "recovering",
                                                !.attempt = 1,
                                                !.todo = [i \in DOMAIN p |-> <<p[i], res[p[i]].status>>]]]
      BY <1>5 DEF RecoveryQuery
    <2> DEFINE page == [i \in DOMAIN p |-> <<p[i], res[p[i]].status>>]
    <2>2. page \in Seq(Requests \X Stored)
      <3>1. p \in Seq(Expired)
        BY PagesAreSequences
      <3>2. \A q \in Expired : q \in Requests /\ res[q].status \in Stored
        BY DEF Expired
      <3> QED BY <3>1, <3>2
    <2>3. [inv[r] EXCEPT !.pc = "recovering", !.attempt = 1, !.todo = page] \in Invocation
      <3>1. inv[r] \in Invocation /\ "recovering" \in Running
        BY ElementTypes DEF Running
      <3> HIDE DEF page
      <3> QED BY <2>2, <3>1, PageType
    <2>4. inv' = [inv EXCEPT ![r] = [inv[r] EXCEPT !.pc = "recovering", !.attempt = 1, !.todo = page]]
      BY <2>1 DEF TypeOK
    <2>5. inv' \in [Requests -> Invocation]
      BY <2>3, <2>4, InvType
    <2> QED BY <1>5, <2>5 DEF RecoveryQuery, TypeOK
  <1>6. ASSUME NEW r \in Requests, NEW q \in Requests, RecoverRefund(r, q) PROVE TypeOK'
    <2>1. inv' \in [Requests -> Invocation]
      BY <1>6, NextInPageType DEF RecoverRefund, Recovering
    <2>2. -res[q].budget \in Int /\ inv[r].attempt \in {1, 2}
      BY ElementNumbers
    <2>3. Settle(q, -res[q].budget, 0, 0, inv[r].attempt, "REFUNDED")
      BY <1>6 DEF RecoverRefund
    <2>4. /\ student' \in [Students -> StudentItem]
          /\ pool' \in [cost : Int, tokens : Nat]
          /\ res' \in [Requests -> ReservationItem]
      BY <2>2, <2>3, SettleType DEF Consumed
    <2> QED BY <1>6, <2>1, <2>4 DEF RecoverRefund, TypeOK
  <1>7. ASSUME NEW r \in Requests, NEW q \in Requests, RecoverCancelled(r, q) PROVE TypeOK'
    <2>1. inv' \in [Requests -> Invocation]
      BY <1>7, NextInPageType, AttemptType DEF RecoverCancelled, Recovering
    <2> QED BY <1>7, <2>1 DEF RecoverCancelled, TypeOK
  <1>8. ASSUME NEW r \in Requests, NEW q \in Requests, RecoverWriteOff(r, q) PROVE TypeOK'
    <2>1. inv' \in [Requests -> Invocation]
      BY <1>8, NextInPageType DEF RecoverWriteOff, Recovering
    <2> QED BY <1>8, <2>1, FinalizeType DEF RecoverWriteOff, TypeOK
  <1>9. ASSUME NEW r \in Requests, ReadClock(r) PROVE TypeOK'
    <2>1. [inv[r] EXCEPT !.pc = "reserving", !.readAt = now] \in Invocation
      <3>1. now \in Nat
        BY DEF TypeOK
      <3> QED BY <3>1, ElementTypes DEF Running, Invocation
    <2>2. inv' \in [Requests -> Invocation]
      <3>1. CASE End(r, "refused")
        BY <3>1, EndType DEF Finished
      <3>2. CASE inv' = [inv EXCEPT ![r] = [@ EXCEPT !.pc = "reserving", !.readAt = now]]
        <4>1. inv' = [inv EXCEPT ![r] = [inv[r] EXCEPT !.pc = "reserving", !.readAt = now]]
          BY <3>2 DEF TypeOK
        <4> QED BY <2>1, <4>1, InvType
      <3> QED BY <1>9, <3>1, <3>2 DEF ReadClock
    <2> QED BY <1>9, <2>2 DEF ReadClock, TypeOK
  <1>10. ASSUME NEW r \in Requests, ReserveSameDay(r) PROVE TypeOK'
    <2> DEFINE s == student[StudentOf[r]]
               next == [total |-> s.total + inv[r].budget, today |-> s.today + inv[r].budget,
                        day |-> s.day]
    <2>1. s.total + inv[r].budget \in Int /\ s.today + inv[r].budget \in Int
      BY ElementNumbers
    <2>2. next \in StudentItem
      <3>1. s \in StudentItem
        BY ElementTypes
      <3> HIDE DEF s
      <3> QED BY <2>1, <3>1 DEF StudentItem
    <2>3. student' = [student EXCEPT ![StudentOf[r]] = next]
      BY <1>10 DEF ReserveSameDay
    <2>4. student' \in [Students -> StudentItem]
      <3> HIDE DEF next
      <3> QED BY <2>2, <2>3 DEF TypeOK
    <2> QED BY <1>10, <2>4, ReserveType DEF ReserveSameDay, TypeOK
  <1>11. ASSUME NEW r \in Requests, ReserveRollover(r) PROVE TypeOK'
    <2>1. Today(r) \in Nat
      BY ElementNumbers, DayIsNat DEF Today
    <2>2. [total |-> student[StudentOf[r]].total + inv[r].budget,
           today |-> inv[r].budget, day |-> Today(r)] \in StudentItem
      BY <2>1, ElementNumbers DEF StudentItem
    <2>3. student' \in [Students -> StudentItem]
      BY <1>11, <2>2 DEF ReserveRollover, TypeOK
    <2>4. backdated' \in BOOLEAN
      BY <1>11 DEF ReserveRollover, TypeOK
    <2> QED BY <1>11, <2>3, <2>4, ReserveType DEF ReserveRollover, TypeOK
  <1>12. ASSUME NEW r \in Requests, ReserveCancelled(r) PROVE TypeOK'
    <2>1. inv' \in [Requests -> Invocation]
      BY <1>12, EndType, AttemptType DEF ReserveCancelled, Finished
    <2> QED BY <1>12, <2>1 DEF ReserveCancelled, TypeOK
  <1>13. ASSUME NEW r \in Requests, MarkDispatched(r) PROVE TypeOK'
    <2>1. inv' \in [Requests -> Invocation]
      BY <1>13, EndType, PcType DEF MarkDispatched, Finished, Running
    <2>2. [res[r] EXCEPT !.status = "DISPATCHED"] \in ReservationItem
      BY ElementTypes DEF ReservationItem, Stored
    <2>3. res' \in [Requests -> ReservationItem]
      BY <1>13, <2>2 DEF MarkDispatched, TypeOK
    <2> QED BY <1>13, <2>1, <2>3 DEF MarkDispatched, TypeOK
  <1>14. ASSUME NEW r \in Requests, NEW u \in UsagesWithin(inv[r].budget), CallBedrock(r, u)
         PROVE TypeOK'
    <2>1. u \in [input : Nat, output : Nat]
      BY ElementNumbers DEF UsagesWithin
    <2>2. [inv[r] EXCEPT !.pc = "called", !.attempt = 1] \in Invocation
      <3>1. inv[r] \in Invocation /\ "called" \in Running /\ <<>> \in Seq(Requests \X Stored)
        BY ElementTypes DEF Running
      <3> QED BY <3>1, PageType
    <2>3. inv' = [inv EXCEPT ![r] = [inv[r] EXCEPT !.pc = "called", !.attempt = 1]]
      BY <1>14 DEF CallBedrock, TypeOK
    <2>4. inv' \in [Requests -> Invocation]
      BY <2>2, <2>3, InvType
    <2> QED BY <1>14, <2>1, <2>4 DEF CallBedrock, TypeOK
  <1>15. ASSUME NEW r \in Requests, ReconcileUsage(r) PROVE TypeOK'
    <2>1. ReconcileDelta(r) \in Int
      BY ElementNumbers DEF ReconcileDelta
    <2>2. inv' \in [Requests -> Invocation]
      BY <1>15, EndType DEF ReconcileUsage, Finished
    <2>3. Settle(r, ReconcileDelta(r), Tokens(bill[r]), Cost(bill[r]), inv[r].attempt, "SETTLED")
      BY <1>15 DEF ReconcileUsage
    <2>4. inv[r].attempt \in {1, 2} /\ Tokens(bill[r]) \in Nat /\ Cost(bill[r]) \in Int
      BY ElementNumbers
    <2>5. /\ student' \in [Students -> StudentItem]
          /\ pool' \in [cost : Int, tokens : Nat]
          /\ res' \in [Requests -> ReservationItem]
      BY <2>1, <2>3, <2>4, SettleType DEF Consumed
    <2> QED BY <1>15, <2>2, <2>5 DEF ReconcileUsage, TypeOK
  <1>16. ASSUME NEW r \in Requests, ReconcileCancelled(r) PROVE TypeOK'
    <2>1. inv' \in [Requests -> Invocation]
      BY <1>16, CancelledType
    <2> QED BY <1>16, <2>1 DEF ReconcileCancelled, TypeOK
  <1>17. ASSUME NEW r \in Requests, BedrockRaises(r) PROVE TypeOK'
    <2>1. inv' \in [Requests -> Invocation]
      BY <1>17, EndType DEF BedrockRaises, Finished
    <2> QED BY <1>17, <2>1, FinalizeType DEF BedrockRaises, TypeOK
  <1>18. CASE UNCHANGED vars
    BY <1>18 DEF vars, TypeOK
  <1> QED
    BY <1>1, <1>2, <1>3, <1>4, <1>5, <1>6, <1>7, <1>8, <1>9, <1>10, <1>11, <1>12, <1>13,
       <1>14, <1>15, <1>16, <1>17, <1>18 DEF Next, Step

\* Every item and every local variable of the paid-call path keeps its type.
THEOREM TypeCorrect == Spec => []TypeOK
  BY TypeInit, TypeNext, PTL DEF Spec

-----------------------------------------------------------------------------
(* What the updates of the locals do to the fields the invariant reads. *)

LEMMA EndFacts ==
  ASSUME TypeOK, NEW r \in Requests, NEW pc, End(r, pc)
  PROVE  /\ inv'[r].pc = pc
         /\ \A x \in Requests : x # r => inv'[x] = inv[x]
  BY DEF End, TypeOK, Idle

LEMMA PcFacts ==
  ASSUME TypeOK, NEW r \in Requests, NEW pc, inv' = [inv EXCEPT ![r].pc = pc]
  PROVE  /\ inv'[r].pc = pc /\ inv'[r].start = inv[r].start /\ inv'[r].readAt = inv[r].readAt
         /\ inv'[r].budget = inv[r].budget /\ inv'[r].attempt = inv[r].attempt
         /\ inv'[r].conflict = inv[r].conflict
         /\ \A x \in Requests : x # r => inv'[x] = inv[x]
  <1>1. inv[r] \in Invocation
    BY ElementTypes
  <1>2. inv'[r] = [inv[r] EXCEPT !.pc = pc] /\ \A x \in Requests : x # r => inv'[x] = inv[x]
    BY DEF TypeOK
  <1> QED BY <1>1, <1>2 DEF Invocation

LEMMA AttemptFacts ==
  ASSUME TypeOK, NEW r \in Requests, inv' = [inv EXCEPT ![r].attempt = 2]
  PROVE  /\ inv'[r].pc = inv[r].pc /\ inv'[r].start = inv[r].start
         /\ inv'[r].readAt = inv[r].readAt /\ inv'[r].budget = inv[r].budget
         /\ inv'[r].todo = inv[r].todo /\ inv'[r].attempt = 2
         /\ \A x \in Requests : x # r => inv'[x] = inv[x]
  <1>1. inv[r] \in Invocation
    BY ElementTypes
  <1>2. inv'[r] = [inv[r] EXCEPT !.attempt = 2] /\ \A x \in Requests : x # r => inv'[x] = inv[x]
    BY DEF TypeOK
  <1> QED BY <1>1, <1>2 DEF Invocation

LEMMA CheckedFacts ==
  ASSUME TypeOK, NEW r \in Requests,
         inv' = [inv EXCEPT ![r] = [@ EXCEPT !.pc = "checked",
                                             !.item = [FreshStudent EXCEPT !.day = inv[r].item.day]]]
  PROVE  /\ inv'[r].pc = "checked" /\ inv'[r].start = inv[r].start
         /\ inv'[r].budget = inv[r].budget
         /\ \A x \in Requests : x # r => inv'[x] = inv[x]
  <1> DEFINE copy == [FreshStudent EXCEPT !.day = inv[r].item.day]
  <1>1. /\ inv'[r] = [inv[r] EXCEPT !.pc = "checked", !.item = copy]
        /\ \A x \in Requests : x # r => inv'[x] = inv[x]
    BY DEF TypeOK
  <1>2. inv[r] \in Invocation
    BY ElementTypes
  <1> HIDE DEF copy
  <1>3. inv'[r] = [inv[r] EXCEPT !.pc = "checked", !.item = copy]
    BY <1>1 DEF copy
  <1>4. ASSUME NEW v \in Invocation, NEW pc, NEW item
        PROVE  /\ [v EXCEPT !.pc = pc, !.item = item].pc = pc
               /\ [v EXCEPT !.pc = pc, !.item = item].start = v.start
               /\ [v EXCEPT !.pc = pc, !.item = item].budget = v.budget
    BY DEF Invocation
  <1>5. /\ inv'[r].pc = "checked" /\ inv'[r].start = inv[r].start
        /\ inv'[r].budget = inv[r].budget
    <2>1. /\ [inv[r] EXCEPT !.pc = "checked", !.item = copy].pc = "checked"
          /\ [inv[r] EXCEPT !.pc = "checked", !.item = copy].start = inv[r].start
          /\ [inv[r] EXCEPT !.pc = "checked", !.item = copy].budget = inv[r].budget
      BY <1>2, <1>4
    <2> QED BY <1>3, <2>1, Zenon
  <1> QED BY <1>1, <1>5

\* Both outcomes of a cancelled reconciliation.  A first cancellation that is no
\* conflict means that the student is no longer on the reservation's day, and a
\* second one that none was that it is on it again.
LEMMA CancelledFacts ==
  ASSUME TypeOK, NEW r \in Requests, ReconcileCancelled(r), inv[r].pc = "called"
  PROVE  /\ \A x \in Requests : x # r => inv'[x] = inv[x]
         /\ \/ inv'[r].pc = "late" /\ LastAttempt(ReconcileDelta(r), inv[r].attempt)
            \/ /\ inv'[r].pc = "called" /\ inv'[r].start = inv[r].start
               /\ inv'[r].readAt = inv[r].readAt /\ inv'[r].budget = inv[r].budget
               /\ ~LastAttempt(ReconcileDelta(r), inv[r].attempt)
         /\ ~inv'[r].conflict =>
               /\ ~inv[r].conflict
               /\ ~CanSettle(r, "DISPATCHED", ReconcileDelta(r), inv[r].attempt)
  <1> DEFINE conflict == \/ inv[r].conflict
                         \/ CanSettle(r, "DISPATCHED", ReconcileDelta(r), inv[r].attempt)
  <1>1. inv' = [inv EXCEPT ![r] = CancelledTo(r)]
    BY CancelledType
  <1>2. inv'[r] = CancelledTo(r) /\ \A x \in Requests : x # r => inv'[x] = inv[x]
    BY <1>1 DEF TypeOK
  <1>3. CancelledTo(r) = IF LastAttempt(ReconcileDelta(r), inv[r].attempt)
                         THEN [Idle EXCEPT !.pc = "late", !.conflict = conflict]
                         ELSE [inv[r] EXCEPT !.attempt = 2, !.conflict = conflict]
    BY DEF CancelledTo
  <1>4. inv[r] \in Invocation
    BY ElementTypes
  <1>5. CASE LastAttempt(ReconcileDelta(r), inv[r].attempt)
    <2>1. inv'[r] = [Idle EXCEPT !.pc = "late", !.conflict = conflict]
      BY <1>2, <1>3, <1>5
    <2>2. inv'[r].pc = "late" /\ inv'[r].conflict = conflict
      BY <2>1 DEF Idle
    <2> QED BY <1>2, <1>5, <2>2
  <1>6. CASE ~LastAttempt(ReconcileDelta(r), inv[r].attempt)
    <2>1. inv'[r] = [inv[r] EXCEPT !.attempt = 2, !.conflict = conflict]
      BY <1>2, <1>3, <1>6
    <2> HIDE DEF conflict
    <2>2. /\ inv'[r].pc = "called" /\ inv'[r].start = inv[r].start
          /\ inv'[r].readAt = inv[r].readAt /\ inv'[r].budget = inv[r].budget
          /\ inv'[r].conflict = conflict
      BY <1>4, <2>1 DEF Invocation
    <2> QED BY <1>2, <1>6, <2>2 DEF conflict
  <1> QED BY <1>5, <1>6

LEMMA NextInPageFacts ==
  ASSUME TypeOK, NEW r \in Requests, NextInPage(r)
  PROVE  /\ inv'[r].pc = inv[r].pc /\ inv'[r].start = inv[r].start
         /\ inv'[r].readAt = inv[r].readAt /\ inv'[r].budget = inv[r].budget
         /\ inv'[r].todo = Tail(inv[r].todo)
         /\ \A x \in Requests : x # r => inv'[x] = inv[x]
  <1> DEFINE rest == Tail(inv[r].todo)
  <1>1. inv[r] \in Invocation
    BY ElementTypes
  <1>2. inv'[r] = [inv[r] EXCEPT !.todo = rest, !.attempt = 1]
        /\ \A x \in Requests : x # r => inv'[x] = inv[x]
    BY DEF TypeOK, NextInPage
  <1> HIDE DEF rest
  <1>3. /\ inv'[r].pc = inv[r].pc /\ inv'[r].start = inv[r].start
        /\ inv'[r].readAt = inv[r].readAt /\ inv'[r].budget = inv[r].budget
        /\ inv'[r].todo = rest
        /\ \A x \in Requests : x # r => inv'[x] = inv[x]
    BY <1>1, <1>2 DEF Invocation
  <1> QED BY <1>3 DEF rest

\* Consuming a reservation changes nothing of it but its status.
LEMMA StatusFacts ==
  ASSUME TypeOK, NEW q \in Requests, NEW outcome, res' = [res EXCEPT ![q].status = outcome]
  PROVE  /\ res'[q].status = outcome /\ res'[q].expires = res[q].expires
         /\ res'[q].budget = res[q].budget /\ res'[q].day = res[q].day
         /\ \A x \in Requests : x # q => res'[x] = res[x]
  <1>1. res[q] \in ReservationItem
    BY ElementTypes
  <1>2. res'[q] = [res[q] EXCEPT !.status = outcome] /\ \A x \in Requests : x # q => res'[x] = res[x]
    BY DEF TypeOK
  <1> QED BY <1>1, <1>2 DEF ReservationItem

\* Invocation r and reservation q after a transaction that wrote them.
LEMMA ReserveFacts ==
  ASSUME TypeOK, NEW r \in Requests, ReservePoolAndItem(r)
  PROVE  /\ inv'[r].pc = "reserved" /\ inv'[r].start = inv[r].start
         /\ inv'[r].readAt = inv[r].readAt /\ inv'[r].budget = inv[r].budget
         /\ \A x \in Requests : x # r => inv'[x] = inv[x] /\ res'[x] = res[x]
         /\ res'[r].status = "RESERVED" /\ res'[r].budget = inv[r].budget
         /\ res'[r].day = Today(r) /\ res'[r].expires = inv[r].readAt + TTL
  <1>1. /\ inv'[r] = [inv[r] EXCEPT !.pc = "reserved", !.attempt = 1, !.item = FreshStudent]
        /\ \A x \in Requests : x # r => inv'[x] = inv[x]
    BY DEF ReservePoolAndItem, TypeOK
  <1>2. /\ res'[r] = [status |-> "RESERVED", budget |-> inv[r].budget, day |-> Today(r),
                      expires |-> inv[r].readAt + TTL]
        /\ \A x \in Requests : x # r => res'[x] = res[x]
    BY DEF ReservePoolAndItem, TypeOK
  <1>3. /\ inv'[r].pc = "reserved" /\ inv'[r].start = inv[r].start
        /\ inv'[r].readAt = inv[r].readAt /\ inv'[r].budget = inv[r].budget
        /\ \A x \in Requests : x # r => inv'[x] = inv[x]
    BY <1>1, ElementTypes DEF Invocation
  <1>4. /\ res'[r].status = "RESERVED" /\ res'[r].budget = inv[r].budget
        /\ res'[r].day = Today(r) /\ res'[r].expires = inv[r].readAt + TTL
    BY <1>2
  <1> QED BY <1>2, <1>3, <1>4

-----------------------------------------------------------------------------
(* Lifecycle is preserved.  Steps that end an invocation, and steps that    *)
(* consume a reservation of another one, are treated once for all.          *)

LEMMA LifecycleInit == Init => Lifecycle
  <1> SUFFICES ASSUME Init, NEW r \in Requests
               PROVE  InTime(r) /\ ItemOfPc(r) /\ PcOfItem(r) /\ PageExpired(r)
    BY DEF Lifecycle
  <1>1. inv[r] = Idle /\ res[r] = NoReservation /\ bill[r] = NoUsage
    BY DEF Init
  <1>2. inv[r].pc = "idle" /\ res[r].status = "NONE"
    BY <1>1 DEF Idle, NoReservation
  <1> QED BY <1>1, <1>2 DEF InTime, ItemOfPc, PcOfItem, PageExpired, Running, Holding, Unreserved

LEMMA LifecycleEnd ==
  ASSUME TypeOK, Lifecycle, NEW r \in Requests, NEW pc \in Finished, End(r, pc),
         UNCHANGED <<now, res, bill>>,
         res[r].status \in {"RESERVED", "REFUNDED"} => pc = "crashed", pc # "late"
  PROVE  Lifecycle'
  <1> SUFFICES ASSUME NEW x \in Requests
               PROVE  InTime(x)' /\ ItemOfPc(x)' /\ PcOfItem(x)' /\ PageExpired(x)'
    BY DEF Lifecycle
  <1>1. CASE x = r
    <2>1. inv'[r].pc = pc /\ pc \notin Running \cup Holding \cup Unreserved \cup {"late"}
      BY EndFacts DEF Finished, Running, Holding, Unreserved
    <2>2. InTime(r)' /\ ItemOfPc(r)' /\ PageExpired(r)'
      BY <2>1 DEF InTime, ItemOfPc, PageExpired, Running, Holding, Unreserved
    <2>3. PcOfItem(r)'
      BY <2>1 DEF PcOfItem, Lifecycle, Unreserved, Running, Holding
    <2> QED BY <1>1, <2>2, <2>3
  <1>2. CASE x # r
    <2>1. inv'[x] = inv[x]
      BY <1>2, EndFacts
    <2> QED BY <2>1 DEF Lifecycle, InTime, ItemOfPc, PcOfItem, PageExpired
  <1> QED BY <1>1, <1>2

\* A step that only moves invocation r, whose own part it keeps.
LEMMA LifecycleLocal ==
  ASSUME TypeOK, Lifecycle, NEW r \in Requests, UNCHANGED <<now, res>>,
         \A x \in Requests : x # r => inv'[x] = inv[x] /\ bill'[x] = bill[x],
         InTime(r)', ItemOfPc(r)', PcOfItem(r)', PageExpired(r)'
  PROVE  Lifecycle'
  <1> SUFFICES ASSUME NEW x \in Requests, x # r
               PROVE  InTime(x)' /\ ItemOfPc(x)' /\ PcOfItem(x)' /\ PageExpired(x)'
    BY DEF Lifecycle
  <1> QED BY DEF Lifecycle, InTime, ItemOfPc, PcOfItem, PageExpired

\* A step of recoverer r that consumes the expired reservation q.  The
\* invocation of q is over: a running one's reservation has not expired.
LEMMA LifecycleRecover ==
  ASSUME TypeOK, Lifecycle, NEW r \in Requests, NEW q \in Requests, NEW status,
         Recovering(r, q, status), NextInPage(r), UNCHANGED <<now, bill>>,
         \/ res[q].status = "RESERVED" /\ res' = [res EXCEPT ![q].status = "REFUNDED"]
         \/ res[q].status = "DISPATCHED" /\ res' = [res EXCEPT ![q].status = "AMBIGUOUS"]
         \/ UNCHANGED res
  PROVE  Lifecycle'
  <1> SUFFICES ASSUME NEW x \in Requests
               PROVE  InTime(x)' /\ ItemOfPc(x)' /\ PcOfItem(x)' /\ PageExpired(x)'
    BY DEF Lifecycle
  <1>1. inv[r].pc = "recovering" /\ inv[r].todo # <<>> /\ inv[r].todo \in Seq(Requests \X Stored)
    <2>1. inv[r].todo \in Seq(Requests \X Stored)
      BY ElementTypes DEF Invocation
    <2> QED BY <2>1 DEF Recovering, At
  <1>2. res[q].status # "NONE" /\ res[q].expires <= now
    <2>1. 1 \in DOMAIN inv[r].todo /\ inv[r].todo[1] = <<q, status>>
      BY <1>1 DEF Recovering
    <2> QED BY <1>1, <2>1 DEF Lifecycle, PageExpired
  <1>3. /\ inv'[x].pc = inv[x].pc /\ inv'[x].start = inv[x].start
        /\ inv'[x].readAt = inv[x].readAt /\ inv'[x].budget = inv[x].budget
    BY NextInPageFacts
  <1>4. /\ res'[x].expires = res[x].expires /\ res'[x].budget = res[x].budget
        /\ res[x].status # "NONE" => res'[x].status # "NONE"
        /\ x # q => res'[x] = res[x]
    BY StatusFacts
  <1>5. inv[q].pc \notin Holding \cup Unreserved
    <2>1. SUFFICES ASSUME inv[q].pc \in Holding PROVE FALSE
      BY <1>2 DEF Lifecycle, ItemOfPc
    <2>2. res[q].expires = inv[q].readAt + TTL /\ inv[q].start <= inv[q].readAt
          /\ now <= inv[q].start + LambdaTicks
      BY <2>1 DEF Lifecycle, InTime, ItemOfPc, Holding, Running
    <2>3. inv[q].start \in Nat /\ inv[q].readAt \in Nat /\ now \in Nat
      BY ElementNumbers DEF TypeOK
    <2> QED BY <1>2, <2>2, <2>3, TTLOutlivesLambda, TimeType
  <1>6. InTime(x)'
    BY <1>3 DEF Lifecycle, InTime
  <1>7. ItemOfPc(x)'
    <2>1. CASE x = q
      <3>1. inv[q].pc = "late" => res[q].status \in {"DISPATCHED", "AMBIGUOUS"}
        BY DEF Lifecycle, ItemOfPc
      <3>2. inv[q].pc = "late" => res'[q].status \in {"DISPATCHED", "AMBIGUOUS"}
        BY <3>1, StatusFacts
      <3> QED BY <2>1, <1>3, <1>5, <3>2 DEF ItemOfPc, Holding, Unreserved
    <2>2. CASE x # q
      BY <2>2, <1>3, <1>4 DEF Lifecycle, ItemOfPc
    <2> QED BY <2>1, <2>2
  <1>8. PcOfItem(x)'
    <2>1. CASE x = q
      <3>1. inv'[q].pc = inv[q].pc /\ inv'[q].pc \notin Holding \cup Unreserved
        BY <2>1, <1>3, <1>5
      <3>2. res'[q].status \in {"REFUNDED", "AMBIGUOUS", res[q].status}
        BY StatusFacts
      <3>3. res'[q].status = "REFUNDED" => res[q].status \in {"RESERVED", "REFUNDED"}
        BY StatusFacts
      <3>4. res'[q].status = "RESERVED" => res[q].status = "RESERVED"
        BY <3>2
      <3> QED BY <2>1, <3>1, <3>3, <3>4 DEF Lifecycle, PcOfItem, Holding, Unreserved
    <2>2. CASE x # q
      BY <2>2, <1>3, <1>4 DEF Lifecycle, PcOfItem
    <2> QED BY <2>1, <2>2
  <1>9. PageExpired(x)'
    <2>1. \A y \in Requests : res[y].status # "NONE" /\ res[y].expires <= now
                             => res'[y].status # "NONE" /\ res'[y].expires <= now'
      BY StatusFacts
    <2>2. CASE x # r
      <3>1. inv'[x] = inv[x] /\ inv[x].todo \in Seq(Requests \X Stored)
        BY <2>2, NextInPageFacts, ElementTypes DEF Invocation
      <3> QED BY <2>1, <3>1 DEF Lifecycle, PageExpired
    <2>3. CASE x = r
      <3> DEFINE page == inv[r].todo
      <3>1. inv'[r].todo = Tail(page)
        BY NextInPageFacts
      <3>2. page \in Seq(Requests \X Stored) /\ page # <<>>
        BY <1>1
      <3>3. \A i \in DOMAIN page : res[page[i][1]].status # "NONE" /\ res[page[i][1]].expires <= now
        BY <1>1 DEF Lifecycle, PageExpired
      <3> HIDE DEF page
      <3>4. \A i \in DOMAIN Tail(page) : i + 1 \in DOMAIN page /\ Tail(page)[i] = page[i + 1]
        BY <3>2
      <3>5. ASSUME NEW i \in DOMAIN Tail(page)
            PROVE  res'[Tail(page)[i][1]].status # "NONE" /\ res'[Tail(page)[i][1]].expires <= now'
        <4>1. page[i + 1] \in Requests \X Stored
          BY <3>2, <3>4
        <4>2. page[i + 1][1] \in Requests
          BY <4>1
        <4> QED BY <2>1, <3>3, <3>4, <4>2
      <3> QED BY <2>3, <3>1, <3>5 DEF PageExpired
    <2> QED BY <2>2, <2>3
  <1> QED BY <1>6, <1>7, <1>8, <1>9

LEMMA LifecycleNext == TypeOK /\ Lifecycle /\ [Next]_vars => Lifecycle'
  <1> SUFFICES ASSUME TypeOK, Lifecycle, [Next]_vars PROVE Lifecycle'
    OBVIOUS
  <1> USE DEF At
  <1>t. now \in Nat
    BY DEF TypeOK
  <1>L. ASSUME NEW r \in Requests PROVE InTime(r) /\ ItemOfPc(r) /\ PcOfItem(r) /\ PageExpired(r)
    BY DEF Lifecycle
  <1>1. ASSUME Tick PROVE Lifecycle'
    <2> SUFFICES ASSUME NEW x \in Requests
                 PROVE  InTime(x)' /\ ItemOfPc(x)' /\ PcOfItem(x)' /\ PageExpired(x)'
      BY DEF Lifecycle
    <2>1. now' = now + 1 /\ UNCHANGED <<res, inv, bill>>
      BY <1>1 DEF Tick
    <2>2. inv[x].pc \in Running => now < inv[x].start + LambdaTicks
      BY <1>1 DEF Tick
    <2>3. inv[x].start \in Nat /\ inv[x].readAt \in Nat
      BY ElementNumbers
    <2>4. InTime(x)'
      BY <1>t, <1>L, <2>1, <2>2, <2>3, TimeType DEF InTime
    <2>5. ItemOfPc(x)' /\ PcOfItem(x)'
      BY <1>L, <2>1 DEF ItemOfPc, PcOfItem
    <2>6. PageExpired(x)'
      <3> SUFFICES ASSUME inv[x].pc = "recovering", NEW i \in DOMAIN inv[x].todo
                   PROVE  res[inv[x].todo[i][1]].status # "NONE" /\ res[inv[x].todo[i][1]].expires <= now + 1
        BY <2>1 DEF PageExpired
      <3>1. inv[x].todo \in Seq(Requests \X Stored)
        BY ElementTypes DEF Invocation
      <3>2. inv[x].todo[i][1] \in Requests
        BY <3>1
      <3>3. res[inv[x].todo[i][1]].expires \in Nat
        BY <3>2, ElementNumbers
      <3> QED BY <1>t, <1>L, <3>3 DEF PageExpired
    <2> QED BY <2>4, <2>5, <2>6
  <1>2. ASSUME NEW r \in Requests, Crash(r) PROVE Lifecycle'
    BY <1>2, LifecycleEnd DEF Crash, Finished
  <1>3. ASSUME NEW r \in Requests, NEW b \in Budgets, Authenticate(r, b) PROVE Lifecycle'
    <2>1. /\ inv'[r] = [inv[r] EXCEPT !.pc = "admitted", !.start = now, !.budget = b,
                                     !.item = student[StudentOf[r]]]
          /\ \A x \in Requests : x # r => inv'[x] = inv[x]
      BY <1>3 DEF Authenticate, TypeOK
    <2>2. inv'[r].pc = "admitted" /\ inv'[r].start = now
      BY <2>1, ElementTypes DEF Invocation
    <2>3. UNCHANGED <<now, res, bill>> /\ inv[r].pc = "idle"
      BY <1>3 DEF Authenticate
    <2>4. InTime(r)' /\ ItemOfPc(r)' /\ PcOfItem(r)' /\ PageExpired(r)'
      BY <1>t, <1>L, <2>2, <2>3, TimeType DEF InTime, ItemOfPc, PcOfItem, PageExpired, Unreserved, Holding
    <2> QED BY <2>1, <2>3, <2>4, LifecycleLocal
  <1>4. ASSUME NEW r \in Requests, CheckQuotaBefore(r) PROVE Lifecycle'
    <2>1. inv[r].pc = "admitted" /\ UNCHANGED <<now, res, bill>>
      BY <1>4 DEF CheckQuotaBefore
    <2>2. CASE End(r, "refused")
      BY <1>L, <2>1, <2>2, LifecycleEnd DEF Finished, PcOfItem
    <2>3. CASE inv' = [inv EXCEPT ![r] = [@ EXCEPT !.pc = "checked",
                                      !.item = [FreshStudent EXCEPT !.day = inv[r].item.day]]]
      <3>0. /\ inv'[r].pc = "checked" /\ inv'[r].start = inv[r].start
            /\ \A x \in Requests : x # r => inv'[x] = inv[x]
        BY <2>3, CheckedFacts
      <3>1. InTime(r)' /\ ItemOfPc(r)' /\ PcOfItem(r)' /\ PageExpired(r)'
        BY <1>L, <2>1, <3>0
           DEF InTime, ItemOfPc, PcOfItem, PageExpired, Unreserved, Holding, Running
      <3> QED BY <2>1, <3>0, <3>1, LifecycleLocal
    <2> QED BY <1>4, <2>2, <2>3 DEF CheckQuotaBefore
  <1>5. ASSUME NEW r \in Requests, RecoveryQuery(r) PROVE Lifecycle'
    <2>1. PICK p \in Pages :
            inv' = [inv EXCEPT ![r] = [@ EXCEPT !.pc = "recovering",
                                                !.attempt = 1,
                                                !.todo = [i \in DOMAIN p |-> <<p[i], res[p[i]].status>>]]]
      BY <1>5 DEF RecoveryQuery
    <2> DEFINE page == [i \in DOMAIN p |-> <<p[i], res[p[i]].status>>]
    <2>2. inv[r].pc = "checked" /\ UNCHANGED <<now, res, bill>>
      BY <1>5 DEF RecoveryQuery
    <2>3. \A i \in DOMAIN page : page[i][1] \in Expired
      <3>1. p \in Seq(Expired)
        BY PagesAreSequences
      <3> QED BY <3>1
    <2> HIDE DEF page
    <2>4. /\ inv'[r] = [inv[r] EXCEPT !.pc = "recovering", !.attempt = 1, !.todo = page]
          /\ \A x \in Requests : x # r => inv'[x] = inv[x]
      BY <2>1 DEF TypeOK, page
    <2>5. /\ inv'[r].pc = "recovering" /\ inv'[r].start = inv[r].start
          /\ inv'[r].todo = page
      BY <2>4, ElementTypes DEF Invocation
    <2>6. PageExpired(r)'
      BY <2>2, <2>3, <2>5 DEF PageExpired, Expired, Stored
    <2>7. InTime(r)' /\ ItemOfPc(r)' /\ PcOfItem(r)'
      BY <1>L, <2>2, <2>5 DEF InTime, ItemOfPc, PcOfItem, Unreserved, Holding, Running
    <2> QED BY <2>2, <2>4, <2>6, <2>7, LifecycleLocal
  <1>6. ASSUME NEW r \in Requests, NEW q \in Requests, RecoverRefund(r, q) PROVE Lifecycle'
    BY <1>6, LifecycleRecover DEF RecoverRefund, CanSettle, Settle
  <1>7. ASSUME NEW r \in Requests, NEW q \in Requests, RecoverCancelled(r, q) PROVE Lifecycle'
    <2>1. Recovering(r, q, "RESERVED") /\ UNCHANGED <<now, res, bill>>
      BY <1>7 DEF RecoverCancelled
    <2>2. CASE NextInPage(r)
      BY <2>1, <2>2, LifecycleRecover
    <2>3. CASE inv' = [inv EXCEPT ![r].attempt = 2]
      <3>1. InTime(r)' /\ ItemOfPc(r)' /\ PcOfItem(r)' /\ PageExpired(r)'
        BY <1>L, <2>1, <2>3, AttemptFacts DEF InTime, ItemOfPc, PcOfItem, PageExpired
      <3> QED BY <2>1, <2>3, <3>1, AttemptFacts, LifecycleLocal
    <2> QED BY <1>7, <2>2, <2>3 DEF RecoverCancelled
  <1>8. ASSUME NEW r \in Requests, NEW q \in Requests, RecoverWriteOff(r, q) PROVE Lifecycle'
    BY <1>8, LifecycleRecover DEF RecoverWriteOff, Finalize
  <1>9. ASSUME NEW r \in Requests, ReadClock(r) PROVE Lifecycle'
    <2>1. inv[r].pc = "recovering" /\ UNCHANGED <<now, res, bill>>
      BY <1>9 DEF ReadClock
    <2>2. CASE End(r, "refused")
      BY <1>L, <2>1, <2>2, LifecycleEnd DEF Finished, ItemOfPc, Unreserved
    <2>3. CASE inv' = [inv EXCEPT ![r] = [@ EXCEPT !.pc = "reserving", !.readAt = now]]
      <3>1. /\ inv'[r] = [inv[r] EXCEPT !.pc = "reserving", !.readAt = now]
            /\ \A x \in Requests : x # r => inv'[x] = inv[x]
        BY <2>3 DEF TypeOK
      <3>2. inv'[r].pc = "reserving" /\ inv'[r].start = inv[r].start /\ inv'[r].readAt = now
        BY <3>1, ElementTypes DEF Invocation
      <3>3. InTime(r)' /\ ItemOfPc(r)' /\ PcOfItem(r)' /\ PageExpired(r)'
        BY <1>L, <1>t, <2>1, <3>2
           DEF InTime, ItemOfPc, PcOfItem, PageExpired, Unreserved, Holding, Running
      <3> QED BY <2>1, <3>1, <3>3, LifecycleLocal
    <2> QED BY <1>9, <2>2, <2>3 DEF ReadClock
  <1>10. ASSUME NEW r \in Requests, ReserveSameDay(r) \/ ReserveRollover(r) PROVE Lifecycle'
    <2>1. inv[r].pc = "reserving" /\ ReservePoolAndItem(r) /\ UNCHANGED <<now, bill>>
      BY <1>10 DEF ReserveSameDay, ReserveRollover
    <2>2. res[r].status = "NONE"
      BY <1>L, <2>1 DEF ItemOfPc, Unreserved
    <2> SUFFICES ASSUME NEW x \in Requests
                 PROVE  InTime(x)' /\ ItemOfPc(x)' /\ PcOfItem(x)' /\ PageExpired(x)'
      BY DEF Lifecycle
    <2>3. CASE x = r
      BY <1>L, <2>1, <2>3, ReserveFacts
         DEF InTime, ItemOfPc, PcOfItem, PageExpired, Unreserved, Holding, Running
    <2>4. CASE x # r
      <3>1. inv'[x] = inv[x] /\ res'[x] = res[x]
        BY <2>1, <2>4, ReserveFacts
      <3>2. InTime(x)' /\ ItemOfPc(x)' /\ PcOfItem(x)'
        BY <1>L, <2>1, <3>1 DEF InTime, ItemOfPc, PcOfItem
      <3>3. PageExpired(x)'
        <4> SUFFICES ASSUME inv[x].pc = "recovering", NEW i \in DOMAIN inv[x].todo
                     PROVE  /\ res'[inv[x].todo[i][1]].status # "NONE"
                            /\ res'[inv[x].todo[i][1]].expires <= now
          BY <2>1, <3>1 DEF PageExpired
        <4>1. inv[x].todo \in Seq(Requests \X Stored)
          BY ElementTypes DEF Invocation
        <4>2. inv[x].todo[i][1] \in Requests
          BY <4>1
        <4>3. res[inv[x].todo[i][1]].status # "NONE" /\ res[inv[x].todo[i][1]].expires <= now
          BY <1>L DEF PageExpired
        <4> QED BY <2>1, <2>2, <4>2, <4>3, ReserveFacts
      <3> QED BY <3>2, <3>3
    <2> QED BY <2>3, <2>4
  <1>12. ASSUME NEW r \in Requests, ReserveCancelled(r) PROVE Lifecycle'
    <2>1. inv[r].pc = "reserving" /\ UNCHANGED <<now, res, bill>>
      BY <1>12 DEF ReserveCancelled
    <2>2. CASE End(r, "refused")
      BY <1>L, <2>1, <2>2, LifecycleEnd DEF Finished, ItemOfPc, Unreserved
    <2>3. CASE inv' = [inv EXCEPT ![r].attempt = 2]
      <3>1. InTime(r)' /\ ItemOfPc(r)' /\ PcOfItem(r)' /\ PageExpired(r)'
        BY <1>L, <2>1, <2>3, AttemptFacts DEF InTime, ItemOfPc, PcOfItem, PageExpired
      <3> QED BY <2>1, <2>3, <3>1, AttemptFacts, LifecycleLocal
    <2> QED BY <1>12, <2>2, <2>3 DEF ReserveCancelled
  <1>13. ASSUME NEW r \in Requests, MarkDispatched(r) PROVE Lifecycle'
    <2>1. inv[r].pc = "reserved" /\ UNCHANGED <<now, bill>> /\ res[r].status = "RESERVED"
      BY <1>13, <1>L DEF MarkDispatched, ItemOfPc
    <2>2. /\ res' = [res EXCEPT ![r].status = "DISPATCHED"]
          /\ inv' = [inv EXCEPT ![r].pc = "dispatched"]
      BY <1>13, <2>1 DEF MarkDispatched
    <2> SUFFICES ASSUME NEW x \in Requests
                 PROVE  InTime(x)' /\ ItemOfPc(x)' /\ PcOfItem(x)' /\ PageExpired(x)'
      BY DEF Lifecycle
    <2>3. CASE x = r
      <3>1. /\ inv'[r].pc = "dispatched" /\ inv'[r].start = inv[r].start
            /\ inv'[r].readAt = inv[r].readAt /\ inv'[r].budget = inv[r].budget
        BY <2>2, PcFacts
      <3>2. /\ res'[r].status = "DISPATCHED" /\ res'[r].expires = res[r].expires
            /\ res'[r].budget = res[r].budget
        BY <2>2, StatusFacts
      <3>3. InTime(r)' /\ PageExpired(r)'
        BY <1>L, <2>1, <3>1 DEF InTime, PageExpired, Holding, Running
      <3>4. ItemOfPc(r)'
        BY <1>L, <2>1, <3>1, <3>2 DEF ItemOfPc, Unreserved, Holding
      <3>5. PcOfItem(r)'
        BY <1>L, <2>1, <3>1, <3>2 DEF PcOfItem, Unreserved
      <3> QED BY <2>3, <3>3, <3>4, <3>5
    <2>4. CASE x # r
      <3>1. inv'[x] = inv[x] /\ res'[x] = res[x]
        BY <2>2, <2>4, PcFacts, StatusFacts
      <3>2. InTime(x)' /\ ItemOfPc(x)' /\ PcOfItem(x)'
        BY <1>L, <2>1, <3>1 DEF InTime, ItemOfPc, PcOfItem
      <3>3. \A y \in Requests : res[y].status # "NONE" => res'[y].status # "NONE"
                               /\ res'[y].expires = res[y].expires
        BY <2>2, StatusFacts
      <3>4. PageExpired(x)'
        <4>1. inv[x].todo \in Seq(Requests \X Stored)
          BY ElementTypes DEF Invocation
        <4> QED BY <1>L, <2>1, <3>1, <3>3, <4>1 DEF PageExpired
      <3> QED BY <3>2, <3>4
    <2> QED BY <2>3, <2>4
  <1>14. ASSUME NEW r \in Requests, NEW u \in UsagesWithin(inv[r].budget), CallBedrock(r, u)
         PROVE Lifecycle'
    <2>1. /\ inv'[r] = [inv[r] EXCEPT !.pc = "called", !.attempt = 1]
          /\ \A x \in Requests : x # r => inv'[x] = inv[x] /\ bill'[x] = bill[x]
          /\ bill'[r] = u
      BY <1>14 DEF CallBedrock, TypeOK
    <2>2. /\ inv'[r].pc = "called" /\ inv'[r].start = inv[r].start
          /\ inv'[r].readAt = inv[r].readAt /\ inv'[r].budget = inv[r].budget
      BY <2>1, ElementTypes DEF Invocation
    <2>3. inv[r].pc = "dispatched" /\ UNCHANGED <<now, res>>
      BY <1>14 DEF CallBedrock
    <2>4. InTime(r)' /\ ItemOfPc(r)' /\ PcOfItem(r)' /\ PageExpired(r)'
      BY <1>L, <2>1, <2>2, <2>3
         DEF InTime, ItemOfPc, PcOfItem, PageExpired, Unreserved, Holding, Running
    <2> QED BY <2>1, <2>3, <2>4, LifecycleLocal
  <1>15. ASSUME NEW r \in Requests, NEW outcome \in {"SETTLED", "AMBIGUOUS"}, NEW pc \in {"done", "failed"},
                inv[r].pc = "called", End(r, pc), res' = [res EXCEPT ![r].status = outcome],
                UNCHANGED <<now, bill>>
         PROVE  Lifecycle'
    <2> SUFFICES ASSUME NEW x \in Requests
                 PROVE  InTime(x)' /\ ItemOfPc(x)' /\ PcOfItem(x)' /\ PageExpired(x)'
      BY DEF Lifecycle
    <2>1. CASE x = r
      BY <1>15, <2>1, EndFacts, StatusFacts
         DEF InTime, ItemOfPc, PcOfItem, PageExpired, Unreserved, Holding, Running
    <2>2. CASE x # r
      <3>1. inv'[x] = inv[x] /\ res'[x] = res[x]
        BY <1>15, <2>2, EndFacts, StatusFacts
      <3>2. InTime(x)' /\ ItemOfPc(x)' /\ PcOfItem(x)'
        BY <1>L, <1>15, <3>1 DEF InTime, ItemOfPc, PcOfItem
      <3>3. \A y \in Requests : res[y].status # "NONE" => res'[y].status # "NONE"
                               /\ res'[y].expires = res[y].expires
        BY <1>15, StatusFacts
      <3>4. PageExpired(x)'
        <4>1. inv[x].todo \in Seq(Requests \X Stored)
          BY ElementTypes DEF Invocation
        <4> QED BY <1>L, <1>15, <3>1, <3>3, <4>1 DEF PageExpired
      <3> QED BY <3>2, <3>4
    <2> QED BY <2>1, <2>2
  <1>16. ASSUME NEW r \in Requests, ReconcileUsage(r) PROVE Lifecycle'
    BY <1>16, <1>15 DEF ReconcileUsage, Settle
  <1>17. ASSUME NEW r \in Requests, ReconcileCancelled(r) PROVE Lifecycle'
    <2>1. inv[r].pc = "called" /\ res[r].status = "DISPATCHED" /\ UNCHANGED <<now, res, bill>>
      BY <1>17, <1>L DEF ReconcileCancelled, ItemOfPc
    <2>2. \A x \in Requests : x # r => inv'[x] = inv[x]
      BY <1>17, <2>1, CancelledFacts
    <2>3. InTime(r)' /\ ItemOfPc(r)' /\ PcOfItem(r)' /\ PageExpired(r)'
      <3>1. CASE inv'[r].pc = "late"
        BY <2>1, <3>1 DEF InTime, ItemOfPc, PcOfItem, PageExpired, Unreserved, Holding, Running
      <3>2. CASE /\ inv'[r].pc = "called" /\ inv'[r].start = inv[r].start
                 /\ inv'[r].readAt = inv[r].readAt /\ inv'[r].budget = inv[r].budget
        BY <1>L, <2>1, <3>2 DEF InTime, ItemOfPc, PcOfItem, PageExpired
      <3> QED BY <1>17, <2>1, <3>1, <3>2, CancelledFacts
    <2> QED BY <2>1, <2>2, <2>3, LifecycleLocal
  <1>18. ASSUME NEW r \in Requests, BedrockRaises(r) PROVE Lifecycle'
    <2>1. inv[r].pc = "called" /\ res[r].status = "DISPATCHED"
      BY <1>18, <1>L DEF BedrockRaises, ItemOfPc
    <2>2. CASE UNCHANGED res
      BY <1>18, <2>1, <2>2, LifecycleEnd DEF BedrockRaises, Finished
    <2> QED BY <1>18, <2>1, <2>2, <1>15 DEF BedrockRaises, Finalize
  <1>19. CASE UNCHANGED vars
    BY <1>19 DEF vars, Lifecycle, InTime, ItemOfPc, PcOfItem, PageExpired
  <1> QED
    BY <1>1, <1>2, <1>3, <1>4, <1>5, <1>6, <1>7, <1>8, <1>9, <1>10, <1>12, <1>13, <1>14,
       <1>16, <1>17, <1>18, <1>19 DEF Next, Step

-----------------------------------------------------------------------------
(* The caps.  Only a reservation raises a counter, and its condition leaves *)
(* room; a settlement gives back at least as much as it charges.            *)

\* A usage within the budget costs no more than the reservation.
LEMMA UsageCostBounded ==
  ASSUME NEW b \in Nat, NEW u \in UsagesWithin(b)
  PROVE  Cost(u) <= ReservationCost(b) /\ Tokens(u) <= b
  <1> DEFINE m == Max2(PriceIn, PriceOut)
  <1>1. u.input \in Nat /\ u.output \in Nat /\ u.input + u.output <= b
    BY DEF UsagesWithin, Tokens
  <1>2. m \in Nat /\ PriceIn <= m /\ PriceOut <= m /\ PriceIn \in Nat /\ PriceOut \in Nat
    BY PricesType DEF Max2
  <1> HIDE DEF m
  <1>3. ASSUME NEW i \in Nat, NEW p \in Nat, p <= m PROVE i * p <= i * m
    BY <1>2, <1>3, SMTT(30)
  <1>4. u.input * PriceIn <= u.input * m /\ u.output * PriceOut <= u.output * m
    BY <1>1, <1>2, <1>3
  <1>5. u.input * m + u.output * m = (u.input + u.output) * m
    BY <1>1, <1>2, SMTT(30)
  <1>6. (u.input + u.output) * m <= b * m
    BY <1>1, <1>2, SMTT(30)
  <1>7. /\ u.input * PriceIn \in Nat /\ u.output * PriceOut \in Nat /\ b * m \in Nat
        /\ u.input * m \in Nat /\ u.output * m \in Nat
    BY <1>1, <1>2, SMTT(30)
  <1>8. Cost(u) <= b * m
    BY <1>4, <1>5, <1>6, <1>7 DEF Cost
  <1> QED BY <1>1, <1>8 DEF ReservationCost, Tokens, m

LEMMA SettleKeepsCaps ==
  ASSUME TypeOK, CapsHold, NEW q \in Requests, NEW delta \in Int, NEW tokens \in Nat,
         NEW cost \in Int, NEW attempt \in {1, 2}, NEW outcome,
         delta <= 0, cost <= ReservationCost(res[q].budget),
         Settle(q, delta, tokens, cost, attempt, outcome)
  PROVE  CapsHold'
  <1>1. ReservationCost(res[q].budget) \in Nat /\ pool.cost \in Int
        /\ student[StudentOf[q]].total \in Int
    BY ElementNumbers, ReservationCostIsNat DEF TypeOK
  <1>2. pool'.cost = pool.cost + cost - ReservationCost(res[q].budget)
    BY DEF Settle
  <1>3. pool'.cost <= PoolSoft
    BY <1>1, <1>2, CapsType DEF CapsHold
  <1>4. ASSUME NEW s \in Students PROVE student'[s].total <= MaxTotal
    <2>1. CASE s = StudentOf[q]
      <3>1. student'[s].total = student[s].total + delta
        BY <2>1 DEF Settle, TypeOK
      <3> QED BY <1>1, <2>1, <3>1, CapsType DEF CapsHold
    <2>2. CASE s # StudentOf[q]
      <3>1. student'[s] = student[s]
        BY <2>2 DEF Settle, TypeOK
      <3> QED BY <3>1 DEF CapsHold
    <2> QED BY <2>1, <2>2
  <1> QED BY <1>3, <1>4 DEF CapsHold

LEMMA CapsNext == TypeOK /\ Lifecycle /\ CapsHold /\ [Next]_vars => CapsHold'
  <1> SUFFICES ASSUME TypeOK, Lifecycle, CapsHold, [Next]_vars PROVE CapsHold'
    OBVIOUS
  <1>1. ASSUME UNCHANGED <<pool, student>> PROVE CapsHold'
    BY <1>1 DEF CapsHold
  <1>2. ASSUME NEW r \in Requests, NEW q \in Requests, RecoverRefund(r, q) PROVE CapsHold'
    <2>1. /\ -res[q].budget \in Int /\ -res[q].budget <= 0 /\ inv[r].attempt \in {1, 2}
          /\ 0 <= ReservationCost(res[q].budget)
      BY ElementNumbers, ReservationCostIsNat
    <2>2. Settle(q, -res[q].budget, 0, 0, inv[r].attempt, "REFUNDED")
      BY <1>2 DEF RecoverRefund
    <2> QED BY <2>1, <2>2, SettleKeepsCaps
  <1>3. ASSUME NEW q \in Requests, Finalize(q), UNCHANGED student PROVE CapsHold'
    BY <1>3 DEF Finalize, CapsHold, TypeOK
  <1>4. ASSUME NEW r \in Requests, RoomInTotalAndPool(r), ReservePoolAndItem(r),
               student'[StudentOf[r]].total = student[StudentOf[r]].total + inv[r].budget,
               \A s \in Students : s # StudentOf[r] => student'[s] = student[s]
        PROVE  CapsHold'
    <2>1. /\ ReservationCost(inv[r].budget) \in Nat /\ inv[r].budget \in Nat
          /\ pool.cost \in Int /\ student[StudentOf[r]].total \in Int
      BY ElementNumbers, ReservationCostIsNat DEF TypeOK
    <2>2. pool'.cost = pool.cost + ReservationCost(inv[r].budget)
      BY <1>4 DEF ReservePoolAndItem, TypeOK
    <2>3. pool'.cost <= PoolSoft
      BY <1>4, <2>1, <2>2, CapsType DEF RoomInTotalAndPool
    <2>4. student'[StudentOf[r]].total <= MaxTotal
      BY <1>4, <2>1, CapsType DEF RoomInTotalAndPool
    <2> QED BY <1>4, <2>3, <2>4 DEF CapsHold
  <1>5. ASSUME NEW r \in Requests, ReserveSameDay(r) PROVE CapsHold'
    <2>1. /\ student'[StudentOf[r]].total = student[StudentOf[r]].total + inv[r].budget
          /\ \A s \in Students : s # StudentOf[r] => student'[s] = student[s]
      BY <1>5, StudentOfType DEF ReserveSameDay, TypeOK
    <2> QED BY <1>4, <1>5, <2>1 DEF ReserveSameDay, SameDayCondition
  <1>6. ASSUME NEW r \in Requests, ReserveRollover(r) PROVE CapsHold'
    <2>1. /\ student'[StudentOf[r]].total = student[StudentOf[r]].total + inv[r].budget
          /\ \A s \in Students : s # StudentOf[r] => student'[s] = student[s]
      BY <1>6, StudentOfType DEF ReserveRollover, TypeOK
    <2> QED BY <1>4, <1>6, <2>1 DEF ReserveRollover, RolloverCondition
  <1>7. ASSUME NEW r \in Requests, ReconcileUsage(r) PROVE CapsHold'
    <2>1. bill[r] \in UsagesWithin(inv[r].budget) /\ res[r].budget = inv[r].budget
      BY <1>7 DEF ReconcileUsage, At, Lifecycle, ItemOfPc, Holding
    <2>2. Cost(bill[r]) <= ReservationCost(res[r].budget) /\ Tokens(bill[r]) <= inv[r].budget
      BY <2>1, UsageCostBounded, ElementNumbers
    <2>3. /\ Cost(bill[r]) \in Int /\ Tokens(bill[r]) \in Nat /\ inv[r].attempt \in {1, 2}
          /\ ReconcileDelta(r) \in Int /\ ReconcileDelta(r) <= 0
      BY <2>2, ElementNumbers DEF ReconcileDelta
    <2>4. Settle(r, ReconcileDelta(r), Tokens(bill[r]), Cost(bill[r]), inv[r].attempt, "SETTLED")
      BY <1>7 DEF ReconcileUsage
    <2> QED BY <2>2, <2>3, <2>4, SettleKeepsCaps
  <1>8. ASSUME NEW r \in Requests, Step(r) PROVE CapsHold'
    <2>1. ASSUME NEW b \in Budgets, Authenticate(r, b) PROVE CapsHold'
      BY <1>1, <2>1 DEF Authenticate
    <2>2. ASSUME NEW q \in Requests, RecoverCancelled(r, q) PROVE CapsHold'
      BY <1>1, <2>2 DEF RecoverCancelled
    <2>3. ASSUME NEW q \in Requests, RecoverWriteOff(r, q) PROVE CapsHold'
      BY <1>3, <2>3 DEF RecoverWriteOff
    <2>4. ASSUME NEW u \in UsagesWithin(inv[r].budget), CallBedrock(r, u) PROVE CapsHold'
      BY <1>1, <2>4 DEF CallBedrock
    <2>5. CASE BedrockRaises(r)
      BY <1>3, <2>5 DEF BedrockRaises
    <2>6. CASE \/ CheckQuotaBefore(r) \/ RecoveryQuery(r) \/ ReadClock(r) \/ ReserveCancelled(r)
               \/ MarkDispatched(r) \/ ReconcileCancelled(r)
      BY <1>1, <2>6 DEF CheckQuotaBefore, RecoveryQuery, ReadClock, ReserveCancelled,
                        MarkDispatched, ReconcileCancelled
    <2> QED BY <1>2, <1>5, <1>6, <1>7, <1>8, <2>1, <2>2, <2>3, <2>4, <2>5, <2>6 DEF Step
  <1>9. ASSUME Tick \/ (\E r \in Requests : Crash(r)) \/ UNCHANGED vars PROVE CapsHold'
    BY <1>1, <1>9 DEF Tick, Crash, vars
  <1> QED BY <1>8, <1>9 DEF Next

-----------------------------------------------------------------------------
(* Days.  Only a rollover moves a student's day, and the days matter only   *)
(* while no rollover has moved one backwards.                               *)

\* A step that moves no day, creates no reservation and fails no settlement.
LEMMA DayQuiet ==
  ASSUME TypeOK, \A r \in Requests : DayForward(r), UNCHANGED backdated,
         \A s \in Students : student'[s].day = student[s].day,
         \A x \in Requests : /\ res'[x].day = res[x].day
                             /\ res'[x].status # "NONE" => res[x].status # "NONE"
                             /\ inv'[x].pc = "late" => inv[x].pc = "late" /\ inv'[x] = inv[x]
                             /\ inv'[x].pc = "called" /\ inv'[x].attempt = 2 =>
                                   inv[x].pc = "called" /\ inv'[x] = inv[x]
  PROVE  \A r \in Requests : DayForward(r)'
  BY StudentOfType DEF DayForward

LEMMA SettleKeepsDays ==
  ASSUME TypeOK, NEW q \in Requests, NEW delta \in Int, NEW tokens, NEW cost, NEW attempt \in {1, 2},
         NEW outcome, Settle(q, delta, tokens, cost, attempt, outcome)
  PROVE  \A s \in Students : student'[s].day = student[s].day
  <1> SUFFICES ASSUME NEW s \in Students PROVE student'[s].day = student[s].day
    OBVIOUS
  <1>1. CASE s = StudentOf[q]
    BY <1>1 DEF Settle, TypeOK
  <1>2. CASE s # StudentOf[q]
    BY <1>2 DEF Settle, TypeOK
  <1> QED BY <1>1, <1>2

\* A successful reservation leaves the student on its day.
LEMMA DayReserve ==
  ASSUME TypeOK, \A x \in Requests : DayForward(x), NEW r \in Requests,
         At(r, "reserving"), ReservePoolAndItem(r),
         ~backdated' => ~backdated /\ student[StudentOf[r]].day <= Today(r),
         student'[StudentOf[r]].day = Today(r),
         \A s \in Students : s # StudentOf[r] => student'[s] = student[s]
  PROVE  \A x \in Requests : DayForward(x)'
  <1> SUFFICES ASSUME NEW x \in Requests, ~backdated'
               PROVE  /\ res'[x].status # "NONE" => res'[x].day <= student'[StudentOf[x]].day
                      /\ ~inv'[x].conflict =>
                            /\ inv'[x].pc = "called" /\ inv'[x].attempt = 2 =>
                                  res'[x].day < student'[StudentOf[x]].day
                            /\ inv'[x].pc # "late"
    BY DEF DayForward
  <1>1. Today(r) \in Nat /\ res[x].day \in Nat /\ student[StudentOf[x]].day \in Nat
        /\ StudentOf[x] \in Students
    BY ElementNumbers, ElementTypes, DayIsNat DEF Today
  <1>2. CASE x = r
    <2>1. res'[r].day = Today(r) /\ inv'[r].pc = "reserved"
      BY ReserveFacts
    <2> QED BY <1>1, <1>2, <2>1
  <1>3. CASE x # r
    <2>1. inv'[x] = inv[x] /\ res'[x] = res[x]
      BY <1>3, ReserveFacts
    <2>2. student[StudentOf[x]].day <= student'[StudentOf[x]].day
          /\ student'[StudentOf[x]].day \in Nat
      <3>1. CASE StudentOf[x] = StudentOf[r]
        BY <1>1, <3>1
      <3>2. CASE StudentOf[x] # StudentOf[r]
        BY <1>1, <3>2
      <3> QED BY <3>1, <3>2
    <2> QED BY <1>1, <2>1, <2>2 DEF DayForward
  <1> QED BY <1>2, <1>3

LEMMA DayNext ==
  TypeOK /\ Lifecycle /\ (\A x \in Requests : DayForward(x)) /\ [Next]_vars
    => \A x \in Requests : DayForward(x)'
  <1> SUFFICES ASSUME TypeOK, Lifecycle, \A x \in Requests : DayForward(x), [Next]_vars
               PROVE  \A x \in Requests : DayForward(x)'
    OBVIOUS
  <1> USE DEF At
  <1>1. ASSUME UNCHANGED <<student, res, backdated>>, NEW r \in Requests,
               \A x \in Requests : x # r => inv'[x] = inv[x],
               inv'[r].pc # "late", ~(inv'[r].pc = "called" /\ inv'[r].attempt = 2)
        PROVE  \A x \in Requests : DayForward(x)'
    BY <1>1, DayQuiet
  <1>2. ASSUME NEW r \in Requests, NEW pc \in Finished \ {"late"}, End(r, pc),
               UNCHANGED <<student, res, backdated>>
        PROVE  \A x \in Requests : DayForward(x)'
    BY <1>1, <1>2, EndFacts DEF Finished
  <1>3. ASSUME NEW r \in Requests, NEW q \in Requests, RecoverRefund(r, q)
        PROVE  \A x \in Requests : DayForward(x)'
    <2>1. -res[q].budget \in Int /\ inv[r].attempt \in {1, 2}
      BY ElementNumbers
    <2>2. \A s \in Students : student'[s].day = student[s].day
      BY <1>3, <2>1, SettleKeepsDays DEF RecoverRefund
    <2>3. res' = [res EXCEPT ![q].status = "REFUNDED"] /\ res[q].status = "RESERVED"
      BY <1>3 DEF RecoverRefund, Settle, CanSettle
    <2>4. \A x \in Requests : res'[x].day = res[x].day
                             /\ (res'[x].status # "NONE" => res[x].status # "NONE")
      BY <2>3, StatusFacts
    <2>5. inv[r].pc = "recovering" /\ NextInPage(r) /\ UNCHANGED backdated
      BY <1>3 DEF RecoverRefund, Recovering
    <2>6. \A x \in Requests : inv'[x].pc \in {"late", "called"} =>
                                 inv[x].pc = inv'[x].pc /\ inv'[x] = inv[x]
      BY <2>5, NextInPageFacts
    <2> QED BY <2>2, <2>4, <2>5, <2>6, DayQuiet
  <1>4. ASSUME NEW r \in Requests, NEW q \in Requests, RecoverWriteOff(r, q)
        PROVE  \A x \in Requests : DayForward(x)'
    <2>1. inv[r].pc = "recovering" /\ NextInPage(r) /\ UNCHANGED <<student, backdated>>
      BY <1>4 DEF RecoverWriteOff, Recovering
    <2>2. \/ UNCHANGED res
          \/ res' = [res EXCEPT ![q].status = "AMBIGUOUS"] /\ res[q].status = "DISPATCHED"
      BY <1>4 DEF RecoverWriteOff, Finalize
    <2>3. \A x \in Requests : res'[x].day = res[x].day
                             /\ (res'[x].status # "NONE" => res[x].status # "NONE")
      BY <2>2, StatusFacts
    <2>4. \A x \in Requests : inv'[x].pc \in {"late", "called"} =>
                                 inv[x].pc = inv'[x].pc /\ inv'[x] = inv[x]
      BY <2>1, NextInPageFacts
    <2> QED BY <2>1, <2>3, <2>4, DayQuiet
  <1>5. ASSUME NEW r \in Requests, NEW q \in Requests, RecoverCancelled(r, q)
        PROVE  \A x \in Requests : DayForward(x)'
    <2>1. inv[r].pc = "recovering" /\ UNCHANGED <<student, res, backdated>>
      BY <1>5 DEF RecoverCancelled, Recovering
    <2>2. CASE NextInPage(r)
      BY <1>1, <2>1, <2>2, NextInPageFacts
    <2>3. CASE inv' = [inv EXCEPT ![r].attempt = 2]
      BY <1>1, <2>1, <2>3, AttemptFacts
    <2> QED BY <1>5, <2>2, <2>3 DEF RecoverCancelled
  <1>6. ASSUME NEW r \in Requests, NEW b \in Budgets, Authenticate(r, b)
        PROVE  \A x \in Requests : DayForward(x)'
    <2>1. /\ inv'[r] = [inv[r] EXCEPT !.pc = "admitted", !.start = now, !.budget = b,
                                     !.item = student[StudentOf[r]]]
          /\ \A x \in Requests : x # r => inv'[x] = inv[x]
      BY <1>6 DEF Authenticate, TypeOK
    <2>2. inv'[r].pc = "admitted"
      BY <2>1, ElementTypes DEF Invocation
    <2> QED BY <1>1, <1>6, <2>1, <2>2 DEF Authenticate
  <1>7. ASSUME NEW r \in Requests, CheckQuotaBefore(r) PROVE \A x \in Requests : DayForward(x)'
    <2>1. CASE inv' = [inv EXCEPT ![r] = [@ EXCEPT !.pc = "checked",
                                      !.item = [FreshStudent EXCEPT !.day = inv[r].item.day]]]
      BY <1>1, <1>7, <2>1, CheckedFacts DEF CheckQuotaBefore
    <2> QED BY <1>2, <1>7, <2>1 DEF CheckQuotaBefore, Finished
  <1>8. ASSUME NEW r \in Requests, RecoveryQuery(r) PROVE \A x \in Requests : DayForward(x)'
    <2>1. PICK p \in Pages :
            inv' = [inv EXCEPT ![r] = [@ EXCEPT !.pc = "recovering",
                                                !.attempt = 1,
                                                !.todo = [i \in DOMAIN p |-> <<p[i], res[p[i]].status>>]]]
      BY <1>8 DEF RecoveryQuery
    <2> DEFINE page == [i \in DOMAIN p |-> <<p[i], res[p[i]].status>>]
    <2> HIDE DEF page
    <2>2. /\ inv'[r] = [inv[r] EXCEPT !.pc = "recovering", !.attempt = 1, !.todo = page]
          /\ \A x \in Requests : x # r => inv'[x] = inv[x]
      BY <2>1 DEF TypeOK, page
    <2>3. inv'[r].pc = "recovering"
      BY <2>2, ElementTypes DEF Invocation
    <2> QED BY <1>1, <1>8, <2>2, <2>3 DEF RecoveryQuery
  <1>9. ASSUME NEW r \in Requests, ReadClock(r) PROVE \A x \in Requests : DayForward(x)'
    <2>1. CASE inv' = [inv EXCEPT ![r] = [@ EXCEPT !.pc = "reserving", !.readAt = now]]
      <3>1. /\ inv'[r] = [inv[r] EXCEPT !.pc = "reserving", !.readAt = now]
            /\ \A x \in Requests : x # r => inv'[x] = inv[x]
        BY <2>1 DEF TypeOK
      <3>2. inv'[r].pc = "reserving"
        BY <3>1, ElementTypes DEF Invocation
      <3> QED BY <1>1, <1>9, <3>1, <3>2 DEF ReadClock
    <2> QED BY <1>2, <1>9, <2>1 DEF ReadClock, Finished
  <1>10. ASSUME NEW r \in Requests, ReserveSameDay(r) PROVE \A x \in Requests : DayForward(x)'
    <2>1. /\ At(r, "reserving") /\ ReservePoolAndItem(r) /\ backdated' = backdated
          /\ student[StudentOf[r]].day = Today(r)
      BY <1>10 DEF ReserveSameDay, SameDayCondition
    <2>2. /\ student'[StudentOf[r]].day = Today(r)
          /\ \A s \in Students : s # StudentOf[r] => student'[s] = student[s]
      BY <1>10, <2>1, StudentOfType DEF ReserveSameDay, TypeOK
    <2>3. student[StudentOf[r]].day \in Nat
      BY ElementNumbers
    <2> QED BY <2>1, <2>2, <2>3, DayReserve
  <1>11. ASSUME NEW r \in Requests, ReserveRollover(r) PROVE \A x \in Requests : DayForward(x)'
    <2>1. At(r, "reserving") /\ ReservePoolAndItem(r)
      BY <1>11 DEF ReserveRollover
    <2>2. ~backdated' => ~backdated /\ ~(Today(r) < student[StudentOf[r]].day)
      BY <1>11 DEF ReserveRollover
    <2>3. Today(r) \in Nat /\ student[StudentOf[r]].day \in Nat
      BY ElementNumbers, DayIsNat DEF Today
    <2>4. /\ student'[StudentOf[r]].day = Today(r)
          /\ \A s \in Students : s # StudentOf[r] => student'[s] = student[s]
      BY <1>11, StudentOfType DEF ReserveRollover, TypeOK
    <2>5. ~backdated' => ~backdated /\ student[StudentOf[r]].day <= Today(r)
      BY <2>2, <2>3
    <2> QED BY <2>1, <2>4, <2>5, DayReserve
  <1>12. ASSUME NEW r \in Requests, ReserveCancelled(r) PROVE \A x \in Requests : DayForward(x)'
    <2>1. CASE inv' = [inv EXCEPT ![r].attempt = 2]
      BY <1>1, <1>12, <2>1, AttemptFacts DEF ReserveCancelled
    <2> QED BY <1>2, <1>12, <2>1 DEF ReserveCancelled, Finished
  <1>13. ASSUME NEW r \in Requests, MarkDispatched(r) PROVE \A x \in Requests : DayForward(x)'
    <2>1. inv[r].pc = "reserved" /\ UNCHANGED <<student, backdated>> /\ res[r].status = "RESERVED"
      BY <1>13 DEF MarkDispatched, Lifecycle, ItemOfPc
    <2>2. /\ res' = [res EXCEPT ![r].status = "DISPATCHED"]
          /\ inv' = [inv EXCEPT ![r].pc = "dispatched"]
      BY <1>13, <2>1 DEF MarkDispatched
    <2>3. \A x \in Requests : res'[x].day = res[x].day
                             /\ (res'[x].status # "NONE" => res[x].status # "NONE")
      BY <2>1, <2>2, StatusFacts
    <2>4. /\ inv'[r].pc = "dispatched"
          /\ \A x \in Requests : x # r => inv'[x] = inv[x]
      BY <2>2, PcFacts
    <2> QED BY <2>1, <2>3, <2>4, DayQuiet
  <1>14. ASSUME NEW r \in Requests, NEW u \in UsagesWithin(inv[r].budget), CallBedrock(r, u)
         PROVE  \A x \in Requests : DayForward(x)'
    <2>1. /\ inv'[r] = [inv[r] EXCEPT !.pc = "called", !.attempt = 1]
          /\ \A x \in Requests : x # r => inv'[x] = inv[x]
      BY <1>14 DEF CallBedrock, TypeOK
    <2>2. inv'[r].pc = "called" /\ inv'[r].attempt = 1
      BY <2>1, ElementTypes DEF Invocation
    <2>3. UNCHANGED <<student, res, backdated>>
      BY <1>14 DEF CallBedrock
    <2>4. inv'[r].pc # "late" /\ ~(inv'[r].pc = "called" /\ inv'[r].attempt = 2)
      BY <2>2
    <2>5. \A x \in Requests : x # r => inv'[x] = inv[x]
      BY <2>1
    <2> QED BY <1>1, <2>3, <2>4, <2>5
  <1>15. ASSUME NEW r \in Requests, NEW outcome \in {"SETTLED", "AMBIGUOUS"}, NEW pc \in {"done", "failed"},
                res[r].status = "DISPATCHED", End(r, pc), res' = [res EXCEPT ![r].status = outcome],
                \A s \in Students : student'[s].day = student[s].day, UNCHANGED backdated
         PROVE  \A x \in Requests : DayForward(x)'
    <2>1. \A x \in Requests : res'[x].day = res[x].day
                             /\ (res'[x].status # "NONE" => res[x].status # "NONE")
      BY <1>15, StatusFacts
    <2>2. inv'[r].pc = pc /\ \A x \in Requests : x # r => inv'[x] = inv[x]
      BY <1>15, EndFacts
    <2> QED BY <1>15, <2>1, <2>2, DayQuiet
  <1>16. ASSUME NEW r \in Requests, ReconcileUsage(r) PROVE \A x \in Requests : DayForward(x)'
    <2>1. ReconcileDelta(r) \in Int /\ inv[r].attempt \in {1, 2}
      BY ElementNumbers DEF ReconcileDelta
    <2>2. \A s \in Students : student'[s].day = student[s].day
      BY <1>16, <2>1, SettleKeepsDays DEF ReconcileUsage
    <2>3. res[r].status = "DISPATCHED" /\ res' = [res EXCEPT ![r].status = "SETTLED"]
      BY <1>16 DEF ReconcileUsage, CanSettle, Settle
    <2> QED BY <1>15, <1>16, <2>2, <2>3 DEF ReconcileUsage
  <1>17. ASSUME NEW r \in Requests, ReconcileCancelled(r) PROVE \A x \in Requests : DayForward(x)'
    <2>1. /\ inv[r].pc = "called" /\ res[r].status = "DISPATCHED"
          /\ UNCHANGED <<student, res, backdated>>
      BY <1>17 DEF ReconcileCancelled, Lifecycle, ItemOfPc
    <2>2. inv[r].attempt \in {1, 2} /\ res[r].day \in Nat /\ student[StudentOf[r]].day \in Nat
      BY ElementNumbers
    <2> SUFFICES ASSUME NEW x \in Requests, ~backdated
                 PROVE  /\ res[x].status # "NONE" => res[x].day <= student[StudentOf[x]].day
                        /\ ~inv'[x].conflict =>
                              /\ inv'[x].pc = "called" /\ inv'[x].attempt = 2 =>
                                    res[x].day < student[StudentOf[x]].day
                              /\ inv'[x].pc # "late"
      BY <2>1 DEF DayForward
    <2>3. CASE x # r
      BY <1>17, <2>1, <2>3, CancelledFacts DEF DayForward
    <2>4. CASE x = r /\ ~inv'[r].conflict
      <3>1. ~inv[r].conflict /\ ~(ReconcileDelta(r) = 0) /\ ~DayMatches(r, inv[r].attempt)
        BY <1>17, <2>1, <2>4, CancelledFacts DEF CanSettle
      <3>2. inv[r].attempt = 1
        BY <2>1, <2>2, <3>1 DEF DayMatches, DayForward
      <3>3. res[r].day < student[StudentOf[r]].day
        BY <2>1, <2>2, <3>1, <3>2 DEF DayMatches, DayForward
      <3>4. ~LastAttempt(ReconcileDelta(r), inv[r].attempt)
        BY <3>1, <3>2 DEF LastAttempt
      <3>5. inv'[r].pc = "called"
        BY <1>17, <2>1, <3>4, CancelledFacts
      <3> QED BY <2>4, <3>3, <3>5 DEF DayForward
    <2> QED BY <2>3, <2>4 DEF DayForward
  <1>18. ASSUME NEW r \in Requests, BedrockRaises(r) PROVE \A x \in Requests : DayForward(x)'
    <2>1. res[r].status = "DISPATCHED"
      BY <1>18 DEF BedrockRaises, Lifecycle, ItemOfPc
    <2>2. CASE UNCHANGED res
      BY <1>2, <1>18, <2>2 DEF BedrockRaises, Finished
    <2> QED BY <1>15, <1>18, <2>1, <2>2 DEF BedrockRaises, Finalize
  <1>19. ASSUME NEW r \in Requests, Crash(r) PROVE \A x \in Requests : DayForward(x)'
    BY <1>2, <1>19 DEF Crash, Finished
  <1>20. CASE Tick \/ UNCHANGED vars
    BY <1>20 DEF Tick, vars, DayForward
  <1> QED
    BY <1>3, <1>4, <1>5, <1>6, <1>7, <1>8, <1>9, <1>10, <1>11, <1>12, <1>13, <1>14,
       <1>16, <1>17, <1>18, <1>19, <1>20 DEF Next, Step

-----------------------------------------------------------------------------
\* The strengthened invariant is inductive.
LEMMA IInvInit == Init => IInv
  <1> SUFFICES ASSUME Init PROVE IInv
    OBVIOUS
  <1>1. CapsHold
    BY CapsType DEF Init, CapsHold, FreshStudent
  <1>2. \A r \in Requests : DayForward(r)
    BY DEF Init, DayForward, NoReservation, Idle
  <1> QED BY <1>1, <1>2, TypeInit, LifecycleInit DEF IInv

LEMMA IInvNext == IInv /\ [Next]_vars => IInv'
  BY TypeNext, LifecycleNext, CapsNext, DayNext DEF IInv

THEOREM Inductive == Spec => []IInv
  BY IInvInit, IInvNext, PTL DEF Spec

\* No interleaving of reservations, refunds and reconciliations takes the pool
\* over its soft cap or a student over the total cap.
THEOREM CapsCorrect == Spec => []CapsHold
  <1>1. IInv => CapsHold
    BY DEF IInv
  <1> QED BY <1>1, Inductive, PTL

\* A reservation is refunded only if its call was never sent to Bedrock.
THEOREM NoPaidCallRefundedCorrect == Spec => []NoPaidCallRefunded
  <1>1. IInv => NoPaidCallRefunded
    BY DEF IInv, Lifecycle, PcOfItem, NoPaidCallRefunded, Running
  <1> QED BY <1>1, Inductive, PTL

\* Recovery never takes the reservation of a running invocation: this is where
\* the reservation's time to live must exceed the Lambda timeout.
THEOREM LiveReservationKeptCorrect == Spec => []LiveReservationKept
  <1>1. ASSUME IInv PROVE LiveReservationKept
    <2> SUFFICES ASSUME NEW r \in Requests, inv[r].pc \in Holding
                 PROVE  res[r].expires > now
      BY <1>1 DEF IInv, Lifecycle, ItemOfPc, LiveReservationKept, Holding
    <2>1. /\ res[r].expires = inv[r].readAt + TTL /\ inv[r].start <= inv[r].readAt
          /\ now <= inv[r].start + LambdaTicks
      BY <1>1 DEF IInv, Lifecycle, InTime, ItemOfPc, Holding, Running
    <2>2. inv[r].start \in Nat /\ inv[r].readAt \in Nat /\ now \in Nat
      BY <1>1, ElementNumbers DEF IInv, TypeOK
    <2> QED BY <2>1, <2>2, TTLOutlivesLambda, TimeType
  <1> QED BY <1>1, Inductive, PTL

\* A paid answer is dropped as reservation_expired only after a reconciliation of
\* its own was cancelled although its condition held, or after some reservation
\* has moved a student's day backwards; and it stays charged.
THEOREM PaidAnswerDeliveredCorrect == Spec => []PaidAnswerDelivered
  <1>1. IInv => PaidAnswerDelivered
    BY DEF IInv, DayForward, Lifecycle, ItemOfPc, PaidAnswerDelivered
  <1> QED BY <1>1, Inductive, PTL
-----------------------------------------------------------------------------
(* Sums over finite sets.  SumFunctionOnSet is a fold, a function defined by *)
(* recursion over the subsets of the set; what it computes follows by        *)
(* induction over these subsets, stated here for a set of subsets.           *)

\* A set of subsets that contains a set whenever it contains what is left of it
\* without any one of its elements contains all subsets.
LEMMA SubsetInduction ==
  ASSUME NEW S, IsFiniteSet(S), NEW G,
         \A T \in SUBSET S : (\A x \in T : T \ {x} \in G) => T \in G
  PROVE  \A T \in SUBSET S : T \in G
  <1> DEFINE R == StrictSubsetOrdering(S)
             Bad == {T \in SUBSET S : T \notin G}
  <1>1. Bad \subseteq FiniteSubsetsOf(S)
    BY FS_FiniteSubsetsOfFinite
  <1>2. IsWellFoundedOn(R, FiniteSubsetsOf(S))
    BY FS_StrictSubsetOrderingWellFounded
  <1>3. ASSUME Bad # {} PROVE FALSE
    <2>1. PICK T \in Bad : \A U \in Bad : <<U, T>> \notin R
      <3> HIDE DEF Bad, R
      <3> QED BY <1>1, <1>2, <1>3, WFMin
    <2>2. ASSUME NEW x \in T PROVE T \ {x} \in G
      <3>1. T \ {x} \in SUBSET S /\ T \ {x} \subseteq T /\ T \ {x} # T
        BY <2>1, <2>2
      <3>2. <<T \ {x}, T>> \in R
        BY <2>1, <3>1 DEF StrictSubsetOrdering
      <3> QED BY <2>1, <3>1, <3>2
    <2> QED BY <2>1, <2>2
  <1> QED BY <1>3

\* The element of s that the fold takes first.
AnyOf(s) == CHOOSE x \in s : TRUE

LEMMA AnyOfIn == ASSUME NEW s, s # {} PROVE AnyOf(s) \in s
  BY DEF AnyOf

\* f is the table of the sums of w over the subsets of S.
Sums(w, S, f) ==
    f = [s \in SUBSET S |->
            IF s = {} THEN 0
            ELSE w[AnyOf(s)] + f[s \ {AnyOf(s)}]]

LEMMA SumIsChoice ==
  ASSUME NEW w, NEW S
  PROVE  SumFunctionOnSet(w, S) = (CHOOSE f : Sums(w, S, f))[S]
  BY DEF SumFunctionOnSet, FoldFunctionOnSet, MapThenFoldSet, Sums, AnyOf

\* One entry of the table.
LEMMA SumsEntry ==
  ASSUME NEW w, NEW S, NEW f, Sums(w, S, f), NEW s \in SUBSET S
  PROVE  /\ s = {} => f[s] = 0
         /\ s # {} => f[s] = w[AnyOf(s)] + f[s \ {AnyOf(s)}]
  BY DEF Sums

\* Two tables agree on the subsets they share.
LEMMA SumsUnique ==
  ASSUME NEW w, NEW S, IsFiniteSet(S), NEW T, NEW f, NEW g, Sums(w, S, f), Sums(w, T, g)
  PROVE  \A s \in SUBSET (S \cap T) : f[s] = g[s]
  <1> DEFINE I == S \cap T
             G == {s \in SUBSET I : f[s] = g[s]}
  <1>1. IsFiniteSet(I)
    BY FS_Subset
  <1>2. ASSUME NEW s \in SUBSET I, \A x \in s : s \ {x} \in G PROVE s \in G
    <2>1. s \in SUBSET S /\ s \in SUBSET T
      OBVIOUS
    <2>2. CASE s = {}
      BY <2>1, <2>2, SumsEntry
    <2>3. CASE s # {}
      <3> DEFINE x == AnyOf(s)
      <3>1. x \in s
        BY <2>3, AnyOfIn
      <3>2. f[s] = w[x] + f[s \ {x}]
        BY <2>1, <2>3, SumsEntry
      <3>3. g[s] = w[x] + g[s \ {x}]
        BY <2>1, <2>3, SumsEntry
      <3> HIDE DEF x
      <3> QED BY <1>2, <3>1, <3>2, <3>3
    <2> QED BY <2>2, <2>3
  <1>3. \A s \in SUBSET I : s \in G
    <2> HIDE DEF I, G
    <2> QED BY <1>1, <1>2, SubsetInduction
  <1> QED BY <1>3

\* The table exists.
LEMMA SumsExist ==
  ASSUME NEW w, NEW S, IsFiniteSet(S)
  PROVE  \A T \in SUBSET S : \E f : Sums(w, T, f)
  <1> DEFINE G == {T \in SUBSET S : \E f : Sums(w, T, f)}
  <1>1. ASSUME NEW T \in SUBSET S, \A x \in T : T \ {x} \in G PROVE T \in G
    <2> DEFINE IsSum(s, v) == \E y, f : /\ y \in T /\ Sums(w, T \ {y}, f)
                                       /\ s \in SUBSET (T \ {y}) /\ v = f[s]
               E(s) == CHOOSE v : IsSum(s, v)
               g == [s \in SUBSET T |->
                        IF s = {} THEN 0
                        ELSE w[AnyOf(s)] + E(s \ {AnyOf(s)})]
    <2>0. IsFiniteSet(T)
      BY FS_Subset
    <2>1. ASSUME NEW s \in SUBSET T, NEW u, NEW v, IsSum(s, u), IsSum(s, v) PROVE u = v
      <3>1. PICK y, f :
               y \in T /\ Sums(w, T \ {y}, f) /\ s \in SUBSET (T \ {y}) /\ u = f[s]
        BY <2>1
      <3>2. PICK z, h :
               z \in T /\ Sums(w, T \ {z}, h) /\ s \in SUBSET (T \ {z}) /\ v = h[s]
        BY <2>1
      <3>3. IsFiniteSet(T \ {y})
        BY <2>0, FS_Subset
      <3>4. s \in SUBSET ((T \ {y}) \cap (T \ {z}))
        BY <3>1, <3>2
      <3>5. f[s] = h[s]
        BY <3>1, <3>2, <3>3, <3>4, SumsUnique
      <3> QED BY <3>1, <3>2, <3>5
    <2>2. ASSUME NEW s \in SUBSET T, s # T
          PROVE  \E y, f :
                    y \in T /\ Sums(w, T \ {y}, f) /\ s \in SUBSET (T \ {y}) /\ E(s) = f[s]
      <3>1. PICK y \in T : y \notin s
        BY <2>2
      <3>2. PICK f : Sums(w, T \ {y}, f)
        BY <1>1
      <3>3. s \in SUBSET (T \ {y})
        BY <3>1
      <3>4. IsSum(s, f[s])
        BY <3>2, <3>3
      <3>5. IsSum(s, E(s))
        <4> HIDE DEF IsSum
        <4> QED BY <3>4
      <3>6. E(s) = f[s]
        <4> HIDE DEF IsSum, E
        <4> QED BY <2>1, <3>4, <3>5
      <3> HIDE DEF IsSum, E
      <3> QED BY <3>2, <3>3, <3>6
    <2>3. ASSUME NEW s \in SUBSET T, s # T PROVE E(s) = g[s]
      <3> HIDE DEF IsSum
      <3>1. PICK y, f :
               y \in T /\ Sums(w, T \ {y}, f) /\ s \in SUBSET (T \ {y}) /\ E(s) = f[s]
        BY <2>2, <2>3
      <3>2. CASE s = {}
        <4>1. f[s] = 0
          BY <3>1, <3>2, SumsEntry
        <4>2. g[s] = 0
          BY <3>2
        <4> HIDE DEF g, E
        <4> QED BY <3>1, <4>1, <4>2
      <3>3. CASE s # {}
        <4> DEFINE x == AnyOf(s)
        <4>1. x \in s
          BY <3>3, AnyOfIn
        <4>2. f[s] = w[x] + f[s \ {x}]
          BY <3>1, <3>3, SumsEntry
        <4>3. s \ {x} \in SUBSET T /\ s \ {x} # T /\ s \ {x} \in SUBSET (T \ {y})
          BY <3>1, <4>1
        <4>4. PICK z, h : z \in T /\
                Sums(w, T \ {z}, h) /\ s \ {x} \in SUBSET (T \ {z}) /\ E(s \ {x}) = h[s \ {x}]
          <5> HIDE DEF E, x
          <5> QED BY <2>2, <4>3
        <4>5. f[s \ {x}] = h[s \ {x}]
          <5> HIDE DEF E, x
          <5>1. IsFiniteSet(T \ {y})
            BY <2>0, FS_Subset
          <5>2. s \ {x} \in SUBSET ((T \ {y}) \cap (T \ {z}))
            BY <4>3, <4>4
          <5> QED BY <3>1, <4>4, <5>1, <5>2, SumsUnique
        <4>6. g[s] = w[x] + E(s \ {x})
          <5> HIDE DEF E
          <5> QED BY <3>3
        <4> HIDE DEF g, E, x
        <4> QED BY <3>1, <4>2, <4>4, <4>5, <4>6
      <3> QED BY <3>2, <3>3
    <2>4. Sums(w, T, g)
      <3>1. ASSUME NEW s \in SUBSET T, s # {} PROVE E(s \ {AnyOf(s)}) = g[s \ {AnyOf(s)}]
        <4> DEFINE x == AnyOf(s)
        <4>1. s \ {x} \in SUBSET T /\ s \ {x} # T
          BY <3>1, AnyOfIn
        <4> HIDE DEF g, E, IsSum, x
        <4>2. E(s \ {x}) = g[s \ {x}]
          BY <2>3, <4>1
        <4> QED BY <4>2 DEF x
      <3> HIDE DEF E, IsSum
      <3>2. g = [s \in SUBSET T |->
                    IF s = {} THEN 0
                    ELSE w[AnyOf(s)] + g[s \ {AnyOf(s)}]]
        <4> DEFINE gg == [s \in SUBSET T |->
                    IF s = {} THEN 0
                    ELSE w[AnyOf(s)] + g[s \ {AnyOf(s)}]]
        <4>1. ASSUME NEW s \in SUBSET T PROVE gg[s] = g[s]
          BY <3>1
        <4>2. gg = [s \in SUBSET T |-> gg[s]] /\ g = [s \in SUBSET T |-> g[s]]
          OBVIOUS
        <4> HIDE DEF gg, g
        <4> QED BY <4>1, <4>2 DEF gg
      <3> HIDE DEF g
      <3> QED BY <3>2 DEF Sums
    <2> HIDE DEF g, E, IsSum
    <2> QED BY <2>4
  <1>2. \A T \in SUBSET S : T \in G
    <2> HIDE DEF G
    <2> QED BY <1>1, SubsetInduction
  <1> QED BY <1>2

\* The recursion the sum is defined by.
LEMMA SumUnfolds ==
  ASSUME NEW w, NEW S, IsFiniteSet(S)
  PROVE  /\ S = {} => SumFunctionOnSet(w, S) = 0
         /\ S # {} => \E x \in S :
               SumFunctionOnSet(w, S) = w[x] + SumFunctionOnSet(w, S \ {x})
  <1> DEFINE f == CHOOSE h : Sums(w, S, h)
  <1>1. Sums(w, S, f) /\ SumFunctionOnSet(w, S) = f[S]
    BY SumsExist, SumIsChoice
  <1> HIDE DEF f
  <1>2. CASE S = {}
    BY <1>1, <1>2, SumsEntry
  <1>3. CASE S # {}
    <2> DEFINE x == AnyOf(S)
    <2>1. x \in S /\ f[S] = w[x] + f[S \ {x}]
      BY <1>1, <1>3, SumsEntry, AnyOfIn
    <2> HIDE DEF x
    <2> DEFINE T == S \ {x}
               g == CHOOSE h : Sums(w, T, h)
    <2>2. Sums(w, T, g) /\ SumFunctionOnSet(w, T) = g[T]
      BY SumsExist, SumIsChoice
    <2> HIDE DEF g
    <2>3. g[T] = f[T]
      <3>1. T \in SUBSET (S \cap T)
        OBVIOUS
      <3> HIDE DEF T
      <3> QED BY <1>1, <2>2, <3>1, SumsUnique
    <2> QED BY <1>1, <2>1, <2>2, <2>3
  <1> QED BY <1>2, <1>3

\* The sum of integers is an integer.
LEMMA SumIsInt ==
  ASSUME NEW S, IsFiniteSet(S), NEW w, \A x \in S : w[x] \in Int
  PROVE  SumFunctionOnSet(w, S) \in Int
  <1> DEFINE G == {T \in SUBSET S : SumFunctionOnSet(w, T) \in Int}
  <1>1. ASSUME NEW T \in SUBSET S, \A x \in T : T \ {x} \in G PROVE T \in G
    <2>1. IsFiniteSet(T)
      BY FS_Subset
    <2>2. CASE T = {}
      BY <2>1, <2>2, SumUnfolds
    <2>3. CASE T # {}
      <3>1. PICK x \in T : SumFunctionOnSet(w, T) = w[x] + SumFunctionOnSet(w, T \ {x})
        BY <2>1, <2>3, SumUnfolds
      <3> QED BY <1>1, <3>1
    <2> QED BY <2>2, <2>3
  <1>2. \A T \in SUBSET S : T \in G
    <2> HIDE DEF G
    <2> QED BY <1>1, SubsetInduction
  <1> QED BY <1>2

\* Any element can be taken out of the sum first.
LEMMA SumWithout ==
  ASSUME NEW S, IsFiniteSet(S), NEW w, \A x \in S : w[x] \in Int, NEW q \in S
  PROVE  SumFunctionOnSet(w, S) = w[q] + SumFunctionOnSet(w, S \ {q})
  <1> DEFINE Sum(T) == SumFunctionOnSet(w, T)
             G == {T \in SUBSET S : \A x \in T : Sum(T) = w[x] + Sum(T \ {x})}
  <1>1. ASSUME NEW T \in SUBSET S PROVE Sum(T) \in Int
    <2>1. IsFiniteSet(T)
      BY FS_Subset
    <2> QED BY <2>1, SumIsInt
  <1>2. ASSUME NEW T \in SUBSET S, \A x \in T : T \ {x} \in G, NEW x \in T
        PROVE  Sum(T) = w[x] + Sum(T \ {x})
    <2>1. IsFiniteSet(T)
      BY FS_Subset
    <2>2. PICK y \in T : Sum(T) = w[y] + Sum(T \ {y})
      BY <2>1, SumUnfolds
    <2>3. CASE x = y
      BY <2>2, <2>3
    <2>4. CASE x # y
      <3> DEFINE U == (T \ {x}) \ {y}
      <3>1. U = (T \ {y}) \ {x} /\ U \in SUBSET S /\ x \in T \ {y} /\ y \in T \ {x}
        BY <2>4
      <3>2. Sum(T \ {y}) = w[x] + Sum(U)
        BY <1>2, <3>1
      <3>3. Sum(T \ {x}) = w[y] + Sum(U)
        BY <1>2, <3>1
      <3>4. Sum(U) \in Int /\ w[x] \in Int /\ w[y] \in Int
        BY <1>1, <3>1
      <3> HIDE DEF Sum, U
      <3> QED BY <2>2, <3>2, <3>3, <3>4
    <2> QED BY <2>3, <2>4
  <1>3. \A T \in SUBSET S : T \in G
    <2>1. \A T \in SUBSET S : (\A x \in T : T \ {x} \in G) => T \in G
      BY <1>2
    <2> HIDE DEF G
    <2> QED BY <2>1, SubsetInduction
  <1> QED BY <1>3

\* Greater summands have a greater sum.
LEMMA SumMonotone ==
  ASSUME NEW S, IsFiniteSet(S), NEW v, NEW w,
         \A x \in S : v[x] \in Int /\ w[x] \in Int /\ v[x] <= w[x]
  PROVE  SumFunctionOnSet(v, S) <= SumFunctionOnSet(w, S)
  <1> DEFINE G == {T \in SUBSET S : SumFunctionOnSet(v, T) <= SumFunctionOnSet(w, T)}
  <1>1. ASSUME NEW T \in SUBSET S, \A x \in T : T \ {x} \in G PROVE T \in G
    <2>1. IsFiniteSet(T)
      BY FS_Subset
    <2>2. CASE T = {}
      <3>1. SumFunctionOnSet(v, T) = 0 /\ SumFunctionOnSet(w, T) = 0
        BY <2>1, <2>2, SumUnfolds
      <3> QED BY <3>1
    <2>3. CASE T # {}
      <3>1. PICK x \in T : TRUE
        BY <2>3
      <3>2. /\ SumFunctionOnSet(v, T) = v[x] + SumFunctionOnSet(v, T \ {x})
            /\ SumFunctionOnSet(w, T) = w[x] + SumFunctionOnSet(w, T \ {x})
        BY <2>1, SumWithout
      <3>3. SumFunctionOnSet(v, T \ {x}) \in Int /\ SumFunctionOnSet(w, T \ {x}) \in Int
        <4>1. IsFiniteSet(T \ {x}) /\ \A y \in T \ {x} : v[y] \in Int /\ w[y] \in Int
          BY <2>1, FS_Subset
        <4> QED BY <4>1, SumIsInt
      <3>4. SumFunctionOnSet(v, T \ {x}) <= SumFunctionOnSet(w, T \ {x})
        BY <1>1
      <3>5. v[x] \in Int /\ w[x] \in Int /\ v[x] <= w[x]
        OBVIOUS
      <3> QED BY <3>2, <3>3, <3>4, <3>5
    <2> QED BY <2>2, <2>3
  <1>2. \A T \in SUBSET S : T \in G
    <2> HIDE DEF G
    <2> QED BY <1>1, SubsetInduction
  <1> QED BY <1>2

\* Equal summands have an equal sum.
LEMMA SumSame ==
  ASSUME NEW S, IsFiniteSet(S), NEW v, NEW w, \A x \in S : v[x] \in Int /\ v[x] = w[x]
  PROVE  SumFunctionOnSet(v, S) = SumFunctionOnSet(w, S)
  <1>1. SumFunctionOnSet(v, S) \in Int /\ SumFunctionOnSet(w, S) \in Int
    BY SumIsInt
  <1>2. SumFunctionOnSet(v, S) <= SumFunctionOnSet(w, S)
        /\ SumFunctionOnSet(w, S) <= SumFunctionOnSet(v, S)
    BY SumMonotone
  <1> QED BY <1>1, <1>2

\* A sum in which one summand changes changes by as much.
LEMMA SumChanges ==
  ASSUME NEW S, IsFiniteSet(S), NEW v, NEW w, NEW q \in S,
         \A x \in S : v[x] \in Int /\ w[x] \in Int,
         \A x \in S : x # q => v[x] = w[x]
  PROVE  SumFunctionOnSet(w, S) = SumFunctionOnSet(v, S) + w[q] - v[q]
  <1> DEFINE T == S \ {q}
  <1>1. IsFiniteSet(T) /\ \A x \in T : v[x] \in Int /\ v[x] = w[x]
    BY FS_Subset
  <1>2. SumFunctionOnSet(v, T) = SumFunctionOnSet(w, T) /\ SumFunctionOnSet(v, T) \in Int
    BY <1>1, SumSame, SumIsInt
  <1>3. /\ SumFunctionOnSet(v, S) = v[q] + SumFunctionOnSet(v, T)
        /\ SumFunctionOnSet(w, S) = w[q] + SumFunctionOnSet(w, T)
    BY SumWithout
  <1> HIDE DEF T
  <1> QED BY <1>2, <1>3

\* A sum of zeros is zero.
LEMMA SumOfZeros ==
  ASSUME NEW S, IsFiniteSet(S), NEW w, \A x \in S : w[x] = 0
  PROVE  SumFunctionOnSet(w, S) = 0
  <1> DEFINE G == {T \in SUBSET S : SumFunctionOnSet(w, T) = 0}
  <1>1. ASSUME NEW T \in SUBSET S, \A x \in T : T \ {x} \in G PROVE T \in G
    <2>1. IsFiniteSet(T)
      BY FS_Subset
    <2>2. CASE T = {}
      BY <2>1, <2>2, SumUnfolds
    <2>3. CASE T # {}
      <3>1. PICK x \in T : SumFunctionOnSet(w, T) = w[x] + SumFunctionOnSet(w, T \ {x})
        BY <2>1, <2>3, SumUnfolds
      <3> QED BY <1>1, <3>1
    <2> QED BY <2>2, <2>3
  <1>2. \A T \in SUBSET S : T \in G
    <2> HIDE DEF G
    <2> QED BY <1>1, SubsetInduction
  <1> QED BY <1>2

-----------------------------------------------------------------------------
(* What a step does to the books: nothing, or it moves one reservation from *)
(* one state to the next and the counters by as much as that changes what   *)
(* the reservation holds.                                                   *)

Quiet ==
    /\ \A x \in Requests : /\ res'[x] = res[x]
                           /\ bill'[x] # bill[x] =>
                                 /\ res[x].status = "DISPATCHED"
                                 /\ bill'[x] \in UsagesWithin(res[x].budget)
    /\ pool'.cost = pool.cost /\ student' = student /\ backdated' = backdated

\* Only reservation q and the counters of its student and of the pool change, ...
OnlyOf(q) ==
    /\ bill' = bill
    /\ \A x \in Requests : x # q => res'[x] = res[x]
    /\ \A s \in Students : s # StudentOf[q] => student'[s] = student[s]

\* ... these two by as much as what q holds, ...
Counted(q) ==
    /\ pool'.cost = pool.cost + HeldCost(q)' - HeldCost(q)
    /\ student'[StudentOf[q]].total =
          student[StudentOf[q]].total + HeldTokens(q)' - HeldTokens(q)

\* ... and so does today's counter, if it is of the day of the reservation.
KeepsDay(q) ==
    LET s == StudentOf[q] IN
    /\ res'[q].day = res[q].day /\ res'[q].budget = res[q].budget
    /\ backdated' = backdated
    /\ student'[s].day = student[s].day
    /\ res[q].day = student[s].day =>
          student'[s].today = student[s].today + HeldTokens(q)' - HeldTokens(q)
    /\ res[q].day # student[s].day => student'[s].today = student[s].today

OpensDay(q) ==
    LET s == StudentOf[q] IN
    /\ res'[q].day = Today(q) /\ student'[s].day = Today(q)
    /\ ~backdated' =>
          /\ ~backdated
          /\ student'[s].today <= MaxDaily
          /\ \/ student[s].day = Today(q) /\ student'[s].today = student[s].today + inv[q].budget
             \/ student[s].day < Today(q) /\ student'[s].today = inv[q].budget

Opened(q) ==
    /\ OnlyOf(q) /\ Counted(q) /\ OpensDay(q)
    /\ inv[q].pc = "reserving" /\ res'[q].budget = inv[q].budget
    /\ res[q].status = "NONE" /\ res'[q].status = "RESERVED"

Sent(q) ==
    /\ OnlyOf(q) /\ Counted(q) /\ KeepsDay(q)
    /\ res[q].status = "RESERVED" /\ res'[q].status = "DISPATCHED"

Released(q) ==
    /\ OnlyOf(q) /\ Counted(q) /\ KeepsDay(q)
    /\ res[q].status = "RESERVED" /\ res'[q].status = "REFUNDED"

Charged(q) ==
    /\ OnlyOf(q) /\ Counted(q) /\ KeepsDay(q)
    /\ res[q].status = "DISPATCHED" /\ res'[q].status \in {"SETTLED", "AMBIGUOUS"}

\* What each state of a reservation holds.
LEMMA Holds ==
  ASSUME NEW q \in Requests
  PROVE  /\ res[q].status \in {"NONE", "REFUNDED"} => HeldCost(q) = 0 /\ HeldTokens(q) = 0
         /\ res[q].status \in {"RESERVED", "DISPATCHED", "AMBIGUOUS"} =>
               HeldCost(q) = ReservationCost(res[q].budget) /\ HeldTokens(q) = res[q].budget
         /\ res[q].status = "SETTLED" =>
               HeldCost(q) = Cost(bill[q]) /\ HeldTokens(q) = Tokens(bill[q])
  BY DEF HeldCost, HeldTokens, Stored

LEMMA HoldsNext ==
  ASSUME NEW q \in Requests
  PROVE  /\ res'[q].status \in {"NONE", "REFUNDED"} => HeldCost(q)' = 0 /\ HeldTokens(q)' = 0
         /\ res'[q].status \in {"RESERVED", "DISPATCHED", "AMBIGUOUS"} =>
               HeldCost(q)' = ReservationCost(res'[q].budget) /\ HeldTokens(q)' = res'[q].budget
         /\ res'[q].status = "SETTLED" =>
               HeldCost(q)' = Cost(bill'[q]) /\ HeldTokens(q)' = Tokens(bill'[q])
  BY DEF HeldCost, HeldTokens, Stored, Cost, Tokens

\* A settling transaction moves the counters as it should.
LEMMA SettleEffect ==
  ASSUME TypeOK, NEW q \in Requests, NEW delta \in Int, NEW tokens, NEW cost \in Int,
         NEW attempt \in {1, 2}, NEW outcome, NEW expected,
         res[q].status \in {"RESERVED", "DISPATCHED"}, UNCHANGED <<bill, backdated>>,
         CanSettle(q, expected, delta, attempt),
         Settle(q, delta, tokens, cost, attempt, outcome),
         HeldCost(q)' = cost, HeldTokens(q)' = res[q].budget + delta
  PROVE  OnlyOf(q) /\ Counted(q) /\ KeepsDay(q) /\ res'[q].status = outcome
  <1> DEFINE s == StudentOf[q]
  <1>1. /\ HeldCost(q) = ReservationCost(res[q].budget) /\ HeldTokens(q) = res[q].budget
        /\ res[q].budget \in Nat /\ ReservationCost(res[q].budget) \in Nat
        /\ student[s].total \in Int /\ student[s].today \in Int
        /\ pool.cost \in Int /\ s \in Students
    BY Holds, ElementNumbers, ElementTypes, ReservationCostIsNat DEF TypeOK
  <1>2. res' = [res EXCEPT ![q].status = outcome]
    BY DEF Settle
  <1>3. /\ res'[q].status = outcome /\ res'[q].budget = res[q].budget /\ res'[q].day = res[q].day
        /\ \A x \in Requests : x # q => res'[x] = res[x]
    BY <1>2, StatusFacts
  <1>4. /\ student'[s].total = student[s].total + delta /\ student'[s].day = student[s].day
        /\ student'[s].today = IF attempt = 1 THEN student[s].today + delta ELSE student[s].today
        /\ \A u \in Students : u # s => student'[u] = student[u]
    BY <1>1 DEF Settle, TypeOK
  <1>5. pool'.cost = pool.cost + cost - ReservationCost(res[q].budget)
    BY DEF Settle
  <1>6. delta = 0 \/ ((student[s].day = res[q].day) <=> (attempt = 1))
    BY DEF CanSettle, DayMatches
  <1> HIDE DEF s
  <1>7. /\ res[q].day = student[s].day => student'[s].today = student[s].today + delta
        /\ res[q].day # student[s].day => student'[s].today = student[s].today
    BY <1>1, <1>4, <1>6
  <1>8. OnlyOf(q)
    BY <1>3, <1>4 DEF OnlyOf, s
  <1>9. Counted(q)
    BY <1>1, <1>4, <1>5 DEF Counted, s
  <1>10. KeepsDay(q)
    BY <1>1, <1>3, <1>4, <1>7 DEF KeepsDay, s
  <1> QED BY <1>3, <1>8, <1>9, <1>10

\* A reserving transaction moves the counters as it should.
LEMMA ReserveEffect ==
  ASSUME TypeOK, Lifecycle, NEW r \in Requests, At(r, "reserving"), ReservePoolAndItem(r),
         NEW s \in Students, s = StudentOf[r],
         UNCHANGED bill, student'[s].total = student[s].total + inv[r].budget,
         student'[s].day = Today(r),
         \A u \in Students : u # s => student'[u] = student[u],
         ~backdated' =>
           /\ ~backdated
           /\ student'[s].today <= MaxDaily
           /\ \/ student[s].day = Today(r) /\ student'[s].today = student[s].today + inv[r].budget
              \/ student[s].day < Today(r) /\ student'[s].today = inv[r].budget
  PROVE  Opened(r)
  <1>1. /\ res'[r].status = "RESERVED" /\ res'[r].budget = inv[r].budget
        /\ res'[r].day = Today(r)
        /\ \A x \in Requests : x # r => res'[x] = res[x]
    BY ReserveFacts
  <1>2. res[r].status = "NONE"
    BY DEF Lifecycle, ItemOfPc, At, Unreserved
  <1>3. /\ HeldCost(r) = 0 /\ HeldTokens(r) = 0
        /\ HeldCost(r)' = ReservationCost(inv[r].budget) /\ HeldTokens(r)' = inv[r].budget
    BY <1>1, <1>2, Holds, HoldsNext
  <1>4. /\ inv[r].budget \in Nat /\ ReservationCost(inv[r].budget) \in Nat /\ pool.cost \in Int
        /\ student[s].total \in Int
    BY ElementNumbers, ReservationCostIsNat DEF TypeOK
  <1>5. pool'.cost = pool.cost + ReservationCost(inv[r].budget)
    BY DEF ReservePoolAndItem, TypeOK
  <1>6. Counted(r)
    BY <1>3, <1>4, <1>5 DEF Counted
  <1>7. OnlyOf(r) /\ OpensDay(r)
    BY <1>1 DEF OnlyOf, OpensDay
  <1> QED BY <1>1, <1>2, <1>6, <1>7 DEF Opened, At

\* Writing off a reservation moves no counter, for it keeps what it holds.
LEMMA FinalizeEffect ==
  ASSUME TypeOK, NEW q \in Requests, Finalize(q), UNCHANGED <<student, bill, backdated>>
  PROVE  Quiet \/ Charged(q)
  <1>1. CASE /\ res[q].status = "DISPATCHED"
             /\ pool' = [pool EXCEPT !.tokens = @ + res[q].budget]
             /\ res' = [res EXCEPT ![q].status = "AMBIGUOUS"]
    <2>1. res' = [res EXCEPT ![q].status = "AMBIGUOUS"] /\ pool'.cost = pool.cost
      BY <1>1 DEF TypeOK
    <2>2. /\ res'[q].status = "AMBIGUOUS" /\ res'[q].budget = res[q].budget
          /\ res'[q].day = res[q].day
          /\ \A x \in Requests : x # q => res'[x] = res[x]
      BY <2>1, StatusFacts
    <2>3. /\ HeldCost(q) = ReservationCost(res[q].budget) /\ HeldTokens(q) = res[q].budget
          /\ HeldCost(q)' = ReservationCost(res[q].budget) /\ HeldTokens(q)' = res[q].budget
      BY <1>1, <2>2, Holds, HoldsNext
    <2>4. /\ res[q].budget \in Nat /\ ReservationCost(res[q].budget) \in Nat /\ pool.cost \in Int
          /\ student[StudentOf[q]].total \in Int /\ student[StudentOf[q]].today \in Int
      BY ElementNumbers, ReservationCostIsNat DEF TypeOK
    <2>5. Counted(q) /\ KeepsDay(q)
      BY <2>1, <2>2, <2>3, <2>4 DEF Counted, KeepsDay
    <2>6. OnlyOf(q)
      BY <2>2 DEF OnlyOf
    <2> QED BY <1>1, <2>2, <2>5, <2>6 DEF Charged
  <1>2. CASE UNCHANGED <<pool, res>>
    BY <1>2 DEF Quiet
  <1> QED BY <1>1, <1>2 DEF Finalize

\* Every step is quiet or moves one reservation.
LEMMA Effects ==
  ASSUME TypeOK, Lifecycle, [Next]_vars
  PROVE  Quiet \/ \E q \in Requests : Opened(q) \/ Sent(q) \/ Released(q) \/ Charged(q)
  <1> DEFINE Effect == Quiet \/ \E q \in Requests : Opened(q) \/ Sent(q) \/ Released(q) \/ Charged(q)
  <1> USE DEF At
  <1>1. ASSUME UNCHANGED <<student, pool, res, bill, backdated>> PROVE Quiet
    BY <1>1 DEF Quiet
  <1>2. ASSUME NEW r \in Requests, NEW q \in Requests, RecoverRefund(r, q) PROVE Released(q)
    <2>1. /\ res[q].status = "RESERVED" /\ UNCHANGED <<bill, backdated>>
          /\ CanSettle(q, "RESERVED", -res[q].budget, inv[r].attempt)
          /\ Settle(q, -res[q].budget, 0, 0, inv[r].attempt, "REFUNDED")
      BY <1>2 DEF RecoverRefund, CanSettle
    <2>2. /\ -res[q].budget \in Int /\ res[q].budget \in Nat /\ inv[r].attempt \in {1, 2}
      BY ElementNumbers
    <2>3. res'[q].status = "REFUNDED"
      BY <2>1, StatusFacts DEF Settle
    <2>4. HeldCost(q)' = 0 /\ HeldTokens(q)' = res[q].budget + (-res[q].budget)
      BY <2>2, <2>3, HoldsNext
    <2>5. OnlyOf(q) /\ Counted(q) /\ KeepsDay(q)
      <3> DEFINE delta == -res[q].budget
                 attempt == inv[r].attempt
      <3>1. /\ CanSettle(q, "RESERVED", delta, attempt)
            /\ Settle(q, delta, 0, 0, attempt, "REFUNDED")
            /\ delta \in Int /\ attempt \in {1, 2} /\ HeldTokens(q)' = res[q].budget + delta
        BY <2>1, <2>2, <2>4
      <3> HIDE DEF delta, attempt
      <3> QED BY <2>1, <2>4, <3>1, SettleEffect
    <2> QED BY <2>1, <2>3, <2>5 DEF Released
  <1>3. ASSUME NEW r \in Requests, ReconcileUsage(r) PROVE Charged(r)
    <2>1. /\ CanSettle(r, "DISPATCHED", ReconcileDelta(r), inv[r].attempt)
          /\ Settle(r, ReconcileDelta(r), Tokens(bill[r]), Cost(bill[r]), inv[r].attempt, "SETTLED")
          /\ UNCHANGED <<bill, backdated>> /\ inv[r].pc = "called"
      BY <1>3 DEF ReconcileUsage
    <2>2. res[r].status = "DISPATCHED" /\ res[r].budget = inv[r].budget
      BY <2>1 DEF Lifecycle, ItemOfPc, Holding
    <2>3. /\ inv[r].budget \in Nat /\ inv[r].attempt \in {1, 2}
          /\ Tokens(bill[r]) \in Nat /\ Cost(bill[r]) \in Int
          /\ ReconcileDelta(r) = Tokens(bill[r]) - inv[r].budget /\ ReconcileDelta(r) \in Int
      BY ElementNumbers DEF ReconcileDelta
    <2>4. res'[r].status = "SETTLED"
      BY <2>1, StatusFacts DEF Settle
    <2>5. HeldCost(r)' = Cost(bill[r]) /\ HeldTokens(r)' = Tokens(bill[r])
      BY <2>1, <2>4, HoldsNext
    <2>6. HeldTokens(r)' = res[r].budget + ReconcileDelta(r)
      BY <2>2, <2>3, <2>5
    <2>7. OnlyOf(r) /\ Counted(r) /\ KeepsDay(r)
      BY <2>1, <2>2, <2>3, <2>5, <2>6, SettleEffect
    <2> QED BY <2>2, <2>4, <2>7 DEF Charged
  <1>4. ASSUME NEW r \in Requests, ReserveSameDay(r) PROVE Opened(r)
    <2> DEFINE s == StudentOf[r]
    <2>1. /\ At(r, "reserving") /\ ReservePoolAndItem(r) /\ UNCHANGED <<bill, backdated>>
          /\ student[s].day = Today(r) /\ student[s].today <= MaxDaily - inv[r].budget
      BY <1>4 DEF ReserveSameDay, SameDayCondition
    <2>2. s \in Students
      BY StudentOfType
    <2>3. /\ student'[s].total = student[s].total + inv[r].budget
          /\ student'[s].today = student[s].today + inv[r].budget
          /\ student'[s].day = student[s].day
          /\ \A u \in Students : u # s => student'[u] = student[u]
      BY <1>4, <2>2 DEF ReserveSameDay, TypeOK
    <2>4. student[s].today \in Int /\ inv[r].budget \in Nat
      BY ElementNumbers
    <2>5. student'[s].today <= MaxDaily
      BY <2>1, <2>3, <2>4, CapsType
    <2> QED BY <2>1, <2>2, <2>3, <2>5, ReserveEffect
  <1>5. ASSUME NEW r \in Requests, ReserveRollover(r) PROVE Opened(r)
    <2> DEFINE s == StudentOf[r]
    <2>1. /\ At(r, "reserving") /\ ReservePoolAndItem(r) /\ UNCHANGED bill
          /\ student[s].day # Today(r) /\ inv[r].budget <= MaxDaily
          /\ ~backdated' => ~backdated /\ ~(Today(r) < student[s].day)
      BY <1>5 DEF ReserveRollover, RolloverCondition
    <2>2. s \in Students
      BY StudentOfType
    <2>3. /\ student'[s].total = student[s].total + inv[r].budget
          /\ student'[s].today = inv[r].budget
          /\ student'[s].day = Today(r)
          /\ \A u \in Students : u # s => student'[u] = student[u]
      BY <1>5, <2>2 DEF ReserveRollover, TypeOK
    <2>4. student[s].day \in Nat /\ Today(r) \in Nat
      BY ElementNumbers, DayIsNat DEF Today
    <2>5. ~backdated' => student[s].day < Today(r)
      BY <2>1, <2>4
    <2> HIDE DEF s
    <2> QED BY <2>1, <2>2, <2>3, <2>5, ReserveEffect DEF s
  <1>6. ASSUME NEW r \in Requests, MarkDispatched(r) PROVE Sent(r)
    <2>1. res[r].status = "RESERVED" /\ UNCHANGED <<student, pool, bill, backdated>>
      BY <1>6 DEF MarkDispatched, Lifecycle, ItemOfPc
    <2>2. res' = [res EXCEPT ![r].status = "DISPATCHED"]
      BY <1>6, <2>1 DEF MarkDispatched
    <2>3. /\ res'[r].status = "DISPATCHED" /\ res'[r].budget = res[r].budget
          /\ res'[r].day = res[r].day
          /\ \A x \in Requests : x # r => res'[x] = res[x]
      BY <2>2, StatusFacts
    <2>4. /\ HeldCost(r) = ReservationCost(res[r].budget) /\ HeldTokens(r) = res[r].budget
          /\ HeldCost(r)' = ReservationCost(res[r].budget) /\ HeldTokens(r)' = res[r].budget
      BY <2>1, <2>3, Holds, HoldsNext
    <2>5. /\ res[r].budget \in Nat /\ ReservationCost(res[r].budget) \in Nat /\ pool.cost \in Int
          /\ student[StudentOf[r]].total \in Int /\ student[StudentOf[r]].today \in Int
      BY ElementNumbers, ReservationCostIsNat DEF TypeOK
    <2>6. Counted(r) /\ KeepsDay(r)
      BY <2>1, <2>3, <2>4, <2>5 DEF Counted, KeepsDay
    <2>7. OnlyOf(r)
      BY <2>1, <2>3 DEF OnlyOf
    <2> QED BY <2>1, <2>3, <2>6, <2>7 DEF Sent
  <1>7. ASSUME NEW r \in Requests, NEW u \in UsagesWithin(inv[r].budget), CallBedrock(r, u)
        PROVE  Quiet
    <2>1. /\ inv[r].pc = "dispatched" /\ bill' = [bill EXCEPT ![r] = u]
          /\ UNCHANGED <<student, pool, res, backdated>>
      BY <1>7 DEF CallBedrock
    <2>2. res[r].status = "DISPATCHED" /\ res[r].budget = inv[r].budget
      BY <2>1 DEF Lifecycle, ItemOfPc, Holding
    <2>3. bill'[r] = u /\ \A x \in Requests : x # r => bill'[x] = bill[x]
      BY <2>1 DEF TypeOK
    <2> QED BY <2>1, <2>2, <2>3 DEF Quiet
  <1>8. ASSUME NEW r \in Requests, Step(r) PROVE Effect
    <2>1. ASSUME NEW b \in Budgets, Authenticate(r, b) PROVE Effect
      BY <1>1, <2>1 DEF Authenticate
    <2>2. ASSUME NEW q \in Requests, RecoverCancelled(r, q) PROVE Effect
      BY <1>1, <2>2 DEF RecoverCancelled
    <2>3. ASSUME NEW q \in Requests, RecoverWriteOff(r, q) PROVE Effect
      BY <2>3, FinalizeEffect DEF RecoverWriteOff
    <2>4. CASE BedrockRaises(r)
      BY <2>4, FinalizeEffect DEF BedrockRaises
    <2>5. CASE \/ CheckQuotaBefore(r) \/ RecoveryQuery(r) \/ ReadClock(r) \/ ReserveCancelled(r)
               \/ ReconcileCancelled(r)
      BY <1>1, <2>5 DEF CheckQuotaBefore, RecoveryQuery, ReadClock, ReserveCancelled,
                        ReconcileCancelled
    <2> QED BY <1>2, <1>3, <1>4, <1>5, <1>6, <1>7, <1>8, <2>1, <2>2, <2>3, <2>4, <2>5 DEF Step
  <1>9. ASSUME Tick \/ (\E r \in Requests : Crash(r)) \/ UNCHANGED vars PROVE Effect
    BY <1>1, <1>9 DEF Tick, Crash, vars
  <1> QED BY <1>8, <1>9 DEF Next

-----------------------------------------------------------------------------
(* The books balance. *)

LEMMA HeldIsNat == TypeOK => \A r \in Requests : HeldCost(r) \in Nat /\ HeldTokens(r) \in Nat
  <1> SUFFICES ASSUME TypeOK, NEW r \in Requests PROVE HeldCost(r) \in Nat /\ HeldTokens(r) \in Nat
    OBVIOUS
  <1>1. /\ Cost(bill[r]) \in Nat /\ Tokens(bill[r]) \in Nat /\ res[r].budget \in Nat
        /\ ReservationCost(res[r].budget) \in Nat
    BY ElementNumbers, ReservationCostIsNat
  <1> QED BY <1>1 DEF HeldCost, HeldTokens

LEMMA HeldIsNatNext ==
  TypeOK' => \A r \in Requests : HeldCost(r)' \in Nat /\ HeldTokens(r)' \in Nat
  <1>1. (TypeOK => \A r \in Requests : HeldCost(r) \in Nat /\ HeldTokens(r) \in Nat)'
    BY HeldIsNat, PTL
  <1> QED BY <1>1

LEMMA OthersHold ==
  ASSUME NEW q \in Requests, OnlyOf(q), NEW x \in Requests, x # q
  PROVE  HeldCost(x)' = HeldCost(x) /\ HeldTokens(x)' = HeldTokens(x)
  BY DEF OnlyOf, HeldCost, HeldTokens, Cost, Tokens

LEMMA QuietHolds ==
  ASSUME Quiet, NEW x \in Requests
  PROVE  HeldCost(x)' = HeldCost(x) /\ HeldTokens(x)' = HeldTokens(x)
  <1>1. CASE bill'[x] = bill[x]
    BY <1>1 DEF Quiet, HeldCost, HeldTokens, Cost, Tokens
  <1>2. CASE bill'[x] # bill[x]
    <2>1. res[x].status = "DISPATCHED" /\ res'[x] = res[x]
      BY <1>2 DEF Quiet
    <2> QED BY <2>1, Holds, HoldsNext
  <1> QED BY <1>1, <1>2

\* The students' requests are finitely many.
LEMMA RequestsOfFinite ==
  ASSUME NEW s PROVE IsFiniteSet(RequestsOf(s)) /\ RequestsOf(s) \subseteq Requests
  BY RequestsFinite, FS_Subset DEF RequestsOf

LEMMA BalanceQuiet ==
  ASSUME TypeOK, Balanced, Quiet PROVE Balanced'
  <1>1. Costs' = Costs /\ TokensHeld' = TokensHeld
    BY QuietHolds DEF Costs, TokensHeld
  <1> QED BY <1>1 DEF Balanced, Quiet, RequestsOf

LEMMA BalanceMoves ==
  ASSUME TypeOK, TypeOK', Balanced, NEW q \in Requests, OnlyOf(q), Counted(q)
  PROVE  Balanced'
  <1> DEFINE c == Costs
             cc == Costs'
             t == TokensHeld
             tt == TokensHeld'
             s == StudentOf[q]
  <1>1. \A x \in Requests : /\ c[x] = HeldCost(x) /\ cc[x] = HeldCost(x)'
                            /\ t[x] = HeldTokens(x) /\ tt[x] = HeldTokens(x)'
    BY DEF Costs, TokensHeld
  <1>2. \A x \in Requests : c[x] \in Int /\ cc[x] \in Int /\ t[x] \in Int /\ tt[x] \in Int
    BY <1>1, HeldIsNat, HeldIsNatNext
  <1>3. \A x \in Requests : x # q => c[x] = cc[x] /\ t[x] = tt[x]
    BY <1>1, OthersHold
  <1>4. s \in Students /\ q \in RequestsOf(s)
    BY StudentOfType DEF RequestsOf
  <1> HIDE DEF c, cc, t, tt
  <1>5. SumFunctionOnSet(cc, Requests) = SumFunctionOnSet(c, Requests) + cc[q] - c[q]
    BY <1>2, <1>3, RequestsFinite, SumChanges
  <1>6. SumFunctionOnSet(tt, RequestsOf(s)) = SumFunctionOnSet(t, RequestsOf(s)) + tt[q] - t[q]
    <2>1. /\ IsFiniteSet(RequestsOf(s))
          /\ \A x \in RequestsOf(s) : t[x] \in Int /\ tt[x] \in Int
          /\ \A x \in RequestsOf(s) : x # q => t[x] = tt[x]
      BY <1>2, <1>3, RequestsOfFinite
    <2> HIDE DEF s
    <2> QED BY <1>4, <2>1, SumChanges
  <1>7. ASSUME NEW u \in Students, u # s
        PROVE  SumFunctionOnSet(tt, RequestsOf(u)) = SumFunctionOnSet(t, RequestsOf(u))
    <2>1. /\ IsFiniteSet(RequestsOf(u))
          /\ \A x \in RequestsOf(u) : t[x] \in Int /\ t[x] = tt[x]
      BY <1>2, <1>3, <1>7, RequestsOfFinite DEF RequestsOf
    <2> QED BY <2>1, SumSame
  <1>8. pool'.cost = SumFunctionOnSet(cc, Requests)
    BY <1>1, <1>5 DEF Counted, Balanced, c
  <1>9. ASSUME NEW u \in Students PROVE student'[u].total = SumFunctionOnSet(tt, RequestsOf(u))
    <2>1. CASE u = s
      <3>1. student'[s].total = student[s].total + tt[q] - t[q]
        BY <1>1 DEF Counted
      <3>2. student[s].total = SumFunctionOnSet(t, RequestsOf(s))
        BY <1>4 DEF Balanced, t
      <3> QED BY <1>6, <2>1, <3>1, <3>2
    <2>2. CASE u # s
      <3>1. student'[u] = student[u] /\ student[u].total = SumFunctionOnSet(t, RequestsOf(u))
        BY <2>2 DEF OnlyOf, Balanced, t
      <3> QED BY <1>7, <2>2, <3>1
    <2> QED BY <2>1, <2>2
  <1> QED BY <1>8, <1>9 DEF Balanced, cc, tt, RequestsOf

LEMMA BalanceNext ==
  ASSUME TypeOK, TypeOK', Lifecycle, Balanced, [Next]_vars PROVE Balanced'
  <1>1. CASE Quiet
    BY <1>1, BalanceQuiet
  <1>2. ASSUME NEW q \in Requests, Opened(q) \/ Sent(q) \/ Released(q) \/ Charged(q)
        PROVE  Balanced'
    <2>1. OnlyOf(q) /\ Counted(q)
      BY <1>2 DEF Opened, Sent, Released, Charged
    <2> QED BY <2>1, BalanceMoves
  <1> QED BY <1>1, <1>2, Effects

\* What Bedrock charged is within the reservation.
LEMMA BillNext ==
  ASSUME TypeOK, Lifecycle, \A r \in Requests : BillHeld(r), [Next]_vars
  PROVE  \A r \in Requests : BillHeld(r)'
  <1> SUFFICES ASSUME NEW r \in Requests PROVE BillHeld(r)'
    OBVIOUS
  <1>1. CASE Quiet
    BY <1>1 DEF Quiet, BillHeld
  <1>2. ASSUME NEW q \in Requests, Opened(q) \/ Sent(q) \/ Released(q) \/ Charged(q)
        PROVE  BillHeld(r)'
    <2>1. CASE r # q
      <3>1. res'[r] = res[r] /\ bill'[r] = bill[r]
        BY <1>2, <2>1 DEF Opened, Sent, Released, Charged, OnlyOf
      <3> QED BY <3>1 DEF BillHeld
    <2>2. CASE r = q
      <3>1. bill'[q] = bill[q]
        BY <1>2 DEF Opened, Sent, Released, Charged, OnlyOf
      <3>2. CASE Opened(q) \/ Released(q)
        BY <2>2, <3>1, <3>2 DEF Opened, Released, BillHeld
      <3>3. CASE Sent(q)
        <4>1. res[q].budget \in Nat
          BY ElementNumbers
        <4>2. NoUsage \in UsagesWithin(res[q].budget)
          BY <4>1 DEF NoUsage, UsagesWithin, Tokens
        <4>3. res'[q].status = "DISPATCHED" /\ res'[q].budget = res[q].budget /\ bill[q] = NoUsage
          BY <3>3 DEF Sent, KeepsDay, BillHeld
        <4> QED BY <2>2, <3>1, <4>2, <4>3 DEF BillHeld
      <3>4. CASE Charged(q)
        <4>1. /\ res'[q].status \in {"SETTLED", "AMBIGUOUS"} /\ res'[q].budget = res[q].budget
              /\ bill[q] \in UsagesWithin(res[q].budget)
          BY <3>4 DEF Charged, KeepsDay, BillHeld
        <4> QED BY <2>2, <3>1, <4>1 DEF BillHeld
      <3> QED BY <1>2, <3>2, <3>3, <3>4
    <2> QED BY <2>1, <2>2
  <1> QED BY <1>1, <1>2, Effects

\* ... and so is not more than what it holds.
LEMMA BillWithinHeld ==
  ASSUME TypeOK, NEW r \in Requests, BillHeld(r)
  PROVE  Cost(bill[r]) <= HeldCost(r) /\ Tokens(bill[r]) <= HeldTokens(r)
  <1>1. /\ res[r].budget \in Nat /\ Cost(bill[r]) \in Nat /\ Tokens(bill[r]) \in Nat
        /\ ReservationCost(res[r].budget) \in Nat
        /\ res[r].status \in Stored \cup Consumed \cup {"NONE"}
    BY ElementNumbers, ReservationCostIsNat
  <1>2. Cost(NoUsage) = 0 /\ Tokens(NoUsage) = 0
    BY PricesType DEF Cost, Tokens, NoUsage
  <1>3. CASE res[r].status \in {"NONE", "REFUNDED"}
    BY <1>2, <1>3, Holds DEF BillHeld
  <1>4. CASE res[r].status = "RESERVED"
    BY <1>1, <1>2, <1>4, Holds DEF BillHeld
  <1>5. CASE res[r].status \in {"DISPATCHED", "AMBIGUOUS"}
    BY <1>1, <1>5, Holds, UsageCostBounded DEF BillHeld
  <1>6. CASE res[r].status = "SETTLED"
    BY <1>1, <1>6, Holds
  <1> QED BY <1>1, <1>3, <1>4, <1>5, <1>6 DEF Stored, Consumed

-----------------------------------------------------------------------------
(* The daily cap. *)

\* The reservations of student s on day d, and those left without q.
LEMMA DaySet ==
  ASSUME NEW s, NEW d
  PROVE  /\ IsFiniteSet({r \in RequestsOf(s) : res[r].day = d})
         /\ {r \in RequestsOf(s) : res[r].day = d} \subseteq Requests
  BY RequestsOfFinite, FS_Subset

\* A summand of zero can be left out.
LEMMA SumSkipsZero ==
  ASSUME NEW S, IsFiniteSet(S), NEW w, \A x \in S : w[x] \in Int, NEW q, q \in S => w[q] = 0
  PROVE  SumFunctionOnSet(w, S) = SumFunctionOnSet(w, S \ {q})
  <1>1. CASE q \in S
    <2>1. SumFunctionOnSet(w, S \ {q}) \in Int
      <3>1. IsFiniteSet(S \ {q}) /\ \A x \in S \ {q} : w[x] \in Int
        BY FS_Subset
      <3> QED BY <3>1, SumIsInt
    <2>2. SumFunctionOnSet(w, S) = w[q] + SumFunctionOnSet(w, S \ {q})
      BY <1>1, SumWithout
    <2> QED BY <1>1, <2>1, <2>2
  <1>2. CASE q \notin S
    <2>1. S \ {q} = S
      BY <1>2
    <2> QED BY <2>1
  <1> QED BY <1>1, <1>2

LEMMA HeldOnIsInt == ASSUME TypeOK, NEW s, NEW d PROVE HeldOn(s, d) \in Int
  <1> DEFINE D == {r \in RequestsOf(s) : res[r].day = d}
  <1>1. \A x \in D : TokensHeld[x] \in Int
    <2>1. D \subseteq Requests
      BY DaySet
    <2> QED BY <2>1, HeldIsNat DEF TokensHeld
  <1>2. IsFiniteSet(D)
    BY DaySet
  <1> QED BY <1>1, <1>2, SumIsInt DEF HeldOn

\* A step that moves reservation q on its day: only the sum of that day changes.
LEMMA DaySumMoves ==
  ASSUME TypeOK, TypeOK', NEW q \in Requests, OnlyOf(q), res'[q].day = res[q].day,
         NEW s \in Students, NEW d
  PROVE  HeldOn(s, d)' = IF s = StudentOf[q] /\ d = res[q].day
                         THEN HeldOn(s, d) + HeldTokens(q)' - HeldTokens(q)
                         ELSE HeldOn(s, d)
  <1> DEFINE D == {r \in RequestsOf(s) : res[r].day = d}
             t == TokensHeld
             tt == TokensHeld'
  <1>1. {r \in RequestsOf(s) : res'[r].day = d} = D
    BY DEF OnlyOf, RequestsOf
  <1>2. HeldOn(s, d)' = SumFunctionOnSet(tt, D) /\ HeldOn(s, d) = SumFunctionOnSet(t, D)
    BY <1>1 DEF HeldOn, RequestsOf
  <1>3. IsFiniteSet(D) /\ D \subseteq Requests
    BY DaySet
  <1>4. \A x \in Requests : t[x] = HeldTokens(x) /\ tt[x] = HeldTokens(x)'
    BY DEF TokensHeld
  <1>5. \A x \in D : /\ t[x] \in Int /\ tt[x] \in Int
                     /\ x # q => t[x] = tt[x]
    BY <1>3, <1>4, HeldIsNat, HeldIsNatNext, OthersHold
  <1>6. q \in D <=> s = StudentOf[q] /\ d = res[q].day
    BY DEF RequestsOf
  <1> HIDE DEF D, t, tt
  <1>7. CASE q \in D
    <2>1. SumFunctionOnSet(tt, D) = SumFunctionOnSet(t, D) + tt[q] - t[q]
      BY <1>3, <1>5, <1>7, SumChanges
    <2> QED BY <1>2, <1>4, <1>6, <1>7, <2>1
  <1>8. CASE q \notin D
    <2>1. \A x \in D : t[x] \in Int /\ t[x] = tt[x]
      BY <1>5, <1>8
    <2>2. SumFunctionOnSet(t, D) = SumFunctionOnSet(tt, D)
      BY <1>3, <2>1, SumSame
    <2> QED BY <1>2, <1>6, <1>8, <2>2
  <1> QED BY <1>7, <1>8

\* A new reservation adds to the sum of its day.
LEMMA DaySumOpens ==
  ASSUME TypeOK, TypeOK', NEW q \in Requests, Opened(q), NEW s \in Students, NEW d
  PROVE  HeldOn(s, d)' = IF s = StudentOf[q] /\ d = Today(q)
                         THEN HeldOn(s, d) + inv[q].budget ELSE HeldOn(s, d)
  <1> DEFINE D == {r \in RequestsOf(s) : res[r].day = d}
             DD == {r \in RequestsOf(s) : res'[r].day = d}
             E == D \ {q}
             t == TokensHeld
             tt == TokensHeld'
  <1>1. /\ OnlyOf(q) /\ res'[q].day = Today(q) /\ HeldTokens(q) = 0
        /\ HeldTokens(q)' = inv[q].budget /\ inv[q].budget \in Nat
    BY Holds, HoldsNext, ElementNumbers DEF Opened, OpensDay
  <1>2. HeldOn(s, d)' = SumFunctionOnSet(tt, DD) /\ HeldOn(s, d) = SumFunctionOnSet(t, D)
    BY DEF HeldOn, RequestsOf
  <1>3. DD \ {q} = E
    BY <1>1 DEF OnlyOf, RequestsOf
  <1>4. IsFiniteSet(D) /\ D \subseteq Requests /\ IsFiniteSet(DD) /\ DD \subseteq Requests
    BY RequestsOfFinite, FS_Subset
  <1>5. \A x \in Requests : t[x] = HeldTokens(x) /\ tt[x] = HeldTokens(x)'
    BY DEF TokensHeld
  <1>6. \A x \in Requests : /\ t[x] \in Int /\ tt[x] \in Int
                            /\ x # q => t[x] = tt[x]
    BY <1>1, <1>5, HeldIsNat, HeldIsNatNext, OthersHold
  <1>7. q \in DD <=> s = StudentOf[q] /\ d = Today(q)
    BY <1>1 DEF RequestsOf
  <1>8. IsFiniteSet(E) /\ E \subseteq Requests /\ q \notin E
    BY <1>4, FS_Subset
  <1> HIDE DEF D, DD, t, tt
  <1>9. SumFunctionOnSet(t, D) = SumFunctionOnSet(t, E)
    <2>1. \A x \in D : t[x] \in Int
      BY <1>4, <1>6
    <2>2. t[q] = 0
      BY <1>1, <1>5
    <2> QED BY <1>4, <2>1, <2>2, SumSkipsZero
  <1>10. SumFunctionOnSet(t, E) = SumFunctionOnSet(tt, E) /\ SumFunctionOnSet(t, E) \in Int
    <2>1. \A x \in E : t[x] \in Int /\ t[x] = tt[x]
      BY <1>6, <1>8
    <2> HIDE DEF E
    <2> QED BY <1>8, <2>1, SumSame, SumIsInt
  <1>11. CASE q \in DD
    <2>1. \A x \in DD : tt[x] \in Int
      BY <1>4, <1>6
    <2>2. SumFunctionOnSet(tt, DD) = tt[q] + SumFunctionOnSet(tt, E)
      BY <1>3, <1>4, <1>11, <2>1, SumWithout
    <2>3. tt[q] = inv[q].budget
      BY <1>1, <1>5
    <2> HIDE DEF E
    <2> QED BY <1>1, <1>2, <1>7, <1>9, <1>10, <1>11, <2>2, <2>3
  <1>12. CASE q \notin DD
    <2>1. DD = E
      BY <1>3, <1>12
    <2> HIDE DEF E
    <2> QED BY <1>2, <1>7, <1>9, <1>10, <1>12, <2>1
  <1> QED BY <1>11, <1>12

\* A day later than the student's own holds nothing yet.
LEMMA LaterDaysEmpty ==
  ASSUME TypeOK, \A r \in Requests : DayForward(r), ~backdated,
         NEW s \in Students, NEW d \in Nat, student[s].day < d
  PROVE  HeldOn(s, d) = 0
  <1> DEFINE D == {r \in RequestsOf(s) : res[r].day = d}
  <1>1. ASSUME NEW x \in D PROVE TokensHeld[x] = 0
    <2>1. x \in Requests /\ StudentOf[x] = s /\ res[x].day = d
      BY DEF RequestsOf
    <2>2. student[s].day \in Nat
      BY <2>1, ElementNumbers
    <2>3. res[x].status = "NONE"
      BY <2>1, <2>2 DEF DayForward
    <2> QED BY <2>1, <2>3, Holds DEF TokensHeld
  <1>2. IsFiniteSet(D)
    BY DaySet
  <1> QED BY <1>1, <1>2, SumOfZeros DEF HeldOn

\* A reservation never comes to hold more tokens.
LEMMA TokensShrink ==
  ASSUME TypeOK, NEW q \in Requests, BillHeld(q), Sent(q) \/ Released(q) \/ Charged(q)
  PROVE  HeldTokens(q)' <= HeldTokens(q) /\ HeldCost(q)' <= HeldCost(q)
  <1>1. /\ res[q].budget \in Nat /\ ReservationCost(res[q].budget) \in Nat
        /\ res'[q].budget = res[q].budget /\ bill'[q] = bill[q]
    BY ElementNumbers, ReservationCostIsNat DEF Sent, Released, Charged, KeepsDay, OnlyOf
  <1>2. res[q].status \in {"RESERVED", "DISPATCHED"}
    BY DEF Sent, Released, Charged
  <1>3. HeldCost(q) = ReservationCost(res[q].budget) /\ HeldTokens(q) = res[q].budget
    BY <1>2, Holds
  <1>4. CASE res'[q].status \in {"DISPATCHED", "AMBIGUOUS", "REFUNDED"}
    BY <1>1, <1>3, <1>4, HoldsNext
  <1>5. CASE res'[q].status = "SETTLED"
    <2>1. bill[q] \in UsagesWithin(res[q].budget)
      BY <1>5 DEF Sent, Released, Charged, BillHeld
    <2>2. HeldCost(q)' = Cost(bill[q]) /\ HeldTokens(q)' = Tokens(bill[q])
      BY <1>1, <1>5, HoldsNext
    <2> QED BY <1>1, <1>3, <2>1, <2>2, UsageCostBounded
  <1> QED BY <1>4, <1>5 DEF Sent, Released, Charged

LEMMA DayBalancesNext ==
  ASSUME TypeOK, TypeOK', Lifecycle, \A r \in Requests : DayForward(r),
         \A r \in Requests : BillHeld(r), DayBalances, [Next]_vars
  PROVE  DayBalances'
  <1> SUFFICES ASSUME ~backdated', NEW s \in Students
               PROVE  /\ student'[s].today = HeldOn(s, student[s].day)'
                      /\ \A d \in Nat : HeldOn(s, d)' <= MaxDaily
    BY DEF DayBalances
  <1> DEFINE day == student'[s].day
             N(d) == SumFunctionOnSet(TokensHeld', {r \in RequestsOf(s) : res'[r].day = d})
  <1>1. HeldOn(s, student[s].day)' = N(day) /\ \A d \in Nat : HeldOn(s, d)' = N(d)
    BY DEF HeldOn, RequestsOf
  <1>2. student[s] \in StudentItem /\ student'[s] \in StudentItem
    BY DEF TypeOK
  <1>3. /\ student[s].day \in Nat /\ day \in Nat /\ student[s].today \in Int
        /\ student'[s].today \in Int
    BY <1>2 DEF StudentItem
  <1>4. CASE Quiet
    <2>1. \A d \in Nat : N(d) = HeldOn(s, d)
      <3>1. TokensHeld' = TokensHeld
        BY <1>4, QuietHolds DEF TokensHeld
      <3>2. \A r \in RequestsOf(s) : res'[r] = res[r]
        BY <1>4 DEF Quiet, RequestsOf
      <3> QED BY <3>1, <3>2 DEF HeldOn, RequestsOf
    <2> HIDE DEF N
    <2>2. ~backdated /\ student' = student
      BY <1>4 DEF Quiet
    <2>3. /\ student[s].today = HeldOn(s, student[s].day)
          /\ \A d \in Nat : HeldOn(s, d) <= MaxDaily
      BY <2>2 DEF DayBalances
    <2> QED BY <1>1, <1>3, <2>1, <2>2, <2>3
  <1>5. ASSUME NEW q \in Requests, Sent(q) \/ Released(q) \/ Charged(q)
        PROVE  student'[s].today = N(day) /\ \A d \in Nat : N(d) <= MaxDaily
    <2>1. OnlyOf(q) /\ KeepsDay(q) /\ ~backdated
      BY <1>5 DEF Sent, Released, Charged, KeepsDay
    <2>2. /\ student[s].today = HeldOn(s, student[s].day)
          /\ \A d \in Nat : HeldOn(s, d) <= MaxDaily /\ HeldOn(s, d) \in Int
      BY <2>1, HeldOnIsInt DEF DayBalances
    <2>3. /\ HeldTokens(q) \in Int /\ HeldTokens(q)' \in Int
          /\ HeldTokens(q)' <= HeldTokens(q)
      BY <1>5, HeldIsNat, HeldIsNatNext, TokensShrink
    <2>4. ASSUME NEW d \in Nat
          PROVE  N(d) = IF s = StudentOf[q] /\ d = res[q].day
                        THEN HeldOn(s, d) + HeldTokens(q)' - HeldTokens(q) ELSE HeldOn(s, d)
      <3> HIDE DEF N
      <3> QED BY <1>1, <2>1, DaySumMoves DEF KeepsDay
    <2> HIDE DEF N
    <2>5. ASSUME NEW d \in Nat PROVE N(d) <= MaxDaily
      BY <2>2, <2>3, <2>4, CapsType
    <2>6. CASE s = StudentOf[q]
      <3>1. day = student[s].day
        BY <2>1, <2>6 DEF KeepsDay
      <3>2. student'[s].today = IF res[q].day = student[s].day
                                THEN student[s].today + HeldTokens(q)' - HeldTokens(q)
                                ELSE student[s].today
        BY <2>1, <2>6 DEF KeepsDay
      <3>3. N(student[s].day) = IF student[s].day = res[q].day
                     THEN HeldOn(s, student[s].day) + HeldTokens(q)' - HeldTokens(q)
                     ELSE HeldOn(s, student[s].day)
        BY <1>3, <2>4, <2>6
      <3> QED BY <2>2, <2>5, <3>1, <3>2, <3>3
    <2>7. CASE s # StudentOf[q]
      <3>1. student'[s] = student[s]
        BY <2>1, <2>7 DEF OnlyOf
      <3>2. N(student[s].day) = HeldOn(s, student[s].day)
        BY <1>3, <2>4, <2>7
      <3> QED BY <2>2, <2>5, <3>1, <3>2
    <2> QED BY <2>6, <2>7
  <1>6. ASSUME NEW q \in Requests, Opened(q)
        PROVE  student'[s].today = N(day) /\ \A d \in Nat : N(d) <= MaxDaily
    <2>1. OnlyOf(q) /\ OpensDay(q) /\ ~backdated
      BY <1>6 DEF Opened, OpensDay
    <2>2. /\ student[s].today = HeldOn(s, student[s].day)
          /\ \A d \in Nat : HeldOn(s, d) <= MaxDaily /\ HeldOn(s, d) \in Int
      BY <2>1, HeldOnIsInt DEF DayBalances
    <2>3. inv[q].budget \in Nat /\ Today(q) \in Nat
      BY ElementNumbers, DayIsNat DEF Today
    <2>4. ASSUME NEW d \in Nat
          PROVE  N(d) = IF s = StudentOf[q] /\ d = Today(q)
                        THEN HeldOn(s, d) + inv[q].budget ELSE HeldOn(s, d)
      <3> HIDE DEF N
      <3> QED BY <1>1, <1>6, DaySumOpens
    <2> HIDE DEF N
    <2>5. CASE s = StudentOf[q]
      <3>1. /\ day = Today(q) /\ student'[s].today <= MaxDaily
            /\ \/ student[s].day = Today(q) /\ student'[s].today = student[s].today + inv[q].budget
               \/ student[s].day < Today(q) /\ student'[s].today = inv[q].budget
        BY <2>1, <2>5 DEF OpensDay
      <3>2. N(Today(q)) = HeldOn(s, Today(q)) + inv[q].budget
        BY <2>3, <2>4, <2>5
      <3>3. student'[s].today = N(Today(q))
        <4>1. CASE student[s].day = Today(q) /\ student'[s].today = student[s].today + inv[q].budget
          BY <2>2, <3>2, <4>1
        <4>2. CASE student[s].day < Today(q) /\ student'[s].today = inv[q].budget
          <5>1. HeldOn(s, Today(q)) = 0
            BY <2>1, <2>3, <4>2, LaterDaysEmpty
          <5> QED BY <2>3, <3>2, <4>2, <5>1
        <4> QED BY <3>1, <4>1, <4>2
      <3>4. ASSUME NEW d \in Nat PROVE N(d) <= MaxDaily
        <4>1. CASE d = Today(q)
          BY <3>1, <3>3, <4>1
        <4>2. CASE d # Today(q)
          BY <2>2, <2>4, <4>2
        <4> QED BY <4>1, <4>2
      <3> QED BY <3>1, <3>3, <3>4
    <2>6. CASE s # StudentOf[q]
      <3>1. student'[s] = student[s]
        BY <2>1, <2>6 DEF OnlyOf
      <3> QED BY <1>3, <2>2, <2>4, <2>6, <3>1
    <2> QED BY <2>5, <2>6
  <1> HIDE DEF N
  <1> QED BY <1>1, <1>4, <1>5, <1>6, Effects

-----------------------------------------------------------------------------
\* The inductive invariant of the books.
BooksIInv == IInv /\ Balanced /\ DayBalances /\ \A r \in Requests : BillHeld(r)

LEMMA BooksInit == Init => BooksIInv
  <1> SUFFICES ASSUME Init PROVE BooksIInv
    OBVIOUS
  <1>1. ASSUME NEW r \in Requests
        PROVE  /\ HeldCost(r) = 0 /\ HeldTokens(r) = 0 /\ BillHeld(r)
               /\ Costs[r] = 0 /\ TokensHeld[r] = 0
    <2>1. res[r].status = "NONE" /\ bill[r] = NoUsage
      BY DEF Init, NoReservation
    <2> QED BY <2>1, Holds DEF BillHeld, Costs, TokensHeld
  <1>2. SumFunctionOnSet(Costs, Requests) = 0
    BY <1>1, RequestsFinite, SumOfZeros
  <1>3. ASSUME NEW s \in Students PROVE SumFunctionOnSet(TokensHeld, RequestsOf(s)) = 0
    <2>1. IsFiniteSet(RequestsOf(s)) /\ \A x \in RequestsOf(s) : TokensHeld[x] = 0
      BY <1>1, RequestsOfFinite
    <2> QED BY <2>1, SumOfZeros
  <1>4. ASSUME NEW s \in Students, NEW d \in Nat PROVE HeldOn(s, d) = 0
    <2> DEFINE D == {r \in RequestsOf(s) : res[r].day = d}
    <2>1. IsFiniteSet(D) /\ \A x \in D : TokensHeld[x] = 0
      BY <1>1, DaySet
    <2> QED BY <2>1, SumOfZeros DEF HeldOn
  <1>5. Balanced
    BY <1>2, <1>3 DEF Balanced, Init, FreshStudent
  <1>6. DayBalances
    <2>1. \A s \in Students : student[s].today = 0 /\ student[s].day = 0
      BY DEF Init, FreshStudent
    <2> QED BY <1>4, <2>1, CapsType DEF DayBalances
  <1> QED BY <1>1, <1>5, <1>6, IInvInit DEF BooksIInv

LEMMA BooksNext == BooksIInv /\ [Next]_vars => BooksIInv'
  <1> SUFFICES ASSUME BooksIInv, [Next]_vars PROVE BooksIInv'
    OBVIOUS
  <1>1. IInv' /\ TypeOK /\ TypeOK' /\ Lifecycle
    BY IInvNext DEF BooksIInv, IInv
  <1>2. Balanced'
    BY <1>1, BalanceNext DEF BooksIInv
  <1>3. DayBalances'
    BY <1>1, DayBalancesNext DEF BooksIInv, IInv
  <1>4. \A r \in Requests : BillHeld(r)'
    BY <1>1, BillNext DEF BooksIInv
  <1> QED BY <1>1, <1>2, <1>3, <1>4 DEF BooksIInv

LEMMA BooksInvariant == Spec => []BooksIInv
  BY BooksInit, BooksNext, PTL DEF Spec

\* No update of a counter is lost or applied twice, and what Bedrock charges is
\* within what the pool has booked (_reservation_transaction,
\* _settle_reservation, finalize_ambiguous_reservation).
THEOREM BooksBalanceCorrect == Spec => []BooksBalance
  <1>1. ASSUME BooksIInv PROVE BooksBalance
    <2>1. TypeOK
      BY <1>1 DEF BooksIInv, IInv
    <2>2. ASSUME NEW r \in Requests
          PROVE  Bills[r] \in Int /\ Costs[r] \in Int /\ Bills[r] <= Costs[r]
      BY <1>1, <2>1, BillWithinHeld, ElementNumbers, HeldIsNat DEF BooksIInv, Bills, Costs
    <2>3. SumFunctionOnSet(Bills, Requests) <= SumFunctionOnSet(Costs, Requests)
      BY <2>2, RequestsFinite, SumMonotone
    <2> QED BY <1>1, <2>3 DEF BooksIInv, Balanced, BooksBalance
  <1> QED BY <1>1, BooksInvariant, PTL

\* A student's calls of one day never hold more than the daily cap, as long as
\* no reservation has moved a day backwards (reserve_quota).
THEOREM DailyCapHoldsCorrect == Spec => []DailyCapHolds
  <1>1. ASSUME BooksIInv PROVE DailyCapHolds
    <2>1. 0..Day(MaxTime) \subseteq Nat
      OBVIOUS
    <2> QED BY <1>1, <2>1 DEF BooksIInv, DayBalances, DailyCapHolds
  <1> QED BY <1>1, BooksInvariant, PTL

-----------------------------------------------------------------------------
(* The refinement.  Opening an entry needs a budget: that a running         *)
(* invocation has one is an invariant of its own.                           *)

BudgetKnown == \A r \in Requests : inv[r].pc \in Running => inv[r].budget \in Budgets

\* A step that ends r or keeps its budget.
LEMMA BudgetKept ==
  ASSUME TypeOK, BudgetKnown, NEW r \in Requests,
         \A x \in Requests : x # r => inv'[x] = inv[x],
         \/ inv'[r].pc \notin Running
         \/ inv[r].pc \in Running /\ inv'[r].budget = inv[r].budget
  PROVE  BudgetKnown'
  BY DEF BudgetKnown

LEMMA BudgetNext == TypeOK /\ BudgetKnown /\ [Next]_vars => BudgetKnown'
  <1> SUFFICES ASSUME TypeOK, BudgetKnown, [Next]_vars PROVE BudgetKnown'
    OBVIOUS
  <1> USE DEF At
  <1>1. ASSUME NEW r \in Requests, NEW pc \in Finished, End(r, pc) PROVE BudgetKnown'
    BY <1>1, EndFacts, BudgetKept DEF Finished, Running
  <1>2. ASSUME NEW r \in Requests, NEW pc, inv[r].pc \in Running, inv' = [inv EXCEPT ![r].pc = pc]
        PROVE  BudgetKnown'
    BY <1>2, PcFacts, BudgetKept
  <1>3. ASSUME NEW r \in Requests, inv[r].pc \in Running, inv' = [inv EXCEPT ![r].attempt = 2]
        PROVE  BudgetKnown'
    BY <1>3, AttemptFacts, BudgetKept
  <1>4. ASSUME NEW r \in Requests, inv[r].pc \in Running, NextInPage(r) PROVE BudgetKnown'
    BY <1>4, NextInPageFacts, BudgetKept
  <1>5. ASSUME NEW r \in Requests, NEW b \in Budgets, Authenticate(r, b) PROVE BudgetKnown'
    <2>1. /\ inv'[r] = [inv[r] EXCEPT !.pc = "admitted", !.start = now, !.budget = b,
                                     !.item = student[StudentOf[r]]]
          /\ \A x \in Requests : x # r => inv'[x] = inv[x]
      BY <1>5 DEF Authenticate, TypeOK
    <2>2. inv'[r].budget = b
      BY <2>1, ElementTypes DEF Invocation
    <2> QED BY <2>1, <2>2 DEF BudgetKnown
  <1>6. ASSUME NEW r \in Requests, RecoveryQuery(r) PROVE BudgetKnown'
    <2>1. PICK p \in Pages :
            inv' = [inv EXCEPT ![r] = [@ EXCEPT !.pc = "recovering",
                                                !.attempt = 1,
                                                !.todo = [i \in DOMAIN p |-> <<p[i], res[p[i]].status>>]]]
      BY <1>6 DEF RecoveryQuery
    <2> DEFINE page == [i \in DOMAIN p |-> <<p[i], res[p[i]].status>>]
    <2> HIDE DEF page
    <2>2. /\ inv'[r] = [inv[r] EXCEPT !.pc = "recovering", !.attempt = 1, !.todo = page]
          /\ \A x \in Requests : x # r => inv'[x] = inv[x]
      BY <2>1 DEF TypeOK, page
    <2>3. inv'[r].budget = inv[r].budget /\ inv[r].pc \in Running
      BY <1>6, <2>2, ElementTypes DEF Invocation, RecoveryQuery, Running
    <2> QED BY <2>2, <2>3, BudgetKept
  <1>7. ASSUME NEW r \in Requests, ReadClock(r) PROVE BudgetKnown'
    <2>1. CASE inv' = [inv EXCEPT ![r] = [@ EXCEPT !.pc = "reserving", !.readAt = now]]
      <3>1. /\ inv'[r] = [inv[r] EXCEPT !.pc = "reserving", !.readAt = now]
            /\ \A x \in Requests : x # r => inv'[x] = inv[x]
        BY <2>1 DEF TypeOK
      <3>2. inv'[r].budget = inv[r].budget /\ inv[r].pc \in Running
        BY <1>7, <3>1, ElementTypes DEF Invocation, ReadClock, Running
      <3> QED BY <3>1, <3>2, BudgetKept
    <2> QED BY <1>1, <1>7, <2>1 DEF ReadClock, Finished
  <1>8. ASSUME NEW r \in Requests, NEW u \in UsagesWithin(inv[r].budget), CallBedrock(r, u)
        PROVE  BudgetKnown'
    <2>1. /\ inv'[r] = [inv[r] EXCEPT !.pc = "called", !.attempt = 1]
          /\ \A x \in Requests : x # r => inv'[x] = inv[x]
      BY <1>8 DEF CallBedrock, TypeOK
    <2>2. inv'[r].budget = inv[r].budget
      BY <2>1, ElementTypes DEF Invocation
    <2>3. inv[r].pc \in Running
      BY <1>8 DEF CallBedrock, Running
    <2> QED BY <2>1, <2>2, <2>3, BudgetKept
  <1>9. ASSUME NEW r \in Requests, Step(r) PROVE BudgetKnown'
    <2>1. CASE CheckQuotaBefore(r)
      <3>1. CASE inv' = [inv EXCEPT ![r] = [@ EXCEPT !.pc = "checked",
                                        !.item = [FreshStudent EXCEPT !.day = inv[r].item.day]]]
        BY <2>1, <3>1, CheckedFacts, BudgetKept DEF CheckQuotaBefore, Running
      <3> QED BY <1>1, <2>1, <3>1 DEF CheckQuotaBefore, Finished
    <2>2. ASSUME NEW q \in Requests, RecoverRefund(r, q) PROVE BudgetKnown'
      BY <1>4, <2>2 DEF RecoverRefund, Recovering, Running
    <2>3. ASSUME NEW q \in Requests, RecoverCancelled(r, q) PROVE BudgetKnown'
      BY <1>3, <1>4, <2>3 DEF RecoverCancelled, Recovering, Running
    <2>4. ASSUME NEW q \in Requests, RecoverWriteOff(r, q) PROVE BudgetKnown'
      BY <1>4, <2>4 DEF RecoverWriteOff, Recovering, Running
    <2>5. CASE ReserveSameDay(r) \/ ReserveRollover(r)
      <3>1. ReservePoolAndItem(r) /\ inv[r].pc \in Running
        BY <2>5 DEF ReserveSameDay, ReserveRollover, Running
      <3> QED BY <3>1, ReserveFacts, BudgetKept
    <2>6. CASE ReserveCancelled(r)
      BY <1>1, <1>3, <2>6 DEF ReserveCancelled, Running, Finished
    <2>10. CASE ReconcileCancelled(r)
      <3>1. inv[r].pc = "called"
        BY <2>10 DEF ReconcileCancelled
      <3>2. CASE inv'[r].pc = "late"
        BY <2>10, <3>1, <3>2, CancelledFacts DEF BudgetKnown, Running
      <3>3. CASE inv'[r].budget = inv[r].budget
        BY <2>10, <3>1, <3>3, CancelledFacts, BudgetKept DEF Running
      <3> QED BY <2>10, <3>1, <3>2, <3>3, CancelledFacts
    <2>7. CASE MarkDispatched(r)
      BY <1>1, <1>2, <2>7 DEF MarkDispatched, Running, Finished
    <2>8. CASE ReconcileUsage(r) \/ BedrockRaises(r)
      BY <1>1, <2>8 DEF ReconcileUsage, BedrockRaises, Finished
    <2> QED BY <1>5, <1>6, <1>7, <1>8, <1>9, <2>1, <2>2, <2>3, <2>4, <2>5, <2>6, <2>7, <2>8,
              <2>10 DEF Step
  <1>10. ASSUME NEW r \in Requests, Crash(r) PROVE BudgetKnown'
    BY <1>1, <1>10 DEF Crash, Finished
  <1>11. CASE Tick \/ UNCHANGED vars
    BY <1>11 DEF Tick, vars, BudgetKnown
  <1> QED BY <1>9, <1>10, <1>11 DEF Next

LEMMA BudgetInvariant == Spec => []BudgetKnown
  <1>1. Init => BudgetKnown
    BY DEF Init, BudgetKnown, Idle, Running
  <1>2. BooksIInv => TypeOK
    BY DEF BooksIInv, IInv
  <1> QED BY <1>1, <1>2, BudgetNext, BooksInvariant, PTL DEF Spec

\* The states and the amounts of an entry.
LEMMA EntryIs ==
  ASSUME NEW r \in Requests
  PROVE  /\ Entries[r].cost = HeldCost(r) /\ Entries[r].tokens = HeldTokens(r)
         /\ res[r].status = "NONE" => Entries[r].state = "none"
         /\ res[r].status = "RESERVED" => Entries[r].state = "open"
         /\ res[r].status = "DISPATCHED" => Entries[r].state = "sent"
         /\ res[r].status = "REFUNDED" => Entries[r].state = "released"
         /\ res[r].status \in {"SETTLED", "AMBIGUOUS"} => Entries[r].state = "charged"
  BY DEF Entries, LedgerState

LEMMA EntryIsNext ==
  ASSUME NEW r \in Requests
  PROVE  /\ Entries'[r].cost = HeldCost(r)' /\ Entries'[r].tokens = HeldTokens(r)'
         /\ res'[r].status = "NONE" => Entries'[r].state = "none"
         /\ res'[r].status = "RESERVED" => Entries'[r].state = "open"
         /\ res'[r].status = "DISPATCHED" => Entries'[r].state = "sent"
         /\ res'[r].status = "REFUNDED" => Entries'[r].state = "released"
         /\ res'[r].status \in {"SETTLED", "AMBIGUOUS"} => Entries'[r].state = "charged"
  BY DEF Entries, LedgerState

LEMMA EntriesType == TypeOK => Entries \in [Requests -> Ledger!Entry]
  <1> SUFFICES ASSUME TypeOK, NEW r \in Requests
               PROVE  [state |-> LedgerState[res[r].status], cost |-> HeldCost(r),
                       tokens |-> HeldTokens(r)] \in Ledger!Entry
    BY DEF Entries
  <1>1. LedgerState[res[r].status] \in {"none", "open", "sent", "released", "charged"}
    <2>1. res[r].status \in Stored \cup Consumed \cup {"NONE"}
      BY ElementNumbers
    <2> QED BY <2>1 DEF LedgerState, Stored, Consumed
  <1> QED BY <1>1, HeldIsNat DEF Ledger!Entry

\* The ledger's sums are those of this module.
LEMMA LedgerSum ==
  ASSUME NEW f, NEW S PROVE Ledger!SumFunctionOnSet(f, S) = SumFunctionOnSet(f, S)
  BY DEF SumFunctionOnSet, FoldFunctionOnSet, MapThenFoldSet,
         Ledger!SumFunctionOnSet, Ledger!FoldFunctionOnSet, Ledger!MapThenFoldSet

\* The guards on the counters are the ledger's guard on its sums.
LEMMA LedgerWithinCaps == Balanced /\ CapsHold => Ledger!WithinCaps
  <1> SUFFICES ASSUME Balanced, CapsHold PROVE Ledger!WithinCaps
    OBVIOUS
  <1>1. Ledger!CostsOf = Costs /\ Ledger!TokensOf = TokensHeld
    BY EntryIs DEF Ledger!CostsOf, Ledger!TokensOf, Costs, TokensHeld
  <1>2. \A s \in Students : Ledger!CallsOf(s) = RequestsOf(s)
    BY DEF Ledger!CallsOf, RequestsOf
  <1>3. SumFunctionOnSet(Ledger!CostsOf, Requests) <= PoolSoft
    BY <1>1 DEF Balanced, CapsHold
  <1>4. \A s \in Students : SumFunctionOnSet(Ledger!TokensOf, Ledger!CallsOf(s)) <= MaxTotal
    BY <1>1, <1>2 DEF Balanced, CapsHold
  <1> QED BY <1>3, <1>4, LedgerSum DEF Ledger!WithinCaps

LEMMA LedgerInit == Init => Ledger!Init
  <1> SUFFICES ASSUME Init PROVE Ledger!Init
    OBVIOUS
  <1>1. \A r \in Requests : res[r].status = "NONE"
    BY DEF Init, NoReservation
  <1>2. \A r \in Requests : /\ LedgerState[res[r].status] = "none"
                            /\ HeldCost(r) = 0 /\ HeldTokens(r) = 0
    BY <1>1, Holds DEF LedgerState
  <1> QED BY <1>2 DEF Ledger!Init, Entries

LEMMA LedgerNext ==
  ASSUME PriceIn > 0 \/ PriceOut > 0, BooksIInv, BooksIInv', BudgetKnown, [Next]_vars
  PROVE  [Ledger!Next]_Entries
  <1>1. TypeOK /\ TypeOK' /\ Lifecycle /\ \A r \in Requests : BillHeld(r)
    BY DEF BooksIInv, IInv
  <1>2. Entries' \in [Requests -> Ledger!Entry]
    <2>1. (TypeOK => Entries \in [Requests -> Ledger!Entry])'
      BY EntriesType, PTL
    <2> QED BY <1>1, <2>1 DEF Ledger!Entry
  <1>3. Ledger!WithinCaps'
    <2>1. (Balanced /\ CapsHold => Ledger!WithinCaps)'
      BY LedgerWithinCaps, PTL
    <2> QED BY <2>1 DEF BooksIInv, IInv
  <1>4. CASE Quiet
    <2>1. \A x \in Requests : /\ res'[x] = res[x]
                              /\ HeldCost(x)' = HeldCost(x) /\ HeldTokens(x)' = HeldTokens(x)
      BY <1>4, QuietHolds DEF Quiet
    <2> QED BY <2>1 DEF Entries, LedgerState
  <1>5. ASSUME NEW q \in Requests, OnlyOf(q), NEW x \in Requests \ {q}
        PROVE  Entries'[x] = Entries[x]
    BY <1>5, OthersHold DEF OnlyOf, Entries, LedgerState
  <1>6. ASSUME NEW q \in Requests, Opened(q) PROVE Ledger!Open(q)
    <2>1. /\ OnlyOf(q) /\ res[q].status = "NONE" /\ res'[q].status = "RESERVED"
          /\ res'[q].budget = inv[q].budget /\ inv[q].pc = "reserving"
      BY <1>6 DEF Opened
    <2>2. inv[q].budget \in Nat \ {0}
      BY <2>1, BudgetsType DEF BudgetKnown, Running
    <2>3. Max2(PriceIn, PriceOut) \in Nat \ {0}
      BY PricesType DEF Max2
    <2>4. ReservationCost(inv[q].budget) > 0
      BY <2>2, <2>3, SMTT(30) DEF ReservationCost
    <2>5. HeldCost(q)' > 0 /\ HeldTokens(q)' > 0
      BY <2>1, <2>2, <2>4, HoldsNext
    <2>6. Ledger!Moves(q, "none", "open")
      BY <1>5, <2>1, EntryIs, EntryIsNext DEF Ledger!Moves
    <2> QED BY <1>3, <2>5, <2>6, EntryIsNext DEF Ledger!Open
  <1>7. ASSUME NEW q \in Requests, Sent(q) PROVE Ledger!Send(q)
    <2>1. Ledger!Moves(q, "open", "sent")
      BY <1>5, <1>7, EntryIs, EntryIsNext DEF Ledger!Moves, Sent
    <2>2. HeldCost(q)' = HeldCost(q) /\ HeldTokens(q)' = HeldTokens(q)
      BY <1>7, Holds, HoldsNext DEF Sent, KeepsDay
    <2> QED BY <2>1, <2>2, EntryIs, EntryIsNext DEF Ledger!Send
  <1>8. ASSUME NEW q \in Requests, Released(q) PROVE Ledger!Release(q)
    <2>1. Ledger!Moves(q, "open", "released")
      BY <1>5, <1>8, EntryIs, EntryIsNext DEF Ledger!Moves, Released
    <2>2. HeldCost(q)' = 0 /\ HeldTokens(q)' = 0
      BY <1>8, HoldsNext DEF Released
    <2> QED BY <2>1, <2>2, EntryIsNext DEF Ledger!Release
  <1>9. ASSUME NEW q \in Requests, Charged(q) PROVE Ledger!Charge(q)
    <2>1. Ledger!Moves(q, "sent", "charged")
      BY <1>5, <1>9, EntryIs, EntryIsNext DEF Ledger!Moves, Charged
    <2>2. HeldCost(q)' <= HeldCost(q) /\ HeldTokens(q)' <= HeldTokens(q)
      BY <1>1, <1>9, TokensShrink
    <2> QED BY <2>1, <2>2, EntryIs, EntryIsNext DEF Ledger!Charge
  <1> QED BY <1>1, <1>2, <1>4, <1>6, <1>7, <1>8, <1>9, Effects DEF Ledger!Next

\* The gateway implements the ledger, if at least one of the two prices is
\* positive (with two prices of zero an entry would be opened at no cost): its
\* transactions, conditional on counters, keep the ledger's sums within the caps.
THEOREM ImplementsLedgerCorrect ==
  ASSUME PriceIn > 0 \/ PriceOut > 0
  PROVE  Spec => ImplementsLedger
  <1>1. BooksIInv /\ BooksIInv' /\ BudgetKnown /\ [Next]_vars => [Ledger!Next]_Entries
    BY LedgerNext
  <1> QED
    BY <1>1, LedgerInit, BooksInvariant, BudgetInvariant, PTL DEF Spec, ImplementsLedger, Ledger!Spec
=============================================================================
