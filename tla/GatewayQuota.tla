---------------------------- MODULE GatewayQuota ----------------------------
(***************************************************************************)
(* The paid-call path of the serverless LLM gateway                        *)
(* (gateway/src/invoke.py and the quota half of gateway/src/common.py).    *)
(*                                                                         *)
(* Every element of Requests is one Lambda invocation of invoke.handler.   *)
(* Invocations share three kinds of DynamoDB items and nothing else:       *)
(*   - student[s]  the STUDENT#s item: tokens used in total and today, and *)
(*                 the day the "today" counter belongs to;                 *)
(*   - pool        the POOL item: cost and tokens of all students;         *)
(*   - res[r]      the RESERVATION item of invocation r.  The item exists  *)
(*                 while its status is RESERVED or DISPATCHED; the other   *)
(*                 statuses remember how it was consumed.                  *)
(* One DynamoDB call is one step; what a handler keeps in local variables  *)
(* between two calls is inv[r].  bill[r] is what Bedrock really charged.   *)
(* History: inv[r].conflict, a reconciliation of r has been cancelled      *)
(* although its condition held; backdated, a day was rolled backwards.     *)
(*                                                                         *)
(* DynamoDB cancels a transaction when a condition is false, and also when *)
(* another writer is at one of its items or it is throttled; the code does *)
(* not tell these apart (_transaction_cancelled).  Every transaction below *)
(* may therefore be cancelled although its condition holds.                *)
(*                                                                         *)
(* Time advances in ticks of one Lambda timeout.  Costs are counted in     *)
(* units of PriceIn and PriceOut, so that they stay integers.              *)
(***************************************************************************)
EXTENDS Integers, Sequences, FiniteSets, Functions

CONSTANTS
    Students,
    Requests,
    StudentOf,      \* the student whose token invocation r carries
    Budgets,        \* possible results of estimate_request_tokens
    PriceIn,        \* PRICE_IN_PER_1K
    PriceOut,       \* PRICE_OUT_PER_1K
    MaxTotal,       \* max_total_tokens of a student
    MaxDaily,       \* max_daily_tokens of a student
    PoolSoft,       \* POOL_SOFT_USD
    TTL,            \* RESERVATION_TTL_SECONDS, in ticks
    LambdaTicks,    \* tick boundaries an invocation can live across
    RecoveryLimit,  \* RESERVATION_RECOVERY_LIMIT
    DayTicks,       \* ticks in a UTC day
    MaxTime         \* bound of the model: the last tick

ASSUME RequestsFinite == IsFiniteSet(Requests)
ASSUME StudentOfType == StudentOf \in [Requests -> Students]
ASSUME BudgetsType   == Budgets \subseteq Nat \ {0}
ASSUME PricesType    == PriceIn \in Nat /\ PriceOut \in Nat
ASSUME CapsType      == MaxTotal \in Nat /\ MaxDaily \in Nat /\ PoolSoft \in Nat
ASSUME TimeType      == /\ DayTicks \in Nat \ {0}
                        /\ MaxTime \in Nat
                        /\ LambdaTicks \in Nat
                        /\ RecoveryLimit \in Nat \ {0}
\* common.py raises the configured TTL to at least 60 s; template.yaml gives
\* the function a timeout of 30 s.
ASSUME TTLOutlivesLambda == TTL \in Nat /\ TTL > LambdaTicks

VARIABLES now, student, pool, res, inv, bill, backdated

vars == <<now, student, pool, res, inv, bill, backdated>>

-----------------------------------------------------------------------------
(* Values *)

Max2(a, b) == IF a >= b THEN a ELSE b

\* _reservation_cost: every reserved token at the dearer of the two prices.
ReservationCost(b) == b * Max2(PriceIn, PriceOut)

\* The price of a Bedrock call that reports input and output tokens.
Cost(u) == u.input * PriceIn + u.output * PriceOut

Tokens(u) == u.input + u.output

NoUsage == [input |-> 0, output |-> 0]

\* What Bedrock may report for a call budgeted at b: the estimate is a bound.
UsagesWithin(b) ==
    {u \in [input : 0..b, output : 0..b] : Tokens(u) <= b}

\* _today at tick t
Day(t) == t \div DayTicks

Stored == {"RESERVED", "DISPATCHED"}
Consumed == {"REFUNDED", "SETTLED", "AMBIGUOUS"}
NoReservation == [status |-> "NONE", budget |-> 0, day |-> 0, expires |-> 0]

Finished == {"done", "refused", "late", "failed", "crashed"}
Running == {"admitted", "checked", "recovering", "reserving", "reserved",
            "dispatched", "called"}

FreshStudent == [total |-> 0, today |-> 0, day |-> 0]

Idle == [pc |-> "idle", start |-> 0, budget |-> 0, item |-> FreshStudent,
         readAt |-> 0, attempt |-> 1, todo |-> <<>>, conflict |-> FALSE]

At(r, pc) == inv[r].pc = pc

\* Variant: the recovery query without its cutoff.
ExpiredWithoutCutoff == {q \in Requests : res[q].status \in Stored}
\* The reservations a strongly consistent query returns as expired now.
Expired == {q \in Requests : res[q].status \in Stored /\ res[q].expires <= now}

\* Invocation r ends: its local variables are gone.
End(r, pc) == inv' = [inv EXCEPT ![r] = [Idle EXCEPT !.pc = pc]]

-----------------------------------------------------------------------------
Init ==
    /\ now = 0
    /\ student = [s \in Students |-> FreshStudent]
    /\ pool = [cost |-> 0, tokens |-> 0]
    /\ res = [r \in Requests |-> NoReservation]
    /\ inv = [r \in Requests |-> Idle]
    /\ bill = [r \in Requests |-> NoUsage]
    /\ backdated = FALSE

(***************************************************************************)
(* Admission.  authenticate reads the student item once; every later check *)
(* of the handler that looks at "item" looks at this copy.                 *)
(***************************************************************************)
Authenticate(r, b) ==
    /\ At(r, "idle")
    /\ inv' = [inv EXCEPT ![r] =
                 [@ EXCEPT !.pc = "admitted", !.start = now, !.budget = b,
                           !.item = student[StudentOf[r]]]]
    /\ UNCHANGED <<now, student, pool, res, bill, backdated>>

\* check_quota_before: both token caps on the copy.  The pool is read without
\* ConsistentRead, so the value compared with the soft cap may be an old one:
\* the check may refuse or let pass whatever the pool holds now.  Of the copy
\* only the day is used afterwards.
CheckQuotaBefore(r) ==
    /\ At(r, "admitted")
    /\ \/ End(r, "refused")
       \/ /\ inv[r].item.total < MaxTotal
          /\ inv[r].item.day = Day(now) => inv[r].item.today < MaxDaily
          /\ inv' = [inv EXCEPT ![r] = [@ EXCEPT !.pc = "checked",
                                                 !.item = [FreshStudent EXCEPT !.day = inv[r].item.day]]]
    /\ UNCHANGED <<now, student, pool, res, bill, backdated>>

(***************************************************************************)
(* Settling a reservation (_settle_reservation).  The transaction is tried *)
(* first for a student item still on the reservation's day, then for one   *)
(* on another day; each attempt is a step of its own, because other        *)
(* invocations may move the day in between.                                *)
(***************************************************************************)
\* A student item is created with its "today", so that the condition's
\* attribute_not_exists(today) is never the one that holds.
DayMatches(q, attempt) ==
    (student[StudentOf[q]].day = res[q].day) <=> (attempt = 1)

\* Variant: the Delete of the transaction without its status condition.
CanSettleAnyStatus(q, expected, delta, attempt) == delta = 0 \/ DayMatches(q, attempt)

CanSettle(q, expected, delta, attempt) ==
    /\ res[q].status = expected
    /\ delta = 0 \/ DayMatches(q, attempt)

\* Variant: only the same-day transaction is tried.
OnlyOneAttempt(delta, attempt) == TRUE

LastAttempt(delta, attempt) == delta = 0 \/ attempt = 2

\* The three updates of the transaction.
Settle(q, delta, tokens, cost, attempt, outcome) ==
    /\ student' = [student EXCEPT ![StudentOf[q]] =
                     [total |-> @.total + delta,
                      today |-> IF attempt = 1 THEN @.today + delta ELSE @.today,
                      day |-> @.day]]
    /\ pool' = [cost |-> pool.cost + cost - ReservationCost(res[q].budget),
                tokens |-> pool.tokens + tokens]
    /\ res' = [res EXCEPT ![q].status = outcome]

\* finalize_ambiguous_reservation: keep the whole charge, move the item to
\* the usage ledger.  A transaction that is cancelled changes nothing, and
\* neither caller looks at the result.
Finalize(q) ==
    \/ /\ res[q].status = "DISPATCHED"
       /\ pool' = [pool EXCEPT !.tokens = @ + res[q].budget]
       /\ res' = [res EXCEPT ![q].status = "AMBIGUOUS"]
    \/ UNCHANGED <<pool, res>>

(***************************************************************************)
(* reserve_quota, first half: recover_expired_reservations.  The query     *)
(* returns copies of expired items, oldest first and at most               *)
(* RecoveryLimit; they are then settled one by one, by the status the copy *)
(* shows.                                                                  *)
(***************************************************************************)
Min2(a, b) == IF a <= b THEN a ELSE b

\* The pages the query may return: a page is sorted by expiry (ties by the
\* random id, so in any order) and leaves out nothing older than its items.
Pages ==
    LET n == Min2(RecoveryLimit, Cardinality(Expired)) IN
    {p \in [1..n -> Expired] :
        /\ \A i, j \in 1..n : i < j => p[i] # p[j] /\ res[p[i]].expires <= res[p[j]].expires
        /\ \A i \in 1..n, q \in Expired :
             (\A j \in 1..n : p[j] # q) => res[p[i]].expires <= res[q].expires}

RecoveryQuery(r) ==
    /\ At(r, "checked")
    /\ \E p \in Pages :
         inv' = [inv EXCEPT ![r] = [@ EXCEPT !.pc = "recovering",
                                             !.attempt = 1,
                                             !.todo = [i \in DOMAIN p |-> <<p[i], res[p[i]].status>>]]]
    /\ UNCHANGED <<now, student, pool, res, bill, backdated>>

\* Invocation r is about to settle q, which its copy shows with this status.
Recovering(r, q, status) ==
    /\ At(r, "recovering")
    /\ inv[r].todo # <<>>
    /\ Head(inv[r].todo) = <<q, status>>

NextInPage(r) == inv' = [inv EXCEPT ![r] = [@ EXCEPT !.todo = Tail(inv[r].todo), !.attempt = 1]]

RecoverRefund(r, q) ==
    /\ Recovering(r, q, "RESERVED")
    /\ CanSettle(q, "RESERVED", -res[q].budget, inv[r].attempt)
    /\ Settle(q, -res[q].budget, 0, 0, inv[r].attempt, "REFUNDED")
    /\ NextInPage(r)
    /\ UNCHANGED <<now, bill, backdated>>

RecoverCancelled(r, q) ==
    /\ Recovering(r, q, "RESERVED")
    /\ IF LastAttempt(-res[q].budget, inv[r].attempt)
       THEN NextInPage(r)
       ELSE inv' = [inv EXCEPT ![r].attempt = 2]
    /\ UNCHANGED <<now, student, pool, res, bill, backdated>>

RecoverWriteOff(r, q) ==
    /\ Recovering(r, q, "DISPATCHED")
    /\ Finalize(q)
    /\ NextInPage(r)
    /\ UNCHANGED <<now, student, bill, backdated>>

(***************************************************************************)
(* reserve_quota, second half.  The clock is read, the budget is compared  *)
(* with the caps, and two transactions are tried: add to the current day,  *)
(* or roll the day over.  The copy's day decides which one goes first.     *)
(***************************************************************************)
ReadClock(r) ==
    /\ At(r, "recovering") /\ inv[r].todo = <<>>
    /\ LET b == inv[r].budget IN
       IF ReservationCost(b) > PoolSoft \/ b > MaxDaily \/ b > MaxTotal
       THEN End(r, "refused")
       ELSE inv' = [inv EXCEPT ![r] = [@ EXCEPT !.pc = "reserving", !.readAt = now]]
    /\ UNCHANGED <<now, student, pool, res, bill, backdated>>

Today(r) == Day(inv[r].readAt)

SameDayFirst(r) == inv[r].item.day = Today(r)
SameDayTurn(r) == SameDayFirst(r) <=> (inv[r].attempt = 1)

\* Variant: room is checked before the reservation, not after it.
RoomBeforeReserving(r) ==
    /\ pool.cost <= PoolSoft
    /\ student[StudentOf[r]].total <= MaxTotal

\* The conditions both transactions share.
RoomInTotalAndPool(r) ==
    /\ pool.cost <= PoolSoft - ReservationCost(inv[r].budget)
    /\ student[StudentOf[r]].total <= MaxTotal - inv[r].budget

SameDayCondition(r) ==
    /\ RoomInTotalAndPool(r)
    /\ student[StudentOf[r]].day = Today(r)
    /\ student[StudentOf[r]].today <= MaxDaily - inv[r].budget

\* Variant: the day counter may be reset on its own day.
RolloverAnyDay(r) == RoomInTotalAndPool(r) /\ inv[r].budget <= MaxDaily

RolloverCondition(r) ==
    /\ RoomInTotalAndPool(r)
    /\ student[StudentOf[r]].day # Today(r)
    /\ inv[r].budget <= MaxDaily

\* The pool update and the reservation item of either transaction; the handler
\* does not look at its copy of the student again.
ReservePoolAndItem(r) ==
    LET b == inv[r].budget IN
    /\ pool' = [pool EXCEPT !.cost = @ + ReservationCost(b)]
    /\ res' = [res EXCEPT ![r] = [status |-> "RESERVED", budget |-> b, day |-> Today(r),
                                  expires |-> inv[r].readAt + TTL]]
    /\ inv' = [inv EXCEPT ![r] = [@ EXCEPT !.pc = "reserved", !.attempt = 1,
                                          !.item = FreshStudent]]

ReserveSameDay(r) ==
    /\ At(r, "reserving") /\ SameDayTurn(r) /\ SameDayCondition(r)
    /\ ReservePoolAndItem(r)
    /\ student' = [student EXCEPT ![StudentOf[r]] =
                     [total |-> @.total + inv[r].budget,
                      today |-> @.today + inv[r].budget, day |-> @.day]]
    /\ UNCHANGED <<now, bill, backdated>>

ReserveRollover(r) ==
    /\ At(r, "reserving") /\ ~SameDayTurn(r) /\ RolloverCondition(r)
    /\ ReservePoolAndItem(r)
    /\ student' = [student EXCEPT ![StudentOf[r]] =
                     [total |-> @.total + inv[r].budget,
                      today |-> inv[r].budget, day |-> Today(r)]]
    /\ backdated' = (backdated \/ Today(r) < student[StudentOf[r]].day)
    /\ UNCHANGED <<now, bill>>

ReserveCancelled(r) ==
    /\ At(r, "reserving")
    /\ IF inv[r].attempt = 2
       THEN End(r, "refused")
       ELSE inv' = [inv EXCEPT ![r].attempt = 2]
    /\ UNCHANGED <<now, student, pool, res, bill, backdated>>

(***************************************************************************)
(* The call.  The reservation is marked DISPATCHED before Bedrock can see  *)
(* the request; afterwards it is reconciled with the reported usage, or    *)
(* written off when the call raises.                                       *)
(***************************************************************************)
\* Variant: the transition is not made durable.
MarkDispatchedLocally(r) ==
    /\ At(r, "reserved")
    /\ inv' = [inv EXCEPT ![r].pc = "dispatched"]
    /\ UNCHANGED <<now, student, pool, res, bill, backdated>>

MarkDispatched(r) ==
    /\ At(r, "reserved")
    /\ IF res[r].status = "RESERVED"
       THEN /\ res' = [res EXCEPT ![r].status = "DISPATCHED"]
            /\ inv' = [inv EXCEPT ![r].pc = "dispatched"]
       ELSE End(r, "refused") /\ UNCHANGED res
    /\ UNCHANGED <<now, student, pool, bill, backdated>>

\* Bedrock serves the call and charges the operator for it.
CallBedrock(r, u) ==
    /\ At(r, "dispatched")
    /\ u \in UsagesWithin(inv[r].budget)
    /\ bill' = [bill EXCEPT ![r] = u]
    /\ inv' = [inv EXCEPT ![r] = [@ EXCEPT !.pc = "called", !.attempt = 1]]
    /\ UNCHANGED <<now, student, pool, res, backdated>>

ReconcileDelta(r) == Tokens(bill[r]) - inv[r].budget

ReconcileUsage(r) ==
    /\ At(r, "called")
    /\ CanSettle(r, "DISPATCHED", ReconcileDelta(r), inv[r].attempt)
    /\ Settle(r, ReconcileDelta(r), Tokens(bill[r]), Cost(bill[r]), inv[r].attempt, "SETTLED")
    /\ End(r, "done")
    /\ UNCHANGED <<now, bill, backdated>>

\* Both attempts cancelled: the paid answer is dropped with reservation_expired.
ReconcileCancelled(r) ==
    /\ At(r, "called")
    /\ LET conflict == \/ inv[r].conflict
                       \/ CanSettle(r, "DISPATCHED", ReconcileDelta(r), inv[r].attempt)
       IN  inv' = [inv EXCEPT ![r] =
                     IF LastAttempt(ReconcileDelta(r), inv[r].attempt)
                     THEN [Idle EXCEPT !.pc = "late", !.conflict = conflict]
                     ELSE [@ EXCEPT !.attempt = 2, !.conflict = conflict]]
    /\ UNCHANGED <<now, student, pool, res, bill, backdated>>

\* invoke_bedrock raises, before or after Bedrock did the work.
BedrockRaises(r) ==
    /\ At(r, "called") /\ inv[r].attempt = 1
    /\ Finalize(r)
    /\ End(r, "failed")
    /\ UNCHANGED <<now, student, bill, backdated>>

(***************************************************************************)
(* The environment.  An invocation can stop between any two of its calls   *)
(* (an exception of the DynamoDB client, the Lambda timeout, a crash), and *)
(* none outlives the Lambda timeout.                                       *)
(***************************************************************************)
Crash(r) ==
    /\ inv[r].pc \in Running
    /\ End(r, "crashed")
    /\ UNCHANGED <<now, student, pool, res, bill, backdated>>

Tick ==
    /\ now < MaxTime
    /\ \A r \in Requests : inv[r].pc \in Running => now < inv[r].start + LambdaTicks
    /\ now' = now + 1
    /\ UNCHANGED <<student, pool, res, inv, bill, backdated>>

Step(r) ==
    \/ \E b \in Budgets : Authenticate(r, b)
    \/ CheckQuotaBefore(r)
    \/ RecoveryQuery(r)
    \/ \E q \in Requests : RecoverRefund(r, q)
    \/ \E q \in Requests : RecoverCancelled(r, q)
    \/ \E q \in Requests : RecoverWriteOff(r, q)
    \/ ReadClock(r)
    \/ ReserveSameDay(r)
    \/ ReserveRollover(r)
    \/ ReserveCancelled(r)
    \/ MarkDispatched(r)
    \/ \E u \in UsagesWithin(inv[r].budget) : CallBedrock(r, u)
    \/ ReconcileUsage(r)
    \/ ReconcileCancelled(r)
    \/ BedrockRaises(r)

Next == Tick \/ \E r \in Requests : Step(r) \/ Crash(r)

Spec == Init /\ [][Next]_vars

-----------------------------------------------------------------------------
(* Properties *)

StudentItem == [total : Int, today : Int, day : Nat]

ReservationItem ==
    [status : Stored \cup Consumed \cup {"NONE"},
     budget : Budgets \cup {0}, day : Nat, expires : Nat]

Invocation ==
    [pc : Running \cup Finished \cup {"idle"}, start : Nat, budget : Budgets \cup {0},
     item : StudentItem, readAt : Nat, attempt : {1, 2}, todo : Seq(Requests \X Stored),
     conflict : BOOLEAN]

\* The type invariant of the DynamoDB items and of the handlers' locals.
TypeOK ==
    /\ now \in Nat
    /\ student \in [Students -> StudentItem]
    /\ pool \in [cost : Int, tokens : Nat]
    /\ res \in [Requests -> ReservationItem]
    /\ inv \in [Requests -> Invocation]
    /\ bill \in [Requests -> [input : Nat, output : Nat]]
    /\ backdated \in BOOLEAN

\* Reservations, reconciliations and refunds in any order never take the
\* shared cost counter over the soft cap, nor a student over the total cap
\* (_reservation_transaction, _settle_reservation).
CapsHold ==
    /\ pool.cost <= PoolSoft
    /\ \A s \in Students : student[s].total <= MaxTotal

\* A reservation is given back only if its call never reached Bedrock: no
\* refund once the call may have been paid (recover_expired_reservations,
\* mark_reservation_dispatched).
NoPaidCallRefunded ==
    \A r \in Requests :
        res[r].status = "REFUNDED" => bill[r] = NoUsage /\ inv[r].pc \notin Running \cup {"done"}

\* While its invocation runs, a reservation stays in the table and has not
\* expired: recovery by another invocation never takes it away (the TTL of
\* at least 60 s against the Lambda timeout).
LiveReservationKept ==
    \A r \in Requests :
        /\ inv[r].pc = "reserved" => res[r].status = "RESERVED" /\ res[r].expires > now
        /\ inv[r].pc \in {"dispatched", "called"} =>
              res[r].status = "DISPATCHED" /\ res[r].expires > now

\* An answer Bedrock has charged for is refused as reservation_expired only after
\* a reconciliation of its own was cancelled although its condition held, or a
\* clock read before midnight had rolled a student's day backwards: neither other
\* invocations, nor recovery, nor midnight makes a paid answer late, and one
\* that is stays charged in full (reconcile_usage).
PaidAnswerDelivered ==
    \A r \in Requests :
        inv[r].pc = "late" =>
            (backdated \/ inv[r].conflict) /\ res[r].status \in {"DISPATCHED", "AMBIGUOUS"}

-----------------------------------------------------------------------------
(***************************************************************************)
(* The inductive invariant behind CapsHold, NoPaidCallRefunded,            *)
(* LiveReservationKept and PaidAnswerDelivered.                            *)
(***************************************************************************)
Unreserved == {"idle", "admitted", "checked", "recovering", "reserving"}
Holding == {"reserved", "dispatched", "called"}

\* An invocation is within its timeout, and read the clock while it ran.
InTime(r) ==
    /\ inv[r].pc \in Running => inv[r].start <= now /\ now <= inv[r].start + LambdaTicks
    /\ inv[r].pc \in Holding \cup {"reserving"} =>
          inv[r].start <= inv[r].readAt /\ inv[r].readAt <= now

\* What the program point of an invocation says about its reservation, ...
ItemOfPc(r) ==
    /\ inv[r].pc \in Unreserved => res[r].status = "NONE"
    /\ inv[r].pc = "reserved" => res[r].status = "RESERVED"
    /\ inv[r].pc \in {"dispatched", "called"} => res[r].status = "DISPATCHED"
    /\ inv[r].pc = "late" => res[r].status \in {"DISPATCHED", "AMBIGUOUS"}
    /\ inv[r].pc \in Holding =>
          res[r].expires = inv[r].readAt + TTL /\ res[r].budget = inv[r].budget
    /\ inv[r].pc = "called" => bill[r] \in UsagesWithin(inv[r].budget)

\* ... and the reservation about its invocation.
PcOfItem(r) ==
    /\ inv[r].pc \in Unreserved \cup {"reserved", "dispatched"} => bill[r] = NoUsage
    /\ res[r].status = "RESERVED" => inv[r].pc \in {"reserved", "crashed"} /\ bill[r] = NoUsage
    /\ res[r].status = "REFUNDED" => inv[r].pc = "crashed" /\ bill[r] = NoUsage

\* Copies on a recovery page are of reservations that have expired.
PageExpired(r) ==
    inv[r].pc = "recovering" =>
        \A i \in DOMAIN inv[r].todo :
            LET q == inv[r].todo[i][1] IN res[q].status # "NONE" /\ res[q].expires <= now

\* Without a backdated rollover, a student's day only moves forward, past the
\* days of all reservations and past a failed same-day reconciliation.
DayForward(r) ==
    ~backdated =>
        /\ res[r].status # "NONE" => res[r].day <= student[StudentOf[r]].day
        /\ ~inv[r].conflict =>
              /\ inv[r].pc = "called" /\ inv[r].attempt = 2 =>
                    res[r].day < student[StudentOf[r]].day
              /\ inv[r].pc # "late"

Lifecycle == \A r \in Requests : InTime(r) /\ ItemOfPc(r) /\ PcOfItem(r) /\ PageExpired(r)

IInv == TypeOK /\ Lifecycle /\ CapsHold /\ \A r \in Requests : DayForward(r)
-----------------------------------------------------------------------------
(* What the reservations hold, and what the counters must be. *)

\* What reservation r holds of the pool, and of its student's tokens.
HeldCost(r) ==
    IF res[r].status \in Stored \cup {"AMBIGUOUS"} THEN ReservationCost(res[r].budget)
    ELSE IF res[r].status = "SETTLED" THEN Cost(bill[r]) ELSE 0

HeldTokens(r) ==
    IF res[r].status \in Stored \cup {"AMBIGUOUS"} THEN res[r].budget
    ELSE IF res[r].status = "SETTLED" THEN Tokens(bill[r]) ELSE 0

Costs == [r \in Requests |-> HeldCost(r)]
TokensHeld == [r \in Requests |-> HeldTokens(r)]
Bills == [r \in Requests |-> Cost(bill[r])]

RequestsOf(s) == {r \in Requests : StudentOf[r] = s}
\* The tokens that the reservations of student s hold on day d.
HeldOn(s, d) == SumFunctionOnSet(TokensHeld, {r \in RequestsOf(s) : res[r].day = d})

\* The counters agree with the sums.
Balanced ==
    /\ pool.cost = SumFunctionOnSet(Costs, Requests)
    /\ \A s \in Students : student[s].total = SumFunctionOnSet(TokensHeld, RequestsOf(s))

\* The books balance: the pool's and the students' own counters are exactly what
\* the reservations hold, no update lost and none applied twice, whatever crashed
\* and whoever recovered; and what Bedrock has really charged is never more than
\* the pool has booked.
BooksBalance == Balanced /\ SumFunctionOnSet(Bills, Requests) <= pool.cost

\* A student's calls of one day never hold more than the daily cap, unless a
\* reservation rolled the student's day backwards.
DailyCapHolds ==
    ~backdated => \A s \in Students, d \in 0..Day(MaxTime) : HeldOn(s, d) <= MaxDaily

\* The invariant behind both: what Bedrock charged is part of what is held, ...
BillHeld(r) ==
    /\ res[r].status \in {"NONE", "RESERVED", "REFUNDED"} => bill[r] = NoUsage
    /\ res[r].status \in {"DISPATCHED", "AMBIGUOUS", "SETTLED"} =>
          bill[r] \in UsagesWithin(res[r].budget)

\* ... and a student's counter of today is what its calls of that day hold.
DayBalances ==
    ~backdated =>
        \A s \in Students :
            /\ student[s].today = HeldOn(s, student[s].day)
            /\ \A d \in Nat : HeldOn(s, d) <= MaxDaily

-----------------------------------------------------------------------------
(* The refinement: a reservation is a ledger entry. *)

LedgerState ==
    [NONE |-> "none", RESERVED |-> "open", DISPATCHED |-> "sent",
     REFUNDED |-> "released", SETTLED |-> "charged", AMBIGUOUS |-> "charged"]

Entries ==
    [r \in Requests |-> [state |-> LedgerState[res[r].status],
                        cost |-> HeldCost(r), tokens |-> HeldTokens(r)]]

Ledger == INSTANCE GatewayLedger WITH
    Calls <- Requests, CostCap <- PoolSoft, TokenCap <- MaxTotal, entry <- Entries

\* The three counters, the conditional transactions and the recovery of the
\* gateway implement the ledger: guards on counters stand for guards on sums.
ImplementsLedger == Ledger!Spec
=============================================================================
