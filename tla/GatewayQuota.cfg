SPECIFICATION Spec
CONSTANTS
    r1 = r1
    r2 = r2
    r3 = r3
    s1 = s1
    Requests = {r1, r2, r3}
    Students = {s1}
    StudentOf <- OneStudent
    Budgets = {2}
    PriceIn = 1
    PriceOut = 2
    MaxTotal = 5
    MaxDaily = 3
    PoolSoft = 10
    TTL = 2
    LambdaTicks = 1
    RecoveryLimit = 3
    DayTicks = 2
    MaxTime = 3
SYMMETRY Symmetric
INVARIANTS CapsHold NoPaidCallRefunded LiveReservationKept PaidAnswerDelivered BooksBalance DailyCapHolds
PROPERTIES ImplementsLedger
CHECK_DEADLOCK FALSE
