SPECIFICATION FairSpec
CONSTANTS
    u1 = u1
    u2 = u2
    u3 = u3
    p1 = p1
    p2 = p2
    Users = {u1, u2, u3}
    Requesters = {u1}
    Sessions = {p1, p2}
    Requests = {1, 2}
    Quorums = {1, 2}
    TTL = 1
    MaxTime = 2
INVARIANTS CountersMatchBallots DecidedByQuorum AuditExplainsStatus
PROPERTIES NeverReversed EverySessionEnds
CHECK_DEADLOCK FALSE
