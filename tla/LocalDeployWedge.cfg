SPECIFICATION FairSpec
CONSTANTS
    d1 = d1
    d2 = d2
    d3 = d3
    k1 = k1
    k2 = k2
    p1 = p1
    p2 = p2
    p3 = p3
    Deploys = {d1, d2}
    Rollbacks = {k1, k2}
    Plans = {p1, p2}
    PinKeep = 2
    Ext = Ext
    None = None
    MaxFaults = 0
PROPERTIES StartCancelsCleanly
CHECK_DEADLOCK FALSE
