SPECIFICATION FairSpec
CONSTANTS
    c1 = c1
    c2 = c2
    c3 = c3
    w1 = w1
    w2 = w2
    Cores = {c1, c2, c3}
    Windows = {w1, w2}
    None = None
INVARIANTS OneCoreServes
PROPERTIES HeldLockKept RuntimeRestored
CHECK_DEADLOCK FALSE
