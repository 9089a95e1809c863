SPECIFICATION Spec
CONSTANTS
    r1 = r1
    r2 = r2
    r3 = r3
    r4 = r4
    d1 = d1
    d2 = d2
    i1 = i1
    i2 = i2
    i3 = i3
    i4 = i4
    Requests = {r1, r2, r3, r4}
    Accounts = {d1}
    AccountOf <- Overlapping
    Ids = {i1, i2, i3, i4}
    EnrollMax = 2
    Attempts = 2
SYMMETRY IdSymmetry
INVARIANTS OneTokenPerAccount AccountFindsStudent SeatLimit
CHECK_DEADLOCK FALSE
