SPECIFICATION Spec
CONSTANTS
    u1 = u1
    u2 = u2
    u3 = u3
    k1 = k1
    k2 = k2
    p1 = p1
    p2 = p2
    Users = {u1, u2, u3}
    Sessions = {p1, p2}
    Roles = {"admin", "owner"}
    Tokens = {k1, k2}
    TokenUser <- TwoTokens
    FirstMembers <- Starts
    MaxRequests = 2
SYMMETRY SessionSymmetry
INVARIANTS OneDevicePerToken
PROPERTIES OwnerKept BootstrapsEmptyOrganization
CHECK_DEADLOCK FALSE
