SPECIFICATION Spec
CONSTANTS
    types = types  svc = svc  routes = routes  api = api  pay = pay  a1 = a1  a2 = a2
    None = None
    Files <- AllFiles
    Planned <- PlannedFiles
    Uses <- UsesOf
    Imports <- ImportsOf
    Serves <- ServesOf
    Fixed = {pay}
    Side <- SideOf
    Rank <- RankOf
    Large = {}
    Documents = {}
    Ungated = {api, pay}
    Agents = {a1, a2}
    MaxRuns = 2
    MaxAtOnce = 1
    MaxTries = 2
    MaxFaults = 1
SYMMETRY Symmetry
CHECK_DEADLOCK FALSE
INVARIANTS RunNeverStuck UsedFileSeen NothingForgotten ResumeRetries
PROPERTIES FixKept
