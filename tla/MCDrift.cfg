SPECIFICATION MCSpec
CONSTANTS
    k1 = k1
    a1 = a1
    f1 = f1
    f2 = f2
    f3 = f3
    u1 = u1
    u2 = u2
    None = None
    Keys <- MCKeys
    AssetOf <- MCAssetOf
    Assets = {a1}
    Fields = {f1, f2, f3}
    Targets <- MCTargets
    Edits <- MCEdits
    Recorded <- MCRecorded
    Runs = {r1}
    Workers = {w1}
    MaxJobs = 2
    MaxVersions = 3
    Sessions = {s1}
    Users = {u1, u2}
    Triagers = {u1}
    MaxFindings = 2
    MaxEdits = 1
INVARIANTS
    RunReports
    FindingsAreReal
    RemediatedIsEarned
    NoOpenAfterSuccess
    DecidedStays

PROPERTIES
    RunEnds
CHECK_DEADLOCK FALSE
