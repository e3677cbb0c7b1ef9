SPECIFICATION FairSpec
CONSTANTS
    Workers <- MCWorkers
    Deployments <- MCDeployments
    Assets <- MCAssets
    Windows = {a2}
    Items <- MCItems
    Objects <- MCObjects
    Keys <- MCKeys
    Plan <- MCPlan
    ItemOf <- MCItemOf
    Home <- MCHome
    KeyOf <- MCKeyOf
    StrandedAssets = {a2}
    MaxStarts = 2
    MaxCrashes = 0
    MaxRestores = 0
    NoJob = NoJob
    NoBackup = NoBackup
    Absent = Absent
    Original = Original
    w1 = w1
    w2 = w2
    d1 = d1
    d2 = d2
    a1 = a1
    a2 = a2
    i1 = i1
    i2 = i2
    o1 = o1
    o2 = o2
    o3 = o3
    o4 = o4
    k1 = k1
    k2 = k2
PROPERTIES
    TaskEnds
    ImplementsExclusion
CHECK_DEADLOCK FALSE
