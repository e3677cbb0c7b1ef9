SPECIFICATION Spec
CONSTANTS
    a1 = a1
    a2 = a2
    a3 = a3
    None = None
    Assets = {a1, a2, a3}
    SeedLive = {a1, a2}
    Drawn = {d1}
    Critical = {a1}
    MinDegree = 2
    s1 = s1
    s2 = s2
    r1 = r1
    r2 = r2
    Runs <- MCRuns
    Sessions <- MCSessions
    MaxEdits = 2
    SeedRels <- MCSeedRels
    Cables <- MCCables
INVARIANTS
    FindingsTrue
PROPERTIES
    TriagedStays
SYMMETRY Symmetry
CHECK_DEADLOCK FALSE
