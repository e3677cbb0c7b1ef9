SPECIFICATION Spec
CONSTANTS
    a1 = a1
    a2 = a2
    a3 = a3
    a4 = a4
    v1 = v1
    v2 = v2
    v3 = v3
    c1 = c1
    c2 = c2
    vendor = vendor
    location = location
    blank = blank
    Blank = blank
    None = None
    Assets <- MCAssets
    Factors <- MCFactors
    Values <- MCValues
    Codes = {c1, c2}
    Names = {vendor, location}
    Unique = {vendor}
    LookedFor = {vendor}
    SeedAssets <- MCSeedAssets
    Imports <- MCImports
    Scopes <- MCScopes
    Payloads <- MCPayloads
    Jobs = {j1}
    Sessions = {s1, s2}
    MaxRequests = 2
    MaxDeliveries = 2
INVARIANTS
    TypeOK
    ImportWhole
    CountersMatch
PROPERTIES
    CreatedIsNew
    JobSettles
CHECK_DEADLOCK FALSE
