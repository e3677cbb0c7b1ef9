SPECIFICATION Spec
CONSTANTS
    o1 = o1
    o2 = o2
    o3 = o3
    o4 = o4
    g1 = g1
    Objects <- MCObjects
    g2 = g2
    Generators <- MCGenerators
    MaxObjects = 4
    MaxRows = 3
    MaxEditing = 1
    edge = edge
    wan = wan
    branch = branch
    Unclassified = Unclassified
    NoPath = NoPath
    e1 = e1
    e2 = e2
    w1 = w1
    b1 = b1
    x1 = x1
    Hosts = {e1, e2, w1, b1, x1}
    Places = {edge, wan, branch}
    PlaceOf <- MCPlaceOf
    Boundaries <- MCBoundaries
    Rule <- MCRule
    Cabling <- MCCabling
    MaxHops = 3
    u1 = u1
    u2 = u2
    n1 = n1
    n2 = n2
    Users <- MCUsers
    Names = {n1, n2}
    Inventory = {a1}
    Template = {n1}
    TemplateLinks <- MCTemplateLinks
    MaxVersions = 3
    MaxEdits = 2
INVARIANTS
    OrderRespects
    SearchIsExact
    GapsFollowPaths
    OneApproved
PROPERTIES
    ApprovedFrozen
SYMMETRY Symmetry
CHECK_DEADLOCK FALSE
