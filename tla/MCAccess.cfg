SPECIFICATION FairSpec
CONSTANTS
    admin = admin
    op = op
    manager = manager
    viewer = viewer
    auditor = auditor
    None = None
    Users <- MCUsers
    Roles <- MCRoles
    Codes <- MCCodes
    SeedUsers <- MCSeedUsers
    Superusers <- MCSuperusers
    SeedRoles <- MCSeedRoles
    SeedGrants <- MCSeedGrants
    SeedAssigned <- MCSeedAssigned
    RoleLists <- MCRoleLists
    CodeLists <- MCCodeLists
    Sessions = {s1, s2}
    MaxAttempts = 2
    LockoutDuration = 2
    MaxEvents = 3
    MaxTicks = 1
INVARIANTS
    TypeOK
    ChainLinear
    LockoutFollowsMisses
    CreationsAudited
PROPERTIES
    LockHolds
    RequestEnds
CHECK_DEADLOCK FALSE
