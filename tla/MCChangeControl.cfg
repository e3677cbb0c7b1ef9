SPECIFICATION Spec
CONSTANTS
    Jobs <- MCJobs
    Objects <- MCObjects
    JobOf <- MCJobOf
    Users <- MCUsers
    Sessions <- MCSessions
    DeleteCounts = {0}
    j1 = j1
    o1 = o1
    o2 = o2
    u1 = u1
    u2 = u2
    u3 = u3
    s1 = s1
    s2 = s2
    s3 = s3
SYMMETRY Symmetry
INVARIANTS
    TypeOK
    SomeoneElseApproved
    JobFollowsRequest
    ApprovedIsReviewed
    DeployableIsApproved
PROPERTIES
    ResolvedStays
CHECK_DEADLOCK FALSE
