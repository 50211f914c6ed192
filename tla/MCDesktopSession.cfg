SPECIFICATION Spec
CONSTANTS
    s1 = s1
    s2 = s2
    l1 = l1
    l2 = l2
    None = None
    SessionIds <- MCSessionIds
    Leases <- MCLeases
    Consents <- MCConsents
    MaximumLiveSessions = 2
    MaximumFrames = 2
    MaximumGeneration = 2
    MaximumSteps = 2
INVARIANTS
    TypeOK
    LeaseOwnership
    ClicksHitTheirFrame
    OnlyLatestFrame
SYMMETRY Symmetry
