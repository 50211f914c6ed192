SPECIFICATION Spec
CONSTANTS
    r1 = r1
    r2 = r2
    p1 = p1
    p2 = p2
    v1 = v1
    v2 = v2
    None = None
    Releases <- MCReleases
    Procs <- MCProcs
    Versions <- MCVersions
    VersionOf <- MCVersionOf
    NewModes <- MCNewModes
    Domains <- OneDomain
INVARIANTS TypeOK NeverRefused Settled ReportSurvives
PROPERTIES OldOrNew DeletesOnlyBuried PendingIsRecovered
