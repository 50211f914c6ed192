SPECIFICATION FairSpec
CONSTANTS
    a = a
    b = b
    c = c
    None = None
    Eof = Eof
    Nonces <- MCNonces
    Requests <- MCRequests
    ReserveLimit <- MCReserveLimit
    MaximumEntries = 1
    MaximumLedgerEntries = 1
    MaximumEvents = 4
    MaximumChord = 2
    MaximumPendingFrames = 2
    MaximumFrames = 3
INVARIANTS
    TypeOK
    CancelStopsInput
    CancelReachesInput
    CancelStatusTruthful
    ReaderAgreesWithOwner
    ShutdownAlwaysAdmitted
PROPERTIES
    RefinesOncePerNonce
    OwnerFollowsReader
