SPECIFICATION Spec
CONSTANTS
    a = a
    b = b
    c = c
    call1 = call1
    call2 = call2
    call3 = call3
    None = None
    Wake = Wake
    QueueFull = QueueFull
    ProtocolFailed = ProtocolFailed
    Failed = Failed
    Unknown = Unknown
    Nonces <- MCNonces
    Requests <- MCRequests
    Calls <- MCCalls
    Frames <- MCFrames
    ReserveLimit <- MCReserveLimit
    MaximumEntries = 1
    MaximumLedgerEntries = 1
    MaximumEvents = 1
    MaximumChord = 1
    MaximumPendingFrames = 1
    ConnectionLimit = 2
INVARIANTS
    TypeOK
    CancelReachesInput
    ReadersAgreeWithOwner
    ResultsMatchLedger
PROPERTIES
    RefinesOncePerNonce
    ConnectionsEnd
CHECK_DEADLOCK FALSE
