SPECIFICATION Spec
CONSTANTS
    p1 = p1
    p2 = p2
    p3 = p3
    None = None
    Processes <- MCProcesses
    MaximumInodes = 2
    MaximumTokens = 3
INVARIANTS
    TypeOK
    SerializedUnlessUndermined
    ConsumedTokenIsReplaced
SYMMETRY Symmetry
