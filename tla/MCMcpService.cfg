SPECIFICATION Spec
CONSTANTS
    None = None
    RequestPlaces = 1
    ResponsePlaces = 2
    MaximumRunBatches = 2
INVARIANTS
    TypeOK
    NothingLeftBehind
    CallTruthful
    FrameCurrent
    InputTruthful
PROPERTIES
    EofReleases
CHECK_DEADLOCK FALSE
