SPECIFICATION Spec
CONSTANTS
    None = None
    RequestPlaces = 1
    ResponsePlaces = 2
    MaximumRunBatches = 2
INVARIANT ToolTruthful
CHECK_DEADLOCK FALSE
