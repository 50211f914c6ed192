SPECIFICATION Spec
CONSTANTS
    None = None
    Brokers = {b1, b2}
    Operations = {o1}
    MaximumActive = 1
    MaximumTracked = 1
    MaximumTime = 0
    Retention = 1
    JournalFails = FALSE
INVARIANT RetrySafeIsTrue
