SPECIFICATION Spec
CONSTANTS
    None = None
    Brokers = {b1}
    Operations = {o1, o2}
    MaximumActive = 1
    MaximumTracked = 2
    MaximumTime = 1
    Retention = 1
    JournalFails = TRUE
INVARIANTS TypeOK RetrySafeIsTrue JournalAgrees
PROPERTIES RefinesLifecycle ShutdownEnds OperationsSettle
