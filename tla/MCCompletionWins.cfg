SPECIFICATION Spec
CONSTANTS
    None = None
    Brokers = {b1}
    Operations = {o1}
    MaximumActive = 1
    MaximumTracked = 1
    MaximumTime = 1
    Retention = 1
    JournalFails = FALSE
PROPERTY CompletionWins
