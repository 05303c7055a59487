SPECIFICATION FairSpec
CONSTANTS
    u1 = u1
    u2 = u2
    Users <- TwoUsers
    Storages <- AllStorages
    Outcomes <- AnyOutcome
    MaxRefusals = 2
INVARIANTS ReleasedExactlyOnce AckNeverLost ReportsNotRepeated
PROPERTIES ImplementsContract EventuallyReleased
CHECK_DEADLOCK FALSE
