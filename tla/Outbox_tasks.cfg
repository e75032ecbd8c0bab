SPECIFICATION FairSpec
CONSTANTS
    NumPubs = 2
    Senders = {"hourly", "daily"}
    LocalTransports = {"object_store"}
    RemoteTransports = {"http", "both"}
    MaxAttempts = 2
    Limit = 2
    KeepFiles = 1
    KeepSnapshots = 1
    MaxFaults = 1
INVARIANTS
    Safe
PROPERTIES
    KeepsPromise
    EventuallySettled
CHECK_DEADLOCK FALSE
