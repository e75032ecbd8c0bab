SPECIFICATION Spec
CONSTANTS
    Releases = {1, 2, 3}
    Keep = 2
    Clients = {"x"}
    Parameters = {PM10, O3}
    PM10 = PM10
    O3 = O3
    Times = {2}
    Span = 1
    Snapshots <- MCSnapshots
    Ttl = 1
    CacheItems = 2
    Gap = 3
    CutShort = FALSE
    MaxTime = 6
    MaxRequest = 1
    MaxFaults = 1
SYMMETRY Symmetric
CHECK_DEADLOCK FALSE
INVARIANTS
    Safe
    AnswerIsRecent
    RequiredHourKept
