SPECIFICATION Spec
CONSTANTS
    Backends = {"file", "database", "object"}
    Servers = {"api1", "api2"}
    Pipeline = "pipeline"
    Publishing <- MCPublishing
    Readers = {"r1"}
    Home <- MCHome
    NumPubs = 3
    Sums = {"a", "b"}
    Uploads <- MCUploads
    Keep = 2
    Ttl = 1
    MaxTime = 2
    MaxSaves <- MCSaves
    MaxFaults = 1
INVARIANTS
    Safe
PROPERTIES
    KeepsPromise
CHECK_DEADLOCK FALSE
