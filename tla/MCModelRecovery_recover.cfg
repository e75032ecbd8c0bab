SPECIFICATION RecoverySpec
CONSTANTS
    Targets <- TwoTargets
    Procs = {p1, p2}
    Free = Free
    MaxModels = 2
    MaxFaults = 1
    Beside <- SomeJobs
SYMMETRY Symmetry
INVARIANT RecoverySafe
PROPERTIES RecoveryKeepsModels NeverBehindPointer PublishedIsApproved
\* MaxModels stops the jobs.
CHECK_DEADLOCK FALSE
