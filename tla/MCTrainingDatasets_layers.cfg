SPECIFICATION DatasetsSpec
CONSTANTS
    Procs = {tool}
    Kept = Kept
    MaxId = 2
    MaxWrites = 2
    MaxBases = 3
    MaxDeltas = 2
    Retain = 1
INVARIANT DatasetsSafe
PROPERTIES SwitchKeepsView
\* The bounds stop the writers and the tools.
CHECK_DEADLOCK FALSE
