SPECIFICATION FairSpec
CONSTANTS
    MaxHours = 3
    PageRows = 2
    Unmeasured = {2}
    Sources = {"api", "prepared"}
    Early = FALSE
    Requests = {{1, 2, 3}}
    MinGap = 1
    MaxAttempts = 2
    MaxFaults = 1
INVARIANTS Safe GivenUpIsUnmeasured
PROPERTY GapsClose
\* Nothing is left to do once every range is filled or given up.
CHECK_DEADLOCK FALSE
