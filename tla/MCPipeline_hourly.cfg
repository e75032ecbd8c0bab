SPECIFICATION Spec
CONSTANTS
    MaxHour = 1
    Leads <- MCLeads
    MaxDelay = 1
    Near = 1
    Readings = {"good", "bad"}
    MaxModel = 2
    MaxRuns = 2
    MaxTasks = 1
    MaxFaults = 1
INVARIANTS
    Safe
PROPERTIES
    NoHindsight
    VerdictIsFinal
    
CHECK_DEADLOCK FALSE
