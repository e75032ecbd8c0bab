SPECIFICATION Spec
CONSTANTS
    Runners = {"r1", "r2"}
    First = "r1"
    Stages <- MCStages
    Hinted = {1}
    Reports = {1}
    Matched = {1}
    Leased = {1}
    Partial = {1, 2}
    NeedMlflow = {1}
    Slots = {1, 2, 3}
    NoChild = 0
    MaxForeign = 1
    Wrecks = TRUE
INVARIANTS
    Safe
PROPERTIES
    EveryControllerEnds
CHECK_DEADLOCK FALSE
