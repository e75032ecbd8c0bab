SPECIFICATION Spec
CONSTANTS
    Targets <- TwoTargets
    Procs = {p1, p2}
    Free = Free
    MaxModels = 3
    MaxFaults = 1
SYMMETRY Symmetry
INVARIANTS OneActive PointerComplete
PROPERTIES NeverWithoutModel JudgedReplacement EveryTargetServed
\* MaxModels stops the jobs.
CHECK_DEADLOCK FALSE
