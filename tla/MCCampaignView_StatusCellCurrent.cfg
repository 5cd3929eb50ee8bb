CONSTANTS
    t1 = t1
    t2 = t2
    s1 = s1
    s2 = s2
    None = None
    Targets <- MCTargets
    Stages <- MCStages
    MaxVersion = 2
    MaxFetches = 3
SPECIFICATION Spec
CHECK_DEADLOCK FALSE
INVARIANT
    StatusCellCurrent
