CONSTANTS
    Pages = {"groups"}
    Items = {i1, i2}
    New = New
    MaxVersion = 2
    MaxLoads = 3
SPECIFICATION Spec
CHECK_DEADLOCK FALSE
INVARIANT ViewExclusive
