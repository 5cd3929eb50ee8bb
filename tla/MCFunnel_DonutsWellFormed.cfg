CONSTANTS
    MaxResults = 3
    NaN = NaN
SPECIFICATION Spec
INVARIANTS
    DonutsWellFormed
