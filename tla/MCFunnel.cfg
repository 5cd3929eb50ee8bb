CONSTANTS
    MaxResults = 3
    NaN = NaN
SPECIFICATION Spec
INVARIANT CountsMatchReference
