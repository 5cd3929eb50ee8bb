CONSTANTS
    MaxCampaigns = 2
    MaxTargets = 3
    NaN = NaN
SPECIFICATION Spec
INVARIANTS
    SeriesMatchReference
    PiesWellFormed
