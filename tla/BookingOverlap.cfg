SPECIFICATION Spec
CONSTANTS
    Contracts = {a, b}
    MaxDay = 2
    MaxTime = 2
    Length = 2
    Hours <- MCHours
    MaxLessons = 2
    MaxSeries = 1
    MaxBlocked = 1
    MaxNow = 3
    SeriesTimes = {1}
    Requests = {r1, r2}
    Overlap = TRUE
    None = None
CHECK_DEADLOCK FALSE
SYMMETRY Symmetry
INVARIANTS
    NoClash
