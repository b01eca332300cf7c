SPECIFICATION Spec
CONSTANTS
    Subs = {s1, s2}
    Friends = {f1}
    Workers = {w1, w2}
    MaxEvents = 5
    MaxFaults = 1
    MaxMess = 1
    None = None
CHECK_DEADLOCK FALSE
SYMMETRY Symmetry
INVARIANTS
    TypeOK
    PremiumFollows
    MonthsKept
