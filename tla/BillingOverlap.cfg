SPECIFICATION Spec
CONSTANTS
    l1 = l1
    l2 = l2
    l3 = l3
    p1 = p1
    p2 = p2
    r1 = r1
    r2 = r2
    None = None
    Lessons <- MCOneLesson
    NoShow <- MCNoShow
    Payers <- MCOnePayer
    Requests <- MCTwoRequests
    MaxInvoices = 2
SYMMETRY MCRequestSymmetry
INVARIANTS
    TypeOK
    NumbersFollowCreation
    StornoMirrors
CHECK_DEADLOCK FALSE
