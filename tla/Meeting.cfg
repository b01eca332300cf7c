SPECIFICATION Spec
SYMMETRY MCSymmetry
CONSTANTS
    tutor = tutor
    student = student
    t1 = t1
    s1 = s1
    s2 = s2
    None = None
    Users <- MCUsers
    Conns <- MCConns
    Owner <- MCOwner
    Leavers <- MCLeavers
INVARIANTS
    TypeOK
    RoomIsSeats
    NobodyMissing
    OneCaller
    GoneLeaves
    OpenIsIn
