SPECIFICATION Spec
CONSTANTS
    l1 = l1
    l2 = l2
    l3 = l3
    p1 = p1
    p2 = p2
    r1 = r1
    r2 = r2
    None = None
    Lessons <- MCThreeLessons
    NoShow <- MCLastIsNoShow
    Payers <- MCPayers
    Requests <- MCOneRequest
    MaxInvoices = 3
SYMMETRY MCSymmetry
INVARIANTS
    BilledOnce
    CancelledHasStorno
    PaidInvoicePaysLessons
PROPERTIES
    IssuedFrozen
    LedgerSpec
CHECK_DEADLOCK FALSE
