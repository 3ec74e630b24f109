SPECIFICATION Spec
CONSTANTS
    c1 = c1
    c2 = c2
    r1 = r1
    r2 = r2
    None = None
    Empty = Empty
    Bytes = {Empty, some}
    Call <- MCCall
    Run <- MCRun
    MaxPath = 7
SYMMETRY Symmetry
INVARIANTS ReturnedIsComplete NoDanglingRun ReceiptsAreShared
PROPERTY KeepsHistory
CHECK_DEADLOCK FALSE
