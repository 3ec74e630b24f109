SPECIFICATION Spec
CONSTANTS
    i1 = i1
    i2 = i2
    None = None
    Partial = Partial
    Identity <- MCIdentity
    MaxRuns = 3
SYMMETRY Symmetry
INVARIANTS NeverTwice ReceiptTellsRemovals DoubtIsKept FinishedRunSettles
CHECK_DEADLOCK FALSE
