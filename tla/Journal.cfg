SPECIFICATION Spec
CONSTANTS
    p1 = p1
    p2 = p2
    r1 = r1
    r2 = r2
    NoKey = NoKey
    None = None
    Process <- MCProcess
    Run <- MCRun
    Key = {k}
    MaxSequence = 2
SYMMETRY Symmetry
INVARIANTS KeyHasOneAnswer SuccessMeansDelivered
PROPERTY DispatchersAreAlone
CHECK_DEADLOCK FALSE
