SPECIFICATION GroupSpec
CONSTANTS
    MaxGroup = 2
    MaxChild = 2
    MaxBeats = 1
    Kind <- MCKind
INVARIANTS SilentAfterTerminal EveryChildReaped ReturnedHasTold NoThreadLeaks
PROPERTIES KeepsPromise GroupEnds
CHECK_DEADLOCK FALSE
