SPECIFICATION Spec
CONSTANTS
    w1 = w1
    w2 = w2
    run = run
    NoRun = NoRun
    None = None
    Run = {run}
    Writer <- MCWriter
    LegacyRun = {}
    MaxVersion = 4
SYMMETRY Symmetry
INVARIANTS OutboxMatchesLog VersionNamesState
PROPERTY ImplementsHistory
CHECK_DEADLOCK FALSE
