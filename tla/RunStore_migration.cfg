SPECIFICATION Spec
CONSTANTS
    w1 = w1
    w2 = w2
    run = run
    NoRun = NoRun
    None = None
    Run = {run}
    Writer <- MCWriter
    LegacyRun = {run}
    MaxVersion = 4
SYMMETRY Symmetry
PROPERTY MigrationSparesCanonical
CHECK_DEADLOCK FALSE
