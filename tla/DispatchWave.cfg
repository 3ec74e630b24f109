SPECIFICATION Spec
CONSTANTS
    r1 = r1
    r2 = r2
    Repo <- MCRepo
    MaxLane = 3
    MaxBudget = 2
SYMMETRY Symmetry
INVARIANTS WorkersAreApart TreesAreReleased VerdictTellsLanes
CHECK_DEADLOCK FALSE
