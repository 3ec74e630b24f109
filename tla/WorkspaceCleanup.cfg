SPECIFICATION CleanupSpec
CONSTANTS
    i1 = i1
    i2 = i2
    Nil = Nil
    Torn = Torn
    Workspace <- MCWorkspace
    Condition <- MCCondition
    Blind <- MCBlind
    Authorizations <- MCAuthorizations
    MaxCleanups = 3
    MaxChanges = 1
SYMMETRY Symmetry
INVARIANTS RemovalSparesWork LedgerTellsRemovals
CHECK_DEADLOCK FALSE
