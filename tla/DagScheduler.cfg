SPECIFICATION Spec
CONSTANTS
    RecursiveMark = RecursiveMark
    Parent = Parent
    Here = Here
    Empty = Empty
    Cwd <- MCCwd
    x = x
    y = y
    MaxPair = 3
    MaxLen = 4
    None = None
    Task <- MCTask
    Component <- MCComponent
    Inputs <- MCInputs
INVARIANTS DependenciesRunFirst SessionsAreSafe EveryTaskOnce
    BlockedExactly OverlapIsSharedFile
CHECK_DEADLOCK FALSE
