SPECIFICATION Spec
CONSTANTS
    RecursiveMark = RecursiveMark
    Parent = Parent
    Here = Here
    Empty = Empty
    Cwd <- MCCwd
    src = src
    docs = docs
    api = api
    r1 = r1
    r2 = r2
    c1 = c1
    c2 = c2
    NoRow = NoRow
    Idle = Idle
    Run <- MCRun
    ClaimId <- MCClaimId
    Path <- MCPath
    Ttl = {1}
    MaxTtl = 1
    MaxTime = 2
SYMMETRY Symmetry
INVARIANTS ClashOnlyByRevival LeaseBounded
CHECK_DEADLOCK FALSE
