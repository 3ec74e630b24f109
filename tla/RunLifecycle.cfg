SPECIFICATION Spec
CONSTANTS
    Killer = {k1, k2}
    Follower = {f1}
    Torn = Torn
    None = None
INVARIANTS RecordTellsTruth FollowerHearsEnd
PROPERTIES NeverRunsAgain FollowerReturns RecordSettles
CHECK_DEADLOCK FALSE
