SPECIFICATION Spec
CONSTANTS
    r1 = r1
    r2 = r2
    Requests = {r1, r2}
    Recent = 2
    DataOf <- MCDataOf
    Asks <- MCAsks
CHECK_DEADLOCK FALSE
INVARIANTS
    HitsAreWhole
    UpstreamCompleted
    ReusedIsCurrent
    MergeIdempotent
