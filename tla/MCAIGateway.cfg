CONSTANTS
    Callers = {c1, c2}
    ResIds = {r1, r2, r3, r4}
    Costs = {1}
    Policies <- MCPolicies
    NoRes = NoRes
    NoCaller = NoCaller
    Providers = 2
    MaxDay = 1
    MaxDirect = 0
SPECIFICATION GFairSpec
CHECK_DEADLOCK FALSE
INVARIANTS
    NoLeakedExposure
    AnswersAreCharged
PROPERTY QueryEnds
