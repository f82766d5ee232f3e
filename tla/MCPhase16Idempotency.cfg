CONSTANTS
    a = a
    retry = retry
    aWithId = aWithId
    idOnly = idOnly
    bWithId = bWithId
    plain = plain
    k1 = k1
    k2 = k2
    x = x
    NoName = NoName
    Unanswered = Unanswered
    Failed = Failed
    Raised = Raised
    Requests = {a, retry, aWithId, idOnly, bWithId, plain}
    Names = {k1, k2, x}
    givenKey <- MCGivenKey
    identity <- MCIdentity
SPECIFICATION FairSpec
CHECK_DEADLOCK FALSE
INVARIANTS
    AppliedOncePerName
PROPERTIES
    ImplementsPromise
    EveryRequestEnds
