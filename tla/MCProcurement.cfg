SPECIFICATION PSpec
CONSTANTS
    c1 = c1
    c2 = c2
    c3 = c3
    s1 = s1
    n1 = n1
    n2 = n2
    Calls = {c1, c2, c3}
    Mixes <- MCMixes
    Skus = {s1}
    Numbers = {n1, n2}
    MaxLines = 3
    MaxQuantity = 2
    MaxItems = 2
    MaxBilled = 2
    MaxRevision = 2
SYMMETRY MCSymmetry
CHECK_DEADLOCK FALSE
INVARIANTS
    LinesExact
    ClosedIsComplete
    MatchedCovered
