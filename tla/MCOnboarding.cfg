CONSTANTS
    a = a
    b = b
    x = x
    po = po
    Runs = {r1, r2, r3}
    Keys = {a, b, x, po}
    Traced = {a, b, x}
    Foreign = {x}
    Files <- MCFiles
    None = None
    Unnamed = Unnamed
    MaxResumes = 1
SYMMETRY MCSymmetry
SPECIFICATION Spec
CHECK_DEADLOCK FALSE
INVARIANTS
    CompletedIsWhole
    RejectedAreKept
    RowsAreAudited
