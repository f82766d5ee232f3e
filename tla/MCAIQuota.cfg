CONSTANTS
    Callers = {c1, c2}
    ResIds = {r1, r2, r3}
    Costs = {1, 2}
    Policies <- MCPolicies
    NoRes = NoRes
    MaxDay = 1
    MaxDirect = 1
SYMMETRY MCSymmetry
SPECIFICATION Spec
INVARIANTS
    RequestCounterExact
    SpendCounterExact
    ChargedExactlyOnce
    RequestBudget
PROPERTY LedgerAndStatusFinal
