SPECIFICATION PlanSpec
CONSTANTS
    Items = {"a", "b", "m"}
    Runs = {r1}
    Wants <- MCWants
    Promises <- MCPromises
    Headers <- MCHeaders
    FirstBills <- MCFirstBills
    FirstStock <- MCFirstStock
    MaxBills = 3
    MaxTodo = 9
CHECK_DEADLOCK FALSE
INVARIANTS
    MaterialsBalance
    PromiseCovered
PROPERTIES
    ExplosionEnds
