SPECIFICATION Spec
CONSTANTS
    Agents = {"fin", "dep"}
    BuiltIn <- MCBuiltIn
    Drafted = {"dep"}
    Configs <- MCConfigs
    Tools = {"t"}
    Plans <- MCPlans
    Fresh = {"fail"}
    Threshold = 2
CHECK_DEADLOCK FALSE
INVARIANTS
    PauseSurvives
    TrippedToolsAreBlocked
    StepsDoneOnce
