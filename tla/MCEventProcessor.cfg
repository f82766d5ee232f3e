CONSTANTS
    e1 = e1
    e2 = e2
    e3 = e3
    bad = bad
    i1 = i1
    i2 = i2
    i3 = i3
    t1 = t1
    caps1 = caps1
    Events = {e1, e2, e3, bad}
    Ids = {i1, i2, i3}
    idOf <- MCIdOf
    NoEvent = NoEvent
    Invalid = {bad}
    Caps = {caps1}
    dirty <- MCDirty
    NoCaps = NoCaps
    Datasets = {d1}
    NoData = NoData
    Topics = {t1}
    topic <- MCTopic
    NoTopic = NoTopic
    MaxArrivals = 3
    MaxRetries = 2
    MaxRestarts = 1
SPECIFICATION Spec
CHECK_DEADLOCK FALSE
INVARIANTS
    EffectsAtMostOnce
    MarkAtomicWithWork
    AlertRowsDeduplicated
    QuarantinedIsListed
