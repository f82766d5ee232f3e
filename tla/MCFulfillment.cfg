CONSTANTS
    north = north
    south = south
    atNorth = atNorth
    alsoNorth = alsoNorth
    atSouth = atSouth
    anywhere = anywhere
    Reserves = {r1, r2, r3}
    Lines = {atNorth, alsoNorth, atSouth, anywhere}
    Locations = {north, south}
    NoLocation = NoLocation
    place <- MCPlace
    ordered <- MCOrdered
    Amounts = {1}
    MaxSupply = 2
    MaxFeeds = 1
SPECIFICATION FFairSpec
CHECK_DEADLOCK FALSE
INVARIANTS
    NoOverPromise
    LocationCovered
    LineConsistent
PROPERTY EveryReserveEnds
