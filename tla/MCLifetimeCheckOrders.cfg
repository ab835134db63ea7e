SPECIFICATION CheckSpec
CONSTANTS
    Names = {}
    Locations = {e}
    NoLocation = NoLocation
    NoLifetime <- MCNoLifetime
    Signatures = {}
    MaxLifetimes <- AtMostNine
    MaxDepth = 0
    MaxChecks = 3
    MaxLevels = 1
    InnerUnion <- MCUnion
    InnerProcess <- MCProcess
    Compared <- FreeOnly

INVARIANTS
    SameOrderWhereViolated
CHECK_DEADLOCK FALSE
