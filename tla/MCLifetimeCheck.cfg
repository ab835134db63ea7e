SPECIFICATION CheckSpec
CONSTANTS
    a = a
    Names = {a}
    Locations = {e1, e2}
    NoLocation = NoLocation
    NoLifetime <- MCNoLifetime
    Signatures <- MCSignatures
    MaxLifetimes <- FewIfAssigned
    MaxDepth = 3
    MaxChecks = 3
    MaxLevels = 1
    InnerUnion <- MCUnion
    InnerProcess <- MCProcess
    Compared <- ScopedOrChained
SYMMETRY Symmetry
INVARIANTS
    TypeOK
    FixedConstraintsDescend
    ScopesNest
    VerdictIsRight
    OrdersSuffice
    EqualsKept
    ConflictsHaveACause
    CausesAreShortest
CHECK_DEADLOCK FALSE
