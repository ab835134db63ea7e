SPECIFICATION Spec
CONSTANTS
    Unsafe = Unsafe
    NoLifetime = NoLifetime
    Lifetimes = {0, 1}
    Variables <- MCVariables
    LifetimeOf <- MCLifetimeOf
    Declarable <- FlatDeclarable
    Assigned <- ExactAddresses
    MaxDepartures = 2
    Undefined = Undefined
    InnerStrict <- MCStrict
    InnerDereference <- MCDereference
    InnerIndexInto <- MCIndexInto
    InnerLifetime <- MCLifetime
    InnerAssignable <- MCAssignable
    InnerCheck <- MCCheck
    InnerShape <- MCShape
    InnerSame <- MCSame
    InnerUnmarked <- MCUnmarked
INVARIANT ConstProtected
CHECK_DEADLOCK FALSE
