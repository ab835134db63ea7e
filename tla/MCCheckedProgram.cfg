SPECIFICATION Spec
CONSTANTS
    Unsafe = Unsafe
    NoLifetime = NoLifetime
    Lifetimes = {0, 1}
    Variables <- MCVariables
    LifetimeOf <- MCLifetimeOf
    Declarable <- MCDeclarable
    Assigned <- AnyAssigned
    MaxDepartures = 1
    Undefined = Undefined
    InnerStrict <- MCStrict
    InnerDereference <- MCDereference
    InnerIndexInto <- MCIndexInto
    InnerLifetime <- MCLifetime
    InnerAssignable <- MCAssignable
    InnerCheck <- MCCheck
    InnerShape <- MCShape
    InnerSame <- MCSame
    InnerUnmarked <- MCUnmarked
INVARIANTS
    ShapesKept
    PointersLive
    ConstKept
    WaysAgree
    InferredFits
    UnsafeReported
CHECK_DEADLOCK FALSE
