SPECIFICATION FairSpec
CONSTANTS
    Query <- MCQuery
    Source <- MCSource
    Contents = {0, 1, 2}
    Missing = Missing
    Uses <- MCUses
    Rank <- MCRank
    Demand <- MCDemand
    Result <- MCResult
    Same <- MCSame
    Evaluate <- MCEvaluate
    Continue <- MCContinue
    Done = Done
    NoQuery = NoQuery
    Requested = {"report", "available"}
    CallerCatches = TRUE
    MaxRevision = 3
    MaxEdits = 2
INVARIANTS
    TypeOK
    RevisionsOrdered
    VerifiedTogether
    StackInvariant
    VerifiedAreFresh
PROPERTIES
    AnswersAreFresh
    ReferencesStable
    OnlyStaleRecomputed
    RequestsEnd
CHECK_DEADLOCK FALSE
