SPECIFICATION InferringSpec
CONSTANTS
    File = {"main", "lib"}
    Query <- ArenaQuery
    Source <- ArenaSource
    Contents <- FreshTexts
    Missing = Missing
    Uses <- ArenaUses
    Rank <- ArenaRank
    Demand <- ArenaDemand
    Result <- ArenaResult
    Same <- ArenaSame
    Done = Done
    NoQuery = NoQuery
    Requested <- FreshRequests
    CallerCatches = TRUE
    MaxRevision = 3
    MaxEdits = 1
INVARIANT ReportIsRight
PROPERTY AnswersAreFresh
CHECK_DEADLOCK FALSE
