SPECIFICATION InferringSpec
CONSTANTS
    File = {"main", "lib"}
    Query <- ArenaQuery
    Source <- ArenaSource
    Contents <- GrowingTexts
    Missing = Missing
    Uses <- ArenaUses
    Rank <- ArenaRank
    Demand <- ArenaDemand
    Result <- ArenaResult
    Same <- ArenaSame
    Done = Done
    NoQuery = NoQuery
    Requested <- FreshRequests
    CallerCatches = TRUE
    MaxRevision = 3
    MaxEdits = 2
PROPERTY DifferentResultsStored
CHECK_DEADLOCK FALSE
