SPECIFICATION Spec
CONSTANTS
    ast_arena = ast_arena
    result_arena = result_arena
    Owners <- MCOwners
    MemorySize = 56
    HeaderSize = 4
    PageAlign = 8
    HeapAlign = 8
    DefaultPageSize <- MCDefaultPageSize
    LargePageSize <- MCLargePageSize
    InitialSizes <- MCInitialSizes
    MaxGrowSizes <- MCMaxGrowSizes
    Sizes <- MCSizes
    Aligns <- MCAligns
    MaxAllocations = 3
SYMMETRY Symmetry
INVARIANTS
    TypeOK
    ObjectsInPages
    ObjectsDisjoint
    ObjectsAligned
    PagesOwnedOnce
    GrowthSuffices
