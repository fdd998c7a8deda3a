SPECIFICATION Spec
CONSTANTS
    MaxRow = 3
    Id <- Ids
    PageSizes <- Sizes
    PageSize = 2
    Named = {1, 3}
    Marked = {2, 3}
    Volatile = {2, 3}
    Drills <- NothingOrTwo
    NoIds = NoIds
    NoRow = NoRow
INVARIANTS
    TypeOK
PROPERTIES
    MisleadsOnlyAfterError
    ToggleKeepsRows
    StrandedOnlyByTextFilter
    ExportsTheMarked
