SPECIFICATION Spec
CONSTANTS
    Row <- ThreadRow
    NoRow = NoRow
    Keep = Keep
    Relation <- ThreadRelation
    Caller <- TwoCallers
    InitLive <- ThreadLive
    InitRef <- ThreadRef
    SaveForms <- WriterSaves
    DeleteForms <- RemoverDeletes
    Transactional = FALSE
    CanFail = FALSE
    MaxSaves = 2
    MaxDepth = 4
INVARIANTS
    RequiredHolds
PROPERTIES
    ChildrenGoFirst
    SavedIsTouched
CHECK_DEADLOCK FALSE
