SPECIFICATION Spec
CONSTANTS
    Row <- MediaRow
    NoRow = NoRow
    Keep = Keep
    Relation <- MediaRelation
    Caller <- OneCaller
    InitLive <- MediaLive
    InitRef <- MediaRef
    SaveForms <- AnySave
    DeleteForms <- AnyDelete
    Transactional = TRUE
    CanFail = TRUE
    MaxSaves = 2
    MaxDepth = 6
INVARIANTS
    NoOrphans
PROPERTIES
    ImplementsStore
    OverflowNeedsCycle
CHECK_DEADLOCK FALSE
