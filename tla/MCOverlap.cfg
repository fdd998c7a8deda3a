SPECIFICATION FairSpec
CONSTANTS
    Row <- OverlapRow
    Col <- BlogCol
    Nil <- NoRow
    TypeOf <- OverlapType
    Ref <- OverlapRef
    Root <- OverlapRoot
    Program <- OverlapProgram
    Policy <- TestentPolicy
    Caller <- Callers2
    InitLive <- OverlapRow
    HookRows = {}
    Moves = {}
    Modes = {"standalone"}
    Forms = {"single"}
    Serializable = FALSE
    MaxNow = 3
INVARIANTS
    DeadlocksInOneTable
PROPERTIES
    ImplementsStore
    CallsReturn
CHECK_DEADLOCK FALSE
