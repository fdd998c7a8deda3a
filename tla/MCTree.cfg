SPECIFICATION Spec
CONSTANTS
    Row <- TreeRow
    Col <- TreeCol
    Nil <- NoRow
    TypeOf <- TreeType
    Ref <- TreeRef
    Root <- TreeRoot
    Program <- TreeProgram
    Policy <- TreePolicy
    Caller <- Callers1
    InitLive <- TreeRow
    HookRows = {}
    Moves = {}
    Modes = {"standalone"}
    Forms = {"single", "batch"}
    Serializable = TRUE
    MaxNow = 3
INVARIANTS
    NoOrphans
CHECK_DEADLOCK FALSE
