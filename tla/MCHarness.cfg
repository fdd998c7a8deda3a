SPECIFICATION Spec
CONSTANTS
    Row <- HarnessRow
    Col <- HarnessCol
    Nil <- NoRow
    TypeOf <- HarnessType
    Ref <- HarnessRef
    Root <- HarnessRoot
    Program <- HarnessProgram
    Policy <- HarnessPolicy
    Caller <- Callers1
    InitLive <- HarnessLive
    HookRows = {"h1"}
    Moves <- HarnessMoves
    Modes = {"standalone", "app"}
    Forms = {"single", "batch"}
    Serializable = TRUE
    MaxNow = 2
INVARIANTS
    TypeOK
    NoOrphans
    OkMeansGone
PROPERTIES
    CallerKeepsTx
    RepeatIsNoOp
    ImplementsStore
CHECK_DEADLOCK FALSE
