SPECIFICATION Spec
CONSTANTS
    Full <- FullSchema
    Common <- CommonTypes
    Begins <- BeginsWith
    Api <- Apis
    WorkLists <- Lists
    Builtin = Builtin
INVARIANTS
    FilesAreClosed
    HiddenFieldsStayHidden
    FilesFollowAnnotations
PROPERTIES
    Reproducible
