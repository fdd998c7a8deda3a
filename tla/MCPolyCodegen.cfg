SPECIFICATION Spec
CONSTANTS
    Entity = {first, second}
    ParentName <- TwoNames
    NodeOrder <- Nodes
    Key = {"post", "article", "media"}
    Snake <- SnakeCase
    ChildType = "Comment"
    PivotType = "SourceLink"
    HolderType = "Tag"
    ChildMorph = "commentable"
    PivotMorph = "sourceable"
    Singular = "source_link"
    NoName = "-"
    NoMorph = "none"
    NoMixin = NoMixin
    NoError = "no error"
    NoState = NoState
    NoProgram = NoProgram
    MaxEdits = 3
SYMMETRY KindsAlike
INVARIANTS
    RowsKeepTheirParent
    BuildsUnlessMapAtFault
    ColumnTakesDefaultKeys
    EdgesKeepTheirKeys
CHECK_DEADLOCK FALSE
