SPECIFICATION Spec
CONSTANTS
    KindOrder <- TwoKinds
    TableKind = {"tag"}
    MasterKind = {"post"}
    NarrowKind = {"post"}
    NarrowDepth = 1
    MarkDepth = 2
    MarkKind = {"tag"}
    Edge <- PostTagEdges
    Id = {"row"}
    NoId = NoId
    Filter = {"f", NoFilter}
    NoFilter = NoFilter
    NoKind = NoKind
    NoPage = NoPage
    MaxDepth = 2
    Returning = {"filter"}
    Popup = {"help", "capabilities"}
    MaxModals = 2
INVARIANTS
    PagesAgree
PROPERTIES
    LostOnlyByNamesake
    ThemeKeepsQuery
    OverlayLosesKeysToSidebar
