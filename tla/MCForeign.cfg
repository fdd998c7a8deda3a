SPECIFICATION FairSpec
CONSTANTS
    Type <- Types
    Table <- Tables
    Suffix <- BuilderSuffixes
    FileOrder <- Files
    Shape <- Shapes
    NameForeign <- Named
    PrefixForeign <- Prefixed
    Refs <- References
    Rename <- Renames
    NoType = NoType
    FirstAnnotated <- ReadOnlyTypes
    Gone = Gone
    Torn = Torn
    Absent = Absent
    MaxFaults = 1
    MaxEdits = 1
INVARIANTS
    StripIsSound
PROPERTIES
    ReaderSparesForeign
    EventuallyStripped
    OwnTablesCatchUp
