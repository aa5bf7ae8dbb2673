SPECIFICATION Spec
CONSTANTS
    Kinds <- EveryKind
    Entries <- Five
    Stamps = {1, 2}
    Count = 2
    Changes = 2
    Ancestors <- Merge
    None = None
CHECK_DEADLOCK FALSE
INVARIANTS
    TypeOK
    EveryEntrySeen
    NoEntryTwice
PROPERTY
    CursorAdvances
