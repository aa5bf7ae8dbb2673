SPECIFICATION Spec
CONSTANTS
    Kinds = {"references"}
    Entries <- Five
    Stamps = {1}
    Count = 2
    Changes = 3
    Ancestors <- Merge
    None = None
CHECK_DEADLOCK FALSE
INVARIANT
    NothingRemains
