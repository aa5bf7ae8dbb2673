SPECIFICATION Spec
CONSTANTS
    Users = {alice}
    Names = {1, 2}
    Ids = {1, 2}
    Visibility = {"PUBLIC", "PRIVATE"}
    Remote = Remote
    Room = 1
    MaxDue = 2
    Changes = 2
    None = None
CHECK_DEADLOCK FALSE
INVARIANTS
    TypeOK
    InProgressHasTask
    ImportIsOwn
    IndexTruthful
    DeletedUserLeavesNothing
    RowsHaveFiles
PROPERTY
    ImportsEnd
