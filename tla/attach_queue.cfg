SPECIFICATION QueueSpec
CONSTANTS
    a = a
    b = b
    p = p
    Rooms = {a, b}
    NoRoom = NoRoom
    Paths = {p}
    MaxSession = 2
    MaxStaged = 3
INVARIANTS
    TypeOK
    RowsAreTheLastFiles
    FlagIsTheUpload
    UploadedOnce
    EditExcludesFiles
    RepliesStayInTheirRoom
PROPERTIES
    FilesHaveTheirTurn
CHECK_DEADLOCK FALSE
