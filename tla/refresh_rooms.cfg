SPECIFICATION Spec
SYMMETRY RoomSymmetry
CONSTANTS
    Rooms = {a, b}
    NoRoom = NoRoom
    NoSnapshot = NoSnapshot
    NoModel = NoModel
    Unread = Unread
    MaxSession = 2
    MaxVersion = 1
    MaxItems = 1
    MaxRequests = 2
    MaxEvents = 1
    PageSize = 2
INVARIANTS
    TypeOK
    InFlightIsOutstanding
    ActiveRoomHasModel
    LoopsAreWatched
    ResultsKeepTheirSession
    QueuedFlagHasDispatch
    LoadingMeansEmpty
PROPERTIES
    ShowsOnlyThisSession
CHECK_DEADLOCK FALSE
