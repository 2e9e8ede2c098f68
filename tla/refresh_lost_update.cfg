SPECIFICATION QuietSpec
CONSTANTS
    Rooms = {a}
    NoRoom = NoRoom
    NoSnapshot = NoSnapshot
    NoModel = NoModel
    Unread = Unread
    MaxSession = 1
    MaxVersion = 2
    MaxItems = 1
    MaxRequests = 3
    MaxEvents = 2
    PageSize = 1
PROPERTIES
    ModelsCatchUp
CHECK_DEADLOCK FALSE
