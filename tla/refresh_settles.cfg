SPECIFICATION SettlingSpec
CONSTANTS
    Rooms = {a, b}
    NoRoom = NoRoom
    NoSnapshot = NoSnapshot
    NoModel = NoModel
    Unread = Unread
    MaxSession = 1
    MaxVersion = 2
    MaxItems = 1
    MaxRequests = 4
    MaxEvents = 2
    PageSize = 2
PROPERTIES
    RefreshSettles
CHECK_DEADLOCK FALSE
