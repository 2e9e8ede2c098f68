SPECIFICATION SessionsSpec
SYMMETRY RoomSymmetry
CONSTANTS
    a = a
    Rooms = {a, b}
    NoRoom = NoRoom
    Windows = {w}
    MaxSession = 3
    MaxRequests = 9
    MaxLogouts = 2
    MaxRefs = 2
    MaxPins = 0
    MaxEvents = 1
INVARIANTS
    TypeOK
    NoLostWakeup
    ForwardersFollowTheSet
    PinsAreOfActiveRoom
    NoBackendIsLost
    PagesFollowStarts
PROPERTIES
    StepsLikeLatest
CHECK_DEADLOCK FALSE
