SPECIFICATION OneSessionSpec
CONSTANTS
    a = a
    Rooms = {a, b}
    NoRoom = NoRoom
    Windows = {w}
    MaxSession = 1
    MaxRequests = 0
    MaxLogouts = 0
    MaxRefs = 2
    MaxPins = 1
    MaxEvents = 1
INVARIANTS
    ShownRoomsAreSubscribed
PROPERTIES
    PinsNeverGoBack
    FollowsLatest
    HeardChangesAreAnnounced
CHECK_DEADLOCK FALSE
