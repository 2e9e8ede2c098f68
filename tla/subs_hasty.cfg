SPECIFICATION HastySpec
CONSTANTS
    a = a
    Rooms = {a, b}
    NoRoom = NoRoom
    Windows = {w}
    MaxSession = 1
    MaxRequests = 0
    MaxLogouts = 0
    MaxRefs = 2
    MaxPins = 2
    MaxEvents = 1
PROPERTIES
    PinnedListArrives
CHECK_DEADLOCK FALSE
