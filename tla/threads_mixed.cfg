SPECIFICATION Spec
CONSTANTS
    a = a
    b = b
    t1 = t1
    t2 = t2
    t3 = t3
    Rooms = {a, b}
    NoRoom = NoRoom
    Threads = {t1, t2}
    NoThread = NoThread
    RoomOf <- OwnRooms
    Cap = 3
    Workers = {v, w}
    MaxLoops = 2
    MaxNotes = 2
    MaxEvents <- OneEvent
INVARIANTS
    ModelsHoldTheirThread
CHECK_DEADLOCK FALSE
