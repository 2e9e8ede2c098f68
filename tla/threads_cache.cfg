SPECIFICATION CacheSpec
CONSTANTS
    a = a
    b = b
    t1 = t1
    t2 = t2
    t3 = t3
    Rooms = {a, b}
    NoRoom = NoRoom
    Threads = {t1, t2, t3}
    NoThread = NoThread
    RoomOf <- ThreeThreads
    Cap = 2
    Workers = {w}
    MaxLoops = 4
    MaxNotes = 1
    MaxEvents <- OneEvent
INVARIANTS
    TypeOK
    ActiveThreadsAgree
    CacheIsSound
    LoopsAreOwned
    NoLostRefresh
    LoadingIsServed
PROPERTY KeepsRecentThreads
CHECK_DEADLOCK FALSE
