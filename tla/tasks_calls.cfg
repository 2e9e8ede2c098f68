SPECIFICATION FairSpec
CONSTANTS
    Rooms = {a, b}
    NoRoom = NoRoom
    Fetchers = {f}
    Ui = Ui
    Free = Free
    MaxLoops = 2
INVARIANTS
    TypeOK
    OneWriter
    SnapshotIsOfNewestLoop
    LoopsAreOwned
    NoOtherEmbrace
PROPERTY UiReturnsUnlessLocksCross
CHECK_DEADLOCK FALSE
