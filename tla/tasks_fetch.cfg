SPECIFICATION FairSpec
CONSTANTS
    Rooms = {a, b}
    NoRoom = NoRoom
    Fetchers = {f}
    Ui = Ui
    Free = Free
    MaxLoops = 2
PROPERTIES
    UiReturns
CHECK_DEADLOCK FALSE
