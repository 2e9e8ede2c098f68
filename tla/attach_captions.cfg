SPECIFICATION Spec
CONSTANTS
    a = a
    b = b
    p = p
    Rooms = {a, b}
    NoRoom = NoRoom
    Paths = {p}
    MaxSession = 1
    MaxStaged = 3
INVARIANTS
    CaptionsStayWithTheirFile
CHECK_DEADLOCK FALSE
