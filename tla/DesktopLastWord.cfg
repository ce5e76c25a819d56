SPECIFICATION DesktopSpec
CONSTANTS
    Attempts = 2
    PipeRoom = 1
    Capacity = 1
    Inputs = 1
INVARIANTS
    LastWord
CHECK_DEADLOCK FALSE
