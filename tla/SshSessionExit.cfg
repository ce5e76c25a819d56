SPECIFICATION FairSpec
CONSTANTS
    w = w  t = t  f = f  r = r  q = q
    NoCall = NoCall
    Calls = {w, f}
    Kind <- ExitKind
    Capacity = 1
    OperationLimit = 1
    MaxGeneration = 2
INVARIANTS StaysHome
PROPERTIES SessionEnds KeepsContract
