SPECIFICATION Spec
CONSTANTS
    w = w  t = t  f = f  r = r  q = q
    NoCall = NoCall
    Calls = {t, f, r, q}
    Kind <- JobsKind
    Capacity = 2
    OperationLimit = 2
    MaxGeneration = 2
INVARIANTS TypeOK NothingLeftBehind ToldToStop ToldOnce OneRemoteForward QuitLeavesNothing
PROPERTIES Limits
CONSTRAINT JobsCast
