SPECIFICATION Spec
CONSTANTS
    w = w  z = z  r = r  s = s  x = x
    Calls = {r, s}
    Kind <- MCKind
    Capacity = 1
    Retained = 1
    MaxTexts = 1
INVARIANT FailedIsRetryable
CHECK_DEADLOCK FALSE
