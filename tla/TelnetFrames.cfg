SPECIFICATION Spec
CONSTANTS
    w = w  z = z  r = r  s = s  x = x
    Calls = {w, r, x}
    Kind <- MCKind
    Capacity = 1
    Retained = 1
    MaxTexts = 1
INVARIANT ResponsesWhole
CHECK_DEADLOCK FALSE
