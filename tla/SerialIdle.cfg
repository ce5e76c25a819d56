SPECIFICATION Spec
CONSTANTS
    w = w  e = e  f = f  r = r  s = s  x = x
    Calls = {e, f}
    Kind <- MCKind
    Capacity = 2
    Retained = 1
    MaxTexts = 0
PROPERTY EndsByCloseOnly
CHECK_DEADLOCK FALSE
