SPECIFICATION StreamsSpec
CONSTANTS
    w = w  z = z  r = r  x = x
    Calls = {w, z, r, x}
    Kind <- MCKind
    Capacity = 2
    Retained = 1
    MaxTexts = 2
INVARIANTS StreamsTypeOK OutputUnbroken TelnetStartsAnew SerialIsHonest
PROPERTIES StreamsServed
CHECK_DEADLOCK FALSE
