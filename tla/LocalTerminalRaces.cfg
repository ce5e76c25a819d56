SPECIFICATION Spec
CONSTANTS
    Nobody = Nobody
    Terminals = {t}
    Attachers = {a, b}
    Stubborn = {t}
    Quitters = {q, s}
INVARIANTS TypeOK StartupOnce ChildOwned QuitReaps
SYMMETRY Symmetric
CHECK_DEADLOCK FALSE
