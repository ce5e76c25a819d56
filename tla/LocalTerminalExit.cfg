SPECIFICATION FairSpec
CONSTANTS
    Nobody = Nobody
    Terminals = {t}
    Attachers = {a}
    Stubborn = {}
    Quitters = {q}
PROPERTIES CommandsReturn EndIsReported
CHECK_DEADLOCK FALSE
