SPECIFICATION JobsSpec
CONSTANTS
    x = x
    y = y
    Connects = {x, y}
    Wanted <- ConnectWanted
    Hops = 2
    AttemptLimit = 2
    PromptLimit = 1
    Asked = 2
    Losses <- ConnectLosses
    TunnelClients = {c1, c2}
    TunnelStarts = 2
    ClientLimit = 1
    ForwardQueue = 1
    Programs = {p1, p2, p3}
    X11QueueLimit = 2
    X11Limit = 1
    Editors = {a, b}
    Renaming = {a}
    o = o
    NoCall = NoCall
INVARIANTS
    JobsTypeOK
    FilesAreSafe
    ForwardsAreHonest
    ConnectSafety
PROPERTIES
    KeepsReplacement
    TunnelEvents
    JobsEnd
CHECK_DEADLOCK FALSE
