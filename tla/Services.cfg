SPECIFICATION ServicesSpec
CONSTANTS
    Attempts = 2
    PipeRoom = 1
    Capacity = 1
    Inputs = 1
    Reconnects = 2
    scan = scan
    ping = ping
    trace = trace
    Operations = {scan, ping, trace}
    Scans = {scan}
    Limit = 1
    Ports <- ScanPorts
    MaxPort = 3
    Concurrency = 2
    Requests = {q1, q2, q3}
    Slots = 1
    one = one
    two = two
    Ids = {one, two}
    Versions = {0, 1, 2}
    MaxEvents = 2
    MaxRecords = 1
    Local = one
    Settings = one
    Passphrases = {"p", "q"}
    MaxCredentials = 1
    Letters = {"a", "b"}
    PatternLength = 3
    HostLength = 3
    ConfigLength = 3
    Windows = FALSE
    ChannelRoom = 1
    OutboxRoom = 1
    ShellData = 2
    Shells = 2
    MaxSize = 2
    Startup = TRUE
INVARIANTS
    ServicesTypeOK
    HelpersKeepTheOrder
    DesktopEndsWell
    PaintsCurrent
    NetworkIsExact
    StoresAreSafe
    ConfigurationIsHonoured
    OutputReadWhole
    SizeIsCurrent
PROPERTIES
    VaultKeepsFile
    ServicesEnd
    ShellGoesOn
CHECK_DEADLOCK FALSE
