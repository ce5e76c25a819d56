SPECIFICATION TunnelSpec
CONSTANT TunnelClients = {c1, c2}
CONSTANT TunnelStarts = 2
CONSTANT ClientLimit = 1
CONSTANT ForwardQueue = 1
INVARIANT OwnTarget
CHECK_DEADLOCK FALSE
