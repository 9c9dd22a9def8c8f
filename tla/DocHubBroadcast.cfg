SPECIFICATION HubSpec
CONSTANTS
    Clients = {c1, c2}
    BroadcastCap = 2
    SendCap = 1
    None = None
INVARIANT
    HubDoesNotWaitForItself
CHECK_DEADLOCK FALSE
