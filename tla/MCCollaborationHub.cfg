SPECIFICATION HubFairSpec
CONSTANTS
    Clients = {c1, c2}
    BroadcastCap = 1
    SendCap = 1
    None = None
INVARIANTS
    HubTypeOK
    RegisteredIsOpen
PROPERTIES
    DeadClientsAreRemoved
    JoinsReturn
CHECK_DEADLOCK FALSE
