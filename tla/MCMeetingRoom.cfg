SPECIFICATION MeetingFairSpec
CONSTANTS
    Conns = {c1, c2, c3}
    MaxParticipants = 2
    SendCapacity = 1
    MaxBuffered = 1
INVARIANTS
    MeetingTypeOK
    MembersAreConnected
    AtMostOneSharer
    OccupiedWhileActive
PROPERTIES
    GoneClientsLeave
