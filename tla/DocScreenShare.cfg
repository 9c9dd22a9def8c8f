SPECIFICATION MeetingSpec
CONSTANTS
    Conns = {c1, c2, c3}
    MaxParticipants = 2
    SendCapacity = 1
    MaxBuffered = 0
INVARIANT RefusedOnlyWhileShared
