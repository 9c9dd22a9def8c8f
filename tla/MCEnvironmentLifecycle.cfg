CONSTANTS
    Envs = {e1}
    NoEnv = NoEnv
    Threads = {t1, t2}
    Checker = Checker
    CreatingTimeout = 0
    AutoStopInactivity = 1
    AutoDeleteStopped = 1
    AutoArchiveSuspended = 1
    AutoDeleteArchived = 1
    FailedRetention = 1
    NotificationLeadTime = 1
    ConfirmWindow = 0
    MaxAge = 2
    MaxConns = 0
SPECIFICATION Spec
SYMMETRY ThreadSymmetry
INVARIANTS TypeOK TimestampsAreThere KeepHonoured
PROPERTIES NoResurrection
CHECK_DEADLOCK FALSE
