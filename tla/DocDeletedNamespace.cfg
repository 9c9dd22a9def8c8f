CONSTANTS
    Envs = {e1}
    NoEnv = NoEnv
    Threads = {t1}
    Checker = Checker
    CreatingTimeout = 0
    AutoStopInactivity = 1
    AutoDeleteStopped = 1
    AutoArchiveSuspended = 1
    AutoDeleteArchived = 1
    FailedRetention = 1
    NotificationLeadTime = 1
    ConfirmWindow = 0
    MaxAge = 2
    MaxConns = 0
SPECIFICATION Spec
INVARIANT DeletedLeavesNoNamespace
CHECK_DEADLOCK FALSE
