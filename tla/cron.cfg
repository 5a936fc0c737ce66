SPECIFICATION CronFairSpec
CONSTANTS
    Callers = {1, 2, 3, 4, 5}
    FailureThreshold = 2
    OpenDuration = 1
    MaxFailures = 3
    ClientModes = {FALSE}
    BatchSize = 4
    Parallelism = 3
    Paused = {1}
    MidPeriod = {4, 5}
    Entitled = {2, 5}
    Endless = {2}
INVARIANT InertAroundNull
PROPERTIES ServesEntitlements RevokedByAnswerOnly EventuallyReconciled
CHECK_DEADLOCK FALSE
