SPECIFICATION BreakerFairSpec
CONSTANTS
    Callers = {c1, c2, c3}
    FailureThreshold = 3
    OpenDuration = 2
    MaxFailures = 6
    ClientModes = {TRUE, FALSE}
PROPERTIES FailedProbeReopens Recovers
