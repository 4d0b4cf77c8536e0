\* The worker's shared judge with a backup configured. The bound on failures lies
\* past the threshold: the breaker trips before it is reached.
SPECIFICATION FairSpec
CONSTANTS
    HasBackup = TRUE
    FAILURE_THRESHOLD = 3
    COOLDOWN = 3
    MaxFailures = 5
INVARIANTS
    NeverStranded
PROPERTIES
    CooldownRespected
    EventuallyFailsOver
    EventuallyRecovers
