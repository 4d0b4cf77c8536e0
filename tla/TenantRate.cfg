\* Bursts, refills, waits, a restart, a command and a change of the limit.
\* No deadlock check: the clock is bounded.
SPECIFICATION Spec
CONSTANTS
    Keys = {k1}
    EnvKeys = {}
    Requests = {q1}
    Limits = {1, 2}
    None = None
    CACHE_TTL_SECONDS = 3
    MINUTE = 3
    MaxTime = 5
    MaxCommands = 1
    MaxLimitChanges = 1
    MaxRestarts = 1
SYMMETRY MCSymmetry
INVARIANTS
    RateHeld
    RetryAfterKept
CHECK_DEADLOCK FALSE
