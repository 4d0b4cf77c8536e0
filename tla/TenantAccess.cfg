\* Stale entries, a revocation, a suspension and a restart; one limit.
\* No deadlock check: the clock is bounded.
SPECIFICATION Spec
CONSTANTS
    Keys = {k1}
    EnvKeys = {k1}
    Requests = {q1, q2}
    Limits = {1}
    None = None
    CACHE_TTL_SECONDS = 2
    MINUTE = 1
    MaxTime = 3
    MaxCommands = 2
    MaxLimitChanges = 0
    MaxRestarts = 1
SYMMETRY MCSymmetry
INVARIANTS
    DecisionsFresh
PROPERTIES
    RevokedForGood
CHECK_DEADLOCK FALSE
