\* Audits and rent suggestions for every lease while one later version comes in.
\* No deadlock check: a request ends.
SPECIFICATION SSpec
CONSTANTS
    None = None
    Leases <- MCLeases
    Requests <- MCRequests
    Markets <- MCMarkets
    Days <- MCDays
    AuditDays <- MCAuditDays
    Enacted <- MCEnacted
    RefreshedRefs = {"s41", "reg17"}
    RefreshDays <- MCRefreshDays
    MaxRefreshes = 1
INVARIANTS
    AuditAsAtOnce
    IncreasesAsStatute
    SuggestionBounded
    NoUnlawfulIncrease
CHECK_DEADLOCK FALSE
