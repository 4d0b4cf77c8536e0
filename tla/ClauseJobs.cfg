\* Three requests of one tenant race for the cap and the quota across midnight,
\* with failing database round trips and a crash.
\* No deadlock check: with every request handled the worker only polls.
SPECIFICATION Spec
CONSTANTS
    r1 = r1  r2 = r2  r3 = r3  r4 = r4  t1 = t1  t2 = t2
    Requests = {r1, r2, r3}
    Tenants = {t1}
    TenantOf <- MCOneTenant
    Quota <- MCQuota
    MAX_IN_FLIGHT_PER_TENANT = 2
    Refs = {"primary", "backup"}
    MaxDay = 1
    MaxFaults = 2
    MaxCrashes = 1
SYMMETRY MCSymmetry
INVARIANTS
    DocumentsDiscarded
    InFlightCapped
    QuotaHeld
    EveryJobBilledOnce
PROPERTIES
    Lifecycle
CHECK_DEADLOCK FALSE
