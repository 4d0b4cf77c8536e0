\* Three requests of one tenant for a cap and a quota of one, so that one is
\* refused at either while another waits for the lock; the job of a second tenant
\* queues beside theirs. Queries of the handlers fail, the worker's do not.
SPECIFICATION FairSpec
CONSTANTS
    r1 = r1  r2 = r2  r3 = r3  r4 = r4  t1 = t1  t2 = t2
    Requests = {r1, r2, r3, r4}
    Tenants = {t1, t2}
    TenantOf <- MCTwoTenants
    Quota <- MCQuotaOfOne
    MAX_IN_FLIGHT_PER_TENANT = 1
    Refs = {"primary", "backup"}
    MaxDay = 0
    MaxFaults = 0
    MaxCrashes = 1
INVARIANTS
    ModelRecordsReality
PROPERTIES
    EveryJobSettles
    EveryRequestAnswered
CHECK_DEADLOCK FALSE
