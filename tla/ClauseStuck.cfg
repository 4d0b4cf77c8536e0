\* Is a processed document discarded when one database round trip fails?
SPECIFICATION FairSpec
CONSTANTS
    r1 = r1  r2 = r2  r3 = r3  r4 = r4  t1 = t1  t2 = t2
    Requests = {r1, r2}
    Tenants = {t1}
    TenantOf <- MCOneTenant
    Quota <- MCQuota
    MAX_IN_FLIGHT_PER_TENANT = 2
    Refs = {"primary"}
    MaxDay = 0
    MaxFaults = 1
    MaxCrashes = 0
PROPERTIES
    ProcessedDocumentsGo
CHECK_DEADLOCK FALSE
