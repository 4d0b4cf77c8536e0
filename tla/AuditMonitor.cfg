\* Two leases in one jurisdiction and one in another, which are monitored in
\* turn, a failing run, a client that polls page by page.
\* No deadlock check: with all requests served and all changes seen it stops.
SPECIFICATION MCSpec
CONSTANTS
    lease1 = lease1  lease2 = lease2  lease3 = lease3  nsw = nsw  vic = vic
    i1 = i1  i2 = i2  green = green
    Requests = {q1, q2}
    Leases = {lease1, lease2, lease3}
    Jurisdictions = {nsw, vic}
    JurisdictionOf <- MCJurisdictionOf
    Inputs = {i1, i2}
    Verdicts = {green, red}
    Monitors = {m1}
    PageLimit = 1
    MaxDay = 1
    MaxFaults = 1
INVARIANTS
    ChangesExplainAudits
    OneChangePerAudit
    SubmissionGoverns
    CursorNeverSkips
PROPERTIES
    EventuallyCurrent
    EveryChangeSeen
CHECK_DEADLOCK FALSE
