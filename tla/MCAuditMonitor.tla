--------------------------- MODULE MCAuditMonitor ---------------------------
(* Three leases, the last in a jurisdiction of its own, two inputs and two   *)
(* verdicts.                                                                *)
EXTENDS AuditMonitor

CONSTANTS lease1, lease2, lease3, nsw, vic, i1, i2, green

MCJurisdictionOf == [l \in Leases |-> IF l = lease3 THEN vic ELSE nsw]

\* The rules never change their mind about the first input.
Settled == \A d \in Days : verdictOn[i1][d] = green

MCInit == Init /\ Settled

MCSpec == MCInit /\ [][Next]_vars /\ Fairness
=============================================================================
