---------------------------- MODULE MCClauseJobs ----------------------------
(* Small instances of ClauseJobs: requests of one or two tenants.           *)
EXTENDS ClauseJobs, TLC

CONSTANTS r1, r2, r3, r4, t1, t2

MCOneTenant == [r \in Requests |-> t1]

MCTwoTenants == [r \in Requests |-> IF r = r4 THEN t2 ELSE t1]

MCQuota == [t \in Tenants |-> 2]

MCQuotaOfOne == [t \in Tenants |-> 1]

\* Requests of one tenant are interchangeable.
MCSymmetry == Permutations(Requests)
=============================================================================
