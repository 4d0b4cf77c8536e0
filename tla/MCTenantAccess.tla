-------------------------- MODULE MCTenantAccess --------------------------
(* Concurrent requests are interchangeable.                                 *)
EXTENDS TenantAccess, TLC

MCSymmetry == Permutations(Requests)
=============================================================================
