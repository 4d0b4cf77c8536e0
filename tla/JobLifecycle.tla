---------------------------- MODULE JobLifecycle ----------------------------
(***************************************************************************)
(* What the clause-audit API promises about a job, whoever runs it and     *)
(* whatever fails: the life of a job and of the document it was given.     *)
(*                                                                         *)
(* Translated from the status values the code assigns (models/clause_audit,*)
(* clause_audit/worker.py and processor.py), independent of the worker's   *)
(* steps, of the tenant lock and of the number of processes.               *)
(***************************************************************************)
CONSTANT Jobs

VARIABLES
    status,     \* status of each job, "absent" before it is accepted
    document    \* does the row still hold the document?

lifecycle == <<status, document>>

Statuses == {"absent", "pending", "running", "succeeded", "failed"}
Unsettled == {"pending", "running"}

LifecycleInit ==
    /\ status = [j \in Jobs |-> "absent"]
    /\ document = [j \in Jobs |-> FALSE]

Accept(j) ==
    /\ status[j] = "absent"
    /\ status' = [status EXCEPT ![j] = "pending"]
    /\ document' = [document EXCEPT ![j] = TRUE]

Start(j) ==
    /\ status[j] = "pending"
    /\ status' = [status EXCEPT ![j] = "running"]
    /\ UNCHANGED document

\* The verdict and the removal of the document are one step.
Settle(j, verdict) ==
    /\ status[j] = "running"
    /\ verdict \in {"succeeded", "failed"}
    /\ status' = [status EXCEPT ![j] = verdict]
    /\ document' = [document EXCEPT ![j] = FALSE]

\* A restart fails whatever a dead process left running, all at once.
Interrupt ==
    /\ \E j \in Jobs : status[j] = "running"
    /\ status' = [j \in Jobs |-> IF status[j] = "running" THEN "failed" ELSE status[j]]
    /\ document' = [j \in Jobs |-> document[j] /\ status[j] # "running"]

\* A success whose commit was applied but not acknowledged is taken back.
Overturn(j) ==
    /\ status[j] = "succeeded"
    /\ status' = [status EXCEPT ![j] = "failed"]
    /\ UNCHANGED document

LifecycleNext ==
    \/ \E j \in Jobs :
        \/ Accept(j)
        \/ Start(j)
        \/ \E verdict \in {"succeeded", "failed"} : Settle(j, verdict)
        \/ Overturn(j)
    \/ Interrupt

LifecycleSpec == LifecycleInit /\ [][LifecycleNext]_lifecycle
=============================================================================
