----------------------------- MODULE ClauseJobs -----------------------------
(***************************************************************************)
(* Clause-audit jobs: admission by POST /v1/clause-audits                  *)
(* (app/routers/clause_audits.py), the single background worker            *)
(* (app/clause_audit/worker.py, processor.py) and process restarts         *)
(* (app/main.py).                                                          *)
(*                                                                         *)
(* Each request makes at most one job, so a job is named by its request.   *)
(* A handler is split where it awaits the database: the request coroutines *)
(* and the worker interleave at exactly those points.                      *)
(***************************************************************************)
EXTENDS Integers, FiniteSets

CONSTANTS
    Requests,                  \* validated POST requests that reach the tenant lock
    Tenants,
    TenantOf,                  \* the tenant each request authenticates as
    MAX_IN_FLIGHT_PER_TENANT,
    Quota,                     \* clause_audits_per_day of each tenant
    Refs,                      \* model refs a job's judge may answer from
    MaxDay,                    \* bound on the calendar: UTC days 0..MaxDay
    MaxFaults,                 \* bound on failed database round trips of the worker
    MaxCrashes                 \* bound on process deaths

ASSUME TenantAssumption == TenantOf \in [Requests -> Tenants]
ASSUME LimitAssumption ==
    /\ MAX_IN_FLIGHT_PER_TENANT \in Nat \ {0}
    /\ Quota \in [Tenants -> Nat]
ASSUME RequestAssumption == IsFiniteSet(Requests)
ASSUME JobBoundAssumption == MaxDay \in Nat /\ MaxFaults \in Nat /\ MaxCrashes \in Nat

NoJob == "no job"
Nobody == "nobody"

ASSUME NoJobAssumption == NoJob \notin Requests /\ Nobody \notin Requests

VARIABLES
    \* table clause_audit_jobs
    status,      \* status of each job, "absent" before its row exists
    document,    \* does the row still hold the document?
    bornOn,      \* UTC day of created_at: the day its transaction began
    stamp,       \* order of created_at: the order its transaction began in
    model,       \* models recorded on the row; {} is the configured default
    \* table usage_counters, endpoint class clause_audit
    usage,
    \* the process
    up,
    pc,          \* where each request handler is
    holder,      \* _tenant_locks: the handler inside the lock of each tenant
    worker,      \* where the worker is: idle, processing, failing
    current,     \* the job it works on
    modelsUsed,  \* the shared judge's models since the last drain
    \* the environment
    today, nextStamp, faults, crashes,
    \* history
    checkedOn,   \* the day each request's quota check read
    answered     \* models that answered calls for each job

row     == <<status, document, model>>
table   == <<row, bornOn, stamp, usage>>
process == <<up, pc, holder, worker, current, modelsUsed>>
env     == <<today, nextStamp, faults, crashes>>
vars    == <<table, process, env, checkedOn, answered>>

Days == 0..MaxDay

Unsettled == {"pending", "running"}

JobsOf(t) == {r \in Requests : TenantOf[r] = t /\ status[r] # "absent"}

InFlight(t) == {r \in JobsOf(t) : status[r] \in Unsettled}

BornSince_Inverted(t, d) == {r \in JobsOf(t) : bornOn[r] > d}

BornSince(t, d) == {r \in JobsOf(t) : bornOn[r] >= d}

-----------------------------------------------------------------------------
Init ==
    /\ status = [r \in Requests |-> "absent"]
    /\ document = [r \in Requests |-> FALSE]
    /\ bornOn = [r \in Requests |-> 0]
    /\ stamp = [r \in Requests |-> 0]
    /\ model = [r \in Requests |-> {}]
    /\ usage = [t \in Tenants |-> [d \in Days |-> 0]]
    /\ up = TRUE
    /\ pc = [r \in Requests |-> "arrived"]
    /\ holder = [t \in Tenants |-> Nobody]
    /\ worker = "idle"
    /\ current = NoJob
    /\ modelsUsed = {}
    /\ today = 0 /\ nextStamp = 1 /\ faults = 0 /\ crashes = 0
    /\ checkedOn = [r \in Requests |-> 0]
    /\ answered = [r \in Requests |-> {}]

-----------------------------------------------------------------------------
(* POST /v1/clause-audits                                                   *)

LockFree_NoLock(t) == TRUE

\* asyncio.Lock: a tenant's handlers enter the section one at a time.
LockFree(t) == holder[t] = Nobody

Enter(r) ==
    /\ pc' = [pc EXCEPT ![r] = "counted"]
    /\ holder' = [holder EXCEPT ![TenantOf[r]] = r]

\* async with gives the lock back however the section is left.
Leave(r) ==
    /\ pc' = [pc EXCEPT ![r] = "done"]
    /\ holder' = [holder EXCEPT ![TenantOf[r]] = Nobody]

Refuse_LockKept(r) ==
    /\ pc' = [pc EXCEPT ![r] = "done"]
    /\ holder' = [holder EXCEPT ![TenantOf[r]] = r]

\* The answer 429 leaves the section by raising.
Refuse(r) == Leave(r)

\* The first query opens the transaction, whose start is the row's created_at.
BeginAndCount(r) ==
    /\ up
    /\ pc[r] = "arrived"
    /\ LockFree(TenantOf[r])
    /\ bornOn' = [bornOn EXCEPT ![r] = today]
    /\ stamp' = [stamp EXCEPT ![r] = nextStamp]
    /\ nextStamp' = nextStamp + 1
    /\ IF Cardinality(InFlight(TenantOf[r])) >= MAX_IN_FLIGHT_PER_TENANT
       THEN Refuse(r) ELSE Enter(r)
    /\ UNCHANGED <<row, usage, up, worker, current, modelsUsed, today, faults, crashes,
                   checkedOn, answered>>

CheckQuota(r) ==
    /\ up
    /\ pc[r] = "counted"
    /\ checkedOn' = [checkedOn EXCEPT ![r] = today]
    /\ IF Cardinality(BornSince(TenantOf[r], today)) >= Quota[TenantOf[r]]
       THEN Refuse(r)
       ELSE pc' = [pc EXCEPT ![r] = "checked"] /\ UNCHANGED holder
    /\ UNCHANGED <<table, up, worker, current, modelsUsed, env, answered>>

RecordUsage_Forgotten(t) == UNCHANGED usage

\* record_usage reads the day again; the counter and the job share a commit.
RecordUsage(t) == usage' = [usage EXCEPT ![t][today] = @ + 1]

InsertJob(r) ==
    /\ up
    /\ pc[r] = "checked"
    /\ status' = [status EXCEPT ![r] = "pending"]
    /\ document' = [document EXCEPT ![r] = TRUE]
    /\ RecordUsage(TenantOf[r])
    /\ Leave(r)
    /\ UNCHANGED <<model, bornOn, stamp, up, worker, current, modelsUsed, env, checkedOn, answered>>

\* A query or the commit fails: the transaction rolls back, the lock is released.
RequestFails(r) ==
    /\ up
    /\ pc[r] # "done"
    /\ pc[r] = "arrived" => LockFree(TenantOf[r])
    /\ Leave(r)
    /\ UNCHANGED <<table, up, worker, current, modelsUsed, env, checkedOn, answered>>

-----------------------------------------------------------------------------
(* The worker loop                                                          *)

Oldest(r) ==
    /\ status[r] = "pending"
    /\ \A q \in Requests : status[q] = "pending" => stamp[r] <= stamp[q]

Claim(r) ==
    /\ up
    /\ worker = "idle"
    /\ Oldest(r)
    /\ status' = [status EXCEPT ![r] = "running"]
    /\ worker' = "processing"
    /\ current' = r
    /\ UNCHANGED <<document, model, bornOn, stamp, usage, up, pc, holder, modelsUsed, env,
                   checkedOn, answered>>

\* The claim is committed but its acknowledgement is lost: run_once raises and
\* the loop goes on without the job.
ClaimUnacknowledged(r) ==
    /\ up
    /\ worker = "idle"
    /\ Oldest(r)
    /\ faults < MaxFaults
    /\ faults' = faults + 1
    /\ status' = [status EXCEPT ![r] = "running"]
    /\ UNCHANGED <<document, model, bornOn, stamp, usage, process, today, nextStamp, crashes,
                   checkedOn, answered>>

\* One judge call of the current job comes back with an answer.
JudgeAnswers(ref) ==
    /\ up
    /\ worker = "processing"
    /\ ref \notin modelsUsed \cap answered[current]
    /\ modelsUsed' = modelsUsed \cup {ref}
    /\ answered' = [answered EXCEPT ![current] = @ \cup {ref}]
    /\ UNCHANGED <<table, up, pc, holder, worker, current, env, checkedOn>>

WriteSuccess_DocumentKept(r) ==
    /\ status' = [status EXCEPT ![r] = "succeeded"]
    /\ document' = document
    /\ model' = [model EXCEPT ![r] = IF modelsUsed = {} THEN @ ELSE modelsUsed]

\* What the success commit writes.
WriteSuccess(r) ==
    /\ status' = [status EXCEPT ![r] = "succeeded"]
    /\ document' = [document EXCEPT ![r] = FALSE]
    /\ model' = [model EXCEPT ![r] = IF modelsUsed = {} THEN @ ELSE modelsUsed]

Succeed ==
    /\ up
    /\ worker = "processing"
    /\ WriteSuccess(current)
    /\ modelsUsed' = {}
    /\ worker' = "idle"
    /\ current' = NoJob
    /\ UNCHANGED <<bornOn, stamp, usage, up, pc, holder, env, checkedOn, answered>>

\* The success commit raises, applied or not; the handler moves on to _fail.
SuccessCommitFails ==
    /\ up
    /\ worker = "processing"
    /\ faults < MaxFaults
    /\ faults' = faults + 1
    /\ WriteSuccess(current) \/ UNCHANGED row
    /\ modelsUsed' = {}
    /\ worker' = "failing"
    /\ UNCHANGED <<bornOn, stamp, usage, up, pc, holder, current, today, nextStamp, crashes,
                   checkedOn, answered>>

\* The deadline of the job, a JudgeError, or any other exception.
ProcessingRaises ==
    /\ up
    /\ worker = "processing"
    /\ worker' = "failing"
    /\ UNCHANGED <<table, up, pc, holder, current, modelsUsed, env, checkedOn, answered>>

WriteFailure_BackToPending(r) ==
    /\ status' = [status EXCEPT ![r] = "pending"]
    /\ UNCHANGED <<document, model>>

\* What the failure commit writes.
WriteFailure(r) ==
    /\ status' = [status EXCEPT ![r] = "failed"]
    /\ document' = [document EXCEPT ![r] = FALSE]
    /\ UNCHANGED model

Fail_NotDrained ==
    /\ up
    /\ worker = "failing"
    /\ WriteFailure(current)
    /\ modelsUsed' = modelsUsed
    /\ worker' = "idle"
    /\ current' = NoJob
    /\ UNCHANGED <<bornOn, stamp, usage, up, pc, holder, env, checkedOn, answered>>

\* _fail, then the drain of whatever the failed job left behind.
Fail ==
    /\ up
    /\ worker = "failing"
    /\ WriteFailure(current)
    /\ modelsUsed' = {}
    /\ worker' = "idle"
    /\ current' = NoJob
    /\ UNCHANGED <<bornOn, stamp, usage, up, pc, holder, env, checkedOn, answered>>

\* _fail itself raises, its commit applied or not: the exception leaves
\* run_once before the drain, and worker_loop starts the next iteration.
FailRaises ==
    /\ up
    /\ worker = "failing"
    /\ faults < MaxFaults
    /\ faults' = faults + 1
    /\ WriteFailure(current) \/ UNCHANGED row
    /\ worker' = "idle"
    /\ current' = NoJob
    /\ UNCHANGED <<bornOn, stamp, usage, up, pc, holder, modelsUsed, today, nextStamp, crashes,
                   checkedOn, answered>>

-----------------------------------------------------------------------------
(* The process and the calendar                                             *)

\* The process dies or is stopped: coroutines, locks and the judge are gone,
\* open transactions roll back.
Crash ==
    /\ up
    /\ crashes < MaxCrashes
    /\ crashes' = crashes + 1
    /\ up' = FALSE
    /\ pc' = [r \in Requests |-> IF pc[r] \in {"counted", "checked"} THEN "done" ELSE pc[r]]
    /\ holder' = [t \in Tenants |-> Nobody]
    /\ worker' = "idle"
    /\ current' = NoJob
    /\ modelsUsed' = {}
    /\ UNCHANGED <<table, today, nextStamp, faults, checkedOn, answered>>

SweepStale_Everything ==
    /\ status' = [r \in Requests |-> IF status[r] \in Unsettled THEN "failed" ELSE status[r]]
    /\ document' = [r \in Requests |-> document[r] /\ status[r] \notin Unsettled]

\* lifespan: sweep_stale commits before the worker task and the server start.
SweepStale ==
    /\ status' = [r \in Requests |-> IF status[r] = "running" THEN "failed" ELSE status[r]]
    /\ document' = [r \in Requests |-> document[r] /\ status[r] # "running"]

Restart ==
    /\ ~up
    /\ up' = TRUE
    /\ SweepStale
    /\ UNCHANGED <<model, bornOn, stamp, usage, pc, holder, worker, current, modelsUsed, env,
                   checkedOn, answered>>

Midnight ==
    /\ today < MaxDay
    /\ today' = today + 1
    /\ UNCHANGED <<table, process, nextStamp, faults, crashes, checkedOn, answered>>

Handle(r) == BeginAndCount(r) \/ CheckQuota(r) \/ InsertJob(r)

Work ==
    \/ \E r \in Requests : Claim(r)
    \/ Succeed
    \/ ProcessingRaises
    \/ Fail

Next ==
    \/ \E r \in Requests : Handle(r) \/ RequestFails(r) \/ ClaimUnacknowledged(r)
    \/ Work
    \/ \E ref \in Refs : JudgeAnswers(ref)
    \/ SuccessCommitFails \/ FailRaises
    \/ Crash \/ Restart \/ Midnight

Spec == Init /\ [][Next]_vars

(* The event loop resumes every handler and the worker; wait_for bounds the *)
(* processing of a job; the container is started again after it stops.      *)
Fairness ==
    /\ \A r \in Requests : WF_vars(Handle(r))
    /\ WF_vars(Work)
    /\ WF_vars(Restart)

FairSpec == Spec /\ Fairness
-----------------------------------------------------------------------------
\* Rows, counters and the process have the values the code gives them.
TypeOK ==
    /\ status \in [Requests -> {"absent", "pending", "running", "succeeded", "failed"}]
    /\ document \in [Requests -> BOOLEAN]
    /\ bornOn \in [Requests -> Days]
    /\ stamp \in [Requests -> Nat]
    /\ model \in [Requests -> SUBSET Refs]
    /\ usage \in [Tenants -> [Days -> Nat]]
    /\ up \in BOOLEAN
    /\ pc \in [Requests -> {"arrived", "counted", "checked", "done"}]
    /\ holder \in [Tenants -> Requests \cup {Nobody}]
    /\ worker \in {"idle", "processing", "failing"}
    /\ current \in Requests \cup {NoJob}
    /\ modelsUsed \in SUBSET Refs
    /\ today \in Days /\ nextStamp \in Nat /\ faults \in 0..MaxFaults /\ crashes \in 0..MaxCrashes
    /\ checkedOn \in [Requests -> Days]
    /\ answered \in [Requests -> SUBSET Refs]

\* A document lives exactly as long as its job is unsettled, through crashes,
\* sweeps and lost commits: it is never kept past the verdict, and never lost
\* while the job can still run (processor.py 32-36, worker.py 22-34, 83-90).
DocumentsDiscarded ==
    \A r \in Requests : document[r] <=> status[r] \in Unsettled

\* A tenant never has more jobs in flight than the cap, however its requests
\* interleave with each other and with the worker (clause_audits.py 85-97).
InFlightCapped ==
    \A t \in Tenants : Cardinality(InFlight(t)) <= MAX_IN_FLIGHT_PER_TENANT

\* Jobs born and checked on the same day never exceed the quota of that day,
\* and at most one more, whose check ran past midnight, is stamped with it
\* (clause_audits.py 98-133).
QuotaHeld ==
    \A t \in Tenants, d \in Days :
        LET born == {r \in JobsOf(t) : bornOn[r] = d}
        IN  /\ Cardinality({r \in born : checkedOn[r] = d}) <= Quota[t]
            /\ Cardinality({r \in born : checkedOn[r] # d}) <= 1

\* Every job is billed once and nothing else is: over all days the usage
\* counter of a tenant counts its jobs (core/usage.py 12-23, clause_audits.py 131-133).
EveryJobBilledOnce ==
    \A t \in Tenants :
        LET upTo[d \in Days] == usage[t][d] + (IF d = 0 THEN 0 ELSE upTo[d - 1])
        IN  upTo[MaxDay] = Cardinality(JobsOf(t))

\* A succeeded job's row names the models that judged it and no other: "job.model
\* records reality" (provider-failover design, line 181; worker.py 62-77).
ModelRecordsReality ==
    \A r \in Requests :
        status[r] = "succeeded" /\ answered[r] # {} => model[r] = answered[r]

\* Whatever the handlers, the worker, crashes and lost commits do, each job
\* lives the life JobLifecycle specifies.
L == INSTANCE JobLifecycle WITH Jobs <- Requests
Lifecycle == L!LifecycleSpec

\* An accepted job gets its verdict, across restarts of the process: nothing
\* waits for ever in pending, and the worker leaves nothing in running.
EveryJobSettles ==
    \A r \in Requests : status[r] = "pending" ~> status[r] \in {"succeeded", "failed"}

\* The promise as documented, "documents are discarded after processing, success
\* and failure alike" (llm-clause-audit design, line 21): once the worker took a
\* job up, the row stops holding its document.
ProcessedDocumentsGo == \A r \in Requests : current = r ~> ~document[r]

\* No request waits for ever for the lock of its tenant, whichever way those
\* before it left: with a job, refused at the cap or at the quota, by a query or
\* a commit that failed, or with the process (clause_audits.py 85-133).
EveryRequestAnswered == \A r \in Requests : <>(pc[r] = "done")
=============================================================================
