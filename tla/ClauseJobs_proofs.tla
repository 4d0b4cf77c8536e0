------------------------- MODULE ClauseJobs_proofs -------------------------
(***************************************************************************)
(* Theorems about clause-audit jobs, for any number of requests, tenants,  *)
(* faults and crashes: a document lives as long as its job is unsettled,   *)
(* every job lives the life of JobLifecycle, the in-flight cap and the     *)
(* daily quota hold, every job is billed once, and a row names its models. *)
(***************************************************************************)
EXTENDS ClauseJobs, FiniteSetTheorems, WellFoundedInduction, TLAPS

Statuses == {"absent", "pending", "running", "succeeded", "failed"}

InSection(r) == pc[r] \in {"counted", "checked"}

\* The part of the type invariant the proofs below need.
JobTypes ==
    /\ status \in [Requests -> Statuses]
    /\ document \in [Requests -> BOOLEAN]
    /\ pc \in [Requests -> {"arrived", "counted", "checked", "done"}]
    /\ holder \in [Tenants -> Requests \cup {Nobody}]
    /\ worker \in {"idle", "processing", "failing"}
    /\ current \in Requests \cup {NoJob}

\* A handler that has not finished has not inserted its job yet.
NotYetInserted == \A r \in Requests : pc[r] # "done" => status[r] = "absent"

\* What the worker holds in each of its places.
WorkerHolds ==
    /\ worker # "idle" => up /\ current \in Requests
    /\ worker = "processing" => status[current] = "running"
    /\ worker = "failing" => status[current] \in {"running", "succeeded"}

JobInv == JobTypes /\ NotYetInserted /\ WorkerHolds /\ DocumentsDiscarded

USE TenantAssumption, LimitAssumption, RequestAssumption, JobBoundAssumption, NoJobAssumption
\* The ways into and out of a tenant's lock are parts of the handlers' steps.
USE DEF Enter, Leave, Refuse

\* No row exists when the service starts on an empty table.
LEMMA InitJobInv == Init => JobInv
  BY DEF Init, JobInv, JobTypes, NotYetInserted, WorkerHolds, DocumentsDiscarded, Statuses,
         Unsettled

\* Every step of the handlers, the worker and the process preserves JobInv.
LEMMA NextJobInv == JobInv /\ [Next]_vars => JobInv'
<1> SUFFICES ASSUME JobInv, [Next]_vars PROVE JobInv'
  OBVIOUS
<1> USE DEF JobInv, JobTypes, NotYetInserted, WorkerHolds, DocumentsDiscarded, Statuses,
            Unsettled, row, table, process, env
<1>1. ASSUME NEW r \in Requests, BeginAndCount(r) PROVE JobInv'
  BY <1>1 DEF BeginAndCount
<1>2. ASSUME NEW r \in Requests, CheckQuota(r) PROVE JobInv'
  BY <1>2 DEF CheckQuota
<1>3. ASSUME NEW r \in Requests, InsertJob(r) PROVE JobInv'
  BY <1>3 DEF InsertJob
<1>4. ASSUME NEW r \in Requests, RequestFails(r) PROVE JobInv'
  BY <1>4 DEF RequestFails
<1>5. ASSUME NEW r \in Requests, Claim(r) PROVE JobInv'
  BY <1>5 DEF Claim, Oldest
<1>6. ASSUME NEW r \in Requests, ClaimUnacknowledged(r) PROVE JobInv'
  BY <1>6 DEF ClaimUnacknowledged, Oldest
<1>7. ASSUME NEW ref \in Refs, JudgeAnswers(ref) PROVE JobInv'
  BY <1>7 DEF JudgeAnswers
<1>8. CASE Succeed
  BY <1>8 DEF Succeed, WriteSuccess
<1>9. CASE SuccessCommitFails
  <2>1. CASE WriteSuccess(current)
    BY <1>9, <2>1 DEF SuccessCommitFails, WriteSuccess
  <2>2. CASE UNCHANGED row
    BY <1>9, <2>2 DEF SuccessCommitFails
  <2> QED
    BY <1>9, <2>1, <2>2 DEF SuccessCommitFails
<1>10. CASE ProcessingRaises
  BY <1>10 DEF ProcessingRaises
<1>11. CASE Fail
  BY <1>11 DEF Fail, WriteFailure
<1>12. CASE FailRaises
  <2>1. CASE WriteFailure(current)
    BY <1>12, <2>1 DEF FailRaises, WriteFailure
  <2>2. CASE UNCHANGED row
    BY <1>12, <2>2 DEF FailRaises
  <2> QED
    BY <1>12, <2>1, <2>2 DEF FailRaises
<1>13. CASE Crash
  BY <1>13 DEF Crash
<1>14. CASE Restart
  BY <1>14 DEF Restart, SweepStale
<1>15. CASE Midnight
  BY <1>15 DEF Midnight
<1>16. CASE UNCHANGED vars
  BY <1>16 DEF vars
<1> QED
  BY <1>1, <1>2, <1>3, <1>4, <1>5, <1>6, <1>7, <1>8, <1>9, <1>10, <1>11, <1>12, <1>13, <1>14,
     <1>15, <1>16 DEF Next, Handle, Work

\* JobInv holds in every reachable state.
LEMMA JobInvariance == Spec => []JobInv
  BY InitJobInv, NextJobInv, PTL DEF Spec

\* A row holds its document exactly while its job is unsettled: the verdict and
\* the wipe are one commit in every path (processor.py 32-36, worker.py 22-34, 83-90).
THEOREM DocumentWipedWithVerdict == Spec => []DocumentsDiscarded
<1>1. JobInv => DocumentsDiscarded
  BY DEF JobInv
<1> QED
  BY <1>1, JobInvariance, PTL
-----------------------------------------------------------------------------
(* Refinement: every step is a step of JobLifecycle or leaves it alone.     *)

\* A handler's insert is the acceptance of the job; nothing else in it is visible.
LEMMA HandlerRefines ==
  ASSUME JobInv, NEW r \in Requests, Handle(r) \/ RequestFails(r)
  PROVE  L!Accept(r) \/ UNCHANGED L!lifecycle
<1>1. CASE InsertJob(r)
  BY <1>1 DEF InsertJob, L!Accept, JobInv, NotYetInserted
<1>2. CASE BeginAndCount(r) \/ CheckQuota(r) \/ RequestFails(r)
  BY <1>2 DEF BeginAndCount, CheckQuota, RequestFails, L!lifecycle, row, table
<1> QED
  BY <1>1, <1>2 DEF Handle

\* A claim starts the job, acknowledged or not.
LEMMA ClaimRefines ==
  ASSUME NEW r \in Requests, Claim(r) \/ ClaimUnacknowledged(r)
  PROVE  L!Start(r)
  BY DEF Claim, ClaimUnacknowledged, Oldest, L!Start

\* Writing the success settles the job the worker holds.
LEMMA SuccessRefines ==
  ASSUME JobInv, worker = "processing", WriteSuccess(current)
  PROVE  L!Settle(current, "succeeded")
  BY DEF JobInv, WorkerHolds, WriteSuccess, L!Settle

\* Writing the failure settles a running job, or overturns a success whose
\* acknowledgement was lost.
LEMMA FailureRefines ==
  ASSUME JobInv, worker = "failing", WriteFailure(current)
  PROVE  L!Settle(current, "failed") \/ L!Overturn(current)
<1>1. CASE status[current] = "running"
  BY <1>1 DEF WriteFailure, L!Settle
<1>2. CASE status[current] = "succeeded"
  <2>1. ~document[current]
    BY <1>2 DEF JobInv, WorkerHolds, DocumentsDiscarded, Unsettled
  <2>2. document' = document
    BY <2>1 DEF WriteFailure, JobInv, JobTypes
  <2> QED
    BY <1>2, <2>2 DEF WriteFailure, L!Overturn
<1> QED
  BY <1>1, <1>2 DEF JobInv, WorkerHolds

\* The sweep of a restart interrupts what is running, or finds nothing to do.
LEMMA SweepRefines ==
  ASSUME JobInv, SweepStale
  PROVE  L!Interrupt \/ UNCHANGED L!lifecycle
<1>1. CASE \E r \in Requests : status[r] = "running"
  BY <1>1 DEF SweepStale, L!Interrupt
<1>2. CASE ~(\E r \in Requests : status[r] = "running")
  BY <1>2 DEF SweepStale, L!lifecycle, JobInv, JobTypes
<1> QED
  BY <1>1, <1>2

\* Every step of the service is a step of the lifecycle or a stutter.
LEMMA StepRefines == JobInv /\ [Next]_vars => [L!LifecycleNext]_(L!lifecycle)
<1> SUFFICES ASSUME JobInv, [Next]_vars
             PROVE  L!LifecycleNext \/ UNCHANGED L!lifecycle
  OBVIOUS
<1>1. ASSUME NEW r \in Requests, Handle(r) \/ RequestFails(r)
      PROVE  L!LifecycleNext \/ UNCHANGED L!lifecycle
  BY <1>1, HandlerRefines DEF L!LifecycleNext
<1>2. ASSUME NEW r \in Requests, Claim(r) \/ ClaimUnacknowledged(r)
      PROVE  L!LifecycleNext
  BY <1>2, ClaimRefines DEF L!LifecycleNext
<1>3. CASE Succeed
  BY <1>3, SuccessRefines DEF Succeed, JobInv, WorkerHolds, L!LifecycleNext
<1>4. CASE SuccessCommitFails
  BY <1>4, SuccessRefines
  DEF SuccessCommitFails, JobInv, WorkerHolds, L!LifecycleNext, L!lifecycle, row
<1>5. CASE Fail
  BY <1>5, FailureRefines DEF Fail, JobInv, WorkerHolds, L!LifecycleNext
<1>6. CASE FailRaises
  BY <1>6, FailureRefines
  DEF FailRaises, JobInv, WorkerHolds, L!LifecycleNext, L!lifecycle, row
<1>7. CASE Restart
  BY <1>7, SweepRefines DEF Restart, L!LifecycleNext
<1>8. CASE \/ \E ref \in Refs : JudgeAnswers(ref)
           \/ ProcessingRaises \/ Crash \/ Midnight \/ UNCHANGED vars
  BY <1>8 DEF JudgeAnswers, ProcessingRaises, Crash, Midnight, vars, table, row, L!lifecycle
<1> QED
  BY <1>1, <1>2, <1>3, <1>4, <1>5, <1>6, <1>7, <1>8 DEF Next, Work

\* Whatever handlers, worker, crashes and lost commits do, a job is accepted,
\* started and settled in that order, its document wiped by the step that
\* settles it, and only a success is ever overturned.
THEOREM JobsLiveTheLifecycle == Spec => Lifecycle
<1>1. Init => L!LifecycleInit
  BY DEF Init, L!LifecycleInit
<1> QED
  BY <1>1, JobInvariance, StepRefines, PTL DEF Spec, Lifecycle, L!LifecycleSpec

-----------------------------------------------------------------------------
(* The in-flight cap.                                                       *)

\* A handler in the section is the one its tenant's lock names, so that there
\* is one at a time (clause_audits.py 33-38, 85).
LockHeld == \A r \in Requests : InSection(r) => holder[TenantOf[r]] = r

\* While a handler that passed the count holds the lock, there is still room.
RoomWhileHeld ==
    \A r \in Requests :
        InSection(r) => Cardinality(InFlight(TenantOf[r])) < MAX_IN_FLIGHT_PER_TENANT

CapInv == LockHeld /\ RoomWhileHeld /\ InFlightCapped

\* The jobs a tenant has in flight form a finite set.
LEMMA InFlightFinite ==
  ASSUME NEW t \in Tenants
  PROVE  IsFiniteSet(InFlight(t)) /\ Cardinality(InFlight(t)) \in Nat
  BY FS_Subset, FS_CardinalityType DEF InFlight, JobsOf

\* The same, after a step.
LEMMA InFlightFinitePrimed ==
  ASSUME NEW t \in Tenants
  PROVE  IsFiniteSet(InFlight(t)') /\ Cardinality(InFlight(t)') \in Nat
  BY FS_Subset, FS_CardinalityType DEF InFlight, JobsOf

\* A step that puts no job in flight and lets no handler pass the count keeps the cap.
LEMMA NothingAdmitted ==
  ASSUME JobTypes, JobTypes', CapInv,
         \A r \in Requests : status'[r] \in Unsettled => status[r] \in Unsettled,
         \A r \in Requests : InSection(r)' => InSection(r),
         LockHeld'
  PROVE  CapInv'
<1>1. \A t \in Tenants : InFlight(t)' \subseteq InFlight(t)
  BY DEF InFlight, JobsOf, Unsettled, JobTypes, Statuses
<1>2. \A t \in Tenants : Cardinality(InFlight(t)') <= Cardinality(InFlight(t))
  BY <1>1, InFlightFinite, FS_Subset
<1>3. \A r \in Requests : TenantOf[r] \in Tenants
  OBVIOUS
<1>5. InFlightCapped'
  BY <1>2, InFlightFinite, InFlightFinitePrimed DEF CapInv, InFlightCapped
<1>6. RoomWhileHeld'
  BY <1>2, <1>3, InFlightFinite, InFlightFinitePrimed DEF CapInv, RoomWhileHeld
<1> QED
  BY <1>5, <1>6 DEF CapInv

\* Only a free lock is taken, and only its holder gives it back.
LEMMA NextLockHeld == JobInv /\ JobInv' /\ LockHeld /\ [Next]_vars => LockHeld'
<1> SUFFICES ASSUME JobInv, JobInv', LockHeld, [Next]_vars,
                    NEW q \in Requests, InSection(q)'
             PROVE  holder'[TenantOf[q]] = q
  BY DEF LockHeld
<1> USE DEF LockHeld, InSection, JobInv, JobTypes
<1>1. TenantOf[q] \in Tenants
  OBVIOUS
<1>2. ASSUME NEW r \in Requests, BeginAndCount(r) PROVE holder'[TenantOf[q]] = q
  BY <1>1, <1>2 DEF BeginAndCount, LockFree
<1>3. ASSUME NEW r \in Requests, CheckQuota(r) PROVE holder'[TenantOf[q]] = q
  BY <1>1, <1>3 DEF CheckQuota
<1>4. ASSUME NEW r \in Requests, InsertJob(r) PROVE holder'[TenantOf[q]] = q
  BY <1>1, <1>4 DEF InsertJob
<1>5. ASSUME NEW r \in Requests, RequestFails(r) PROVE holder'[TenantOf[q]] = q
  BY <1>1, <1>5 DEF RequestFails, LockFree
<1>6. CASE Crash
  BY <1>6 DEF Crash
<1>7. CASE UNCHANGED <<pc, holder>>
  BY <1>7
<1>8. \/ \E r \in Requests : Handle(r) \/ RequestFails(r)
      \/ Crash \/ UNCHANGED <<pc, holder>>
  BY DEF Next, Work, Claim, ClaimUnacknowledged, JudgeAnswers, Succeed, SuccessCommitFails,
         ProcessingRaises, Fail, FailRaises, Restart, Midnight, vars, process
<1> QED
  BY <1>2, <1>3, <1>4, <1>5, <1>6, <1>7, <1>8 DEF Handle

\* The handler that takes the lock passes the count only if there is room.
LEMMA BeginKeepsCap ==
  ASSUME JobInv, JobTypes', CapInv, LockHeld', NEW r \in Requests, BeginAndCount(r)
  PROVE  CapInv'
<1>1. \A t \in Tenants : InFlight(t)' = InFlight(t)
  BY DEF BeginAndCount, row, InFlight, JobsOf
<1>2. InFlightCapped'
  BY <1>1 DEF CapInv, InFlightCapped
<1>3. \A q \in Requests : InSection(q)' => q = r \/ InSection(q)
  BY DEF BeginAndCount, InSection, JobInv, JobTypes
<1>5. RoomWhileHeld'
  <2>1. SUFFICES ASSUME NEW q \in Requests, InSection(q)'
                 PROVE  Cardinality(InFlight(TenantOf[q])') < MAX_IN_FLIGHT_PER_TENANT
    BY DEF RoomWhileHeld
  <2>2. TenantOf[q] \in Tenants
    OBVIOUS
  <2>3. CASE q = r
    <3>1. ~(Cardinality(InFlight(TenantOf[r])) >= MAX_IN_FLIGHT_PER_TENANT)
      BY <2>1, <2>3 DEF BeginAndCount, InSection, JobInv, JobTypes
    <3> QED
      BY <1>1, <2>2, <2>3, <3>1, InFlightFinite
  <2>4. CASE q # r
    BY <1>1, <1>3, <2>1, <2>2, <2>4 DEF CapInv, RoomWhileHeld
  <2> QED
    BY <2>3, <2>4
<1> QED
  BY <1>2, <1>5 DEF CapInv

\* The insert uses the room its handler was promised and gives the lock back.
LEMMA InsertKeepsCap ==
  ASSUME JobInv, JobTypes', CapInv, LockHeld', NEW r \in Requests, InsertJob(r)
  PROVE  CapInv'
<1> DEFINE t == TenantOf[r]
<1>1. t \in Tenants /\ InSection(r) /\ ~InSection(r)'
  BY DEF InsertJob, InSection, JobInv, JobTypes
<1>2. InFlight(t)' \subseteq InFlight(t) \cup {r}
  BY DEF InsertJob, InFlight, JobsOf, JobInv, JobTypes, Statuses
<1>3. \A u \in Tenants : u # t => InFlight(u)' \subseteq InFlight(u)
  BY DEF InsertJob, InFlight, JobsOf, JobInv, JobTypes, Statuses
<1>4. Cardinality(InFlight(t)') <= Cardinality(InFlight(t)) + 1
  <2>1. /\ IsFiniteSet(InFlight(t) \cup {r})
        /\ Cardinality(InFlight(t) \cup {r}) <= Cardinality(InFlight(t)) + 1
    <3>1. IsFiniteSet(InFlight(t)) /\ Cardinality(InFlight(t)) \in Nat
      BY <1>1, InFlightFinite
    <3>2. /\ IsFiniteSet(InFlight(t) \cup {r})
          /\ \/ Cardinality(InFlight(t) \cup {r}) = Cardinality(InFlight(t))
             \/ Cardinality(InFlight(t) \cup {r}) = Cardinality(InFlight(t)) + 1
      BY <3>1, FS_AddElement
    <3> QED
      BY <3>1, <3>2
  <2>2. Cardinality(InFlight(t)') <= Cardinality(InFlight(t) \cup {r})
    BY <1>2, <2>1, FS_Subset
  <2> QED
    BY <1>1, <2>1, <2>2, InFlightFinite, InFlightFinitePrimed, FS_CardinalityType
<1>5. Cardinality(InFlight(t)) < MAX_IN_FLIGHT_PER_TENANT
  BY <1>1 DEF CapInv, RoomWhileHeld
<1>6. \A u \in Tenants : u # t => Cardinality(InFlight(u)') <= Cardinality(InFlight(u))
  BY <1>3, InFlightFinite, FS_Subset
<1>7. \A q \in Requests : InSection(q)' => InSection(q)
  BY DEF InsertJob, InSection, JobInv, JobTypes
<1>9. InFlightCapped'
  BY <1>1, <1>4, <1>5, <1>6, InFlightFinite, InFlightFinitePrimed DEF CapInv, InFlightCapped
<1>10. RoomWhileHeld'
  <2>1. SUFFICES ASSUME NEW q \in Requests, InSection(q)'
                 PROVE  Cardinality(InFlight(TenantOf[q])') < MAX_IN_FLIGHT_PER_TENANT
    BY DEF RoomWhileHeld
  <2>2. TenantOf[q] # t
    BY <1>1, <1>7, <2>1 DEF CapInv, LockHeld
  <2>3. TenantOf[q] \in Tenants
    OBVIOUS
  <2>4. Cardinality(InFlight(TenantOf[q])) < MAX_IN_FLIGHT_PER_TENANT
    BY <1>7, <2>1 DEF CapInv, RoomWhileHeld
  <2> QED
    BY <1>6, <2>2, <2>3, <2>4, InFlightFinite, InFlightFinitePrimed
<1> QED
  BY <1>9, <1>10 DEF CapInv

\* Every step keeps the cap and the lock discipline behind it.
LEMMA NextCapInv == JobInv /\ JobInv' /\ CapInv /\ [Next]_vars => CapInv'
<1> SUFFICES ASSUME JobInv, JobInv', CapInv, [Next]_vars PROVE CapInv'
  OBVIOUS
<1>1. JobTypes /\ JobTypes' /\ LockHeld'
  BY NextLockHeld DEF JobInv, CapInv
<1>2. ASSUME NEW r \in Requests, BeginAndCount(r) PROVE CapInv'
  BY <1>1, <1>2, BeginKeepsCap
<1>3. ASSUME NEW r \in Requests, InsertJob(r) PROVE CapInv'
  BY <1>1, <1>3, InsertKeepsCap
<1>4. ASSUME NEW r \in Requests,
             CheckQuota(r) \/ RequestFails(r) \/ Claim(r) \/ ClaimUnacknowledged(r)
      PROVE  CapInv'
  <2>1. \A q \in Requests : status'[q] \in Unsettled => status[q] \in Unsettled
    BY <1>1, <1>4
    DEF CheckQuota, RequestFails, Claim, ClaimUnacknowledged, Oldest, Unsettled, JobTypes,
        table, row
  <2>2. \A q \in Requests : InSection(q)' => InSection(q)
    BY <1>1, <1>4
    DEF CheckQuota, RequestFails, Claim, ClaimUnacknowledged, InSection, JobTypes, process
  <2> QED
    BY <1>1, <2>1, <2>2, NothingAdmitted
<1>5. CASE Succeed \/ SuccessCommitFails
  BY <1>1, <1>5, NothingAdmitted
  DEF Succeed, SuccessCommitFails, WriteSuccess, Unsettled, InSection, JobTypes, row
<1>6. CASE Fail \/ FailRaises
  BY <1>1, <1>6, NothingAdmitted
  DEF Fail, FailRaises, WriteFailure, Unsettled, InSection, JobTypes, row
<1>7. CASE Crash \/ Restart
  BY <1>1, <1>7, NothingAdmitted
  DEF Crash, Restart, SweepStale, Unsettled, InSection, JobTypes, table, row
<1>8. CASE \/ \E ref \in Refs : JudgeAnswers(ref)
           \/ ProcessingRaises \/ Midnight \/ UNCHANGED vars
  BY <1>1, <1>8, NothingAdmitted
  DEF JudgeAnswers, ProcessingRaises, Midnight, vars, InSection, table, row, process
<1> QED
  BY <1>2, <1>3, <1>4, <1>5, <1>6, <1>7, <1>8 DEF Next, Handle, Work

\* At first nobody holds a lock and nothing is in flight.
LEMMA InitCapInv == Init => CapInv
<1> SUFFICES ASSUME Init PROVE CapInv
  OBVIOUS
<1>1. \A t \in Tenants : Cardinality(InFlight(t)) = 0
  <2>1. \A t \in Tenants : InFlight(t) = {}
    BY DEF Init, InFlight, JobsOf
  <2> QED
    BY <2>1, FS_EmptySet
<1>2. \A r \in Requests : ~InSection(r)
  BY DEF Init, InSection
<1>3. InFlightCapped
  BY <1>1 DEF InFlightCapped
<1> QED
  BY <1>2, <1>3 DEF CapInv, LockHeld, RoomWhileHeld

\* However its requests interleave, with each other, with the worker and with
\* crashes, a tenant never has more jobs in flight than the cap
\* (clause_audits.py 85-97).
THEOREM CapHolds == Spec => []InFlightCapped
<1>1. CapInv => InFlightCapped
  BY DEF CapInv
<1> QED
  BY <1>1, InitCapInv, NextCapInv, JobInvariance, PTL DEF Spec

-----------------------------------------------------------------------------
(* Types.                                                                   *)

\* What JobTypes leaves out: dates, stamps, models, counters and bounds.
RestTypes ==
    /\ bornOn \in [Requests -> Days] /\ checkedOn \in [Requests -> Days]
    /\ stamp \in [Requests -> Nat] /\ nextStamp \in Nat
    /\ model \in [Requests -> SUBSET Refs] /\ answered \in [Requests -> SUBSET Refs]
    /\ modelsUsed \in SUBSET Refs
    /\ usage \in [Tenants -> [Days -> Nat]]
    /\ up \in BOOLEAN /\ today \in Days
    /\ faults \in 0..MaxFaults /\ crashes \in 0..MaxCrashes

LEMMA InitRestTypes == Init => RestTypes
  BY DEF Init, RestTypes, Days

LEMMA NextRestTypes == JobInv /\ RestTypes /\ [Next]_vars => RestTypes'
<1> SUFFICES ASSUME JobInv, RestTypes, [Next]_vars PROVE RestTypes'
  OBVIOUS
<1> USE DEF JobInv, JobTypes, RestTypes, row, table, process, env
<1>1. ASSUME NEW r \in Requests, BeginAndCount(r) PROVE RestTypes'
  BY <1>1 DEF BeginAndCount
<1>2. ASSUME NEW r \in Requests, CheckQuota(r) PROVE RestTypes'
  BY <1>2 DEF CheckQuota
<1>3. ASSUME NEW r \in Requests, InsertJob(r) PROVE RestTypes'
  <2>1. usage' \in [Tenants -> [Days -> Nat]]
    BY <1>3 DEF InsertJob, RecordUsage
  <2> QED
    BY <1>3, <2>1 DEF InsertJob
<1>4. ASSUME NEW r \in Requests, RequestFails(r) PROVE RestTypes'
  BY <1>4 DEF RequestFails
<1>5. ASSUME NEW r \in Requests, Claim(r) PROVE RestTypes'
  BY <1>5 DEF Claim
<1>6. ASSUME NEW r \in Requests, ClaimUnacknowledged(r) PROVE RestTypes'
  BY <1>6 DEF ClaimUnacknowledged
<1>7. ASSUME NEW ref \in Refs, JudgeAnswers(ref) PROVE RestTypes'
  BY <1>7 DEF JudgeAnswers, WorkerHolds
<1>8. CASE Succeed
  BY <1>8 DEF Succeed, WriteSuccess
<1>9. CASE SuccessCommitFails
  <2>1. model' \in [Requests -> SUBSET Refs]
    <3>1. CASE WriteSuccess(current)
      BY <3>1 DEF WriteSuccess
    <3>2. CASE UNCHANGED row
      BY <3>2
    <3> QED
      BY <1>9, <3>1, <3>2 DEF SuccessCommitFails
  <2> QED
    BY <1>9, <2>1 DEF SuccessCommitFails
<1>10. CASE ProcessingRaises
  BY <1>10 DEF ProcessingRaises
<1>11. CASE Fail
  BY <1>11 DEF Fail, WriteFailure
<1>12. CASE FailRaises
  <2>1. UNCHANGED model
    BY <1>12 DEF FailRaises, WriteFailure
  <2> QED
    BY <1>12, <2>1 DEF FailRaises
<1>13. CASE Crash
  <2>1. crashes < MaxCrashes /\ crashes' = crashes + 1
    BY <1>13 DEF Crash
  <2>2. up' = FALSE /\ modelsUsed' = {}
    BY <1>13 DEF Crash
  <2>3. UNCHANGED <<table, today, nextStamp, faults, checkedOn, answered>>
    BY <1>13 DEF Crash
  <2>4. crashes' \in 0..MaxCrashes
    BY <2>1
  <2> QED
    BY <2>2, <2>3, <2>4
<1>14. CASE Restart
  BY <1>14 DEF Restart
<1>15. CASE Midnight
  BY <1>15 DEF Midnight, Days
<1>16. CASE UNCHANGED vars
  BY <1>16 DEF vars
<1> QED
  BY <1>1, <1>2, <1>3, <1>4, <1>5, <1>6, <1>7, <1>8, <1>9, <1>10, <1>11, <1>12, <1>13, <1>14,
     <1>15, <1>16 DEF Next, Handle, Work

\* Rows, counters, handlers, worker and judge hold what the code puts there.
THEOREM TypeCorrect == Spec => []TypeOK
<1>1. JobInv /\ RestTypes => TypeOK
  BY DEF JobInv, JobTypes, RestTypes, TypeOK, Statuses
<1> QED
  BY <1>1, InitRestTypes, NextRestTypes, JobInvariance, PTL DEF Spec
-----------------------------------------------------------------------------
(* The daily quota. The lock serialises the handlers of a tenant, so each   *)
(* begins after the jobs before it were checked; midnight may pass between  *)
(* any two of its queries.                                                  *)

Inserted(r) == status[r] # "absent"

\* A handler is born, checked and inserted on days in that order.
DatesInOrder ==
    \A r \in Requests :
        /\ InSection(r) => bornOn[r] <= today
        /\ (pc[r] = "checked" \/ Inserted(r)) => bornOn[r] <= checkedOn[r] /\ checkedOn[r] <= today

\* The holder of the lock was born after the jobs of its tenant were checked.
BornAfterJobs ==
    \A r, q \in Requests :
        TenantOf[r] = TenantOf[q] /\ InSection(r) /\ Inserted(q) => checkedOn[q] <= bornOn[r]

\* Of two jobs of a tenant one was checked before the other was born.
JobsInTurn ==
    \A r, q \in Requests :
        TenantOf[r] = TenantOf[q] /\ r # q /\ Inserted(r) /\ Inserted(q) =>
            checkedOn[q] <= bornOn[r] \/ checkedOn[r] <= bornOn[q]

\* A handler that passed the check still has the job it was promised.
QuotaLeft ==
    \A r \in Requests :
        pc[r] = "checked" => Cardinality(BornSince(TenantOf[r], checkedOn[r])) < Quota[TenantOf[r]]

OnTheDay(t, d) == {r \in JobsOf(t) : bornOn[r] = d /\ checkedOn[r] = d}

QuotaOfTheDay == \A t \in Tenants, d \in Days : Cardinality(OnTheDay(t, d)) <= Quota[t]

QuotaInv == DatesInOrder /\ BornAfterJobs /\ JobsInTurn /\ QuotaLeft /\ QuotaOfTheDay

\* The sets of jobs the quota counts are finite.
LEMMA CountedFinite ==
  ASSUME NEW t, NEW d
  PROVE  /\ IsFiniteSet(BornSince(t, d)) /\ Cardinality(BornSince(t, d)) \in Nat
         /\ IsFiniteSet(OnTheDay(t, d)) /\ Cardinality(OnTheDay(t, d)) \in Nat
  BY FS_Subset, FS_CardinalityType DEF BornSince, OnTheDay, JobsOf

\* Dates are whole numbers of days.
LEMMA DatesAreNumbers ==
  ASSUME RestTypes
  PROVE  today \in Int /\ \A r \in Requests : bornOn[r] \in Int /\ checkedOn[r] \in Int
  BY DEF RestTypes, Days

\* A step that inserts nothing, moves no birth of a job or handler, checks
\* nothing and turns no clock back keeps the quota.
LEMMA NothingInserted ==
  ASSUME JobTypes, JobTypes', RestTypes, RestTypes', QuotaInv,
         \A r \in Requests : Inserted(r)' <=> Inserted(r),
         \A r \in Requests : InSection(r)' => InSection(r),
         \A r \in Requests : pc'[r] = "checked" => pc[r] = "checked",
         UNCHANGED <<bornOn, checkedOn>>, today <= today'
  PROVE  QuotaInv'
<1>1. \A t, d : BornSince(t, d)' = BornSince(t, d) /\ OnTheDay(t, d)' = OnTheDay(t, d)
  BY DEF BornSince, OnTheDay, JobsOf, Inserted
<1>2. DatesInOrder'
  <2>1. today' \in Int
    BY DEF RestTypes, Days
  <2> QED
    BY <2>1, DatesAreNumbers DEF QuotaInv, DatesInOrder
<1>3. BornAfterJobs' /\ JobsInTurn'
  BY DEF QuotaInv, BornAfterJobs, JobsInTurn
<1>4. QuotaLeft'
  BY <1>1 DEF QuotaInv, QuotaLeft
<1>5. QuotaOfTheDay'
  BY <1>1 DEF QuotaInv, QuotaOfTheDay
<1> QED
  BY <1>2, <1>3, <1>4, <1>5 DEF QuotaInv

\* A handler is born today, after every check there has been.
LEMMA BeginKeepsQuota ==
  ASSUME JobInv, JobTypes', RestTypes, RestTypes', QuotaInv,
         NEW r \in Requests, BeginAndCount(r)
  PROVE  QuotaInv'
<1> USE DEF JobInv, JobTypes, NotYetInserted, Inserted
<1>1. ~Inserted(r) /\ pc'[r] # "checked"
  BY DEF BeginAndCount
<1>2. /\ \A q \in Requests : (Inserted(q)' <=> Inserted(q)) /\ (pc'[q] = "checked" => pc[q] = "checked")
      /\ UNCHANGED <<checkedOn, today, status>> /\ bornOn'[r] = today
      /\ \A q \in Requests : q # r => bornOn'[q] = bornOn[q] /\ pc'[q] = pc[q]
  BY DEF BeginAndCount, row, RestTypes
<1>3. \A t, d : BornSince(t, d)' = BornSince(t, d) /\ OnTheDay(t, d)' = OnTheDay(t, d)
  BY <1>1, <1>2 DEF BornSince, OnTheDay, JobsOf
<1>4. DatesInOrder'
  <2> SUFFICES ASSUME NEW q \in Requests
               PROVE  /\ InSection(q)' => bornOn'[q] <= today
                      /\ (pc'[q] = "checked" \/ Inserted(q)') =>
                             bornOn'[q] <= checkedOn[q] /\ checkedOn[q] <= today
    BY <1>2 DEF DatesInOrder
  <2>1. CASE q = r
    BY <1>1, <1>2, <2>1, DatesAreNumbers
  <2>2. CASE q # r
    BY <1>2, <2>2 DEF QuotaInv, DatesInOrder, InSection
  <2> QED
    BY <2>1, <2>2
<1>5. BornAfterJobs'
  BY <1>1, <1>2 DEF QuotaInv, BornAfterJobs, DatesInOrder, InSection
<1>6. JobsInTurn'
  BY <1>1, <1>2 DEF QuotaInv, JobsInTurn
<1>7. QuotaLeft'
  BY <1>2, <1>3 DEF QuotaInv, QuotaLeft
<1>8. QuotaOfTheDay'
  BY <1>3 DEF QuotaInv, QuotaOfTheDay
<1> QED
  BY <1>4, <1>5, <1>6, <1>7, <1>8 DEF QuotaInv

\* The check lets its handler pass only while the quota has room.
LEMMA CheckKeepsQuota ==
  ASSUME JobInv, JobTypes', RestTypes, RestTypes', QuotaInv,
         NEW r \in Requests, CheckQuota(r)
  PROVE  QuotaInv'
<1> USE DEF JobInv, JobTypes, NotYetInserted, Inserted
<1>1. ~Inserted(r) /\ InSection(r) /\ pc[r] # "checked"
  BY DEF CheckQuota, InSection
<1>2. /\ \A q \in Requests : Inserted(q)' <=> Inserted(q)
      /\ UNCHANGED <<status, bornOn, today>> /\ checkedOn'[r] = today
      /\ \A q \in Requests : q # r => checkedOn'[q] = checkedOn[q] /\ pc'[q] = pc[q]
      /\ \A q \in Requests : InSection(q)' => InSection(q)
  BY DEF CheckQuota, table, row, env, RestTypes, InSection
<1>3. \A t, d : BornSince(t, d)' = BornSince(t, d) /\ OnTheDay(t, d)' = OnTheDay(t, d)
  BY <1>1, <1>2 DEF BornSince, OnTheDay, JobsOf
<1>4. DatesInOrder'
  <2> SUFFICES ASSUME NEW q \in Requests
               PROVE  /\ InSection(q)' => bornOn[q] <= today
                      /\ (pc'[q] = "checked" \/ Inserted(q)') =>
                             bornOn[q] <= checkedOn'[q] /\ checkedOn'[q] <= today
    BY <1>2 DEF DatesInOrder
  <2>1. CASE q = r
    BY <1>1, <1>2, <2>1, DatesAreNumbers DEF QuotaInv, DatesInOrder
  <2>2. CASE q # r
    BY <1>2, <2>2 DEF QuotaInv, DatesInOrder
  <2> QED
    BY <2>1, <2>2
<1>5. BornAfterJobs' /\ JobsInTurn'
  BY <1>1, <1>2 DEF QuotaInv, BornAfterJobs, JobsInTurn
<1>6. QuotaLeft'
  <2>1. SUFFICES ASSUME NEW q \in Requests, pc'[q] = "checked"
                 PROVE  Cardinality(BornSince(TenantOf[q], checkedOn'[q])) < Quota[TenantOf[q]]
    BY <1>3 DEF QuotaLeft
  <2>2. CASE q = r
    <3>1. ~(Cardinality(BornSince(TenantOf[r], today)) >= Quota[TenantOf[r]])
      BY <2>1, <2>2 DEF CheckQuota
    <3> QED
      BY <1>2, <2>2, <3>1, CountedFinite
  <2>3. CASE q # r
    BY <1>2, <2>1, <2>3 DEF QuotaInv, QuotaLeft
  <2> QED
    BY <2>2, <2>3
<1>7. QuotaOfTheDay'
  BY <1>3 DEF QuotaInv, QuotaOfTheDay
<1> QED
  BY <1>4, <1>5, <1>6, <1>7 DEF QuotaInv

\* The insert uses the job its handler was promised and gives the lock back.
LEMMA InsertKeepsQuota ==
  ASSUME JobInv, JobTypes', RestTypes, RestTypes', CapInv, QuotaInv,
         NEW r \in Requests, InsertJob(r)
  PROVE  QuotaInv'
<1> USE DEF JobInv, JobTypes, NotYetInserted, Inserted
<1> DEFINE t == TenantOf[r]
<1>1. ~Inserted(r) /\ Inserted(r)' /\ pc[r] = "checked" /\ InSection(r) /\ t \in Tenants
  BY DEF InsertJob, InSection
<1>2. /\ \A q \in Requests : q # r => (Inserted(q)' <=> Inserted(q))
      /\ UNCHANGED <<bornOn, checkedOn, today>>
      /\ \A q \in Requests : InSection(q)' => InSection(q) /\ q # r
      /\ \A q \in Requests : pc'[q] = "checked" => pc[q] = "checked" /\ q # r
  BY DEF InsertJob, env, InSection
<1>3. \A q \in Requests : InSection(q)' => TenantOf[q] # t
  BY <1>1, <1>2 DEF CapInv, LockHeld
<1>4. DatesInOrder'
  BY <1>1, <1>2 DEF QuotaInv, DatesInOrder
<1>5. BornAfterJobs'
  BY <1>1, <1>2, <1>3 DEF QuotaInv, BornAfterJobs
<1>6. JobsInTurn'
  BY <1>1, <1>2 DEF QuotaInv, JobsInTurn, BornAfterJobs
<1>7. QuotaLeft'
  <2>1. \A q \in Requests : \A d : TenantOf[q] # t => BornSince(TenantOf[q], d)' = BornSince(TenantOf[q], d)
    BY <1>2 DEF BornSince, JobsOf
  <2>2. \A q \in Requests : pc'[q] = "checked" => TenantOf[q] # t
    BY <1>3 DEF InSection
  <2> QED
    BY <1>2, <2>1, <2>2 DEF QuotaInv, QuotaLeft
<1>8. QuotaOfTheDay'
  <2>1. SUFFICES ASSUME NEW u \in Tenants, NEW d \in Days
                 PROVE  Cardinality(OnTheDay(u, d)') <= Quota[u]
    BY DEF QuotaOfTheDay
  <2>2. CASE u = t /\ bornOn[r] = d /\ checkedOn[r] = d
    <3>1. OnTheDay(u, d)' = OnTheDay(u, d) \cup {r}
      BY <1>1, <1>2, <2>2 DEF OnTheDay, JobsOf
    <3>2. OnTheDay(u, d) \subseteq BornSince(t, checkedOn[r])
      BY <2>2 DEF OnTheDay, BornSince, Days
    <3>3. Cardinality(OnTheDay(u, d)) <= Cardinality(BornSince(t, checkedOn[r]))
      BY <3>2, CountedFinite, FS_Subset
    <3>4. Cardinality(BornSince(t, checkedOn[r])) < Quota[t]
      BY <1>1 DEF QuotaInv, QuotaLeft
    <3>5. Cardinality(OnTheDay(u, d) \cup {r}) <= Cardinality(OnTheDay(u, d)) + 1
      <4>1. IsFiniteSet(OnTheDay(u, d)) /\ Cardinality(OnTheDay(u, d)) \in Nat
        BY CountedFinite
      <4>2. \/ Cardinality(OnTheDay(u, d) \cup {r}) = Cardinality(OnTheDay(u, d))
            \/ Cardinality(OnTheDay(u, d) \cup {r}) = Cardinality(OnTheDay(u, d)) + 1
        BY <4>1, FS_AddElement
      <4> QED
        BY <4>1, <4>2
    <3>6. /\ Cardinality(OnTheDay(u, d)) \in Nat /\ Cardinality(BornSince(t, checkedOn[r])) \in Nat
          /\ Cardinality(OnTheDay(u, d) \cup {r}) \in Nat /\ Quota[t] \in Nat
      BY <1>1, CountedFinite, FS_AddElement, FS_CardinalityType
    <3> QED
      BY <2>2, <3>1, <3>3, <3>4, <3>5, <3>6
  <2>3. CASE ~(u = t /\ bornOn[r] = d /\ checkedOn[r] = d)
    <3>1. OnTheDay(u, d)' = OnTheDay(u, d)
      BY <1>1, <1>2, <2>3 DEF OnTheDay, JobsOf
    <3> QED
      BY <3>1 DEF QuotaInv, QuotaOfTheDay
  <2> QED
    BY <2>2, <2>3
<1> QED
  BY <1>4, <1>5, <1>6, <1>7, <1>8 DEF QuotaInv

\* Every step keeps the quota and what the serialised handlers know of it.
LEMMA NextQuotaInv ==
  JobInv /\ JobInv' /\ RestTypes /\ RestTypes' /\ CapInv /\ QuotaInv /\ [Next]_vars => QuotaInv'
<1> SUFFICES ASSUME JobInv, JobInv', RestTypes, RestTypes', CapInv, QuotaInv, [Next]_vars
             PROVE  QuotaInv'
  OBVIOUS
<1>1. JobTypes /\ JobTypes'
  BY DEF JobInv
<1>2. ASSUME NEW r \in Requests, Handle(r) PROVE QuotaInv'
  BY <1>1, <1>2, BeginKeepsQuota, CheckKeepsQuota, InsertKeepsQuota DEF Handle
<1>3. ASSUME NEW r \in Requests, RequestFails(r) \/ Claim(r) \/ ClaimUnacknowledged(r)
      PROVE  QuotaInv'
  <2>1. UNCHANGED <<bornOn, checkedOn, today>>
    BY <1>3 DEF RequestFails, Claim, ClaimUnacknowledged, table, env
  <2>2. \A q \in Requests : (Inserted(q)' <=> Inserted(q)) /\ (InSection(q)' => InSection(q))
                            /\ (pc'[q] = "checked" => pc[q] = "checked")
    BY <1>1, <1>3 DEF RequestFails, Claim, ClaimUnacknowledged, Oldest, table, row, process,
                      Inserted, InSection, JobTypes
  <2>3. today <= today'
    BY <2>1, DatesAreNumbers
  <2> QED
    BY <1>1, <2>1, <2>2, <2>3, NothingInserted
<1>4. CASE Succeed \/ SuccessCommitFails \/ Fail \/ FailRaises
  <2>1. UNCHANGED <<bornOn, checkedOn, today, pc>>
    BY <1>4 DEF Succeed, SuccessCommitFails, Fail, FailRaises, env
  <2>2. \A q \in Requests : Inserted(q)' <=> Inserted(q)
    BY <1>1, <1>4 DEF Succeed, SuccessCommitFails, Fail, FailRaises, WriteSuccess, WriteFailure,
                      row, Inserted, JobTypes, JobInv, WorkerHolds
  <2>3. today <= today'
    BY <2>1, DatesAreNumbers
  <2> QED
    BY <1>1, <2>1, <2>2, <2>3, NothingInserted DEF InSection
<1>5. CASE Crash \/ Restart
  <2>1. UNCHANGED <<bornOn, checkedOn, today>>
    BY <1>5 DEF Crash, Restart, table, env
  <2>2. \A q \in Requests : (Inserted(q)' <=> Inserted(q)) /\ (InSection(q)' => InSection(q))
                            /\ (pc'[q] = "checked" => pc[q] = "checked")
    BY <1>1, <1>5 DEF Crash, Restart, SweepStale, table, row, Inserted, InSection, JobTypes
  <2>3. today <= today'
    BY <2>1, DatesAreNumbers
  <2> QED
    BY <1>1, <2>1, <2>2, <2>3, NothingInserted
<1>6. CASE \/ \E ref \in Refs : JudgeAnswers(ref)
           \/ ProcessingRaises \/ Midnight \/ UNCHANGED vars
  <2>1. UNCHANGED <<bornOn, checkedOn, pc, status>> /\ today <= today'
    BY <1>6 DEF JudgeAnswers, ProcessingRaises, Midnight, vars, table, row, env, process,
                RestTypes, Days
  <2> QED
    BY <1>1, <2>1, NothingInserted DEF Inserted, InSection
<1> QED
  BY <1>2, <1>3, <1>4, <1>5, <1>6 DEF Next, Work

\* Jobs that were not checked on the day they were born come one at a time.
LEMMA OneAcrossMidnight ==
  ASSUME JobTypes, RestTypes, QuotaInv, NEW t \in Tenants, NEW d \in Days
  PROVE  Cardinality({r \in JobsOf(t) : bornOn[r] = d /\ checkedOn[r] # d}) <= 1
<1> DEFINE L8 == {r \in JobsOf(t) : bornOn[r] = d /\ checkedOn[r] # d}
<1>1. ASSUME NEW r \in L8, NEW q \in L8 PROVE r = q
  <2>1. \A p \in L8 : p \in Requests /\ TenantOf[p] = t /\ Inserted(p) /\ bornOn[p] = d
                    /\ checkedOn[p] # d /\ bornOn[p] <= checkedOn[p]
    BY DEF QuotaInv, DatesInOrder, JobsOf, Inserted
  <2>2. ~(checkedOn[q] <= d \/ checkedOn[r] <= d)
    BY <2>1, DatesAreNumbers
  <2> QED
    BY <2>1, <2>2 DEF QuotaInv, JobsInTurn
<1>2. CASE L8 = {}
  BY <1>2, FS_EmptySet
<1>3. CASE L8 # {}
  <2>1. PICK r \in L8 : TRUE
    BY <1>3
  <2>2. L8 = {r}
    BY <1>1, <2>1
  <2>3. Cardinality(L8) = 1
    BY <2>2, FS_Singleton
  <2> QED
    BY <2>3
<1> QED
  BY <1>2, <1>3

\* On no day is a tenant given more than its quota, whatever interleaves and
\* whenever midnight falls, but for one job whose check ran past midnight
\* (clause_audits.py 98-133).
THEOREM QuotaHolds == Spec => []QuotaHeld
<1>1. Init => QuotaInv
  <2> SUFFICES ASSUME Init PROVE QuotaInv
    OBVIOUS
  <2>1. \A t \in Tenants, d \in Days : Cardinality(OnTheDay(t, d)) = 0
    <3>1. \A t \in Tenants, d \in Days : OnTheDay(t, d) = {}
      BY DEF Init, OnTheDay, JobsOf
    <3> QED
      BY <3>1, FS_EmptySet
  <2>2. QuotaOfTheDay
    BY <2>1 DEF QuotaOfTheDay
  <2>3. \A r \in Requests : ~Inserted(r) /\ ~InSection(r) /\ pc[r] # "checked"
    BY DEF Init, Inserted, InSection
  <2> QED
    BY <2>2, <2>3 DEF QuotaInv, DatesInOrder, BornAfterJobs, JobsInTurn, QuotaLeft
<1>2. JobInv /\ RestTypes /\ QuotaInv => QuotaHeld
  <2> SUFFICES ASSUME JobInv, RestTypes, QuotaInv, NEW t \in Tenants, NEW d \in Days
               PROVE  LET born == {r \in JobsOf(t) : bornOn[r] = d}
                      IN  /\ Cardinality({r \in born : checkedOn[r] = d}) <= Quota[t]
                          /\ Cardinality({r \in born : checkedOn[r] # d}) <= 1
    BY DEF QuotaHeld
  <2> DEFINE born == {r \in JobsOf(t) : bornOn[r] = d}
  <2>1. {r \in born : checkedOn[r] = d} = OnTheDay(t, d)
    BY DEF OnTheDay
  <2>2. {r \in born : checkedOn[r] # d} = {r \in JobsOf(t) : bornOn[r] = d /\ checkedOn[r] # d}
    OBVIOUS
  <2>3. Cardinality({r \in JobsOf(t) : bornOn[r] = d /\ checkedOn[r] # d}) <= 1
    BY OneAcrossMidnight DEF JobInv
  <2> QED
    BY <2>1, <2>2, <2>3 DEF QuotaInv, QuotaOfTheDay
<1> QED
  BY <1>1, <1>2, InitRestTypes, InitCapInv, NextRestTypes, NextCapInv, NextQuotaInv,
     JobInvariance, PTL DEF Spec

-----------------------------------------------------------------------------
(* Billing. The total of a counter over the days is a recursive function;   *)
(* induction over the days comes from the least element of a set of numbers.*)

LEMMA LessIsARelation == OpToRel(<, Nat) = {p \in Nat \X Nat : p[1] < p[2]}
  BY Zenon DEF OpToRel

\* A nonempty set of natural numbers has a least element.
LEMMA LeastElement ==
  ASSUME NEW S \in SUBSET Nat, S # {}
  PROVE  \E n \in S : \A m \in S : n <= m
<1> DEFINE Less == {p \in Nat \X Nat : p[1] < p[2]}
<1>1. PICK n \in S : \A m \in S : <<m, n>> \notin Less
  <2>1. IsWellFoundedOn(Less, Nat)
    BY NatLessThanWellFounded, LessIsARelation, Zenon
  <2> HIDE DEF Less
  <2> QED
    BY <2>1, WFMin
<1>2. ASSUME NEW m \in S PROVE n <= m
  <2>1. <<m, n>> \in Nat \X Nat
    OBVIOUS
  <2>2. <<m, n>> \in Less <=> m < n
    BY <2>1
  <2> QED
    BY <1>1, <2>2
<1> QED
  BY <1>2

\* A set with 0 and the successor of each of its numbers holds every number.
LEMMA InductionOnNat ==
  ASSUME NEW S \in SUBSET Nat, 0 \in S, \A n \in S : n + 1 \in S
  PROVE  Nat \subseteq S
<1> SUFFICES ASSUME Nat \ S # {} PROVE FALSE
  OBVIOUS
<1>1. PICK n \in Nat \ S : \A m \in Nat \ S : n <= m
  BY LeastElement
<1>2. n - 1 \in Nat /\ n - 1 + 1 = n
  BY <1>1
<1>3. n - 1 \in S
  BY <1>1, <1>2
<1> QED
  BY <1>1, <1>2, <1>3

\* f counts up what u holds for days 0..n.
CountsUp(f, u, n) == f = [d \in 0..n |-> u[d] + (IF d = 0 THEN 0 ELSE f[d - 1])]

\* v holds what u holds, and one more for day k.
OneMoreOn(v, u, k, n) == v[k] = u[k] + 1 /\ \A d \in 0..n : d # k => v[d] = u[d]

\* Such a function exists.
LEMMA CountExists ==
  ASSUME NEW u, NEW n \in Nat
  PROVE  \E f : CountsUp(f, u, n)
<1> DEFINE S == {k \in Nat : \E f : CountsUp(f, u, k)}
<1>1. 0 \in S
  <2>1. CountsUp([d \in 0..0 |-> u[0] + 0], u, 0)
    BY DEF CountsUp
  <2> QED
    BY <2>1
<1>2. ASSUME NEW k \in S PROVE k + 1 \in S
  <2>1. PICK f : CountsUp(f, u, k)
    OBVIOUS
  <2> DEFINE g == [d \in 0..(k + 1) |-> IF d = k + 1 THEN u[k + 1] + f[k] ELSE f[d]]
  <2>2. CountsUp(g, u, k + 1)
    BY <2>1 DEF CountsUp
  <2> HIDE DEF g
  <2> QED
    BY <2>2
<1>3. S \in SUBSET Nat
  OBVIOUS
<1> HIDE DEF S
<1>4. n \in S
  BY <1>1, <1>2, <1>3, InductionOnNat
<1> QED
  BY <1>4 DEF S

\* The count with one more on day k is the same before that day and one more
\* from then on.
LEMMA OneMore ==
  ASSUME NEW n \in Nat, NEW u \in [0..n -> Nat], NEW k \in 0..n,
         NEW v, OneMoreOn(v, u, k, n),
         NEW f, NEW g, CountsUp(f, u, n), CountsUp(g, v, n)
  PROVE  f[n] \in Nat /\ g[n] = f[n] + 1
<1> DEFINE S == {d \in Nat : d <= n => f[d] \in Nat /\ g[d] = f[d] + (IF d < k THEN 0 ELSE 1)}
<1>1. \A d \in 0..n : /\ f[d] = u[d] + (IF d = 0 THEN 0 ELSE f[d - 1])
                      /\ g[d] = (IF d = k THEN u[d] + 1 ELSE u[d]) + (IF d = 0 THEN 0 ELSE g[d - 1])
  BY DEF CountsUp, OneMoreOn
<1>2. 0 \in S
  BY <1>1
<1>3. ASSUME NEW d \in S PROVE d + 1 \in S
  <2> SUFFICES ASSUME d + 1 <= n
               PROVE  f[d + 1] \in Nat /\ g[d + 1] = f[d + 1] + (IF d + 1 < k THEN 0 ELSE 1)
    OBVIOUS
  <2>1. f[d] \in Nat /\ g[d] = f[d] + (IF d < k THEN 0 ELSE 1)
    OBVIOUS
  <2>2. u[d + 1] \in Nat
    OBVIOUS
  <2>3. /\ f[d + 1] = u[d + 1] + f[d]
        /\ g[d + 1] = (IF d + 1 = k THEN u[d + 1] + 1 ELSE u[d + 1]) + g[d]
    <3>1. d + 1 \in 0..n /\ d + 1 # 0 /\ d + 1 - 1 = d
      OBVIOUS
    <3> DEFINE e == d + 1
    <3>2. e \in 0..n /\ e # 0 /\ e - 1 = d
      BY <3>1
    <3> HIDE DEF S, e
    <3>3. f[e] = u[e] + f[d] /\ g[e] = (IF e = k THEN u[e] + 1 ELSE u[e]) + g[d]
      BY <1>1, <3>2
    <3> QED
      BY <3>3 DEF e
  <2>4. d \in Nat /\ k \in Nat
    OBVIOUS
  <2>5. CASE d + 1 = k
    BY <2>1, <2>2, <2>3, <2>4, <2>5
  <2>6. CASE d + 1 # k
    BY <2>1, <2>2, <2>3, <2>4, <2>6
  <2> QED
    BY <2>5, <2>6
<1>4. S \in SUBSET Nat
  OBVIOUS
<1> HIDE DEF S
<1>5. n \in S
  BY <1>2, <1>3, <1>4, InductionOnNat
<1> QED
  BY <1>5 DEF S

\* Nothing used counts up to nothing.
LEMMA NoneUsed ==
  ASSUME NEW n \in Nat, NEW f, CountsUp(f, [d \in 0..n |-> 0], n)
  PROVE  f[n] = 0
<1> DEFINE S == {d \in Nat : d <= n => f[d] = 0}
<1>1. \A d \in 0..n : f[d] = 0 + (IF d = 0 THEN 0 ELSE f[d - 1])
  BY DEF CountsUp
<1>2. 0 \in S
  BY <1>1
<1>3. ASSUME NEW d \in S PROVE d + 1 \in S
  <2>1. d + 1 <= n => f[d + 1] = f[d]
    BY <1>1
  <2> QED
    BY <2>1
<1>4. S \in SUBSET Nat
  OBVIOUS
<1> HIDE DEF S
<1>5. n \in S
  BY <1>2, <1>3, <1>4, InductionOnNat
<1> QED
  BY <1>5 DEF S

\* The total EveryJobBilledOnce reads off a counter.
Total(u) ==
    LET upTo[d \in Days] == u[d] + (IF d = 0 THEN 0 ELSE upTo[d - 1])
    IN  upTo[MaxDay]

LEMMA TotalCounts == \A u : \E f : CountsUp(f, u, MaxDay) /\ Total(u) = f[MaxDay]
<1> SUFFICES ASSUME NEW u PROVE \E f : CountsUp(f, u, MaxDay) /\ Total(u) = f[MaxDay]
  OBVIOUS
<1> DEFINE f == CHOOSE upTo : upTo = [d \in Days |-> u[d] + (IF d = 0 THEN 0 ELSE upTo[d - 1])]
<1>1. CountsUp(f, u, MaxDay)
  <2>1. PICK g : CountsUp(g, u, MaxDay)
    BY CountExists
  <2>2. g = [d \in Days |-> u[d] + (IF d = 0 THEN 0 ELSE g[d - 1])]
    BY <2>1 DEF CountsUp, Days
  <2>3. f = [d \in Days |-> u[d] + (IF d = 0 THEN 0 ELSE f[d - 1])]
    BY <2>2
  <2> QED
    BY <2>3 DEF CountsUp, Days
<1>2. Total(u) = f[MaxDay]
  BY DEF Total
<1> QED
  BY <1>1, <1>2

\* One more on one day is one more in total.
LEMMA TotalOneMore ==
  ASSUME NEW u \in [Days -> Nat], NEW k \in Days,
         NEW v, OneMoreOn(v, u, k, MaxDay)
  PROVE  Total(v) = Total(u) + 1
<1>1. PICK f : CountsUp(f, u, MaxDay) /\ Total(u) = f[MaxDay]
  BY TotalCounts
<1>2. PICK g : CountsUp(g, v, MaxDay) /\ Total(v) = g[MaxDay]
  BY TotalCounts
<1>3. g[MaxDay] = f[MaxDay] + 1
  BY <1>1, <1>2, OneMore DEF Days
<1> QED
  BY <1>1, <1>2, <1>3

BilledOnce == \A t \in Tenants : Total(usage[t]) = Cardinality(JobsOf(t))

\* The jobs of a tenant are finitely many.
LEMMA JobsFinite ==
  ASSUME NEW t
  PROVE  IsFiniteSet(JobsOf(t)) /\ Cardinality(JobsOf(t)) \in Nat
  BY FS_Subset, FS_CardinalityType DEF JobsOf

\* The insert of a job and the count of its usage are one commit.
LEMMA InsertBills ==
  ASSUME JobInv, RestTypes, BilledOnce, NEW r \in Requests, InsertJob(r)
  PROVE  BilledOnce'
<1> DEFINE t == TenantOf[r]
<1>1. t \in Tenants /\ r \notin JobsOf(t)
  BY DEF InsertJob, JobInv, NotYetInserted, JobsOf
<1>2. JobsOf(t)' = JobsOf(t) \cup {r} /\ \A v \in Tenants : v # t => JobsOf(v)' = JobsOf(v)
  BY DEF InsertJob, JobsOf, JobInv, JobTypes
<1>3. usage'[t] = [usage[t] EXCEPT ![today] = @ + 1] /\ \A v \in Tenants : v # t => usage'[v] = usage[v]
  BY <1>1 DEF InsertJob, RecordUsage, RestTypes
<1>4. Total(usage'[t]) = Total(usage[t]) + 1
  <2> DEFINE u == usage[t]  v == usage'[t]
  <2>1. u \in [Days -> Nat] /\ today \in Days
    BY <1>1 DEF RestTypes
  <2>2. OneMoreOn(v, u, today, MaxDay)
    BY <1>3, <2>1 DEF OneMoreOn, Days
  <2> HIDE DEF u, v
  <2>3. Total(v) = Total(u) + 1
    BY <2>1, <2>2, TotalOneMore
  <2> QED
    BY <2>3 DEF u, v
<1>5. Cardinality(JobsOf(t)') = Cardinality(JobsOf(t)) + 1
  BY <1>1, <1>2, JobsFinite, FS_AddElement
<1>6. Total(usage[t]) = Cardinality(JobsOf(t))
  BY <1>1 DEF BilledOnce
<1>7. \A v \in Tenants : v # t => Total(usage'[v]) = Cardinality(JobsOf(v)')
  BY <1>2, <1>3 DEF BilledOnce
<1>8. Total(usage'[t]) = Cardinality(JobsOf(t)')
  BY <1>4, <1>5, <1>6
<1> QED
  BY <1>7, <1>8 DEF BilledOnce

\* No other step inserts a job or counts usage.
LEMMA NextBilled == JobInv /\ RestTypes /\ BilledOnce /\ [Next]_vars => BilledOnce'
<1> SUFFICES ASSUME JobInv, RestTypes, BilledOnce, [Next]_vars PROVE BilledOnce'
  OBVIOUS
<1> USE DEF JobInv, JobTypes, WorkerHolds
<1>1. ASSUME NEW r \in Requests, InsertJob(r) PROVE BilledOnce'
  BY <1>1, InsertBills
<1>2. SUFFICES ASSUME ~\E r \in Requests : InsertJob(r)
               PROVE  UNCHANGED usage /\ \A q \in Requests : Inserted(q)' <=> Inserted(q)
  <2>1. (\A q \in Requests : Inserted(q)' <=> Inserted(q)) => \A t : JobsOf(t)' = JobsOf(t)
    BY DEF JobsOf, Inserted
  <2> QED
    BY <1>1, <1>2, <2>1 DEF BilledOnce
<1> USE DEF Inserted
<1>3. ASSUME NEW r \in Requests, Handle(r) \/ RequestFails(r)
      PROVE  UNCHANGED <<usage, status>>
  BY <1>2, <1>3 DEF Handle, BeginAndCount, CheckQuota, RequestFails, table, row
<1>4. ASSUME NEW r \in Requests, Claim(r) \/ ClaimUnacknowledged(r)
      PROVE  UNCHANGED usage /\ \A q \in Requests : Inserted(q)' <=> Inserted(q)
  BY <1>4 DEF Claim, ClaimUnacknowledged, Oldest
<1>5. CASE Succeed \/ SuccessCommitFails \/ Fail \/ FailRaises
  BY <1>5 DEF Succeed, SuccessCommitFails, Fail, FailRaises, WriteSuccess, WriteFailure, row
<1>6. CASE Crash \/ Restart
  BY <1>6 DEF Crash, Restart, SweepStale, table, row
<1>7. CASE \/ \E ref \in Refs : JudgeAnswers(ref)
           \/ ProcessingRaises \/ Midnight \/ UNCHANGED vars
  BY <1>7 DEF JudgeAnswers, ProcessingRaises, Midnight, vars, table, row
<1> QED
  BY <1>3, <1>4, <1>5, <1>6, <1>7 DEF Next, Work

\* Whatever fails, crashes or is refused, the usage counters of a tenant add up
\* to the jobs it has (core/usage.py 12-23, clause_audits.py 131-133).
THEOREM JobsBilledOnce == Spec => []EveryJobBilledOnce
<1>1. Init => BilledOnce
  <2> SUFFICES ASSUME Init, NEW t \in Tenants PROVE Total(usage[t]) = Cardinality(JobsOf(t))
    BY DEF BilledOnce
  <2>1. JobsOf(t) = {} /\ usage[t] = [d \in 0..MaxDay |-> 0]
    BY DEF Init, JobsOf, Days
  <2>2. PICK f : CountsUp(f, usage[t], MaxDay) /\ Total(usage[t]) = f[MaxDay]
    BY TotalCounts
  <2>3. Total(usage[t]) = 0
    BY <2>1, <2>2, NoneUsed
  <2> QED
    BY <2>1, <2>3, FS_EmptySet
<1>2. BilledOnce => EveryJobBilledOnce
  BY DEF BilledOnce, Total, EveryJobBilledOnce
<1> QED
  BY <1>1, <1>2, InitRestTypes, NextRestTypes, NextBilled, JobInvariance, PTL DEF Spec

-----------------------------------------------------------------------------
(* The models on a row. A round trip that fails may leave models of one job *)
(* with the judge for the next (FailRaises); until then the judge holds the *)
(* models of the job in hand and no others.                                 *)

JudgeAlone ==
    /\ worker = "idle" => modelsUsed = {}
    /\ worker = "processing" => modelsUsed = answered[current]
    /\ worker = "failing" => status[current] = "running"
    /\ \A r \in Requests : status[r] \in {"absent", "pending"} => answered[r] = {}
    /\ ModelRecordsReality

ModelInv == faults = 0 => JudgeAlone

\* The worker's own steps, none of which failed a round trip.
LEMMA WorkerKeepsModels ==
  ASSUME JobInv, RestTypes, JudgeAlone, faults' = faults, Work \/ \E ref \in Refs : JudgeAnswers(ref)
  PROVE  JudgeAlone'
<1> USE DEF JobInv, JobTypes, WorkerHolds, Statuses, RestTypes, JudgeAlone, ModelRecordsReality
<1>1. ASSUME NEW r \in Requests, Claim(r) PROVE JudgeAlone'
  BY <1>1 DEF Claim, Oldest
<1>2. CASE Succeed
  BY <1>2 DEF Succeed, WriteSuccess
<1>3. CASE ProcessingRaises
  BY <1>3 DEF ProcessingRaises, table, row
<1>4. CASE Fail
  BY <1>4 DEF Fail, WriteFailure
<1>5. ASSUME NEW ref \in Refs, JudgeAnswers(ref) PROVE JudgeAlone'
  BY <1>5 DEF JudgeAnswers, table, row
<1> QED
  BY <1>1, <1>2, <1>3, <1>4, <1>5 DEF Work

LEMMA NextModelInv == JobInv /\ RestTypes /\ ModelInv /\ [Next]_vars => ModelInv'
<1> SUFFICES ASSUME JobInv, RestTypes, ModelInv, [Next]_vars, faults' = 0 PROVE JudgeAlone'
  BY DEF ModelInv
<1>1. faults \in Nat /\ faults' # faults + 1
  BY DEF RestTypes
<1>2. ~(SuccessCommitFails \/ FailRaises \/ \E r \in Requests : ClaimUnacknowledged(r))
  BY <1>1 DEF SuccessCommitFails, FailRaises, ClaimUnacknowledged
<1>3. UNCHANGED faults /\ JudgeAlone
  <2>1. UNCHANGED faults
    BY <1>2 DEF Next, Handle, Work, BeginAndCount, CheckQuota, InsertJob, RequestFails, Claim,
                Succeed, ProcessingRaises, Fail, JudgeAnswers, Crash, Restart, Midnight, vars, env
  <2> QED
    BY <2>1 DEF ModelInv
<1>4. CASE Work \/ \E ref \in Refs : JudgeAnswers(ref)
  BY <1>3, <1>4, WorkerKeepsModels
<1> USE DEF JobInv, JobTypes, NotYetInserted, WorkerHolds, Statuses, JudgeAlone, ModelRecordsReality
<1>5. ASSUME NEW r \in Requests, Handle(r) \/ RequestFails(r) PROVE JudgeAlone'
  BY <1>3, <1>5 DEF Handle, BeginAndCount, CheckQuota, InsertJob, RequestFails, table, row
<1>6. CASE Crash
  BY <1>3, <1>6 DEF Crash, table, row
<1>7. CASE Restart
  BY <1>3, <1>7 DEF Restart, SweepStale
<1>8. CASE Midnight \/ UNCHANGED vars
  BY <1>3, <1>8 DEF Midnight, vars, table, row, process
<1> QED
  BY <1>2, <1>4, <1>5, <1>6, <1>7, <1>8 DEF Next

\* As long as no database round trip of the worker failed, the row of a succeeded
\* job names the models that judged it and no other, across crashes, failing jobs
\* and failing requests (worker.py 62-77).
THEOREM RowsNameTheirModels == Spec => [](faults = 0 => ModelRecordsReality)
<1>1. Init => ModelInv
  BY DEF Init, ModelInv, JudgeAlone, ModelRecordsReality
<1>2. ModelInv => (faults = 0 => ModelRecordsReality)
  BY DEF ModelInv, JudgeAlone
<1> QED
  BY <1>1, <1>2, InitRestTypes, NextRestTypes, NextModelInv, JobInvariance, PTL DEF Spec
=============================================================================
