--------------------------- MODULE FailoverJudge ---------------------------
(***************************************************************************)
(* The provider-failover circuit breaker (app/llm/failover.py).            *)
(*                                                                         *)
(* One FailoverJudge object is shared by the whole worker, which awaits    *)
(* its calls one at a time.  A call is split where the code awaits: it     *)
(* starts (and picks a provider), and it ends with one of the outcomes the *)
(* provider adapters produce, or by being cancelled from outside (the job  *)
(* deadline, shutdown, or an exception that is no JudgeError).             *)
(***************************************************************************)
EXTENDS Integers, Sequences

CONSTANTS
    HasBackup,          \* is a failover model configured?
    FAILURE_THRESHOLD,  \* consecutive ProviderDown answers that trip the breaker
    COOLDOWN,           \* COOLDOWN_SECONDS, in clock ticks
    MaxFailures         \* bound on the failure counter, which only a judge
                        \* without a backup can push past the threshold

ASSUME BackupAssumption    == HasBackup \in BOOLEAN
ASSUME ThresholdAssumption == FAILURE_THRESHOLD \in Nat \ {0}
ASSUME CooldownAssumption  == COOLDOWN \in Nat \ {0}
ASSUME BoundAssumption     == MaxFailures \in Nat /\ MaxFailures >= FAILURE_THRESHOLD

VARIABLES
    state,       \* _state
    failures,    \* _failures
    sinceTrip,   \* _clock() - _opened_at, saturated at COOLDOWN
    modelsUsed,  \* _models_used: refs in first-use order
    call,        \* the provider the call in flight is awaiting, or "none"
    primary,     \* environment: the primary is up, down (it fails with
                 \* ProviderDown), or hung (it takes a call and gives nothing back)
    streak,      \* history: ProviderDown answers of the primary since it last responded
    quiet        \* history: ticks since the primary last let a call down, saturated at COOLDOWN

vars == <<state, failures, sinceTrip, modelsUsed, call, primary, streak, quiet>>

breaker == <<state, failures, sinceTrip>>

States == {"closed", "open", "half_open"}
Refs   == {"primary", "backup"}
Conditions == {"up", "down", "hung"}

-----------------------------------------------------------------------------
(* Helpers: each gives the next value of the breaker's own fields.          *)

Trip_ClockKept ==
    /\ state' = "open"
    /\ sinceTrip' = sinceTrip

Trip ==
    /\ state' = "open"
    /\ sinceTrip' = 0

RegisterPrimaryUp_StaysHalfOpen ==
    /\ failures' = 0
    /\ UNCHANGED <<state, sinceTrip>>

RegisterPrimaryUp ==
    /\ failures' = 0
    /\ state' = IF state = "half_open" THEN "closed" ELSE state
    /\ UNCHANGED sinceTrip

RegisterPrimaryDown ==
    \/ /\ state = "half_open"
       /\ Trip
       /\ UNCHANGED failures
    \/ /\ state # "half_open"
       /\ failures' = failures + 1
       /\ IF failures' >= FAILURE_THRESHOLD /\ HasBackup
          THEN Trip
          ELSE UNCHANGED <<state, sinceTrip>>

\* dict.setdefault: a ref keeps the place of its first use.
Used(ref) ==
    IF \E i \in DOMAIN modelsUsed : modelsUsed[i] = ref
    THEN modelsUsed
    ELSE Append(modelsUsed, ref)

-----------------------------------------------------------------------------
Init ==
    /\ state = "closed"
    /\ failures = 0
    /\ sinceTrip = COOLDOWN
    /\ modelsUsed = <<>>
    /\ call = "none"
    /\ primary \in Conditions
    /\ streak = 0
    /\ quiet = COOLDOWN

CooledDown == sinceTrip >= COOLDOWN

\* A call while the breaker is closed goes to the primary.
CallPrimary ==
    /\ call = "none"
    /\ state = "closed"
    /\ call' = "primary"
    /\ UNCHANGED <<breaker, modelsUsed, primary, streak, quiet>>

\* The first call after the cooldown probes the primary.
CallProbe ==
    /\ call = "none"
    /\ state = "open"
    /\ CooledDown
    /\ state' = "half_open"
    /\ call' = "primary"
    /\ UNCHANGED <<failures, sinceTrip, modelsUsed, primary, streak, quiet>>

\* During the cooldown every call goes to the backup.
CallBackup ==
    /\ call = "none"
    /\ state = "open"
    /\ ~CooledDown
    /\ call' = "backup"
    /\ UNCHANGED <<breaker, modelsUsed, primary, streak, quiet>>

PrimaryAnswers ==
    /\ call = "primary"
    /\ primary = "up"
    /\ RegisterPrimaryUp
    /\ modelsUsed' = Used("primary")
    /\ call' = "none"
    /\ streak' = 0
    /\ UNCHANGED <<primary, quiet>>

\* A content-level JudgeError: the provider responded, the call still fails.
PrimaryContentError ==
    /\ call = "primary"
    /\ primary = "up"
    /\ RegisterPrimaryUp
    /\ call' = "none"
    /\ streak' = 0
    /\ UNCHANGED <<modelsUsed, primary, quiet>>

\* ProviderDown: when it leaves the breaker open the same call moves on to
\* the backup, otherwise it raises.
PrimaryDown ==
    /\ call = "primary"
    /\ primary = "down"
    /\ failures < MaxFailures \/ state = "half_open"
    /\ RegisterPrimaryDown
    /\ call' = IF state' = "open" THEN "backup" ELSE "none"
    /\ streak' = IF streak < MaxFailures THEN streak + 1 ELSE streak
    /\ quiet' = 0
    /\ UNCHANGED <<modelsUsed, primary>>

BackupAnswers ==
    /\ call = "backup"
    /\ modelsUsed' = Used("backup")
    /\ call' = "none"
    /\ UNCHANGED <<breaker, primary, streak, quiet>>

\* Any failure of the backup raises to the caller and leaves the breaker alone.
BackupFails ==
    /\ call = "backup"
    /\ call' = "none"
    /\ UNCHANGED <<breaker, modelsUsed, primary, streak, quiet>>

Cancel_ProbeForgotten ==
    /\ call # "none"
    /\ call' = "none"
    /\ UNCHANGED breaker
    /\ quiet' = IF state = "half_open" THEN 0 ELSE quiet
    /\ UNCHANGED <<modelsUsed, primary, streak>>

Cancel_CountReset ==
    /\ call # "none"
    /\ call' = "none"
    /\ IF state = "half_open"
       THEN Trip /\ UNCHANGED failures
       ELSE failures' = 0 /\ UNCHANGED <<state, sinceTrip>>
    /\ quiet' = IF state = "half_open" THEN 0 ELSE quiet
    /\ UNCHANGED <<modelsUsed, primary, streak>>

\* The call ends without an answer.  Only the finally clause runs.
Cancel ==
    /\ call # "none"
    /\ call' = "none"
    /\ IF state = "half_open"
       THEN Trip /\ UNCHANGED failures
       ELSE UNCHANGED breaker
    /\ quiet' = IF state = "half_open" THEN 0 ELSE quiet
    /\ UNCHANGED <<modelsUsed, primary, streak>>

\* drain_models_used, called by the worker between two jobs.
Drain ==
    /\ call = "none"
    /\ modelsUsed # <<>>
    /\ modelsUsed' = <<>>
    /\ UNCHANGED <<breaker, call, primary, streak, quiet>>

\* One tick of the monotonic clock.
Tick ==
    /\ sinceTrip < COOLDOWN \/ quiet < COOLDOWN
    /\ sinceTrip' = IF sinceTrip < COOLDOWN THEN sinceTrip + 1 ELSE sinceTrip
    /\ quiet' = IF quiet < COOLDOWN THEN quiet + 1 ELSE quiet
    /\ UNCHANGED <<state, failures, modelsUsed, call, primary, streak>>

\* The primary comes back, goes down or starts to hang.
PrimaryChanges ==
    /\ primary' \in Conditions \ {primary}
    /\ UNCHANGED <<breaker, modelsUsed, call, streak, quiet>>

Call == CallPrimary \/ CallProbe \/ CallBackup

PrimaryResponds == PrimaryAnswers \/ PrimaryContentError

Next ==
    \/ Call
    \/ PrimaryResponds \/ PrimaryDown
    \/ BackupAnswers \/ BackupFails
    \/ Cancel \/ Drain \/ Tick \/ PrimaryChanges

Spec == Init /\ [][Next]_vars

(* The worker keeps auditing documents, so calls keep coming and each ends  *)
(* (asyncio.wait_for cuts off one that hangs); the clock runs; and of the   *)
(* calls to a provider that does answer, not every one is cut off before.   *)
Fairness ==
    /\ WF_vars(Call)
    /\ WF_vars(Tick)
    /\ WF_vars(BackupAnswers \/ BackupFails)
    /\ WF_vars(Cancel /\ primary = "hung")
    /\ SF_vars(PrimaryResponds)
    /\ SF_vars(PrimaryDown)

FairSpec == Spec /\ Fairness

-----------------------------------------------------------------------------
\* Every field has one of the values the class gives it.
TypeOK ==
    /\ state \in States
    /\ failures \in 0..MaxFailures
    /\ sinceTrip \in 0..COOLDOWN
    /\ modelsUsed \in Seq(Refs)
    /\ call \in Refs \cup {"none"}
    /\ primary \in Conditions
    /\ streak \in 0..MaxFailures
    /\ quiet \in 0..COOLDOWN

\* The half-open state belongs to a probe in flight: however the probe ends,
\* cancellation included, the breaker has left it (failover.py 84-106), so no
\* later call can find the breaker stranded there.
NeverStranded == state = "half_open" => call = "primary"

\* Without a backup the breaker is inert (failover.py 119), and the backup is
\* awaited only by a call the open breaker sent there.
InertWithoutBackup ==
    /\ ~HasBackup => state = "closed"
    /\ call = "backup" => state = "open"

\* A closed breaker counts exactly the ProviderDown answers since the primary
\* last responded, and with a backup it never holds a full count
\* (failover.py 108-120): the next one always trips it.
ClosedCountsStreak ==
    state = "closed" =>
        /\ failures = streak
        /\ HasBackup => failures < FAILURE_THRESHOLD

\* A primary that let a call down while the breaker left closed is spared for
\* the whole cooldown: no call that finds the breaker open reaches it before
\* (failover.py 85-89, 122-124).  The cooldown restarts at every failed or
\* unresolved probe, not only at the first trip.
CooldownRespected ==
    [][ (state = "open" /\ call = "none" /\ call' = "primary") => quiet >= COOLDOWN ]_vars

\* The breaker opens from closed only on a full streak of ProviderDown, and
\* the call that completed the streak is itself served by the backup rather
\* than failed (failover.py 92-96).
TripServesTheCall ==
    [][ (state = "closed" /\ state' = "open") =>
            /\ streak' >= FAILURE_THRESHOLD
            /\ call' = "backup" ]_vars

\* A primary that stays down ends up outside every call but the probes: the
\* breaker leaves closed for good, although calls cancelled in between, which
\* neither failed nor answered, keep coming (failover.py 92-106, 114-120).
EventuallyFailsOver ==
    (HasBackup /\ <>[](primary = "down")) => <>[](state # "closed")

\* A primary that stays up is used again for good: the breaker ends closed
\* whatever happened before (failover.py 84-112).
EventuallyRecovers == <>[](primary = "up") => <>[](state = "closed")
=============================================================================
