------------------------ MODULE FailoverJudge_proofs ------------------------
(***************************************************************************)
(* Safety of the breaker for every threshold, cooldown and configuration.  *)
(***************************************************************************)
EXTENDS FailoverJudge, TLAPS

\* An open breaker has not let a call through to the primary since it tripped,
\* so the clock it reads and the time the primary has been spared agree.
OpenSinceQuiet ==
    /\ state = "open" => sinceTrip = quiet
    /\ call = "primary" => state # "open"

IInv ==
    /\ TypeOK
    /\ NeverStranded
    /\ InertWithoutBackup
    /\ ClosedCountsStreak
    /\ OpenSinceQuiet

USE BackupAssumption, ThresholdAssumption, CooldownAssumption, BoundAssumption

\* The initial state of FailoverJudge satisfies the invariant (failover.py 58-67).
LEMMA InitIInv == Init => IInv
  BY DEF Init, IInv, TypeOK, NeverStranded, InertWithoutBackup, ClosedCountsStreak,
         OpenSinceQuiet, States, Refs, Conditions

\* Adding a ref keeps the list of models a sequence of refs (failover.py 102, 134).
LEMMA UsedType ==
  ASSUME modelsUsed \in Seq(Refs), NEW ref \in Refs
  PROVE  Used(ref) \in Seq(Refs)
  BY DEF Used

\* Every step of the breaker preserves the invariant (failover.py 84-135).
LEMMA NextIInv == IInv /\ [Next]_vars => IInv'
<1> SUFFICES ASSUME IInv, [Next]_vars PROVE IInv'
  OBVIOUS
<1> USE DEF IInv, TypeOK, NeverStranded, InertWithoutBackup, ClosedCountsStreak,
            OpenSinceQuiet, States, Refs, Conditions, breaker
<1>1. CASE CallPrimary
  BY <1>1 DEF CallPrimary
<1>2. CASE CallProbe
  BY <1>2 DEF CallProbe
<1>3. CASE CallBackup
  BY <1>3 DEF CallBackup
<1>4. CASE PrimaryAnswers
  BY <1>4, UsedType DEF PrimaryAnswers, RegisterPrimaryUp
<1>5. CASE PrimaryContentError
  BY <1>5 DEF PrimaryContentError, RegisterPrimaryUp
<1>6. CASE PrimaryDown
  <2>1. CASE state = "half_open"
    BY <1>6, <2>1 DEF PrimaryDown, RegisterPrimaryDown, Trip
  <2>2. CASE state = "closed" /\ failures + 1 >= FAILURE_THRESHOLD /\ HasBackup
    BY <1>6, <2>2 DEF PrimaryDown, RegisterPrimaryDown, Trip
  <2>3. CASE state = "closed" /\ ~(failures + 1 >= FAILURE_THRESHOLD /\ HasBackup)
    BY <1>6, <2>3 DEF PrimaryDown, RegisterPrimaryDown, Trip
  <2> QED
    BY <1>6, <2>1, <2>2, <2>3 DEF PrimaryDown
<1>7. CASE BackupAnswers
  BY <1>7, UsedType DEF BackupAnswers
<1>8. CASE BackupFails
  BY <1>8 DEF BackupFails
<1>9. CASE Cancel
  BY <1>9 DEF Cancel, Trip
<1>10. CASE Drain
  BY <1>10 DEF Drain
<1>11. CASE Tick
  BY <1>11 DEF Tick
<1>12. CASE PrimaryChanges
  BY <1>12 DEF PrimaryChanges
<1>13. CASE UNCHANGED vars
  BY <1>13 DEF vars
<1> QED
  BY <1>1, <1>2, <1>3, <1>4, <1>5, <1>6, <1>7, <1>8, <1>9, <1>10, <1>11, <1>12, <1>13
  DEF Next, Call, PrimaryResponds

\* The invariant holds in every reachable state of FailoverJudge.
THEOREM Invariance == Spec => []IInv
  BY InitIInv, NextIInv, PTL DEF Spec

\* The fields of the breaker keep their types (failover.py 58-67).
THEOREM TypeCorrect == Spec => []TypeOK
<1>1. IInv => TypeOK
  BY DEF IInv
<1> QED
  BY <1>1, Invariance, PTL

\* No cancellation strands the breaker in half_open (failover.py 104-106).
THEOREM ProbeNeverStranded == Spec => []NeverStranded
<1>1. IInv => NeverStranded
  BY DEF IInv
<1> QED
  BY <1>1, Invariance, PTL

\* Without a backup the breaker never leaves closed (failover.py 119).
THEOREM Inert == Spec => []InertWithoutBackup
<1>1. IInv => InertWithoutBackup
  BY DEF IInv
<1> QED
  BY <1>1, Invariance, PTL

\* A closed breaker with a backup is always below its threshold (failover.py 108-120).
THEOREM CountsStreak == Spec => []ClosedCountsStreak
<1>1. IInv => ClosedCountsStreak
  BY DEF IInv
<1> QED
  BY <1>1, Invariance, PTL

\* An open breaker spares the primary for the whole cooldown (failover.py 85-89).
THEOREM PrimarySpared == Spec => CooldownRespected
<1>1. ASSUME IInv, [Next]_vars, state = "open", call = "none", call' = "primary"
      PROVE  quiet >= COOLDOWN
  <2>1. CASE CallProbe
    BY <1>1, <2>1 DEF CallProbe, CooledDown, IInv, OpenSinceQuiet
  <2>2. CASE ~CallProbe
    BY <1>1, <2>2 DEF Next, Call, PrimaryResponds, CallPrimary, CallBackup, PrimaryAnswers,
          PrimaryContentError, PrimaryDown, BackupAnswers, BackupFails, Cancel, Drain, Tick,
          PrimaryChanges, vars
  <2> QED
    BY <2>1, <2>2
<1>2. IInv /\ [Next]_vars => [(state = "open" /\ call = "none" /\ call' = "primary") => quiet >= COOLDOWN]_vars
  BY <1>1
<1> QED
  BY <1>2, Invariance, PTL DEF Spec, CooldownRespected

\* Only a full streak of ProviderDown trips a closed breaker, and the call
\* that completes it moves on to the backup (failover.py 92-96, 114-120).
THEOREM TripServed == Spec => TripServesTheCall
<1>1. ASSUME IInv, [Next]_vars, state = "closed", state' = "open"
      PROVE  streak' >= FAILURE_THRESHOLD /\ call' = "backup"
  <2>1. CASE PrimaryDown
    BY <1>1, <2>1 DEF PrimaryDown, RegisterPrimaryDown, IInv, TypeOK, ClosedCountsStreak
  <2>2. CASE ~PrimaryDown
    BY <1>1, <2>2 DEF Next, Call, PrimaryResponds, CallPrimary, CallProbe, CallBackup,
          PrimaryAnswers, PrimaryContentError, RegisterPrimaryUp, BackupAnswers, BackupFails,
          Cancel, Drain, Tick, PrimaryChanges, vars, breaker
  <2> QED
    BY <2>1, <2>2
<1>2. IInv /\ [Next]_vars => [(state = "closed" /\ state' = "open") =>
                                streak' >= FAILURE_THRESHOLD /\ call' = "backup"]_vars
  BY <1>1
<1> QED
  BY <1>2, Invariance, PTL DEF Spec, TripServesTheCall
=============================================================================
