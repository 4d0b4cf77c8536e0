-------------------------- MODULE RentStats_proofs --------------------------
(***************************************************************************)
(* Theorems about RentStats, for any calendar, window and number of        *)
(* candidates, corrections and failures.                                   *)
(*                                                                         *)
(* Why no older VIC workbook goes over a newer one: when a run takes a     *)
(* quarter, the newer candidates were not there when it asked for them, so *)
(* they were never loaded, and quarters newer than all candidates are not  *)
(* complete.  What the inductive invariant carries along is that a loaded  *)
(* quarter the run will not ask for is older than all it still will.       *)
(***************************************************************************)
EXTENDS RentStats, TLAPS

\* Only workbooks that are there are loaded, and only complete quarters come out.
LoadedWasPublished ==
    \A q \in Quarters :
        /\ vicFiles[q] # Missing => vicSite[q] # Missing
        /\ vicSite[q] # Missing => Complete(q, month)

\* A loaded quarter the run does not ask for is older than those it asks for.
ProbesAreNewer ==
    \A q \in Quarters, p \in probes :
        (vicFiles[q] # Missing /\ q \notin probes) => q < p

VicInv == LoadedWasPublished /\ ProbesAreNewer /\ VicNewestServed

IInv == TypeOK /\ NswStatsMatchRows /\ VicInv

LEMMA ContentType ==
    ASSUME NEW f \in Files, NEW e \in Nat, NEW c \in Contents(f, e)
    PROVE  c \in NswFile
BY DEF Contents, NswFile, Files, Periods

LEMMA AggregateType ==
    ASSUME NEW files \in [Files -> NswFile], NEW p \in Periods
    PROVE  Aggregate(files, p) \in SUBSET (Files \X Nat)
BY DEF Aggregate, NswFile

\* Statistics of periods a workbook never touched do not depend on it.
LEMMA UntouchedAggregate ==
    ASSUME NEW files \in [Files -> NswFile], NEW f \in Files, NEW c \in NswFile,
           NEW p \in Periods, p \notin files[f].covers, p \notin c.covers
    PROVE  Aggregate([files EXCEPT ![f] = c], p) = Aggregate(files, p)
<1> DEFINE new == [files EXCEPT ![f] = c]
<1>1. {g \in Files : p \in new[g].covers} = {g \in Files : p \in files[g].covers}
  OBVIOUS
<1>2. \A g \in Files : p \in files[g].covers => new[g] = files[g]
  OBVIOUS
<1> QED
  BY <1>1, <1>2 DEF Aggregate

\* A quarter that is complete stays so.
LEMMA CompleteForGood ==
    ASSUME NEW q \in Nat, NEW m \in Nat, NEW n \in Nat, m <= n, Complete(q, m)
    PROVE  Complete(q, n)
<1>1. q * MonthsPerQuarter \in Nat
  BY RentCalendarAssumption
<1> QED
  BY <1>1 DEF Complete

\* Quarters before a complete one are complete.
LEMMA OlderComplete ==
    ASSUME NEW q \in Nat, NEW r \in Nat, NEW m \in Nat, r <= q, Complete(q, m)
    PROVE  Complete(r, m)
<1>1. PICK d \in Nat : q = r + d
  <2>1. q - r \in Nat /\ q = r + (q - r)
    OBVIOUS
  <2> QED
    BY <2>1
<1>2. q * MonthsPerQuarter = r * MonthsPerQuarter + d * MonthsPerQuarter
  BY <1>1, RentCalendarAssumption
<1>3. r * MonthsPerQuarter \in Nat /\ d * MonthsPerQuarter \in Nat
  BY <1>1, RentCalendarAssumption
<1> QED
  BY <1>2, <1>3 DEF Complete

LEMMA InitIInv == Init => IInv
<1> SUFFICES ASSUME Init PROVE IInv
  OBVIOUS
<1>1. PICK c \in Contents(0, 1) : nswSite = [f \in Files |-> IF f = 0 THEN c ELSE NoFile]
  BY DEF Init
<1>2. c \in NswFile
  BY <1>1, ContentType, RentCalendarAssumption DEF Files
<1>3. NoFile \in NswFile
  BY DEF NoFile, NswFile, Missing
<1>4. nswSite \in [Files -> NswFile] /\ nswFiles \in [Files -> NswFile]
  BY <1>1, <1>2, <1>3 DEF Init
<1>5. vicSite \in [Quarters -> Nat] /\ vicFiles \in [Quarters -> Nat]
      /\ vicStats \in [Quarters -> (Quarters \cup {0}) \X Nat]
      /\ nswStats \in [Periods -> SUBSET (Files \X Nat)]
  BY DEF Init, Missing
<1>6. /\ month \in 1..LastMonth /\ startedIn \in 0..LastMonth
      /\ corrections \in 0..MaxCorrections /\ failures \in 0..MaxFailures
  BY RentCalendarAssumption, RentBoundAssumption DEF Init
<1>7. busy = FALSE /\ covered = FALSE /\ todo = {} /\ probes = {}
  BY DEF Init
<1>8. TypeOK
  BY <1>4, <1>5, <1>6, <1>7 DEF TypeOK
<1>9. NswStatsMatchRows
  BY DEF Init, NswStatsMatchRows, Aggregate, NoFile
<1>10. VicInv
  BY DEF Init, VicInv, LoadedWasPublished, ProbesAreNewer, VicNewestServed
<1> QED
  BY <1>8, <1>9, <1>10 DEF IInv

\* Ending a run, well or not, leaves the tables alone.
LEMMA RunOver ==
    ASSUME IInv, Idle, UNCHANGED <<publishers, tables>>,
           corrections' = corrections, failures' \in 0..MaxFailures, covered' \in BOOLEAN
    PROVE  IInv'
<1>1. busy' = FALSE /\ todo' = {} /\ probes' = {} /\ startedIn' = 0 /\ 0 \in 0..LastMonth
  BY RentCalendarAssumption DEF Idle
<1>2. TypeOK'
  BY <1>1 DEF IInv, TypeOK, publishers, tables
<1>3. NswStatsMatchRows'
  BY DEF IInv, NswStatsMatchRows, Aggregate, tables
<1>4. VicInv'
  BY DEF IInv, VicInv, LoadedWasPublished, ProbesAreNewer, VicNewestServed, Idle, publishers, tables
<1> QED
  BY <1>2, <1>3, <1>4 DEF IInv

\* Loading an NSW workbook makes the statistics anew for all it touched.
LEMMA LoadNswKeeps ==
    ASSUME IInv, NEW f \in Files, LoadNsw(f)
    PROVE  IInv'
<1>1. /\ nswSite \in [Files -> NswFile] /\ nswFiles \in [Files -> NswFile]
      /\ nswStats \in [Periods -> SUBSET (Files \X Nat)]
  BY DEF IInv, TypeOK
<1>2. CASE UNCHANGED <<nswFiles, nswStats>>
  <2>1. TypeOK'
    BY <1>2 DEF IInv, TypeOK, LoadNsw, publishers, env
  <2>2. NswStatsMatchRows'
    BY <1>2 DEF IInv, NswStatsMatchRows, Aggregate
  <2> QED
    BY <2>1, <2>2 DEF IInv, LoadNsw, publishers, VicInv, LoadedWasPublished, ProbesAreNewer,
                      VicNewestServed
<1>3. CASE LoadNswFile(f)
  <2>1. nswFiles' = [nswFiles EXCEPT ![f] = nswSite[f]] /\ nswFiles' \in [Files -> NswFile]
    BY <1>1, <1>3 DEF LoadNswFile
  <2>2. \A p \in Periods : nswStats'[p] = Aggregate(nswFiles', p)
    <3> SUFFICES ASSUME NEW p \in Periods PROVE nswStats'[p] = Aggregate(nswFiles', p)
      OBVIOUS
    <3>1. CASE p \in Touched(f)
      BY <1>3, <3>1 DEF LoadNswFile
    <3>2. CASE p \notin Touched(f)
      <4>1. nswStats'[p] = nswStats[p]
        BY <1>3, <3>2 DEF LoadNswFile
      <4>2. nswStats[p] = Aggregate(nswFiles, p)
        BY DEF IInv, NswStatsMatchRows
      <4>3. p \notin nswFiles[f].covers /\ p \notin nswSite[f].covers
        BY <3>2 DEF Touched
      <4>4. nswSite[f] \in NswFile
        BY <1>1
      <4>5. Aggregate([nswFiles EXCEPT ![f] = nswSite[f]], p) = Aggregate(nswFiles, p)
        BY <1>1, <4>3, <4>4, UntouchedAggregate
      <4> QED
        BY <2>1, <4>1, <4>2, <4>5
    <3> QED
      BY <3>1, <3>2
  <2>3. nswStats' \in [Periods -> SUBSET (Files \X Nat)]
    <3>1. \A p \in Periods : nswStats'[p] \in SUBSET (Files \X Nat)
      <4> SUFFICES ASSUME NEW p \in Periods PROVE nswStats'[p] \in SUBSET (Files \X Nat)
        OBVIOUS
      <4>1. Aggregate(nswFiles', p) \in SUBSET (Files \X Nat)
        BY <2>1, AggregateType
      <4> QED
        BY <2>2, <4>1
    <3>2. nswStats' = [p \in Periods |-> nswStats'[p]]
      BY <1>3 DEF LoadNswFile
    <3> QED
      BY <3>1, <3>2
  <2>4. TypeOK'
    BY <2>1, <2>3 DEF IInv, TypeOK, LoadNsw, publishers, env
  <2> QED
    BY <2>2, <2>4 DEF IInv, NswStatsMatchRows, LoadNsw, publishers, VicInv, LoadedWasPublished,
                      ProbesAreNewer, VicNewestServed
<1> QED
  BY <1>2, <1>3 DEF LoadNsw

\* A run begins by asking for the newest complete quarters: any other quarter
\* that is loaded is complete, hence older.
LEMMA StartKeeps ==
    ASSUME IInv, NEW targets \in SUBSET Files, Start(targets)
    PROVE  IInv'
<1>1. /\ month \in Nat /\ startedIn' \in 0..LastMonth
      /\ probes' = QuarterCandidates(month) /\ probes' \subseteq Quarters
  BY DEF IInv, TypeOK, Start, QuarterCandidates
<1>2. TypeOK'
  BY <1>1 DEF IInv, TypeOK, Start, publishers, tables, env
<1>3. ASSUME NEW q \in Quarters, NEW p \in probes', vicFiles[q] # Missing, q \notin probes'
      PROVE  q < p
  <2>1. q \in Nat /\ p \in Nat /\ q + Candidates \in Nat /\ p + Candidates \in Nat
    BY <1>1, RentCalendarAssumption DEF Quarters
  <2>2. Complete(q, month)
    BY <1>3 DEF IInv, VicInv, LoadedWasPublished
  <2>3. Complete(q + Candidates, month) /\ ~Complete(p + Candidates, month)
    BY <1>1, <1>3, <2>2 DEF QuarterCandidates
  <2>4. ~(p + Candidates <= q + Candidates)
    BY <1>1, <2>1, <2>3, OlderComplete
  <2> QED
    BY <2>1, <2>4, RentCalendarAssumption
<1>4. ProbesAreNewer'
  BY <1>3 DEF ProbesAreNewer, Start, tables
<1> QED
  BY <1>2, <1>4 DEF IInv, VicInv, NswStatsMatchRows, Aggregate, LoadedWasPublished, VicNewestServed,
                    Start, publishers, tables

\* The newest workbook there is goes over everything older.
LEMMA ProbeKeeps ==
    ASSUME IInv, NEW q \in Quarters, Probe(q)
    PROVE  IInv'
<1>1. /\ vicSite \in [Quarters -> Nat] /\ vicFiles \in [Quarters -> Nat]
      /\ vicStats \in [Quarters -> (Quarters \cup {0}) \X Nat]
      /\ probes \subseteq Quarters /\ q \in probes /\ Quarters \subseteq Nat
  BY DEF IInv, TypeOK, Probe, NewestProbe, Quarters
<1>2. \A r \in Quarters : vicFiles[r] # Missing => r <= q
  <2>1. \A r \in Quarters : vicFiles[r] # Missing /\ r \notin probes => r < q
    BY <1>1 DEF IInv, VicInv, ProbesAreNewer
  <2>2. \A r \in probes : r <= q
    BY DEF Probe, NewestProbe
  <2> QED
    BY <1>1, <2>1, <2>2
<1>3. UNCHANGED <<month, nswSite, vicSite, nswFiles, nswStats, busy, startedIn, todo,
                  corrections, failures, covered>>
  BY DEF Probe, publishers, env
<1>4. NswStatsMatchRows'
  BY <1>3 DEF IInv, NswStatsMatchRows, Aggregate
<1>5. CASE ProbeMissing(q)
  <2>1. TypeOK'
    BY <1>3, <1>5 DEF IInv, TypeOK, ProbeMissing
  <2>2. LoadedWasPublished' /\ VicNewestServed'
    BY <1>3, <1>5 DEF IInv, VicInv, LoadedWasPublished, VicNewestServed, ProbeMissing
  <2>3. vicFiles[q] = Missing
    BY <1>5 DEF IInv, VicInv, LoadedWasPublished, ProbeMissing
  <2>4. ProbesAreNewer'
    BY <1>5, <2>3 DEF IInv, VicInv, ProbesAreNewer, ProbeMissing
  <2> QED
    BY <1>4, <2>1, <2>2, <2>4 DEF IInv, VicInv
<1>6. CASE vicSite[q] # Missing /\ probes' = {} /\ vicSite[q] = vicFiles[q] /\ UNCHANGED <<vicFiles, vicStats>>
  <2>1. TypeOK'
    BY <1>3, <1>6 DEF IInv, TypeOK
  <2> QED
    BY <1>3, <1>4, <1>6, <2>1 DEF IInv, VicInv, LoadedWasPublished, VicNewestServed, ProbesAreNewer
<1>7. CASE vicSite[q] # Missing /\ probes' = {} /\ LoadVicFile(q)
  <2>1. /\ vicFiles' = [vicFiles EXCEPT ![q] = vicSite[q]]
        /\ vicStats' = [p \in Quarters |-> IF p <= q THEN <<q, vicSite[q]>> ELSE vicStats[p]]
    BY <1>7 DEF LoadVicFile
  <2>2. vicFiles' \in [Quarters -> Nat] /\ vicStats' \in [Quarters -> (Quarters \cup {0}) \X Nat]
    BY <1>1, <2>1
  <2>3. TypeOK'
    BY <1>3, <1>7, <2>2 DEF IInv, TypeOK
  <2>4. LoadedWasPublished'
    BY <1>1, <1>3, <1>7, <2>1 DEF IInv, VicInv, LoadedWasPublished
  <2>5. VicNewestServed'
    <3> SUFFICES ASSUME NEW r \in Quarters, vicFiles'[r] # Missing,
                        \A s \in Quarters : s > r => vicFiles'[s] = Missing,
                        NEW p \in Quarters, p <= r
                 PROVE  vicStats'[p] = <<r, vicFiles'[r]>>
      BY DEF VicNewestServed
    <3>1. r <= q
      BY <1>1, <1>2, <2>1
    <3>2. ~(q > r)
      BY <1>1, <1>7, <2>1
    <3>3. r = q
      BY <1>1, <3>1, <3>2
    <3> QED
      BY <1>1, <2>1, <3>3
  <2> QED
    BY <1>4, <1>7, <2>3, <2>4, <2>5 DEF IInv, VicInv, ProbesAreNewer
<1> QED
  BY <1>5, <1>6, <1>7 DEF Probe, TakeQuarter

\* What the publishers do changes no table.
LEMMA PublisherKeeps ==
    ASSUME IInv,
           \/ \E f \in Files : PublishNsw(f) \/ CorrectNsw(f)
           \/ \E q \in Quarters : PublishVic(q) \/ CorrectVic(q)
           \/ NextMonth
    PROVE  IInv'
<1>1. UNCHANGED <<tables, work, failures>>
  BY DEF PublishNsw, CorrectNsw, PublishVic, CorrectVic, NextMonth, env
<1>2. nswSite' \in [Files -> NswFile]
  <2>1. nswSite \in [Files -> NswFile]
    BY DEF IInv, TypeOK
  <2>2. ASSUME NEW f \in Files, PublishNsw(f) \/ CorrectNsw(f)
        PROVE  nswSite' \in [Files -> NswFile]
    <3>1. nswSite[f].edition + 1 \in Nat /\ 1 \in Nat
      BY <2>1 DEF NswFile
    <3>2. PICK e \in Nat : \E c \in Contents(f, e) : nswSite' = [nswSite EXCEPT ![f] = c]
      BY <2>2, <3>1 DEF PublishNsw, CorrectNsw
    <3>3. PICK c \in Contents(f, e) : nswSite' = [nswSite EXCEPT ![f] = c]
      BY <3>2
    <3>4. c \in NswFile
      BY <3>3, ContentType
    <3> QED
      BY <2>1, <3>3, <3>4
  <2> QED
    BY <2>1, <2>2 DEF PublishVic, CorrectVic, NextMonth
<1>3. vicSite' \in [Quarters -> Nat]
  BY DEF IInv, TypeOK, PublishNsw, CorrectNsw, PublishVic, CorrectVic, NextMonth
<1>4. month' \in 1..LastMonth /\ corrections' \in 0..MaxCorrections /\ covered' \in BOOLEAN
  <2>1. month \in 1..LastMonth /\ corrections \in 0..MaxCorrections /\ covered \in BOOLEAN
    BY DEF IInv, TypeOK
  <2>2. month' \in 1..LastMonth /\ corrections' \in 0..MaxCorrections
    BY <2>1, RentCalendarAssumption, RentBoundAssumption
       DEF PublishNsw, CorrectNsw, PublishVic, CorrectVic, NextMonth, env
  <2>3. covered' = covered \/ covered' = FALSE
    BY DEF PublishNsw, CorrectNsw, PublishVic, CorrectVic, NextMonth, env
  <2> QED
    BY <2>1, <2>2, <2>3
<1>5. TypeOK'
  BY <1>1, <1>2, <1>3, <1>4 DEF IInv, TypeOK, tables, work
<1>6. LoadedWasPublished'
  <2> SUFFICES ASSUME NEW q \in Quarters
               PROVE  /\ vicFiles'[q] # Missing => vicSite'[q] # Missing
                      /\ vicSite'[q] # Missing => Complete(q, month')
    BY DEF LoadedWasPublished
  <2>1. /\ vicFiles'[q] = vicFiles[q] /\ vicSite \in [Quarters -> Nat]
        /\ month \in Nat /\ month' \in Nat /\ q \in Nat
    BY <1>1, <1>4 DEF IInv, TypeOK, tables, Quarters
  <2>2. month <= month'
    BY <2>1 DEF PublishNsw, CorrectNsw, PublishVic, CorrectVic, NextMonth
  <2>3. vicSite'[q] = vicSite[q] \/ (vicSite'[q] # Missing /\ Complete(q, month))
    BY <2>1 DEF IInv, VicInv, LoadedWasPublished, PublishNsw, CorrectNsw, PublishVic, CorrectVic,
                NextMonth, Missing
  <2> QED
    BY <2>1, <2>2, <2>3, CompleteForGood DEF IInv, VicInv, LoadedWasPublished
<1> QED
  BY <1>1, <1>5, <1>6 DEF IInv, VicInv, ProbesAreNewer, VicNewestServed, NswStatsMatchRows,
                          Aggregate, tables, work

LEMMA NextIInv == IInv /\ [Next]_vars => IInv'
<1> SUFFICES ASSUME IInv, [Next]_vars PROVE IInv'
  OBVIOUS
<1>1. CASE RunUpdate \/ RunBackfill
  <2>1. UpdateTargets \in SUBSET Files /\ AnnualTargets \cup MonthlyTargets(1) \in SUBSET Files
    BY RentCalendarAssumption DEF UpdateTargets, AnnualTargets, MonthlyTargets, Files
  <2> QED
    BY <1>1, <2>1, StartKeeps DEF RunUpdate, RunBackfill
<1>2. CASE EndRun \/ RunFails
  <2>1. /\ UNCHANGED <<publishers, tables>> /\ corrections' = corrections /\ Idle
        /\ failures' \in 0..MaxFailures /\ covered' \in BOOLEAN
    BY <1>2, RentBoundAssumption DEF EndRun, RunFails, IInv, TypeOK
  <2> QED
    BY <2>1, RunOver
<1>3. CASE UNCHANGED vars
  BY <1>3 DEF vars, publishers, tables, work, env, IInv, TypeOK, VicInv, LoadedWasPublished,
              ProbesAreNewer, VicNewestServed, NswStatsMatchRows, Aggregate
<1> QED
  BY <1>1, <1>2, <1>3, LoadNswKeeps, ProbeKeeps, PublisherKeeps DEF Next

THEOREM Invariance == Spec => []IInv
BY InitIInv, NextIInv, PTL DEF Spec

\* Sites, tables and the run hold what the code puts there, for any calendar.
THEOREM TypeCorrect == Spec => []TypeOK
<1>1. IInv => TypeOK
  BY DEF IInv
<1> QED
  BY <1>1, Invariance, PTL

\* The statistics of every NSW period are always made from all rows the table
\* holds for it and from no others (loader.py 64-93, 124-134).
THEOREM NswStatsRight == Spec => []NswStatsMatchRows
<1>1. IInv => NswStatsMatchRows
  BY DEF IInv
<1> QED
  BY <1>1, Invariance, PTL

\* Every VIC quarter is served from the newest workbook loaded, in the edition
\* loaded, whatever comes late or is corrected (fetcher.py 103-119, loader.py 143-166).
THEOREM VicNeverGoesBack == Spec => []VicNewestServed
<1>1. IInv => VicNewestServed
  BY DEF IInv, VicInv
<1> QED
  BY <1>1, Invariance, PTL
=============================================================================
