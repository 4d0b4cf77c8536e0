----------------------------- MODULE RentStats -----------------------------
(***************************************************************************)
(* Rent statistics: the runs "backfill" and "update" that fetch the        *)
(* official workbooks (app/rent_stats/fetcher.py) and the loader that      *)
(* replaces a changed one and the statistics made from it                  *)
(* (app/rent_stats/loader.py).                                             *)
(*                                                                         *)
(* Time is counted in months since NSW_MONTHLY_SINCE.  NSW publishes one   *)
(* workbook of lodgements a month; file 0 stands for the annual workbooks  *)
(* of the years before.  VIC publishes one workbook a quarter that carries *)
(* the whole series.  One edition of a workbook stands for its hash.       *)
(***************************************************************************)
EXTENDS Integers

CONSTANTS
    LastMonth,        \* bound on the calendar: months 1..LastMonth
    MonthsPerYear,
    MonthsPerQuarter,
    UpdateMonths,     \* how many months "update" looks back
    Candidates,       \* how many quarters are probed
    MaxCorrections,   \* bound on workbooks published again
    MaxFailures       \* bound on runs cut short by the network or the database

ASSUME RentCalendarAssumption ==
    /\ LastMonth \in Nat \ {0} /\ MonthsPerYear \in Nat \ {0} /\ MonthsPerQuarter \in Nat \ {0}
    /\ UpdateMonths \in Nat \ {0} /\ Candidates \in Nat \ {0}
ASSUME RentBoundAssumption == MaxCorrections \in Nat /\ MaxFailures \in Nat

Files    == 0..LastMonth
Periods  == 0..LastMonth
Quarters == 1..LastMonth

Missing == 0  \* the edition of a workbook that is not there

VARIABLES
    \* the publishers
    month,        \* the current month
    nswSite,      \* nswSite[f]: edition of a workbook and the periods its rows fall in
    vicSite,      \* vicSite[q]: edition of a workbook
    \* committed tables
    nswFiles,     \* rent_source_files and rent_bond_lodgements of NSW
    nswStats,     \* rent_statistics of NSW: the workbooks each period is made from
    vicFiles,     \* rent_source_files of VIC
    vicStats,     \* rent_statistics of VIC: the workbook each quarter is taken from
    \* the run in progress
    busy, startedIn, todo, probes,
    \* the environment
    corrections, failures,
    covered       \* has a run been started and completed in the current month?

publishers == <<month, nswSite, vicSite>>
tables     == <<nswFiles, nswStats, vicFiles, vicStats>>
work       == <<busy, startedIn, todo, probes>>
env        == <<corrections, failures, covered>>
vars       == <<publishers, tables, work, env>>

NoFile == [edition |-> Missing, covers |-> {}]

\* A row counts for the month it was lodged in: that of its workbook, or a
\* date gone astray into the month before.
Contents(f, e) == {[edition |-> e, covers |-> c] : c \in {{f}, {f - 1, f} \cap Periods}}

-----------------------------------------------------------------------------
(* Which workbooks a run asks for.                                          *)

\* nsw_monthly_targets: every complete month from since on.
MonthlyTargets(since) == {f \in Files : f >= 1 /\ f >= since /\ f < month}

\* nsw_annual_targets: years the monthly workbooks cover are left out.
AnnualTargets == {0}

Date(n) == [year |-> (n - 1) \div MonthsPerYear, month |-> ((n - 1) % MonthsPerYear) + 1]

MonthNo(d) == d.year * MonthsPerYear + d.month

MonthBefore_SameYear(d) ==
    IF d.month = 1 THEN [d EXCEPT !.month = MonthsPerYear] ELSE [d EXCEPT !.month = @ - 1]

\* January goes back to December of the year before.
MonthBefore(d) ==
    IF d.month = 1
    THEN [year |-> d.year - 1, month |-> MonthsPerYear]
    ELSE [d EXCEPT !.month = @ - 1]

\* run_update goes back month by month from the current one.
UpdateTargets ==
    LET back[n \in 0..UpdateMonths] == IF n = 0 THEN Date(month) ELSE MonthBefore(back[n - 1])
    IN  MonthlyTargets(MonthNo(back[UpdateMonths]))

Complete(q, m) == q * MonthsPerQuarter < m

\* quarter_candidates: the most recent quarters that are complete.
QuarterCandidates(m) ==
    {q \in Quarters : Complete(q, m) /\ ~Complete(q + Candidates, m)}

-----------------------------------------------------------------------------
(* The loader.                                                              *)

\* aggregate_nsw for one period: every workbook with rows in it counts.
Aggregate(files, p) ==
    {<<f, files[f].edition>> : f \in {g \in Files : p \in files[g].covers}}

Touched_NewRows(f) == nswSite[f].covers

\* The periods of the workbook's old rows and of its new ones.
Touched(f) == nswFiles[f].covers \cup nswSite[f].covers

LoadNswFile(f) ==
    /\ nswFiles' = [nswFiles EXCEPT ![f] = nswSite[f]]
    /\ nswStats' = [p \in Periods |->
                      IF p \in Touched(f) THEN Aggregate(nswFiles', p) ELSE nswStats[p]]

\* The series of the workbook replaces what was there for its quarters.
LoadVicFile(q) ==
    /\ vicFiles' = [vicFiles EXCEPT ![q] = vicSite[q]]
    /\ vicStats' = [p \in Quarters |-> IF p <= q THEN <<q, vicSite[q]>> ELSE vicStats[p]]

-----------------------------------------------------------------------------
Init ==
    /\ month = 1
    /\ nswSite \in {[f \in Files |-> IF f = 0 THEN c ELSE NoFile] : c \in Contents(0, 1)}
    /\ vicSite = [q \in Quarters |-> Missing]
    /\ nswFiles = [f \in Files |-> NoFile]
    /\ nswStats = [p \in Periods |-> {}]
    /\ vicFiles = [q \in Quarters |-> Missing]
    /\ vicStats = [q \in Quarters |-> <<0, Missing>>]
    /\ busy = FALSE /\ startedIn = 0 /\ todo = {} /\ probes = {}
    /\ corrections = 0 /\ failures = 0 /\ covered = FALSE

\* The publishers work at their own pace; a complete month or quarter may come
\* out at any time, and again when something in it is corrected.
PublishNsw(f) ==
    /\ f < month
    /\ nswSite[f] = NoFile
    /\ \E c \in Contents(f, 1) : nswSite' = [nswSite EXCEPT ![f] = c]
    /\ UNCHANGED <<month, vicSite, tables, work, env>>

CorrectNsw(f) ==
    /\ nswSite[f] # NoFile
    /\ corrections < MaxCorrections
    /\ corrections' = corrections + 1
    /\ \E c \in Contents(f, nswSite[f].edition + 1) : nswSite' = [nswSite EXCEPT ![f] = c]
    /\ UNCHANGED <<month, vicSite, tables, work, failures, covered>>

PublishVic(q) ==
    /\ Complete(q, month)
    /\ vicSite[q] = Missing
    /\ vicSite' = [vicSite EXCEPT ![q] = 1]
    /\ UNCHANGED <<month, nswSite, tables, work, env>>

CorrectVic(q) ==
    /\ vicSite[q] # Missing
    /\ corrections < MaxCorrections
    /\ corrections' = corrections + 1
    /\ vicSite' = [vicSite EXCEPT ![q] = @ + 1]
    /\ UNCHANGED <<month, nswSite, tables, work, failures, covered>>

\* The run is started every day: a month does not end before one has come through.
NextMonth ==
    /\ month < LastMonth
    /\ covered
    /\ month' = month + 1
    /\ covered' = FALSE
    /\ UNCHANGED <<nswSite, vicSite, tables, work, corrections, failures>>

-----------------------------------------------------------------------------
Start(targets) ==
    /\ ~busy
    /\ busy' = TRUE
    /\ startedIn' = month
    /\ todo' = targets
    /\ probes' = QuarterCandidates(month)
    /\ UNCHANGED <<publishers, tables, env>>

RunUpdate == Start(UpdateTargets)

RunBackfill == Start(AnnualTargets \cup MonthlyTargets(1))

\* _load_nsw_targets, oldest first: a 404 or a known hash is passed over, a new
\* or changed workbook is loaded and committed.
LoadNsw(f) ==
    /\ f \in todo
    /\ \A g \in todo : f <= g
    /\ todo' = todo \ {f}
    /\ \/ /\ nswSite[f] \in {NoFile, nswFiles[f]}
          /\ UNCHANGED <<nswFiles, nswStats>>
       \/ /\ nswSite[f] \notin {NoFile, nswFiles[f]}
          /\ LoadNswFile(f)
    /\ UNCHANGED <<publishers, vicFiles, vicStats, busy, startedIn, probes, env>>

\* A quarter is loaded unless its hash is known.
TakeQuarter(q) ==
    \/ /\ vicSite[q] = vicFiles[q]
       /\ UNCHANGED <<vicFiles, vicStats>>
    \/ /\ vicSite[q] # vicFiles[q]
       /\ LoadVicFile(q)

NewestProbe_Oldest(q) == q \in probes /\ \A p \in probes : q <= p

\* Of the quarters left the newest comes first.
NewestProbe(q) == q \in probes /\ \A p \in probes : p <= q

ProbeMissing_GivesUp(q) ==
    /\ vicSite[q] = Missing
    /\ probes' = {}
    /\ UNCHANGED <<vicFiles, vicStats>>

\* Not published yet: the quarter before is tried.
ProbeMissing(q) ==
    /\ vicSite[q] = Missing
    /\ probes' = probes \ {q}
    /\ UNCHANGED <<vicFiles, vicStats>>

\* _load_vic, newest first: the first workbook that is there is the only one taken.
Probe(q) ==
    /\ todo = {}
    /\ NewestProbe(q)
    /\ \/ ProbeMissing(q)
       \/ /\ vicSite[q] # Missing
          /\ probes' = {}
          /\ TakeQuarter(q)
    /\ UNCHANGED <<publishers, nswFiles, nswStats, busy, startedIn, todo, env>>

Idle == busy' = FALSE /\ startedIn' = 0 /\ todo' = {} /\ probes' = {}

EndRun ==
    /\ busy /\ todo = {} /\ probes = {}
    /\ Idle
    /\ covered' = (covered \/ startedIn = month)
    /\ UNCHANGED <<publishers, tables, corrections, failures>>

\* A download, a header guard or a commit raises: the rest of the run is lost,
\* what it committed stays.
RunFails ==
    /\ busy
    /\ failures < MaxFailures
    /\ failures' = failures + 1
    /\ Idle
    /\ UNCHANGED <<publishers, tables, corrections, covered>>

Next ==
    \/ \E f \in Files : PublishNsw(f) \/ CorrectNsw(f) \/ LoadNsw(f)
    \/ \E q \in Quarters : PublishVic(q) \/ CorrectVic(q) \/ Probe(q)
    \/ NextMonth \/ RunUpdate \/ RunBackfill \/ EndRun \/ RunFails

Spec == Init /\ [][Next]_vars

\* The daily schedule starts a run again and again, and a run goes on.
Fairness ==
    /\ WF_vars(RunUpdate)
    /\ WF_vars(\E f \in Files : LoadNsw(f))
    /\ WF_vars(\E q \in Quarters : Probe(q))
    /\ WF_vars(EndRun)

FairSpec == Spec /\ Fairness

-----------------------------------------------------------------------------
NswFile == [edition : Nat, covers : SUBSET Periods]

\* Sites, tables and the run hold what the code puts there.
TypeOK ==
    /\ month \in 1..LastMonth
    /\ nswSite \in [Files -> NswFile] /\ nswFiles \in [Files -> NswFile]
    /\ vicSite \in [Quarters -> Nat] /\ vicFiles \in [Quarters -> Nat]
    /\ nswStats \in [Periods -> SUBSET (Files \X Nat)]
    /\ vicStats \in [Quarters -> (Quarters \cup {0}) \X Nat]
    /\ busy \in BOOLEAN /\ startedIn \in 0..LastMonth
    /\ todo \subseteq Files /\ probes \subseteq Quarters
    /\ (~busy => todo = {} /\ probes = {})
    /\ corrections \in 0..MaxCorrections /\ failures \in 0..MaxFailures
    /\ covered \in BOOLEAN

\* The statistics of every NSW period are made from all rows the lodgement
\* table holds for it and from no others, in whatever order the workbooks came
\* and however a corrected one moved its rows (loader.py 64-93, 124-134).
NswStatsMatchRows ==
    \A p \in Periods : nswStats[p] = Aggregate(nswFiles, p)

\* Every VIC quarter is served from the newest workbook loaded, in the edition
\* loaded: neither a workbook that came late nor the correction of an older one
\* puts older figures back (fetcher.py 103-119, loader.py 143-166).
VicNewestServed ==
    \A q \in Quarters :
        (vicFiles[q] # Missing /\ \A r \in Quarters : r > q => vicFiles[r] = Missing) =>
            \A p \in Quarters : p <= q => vicStats[p] = <<q, vicFiles[q]>>

\* A month that comes out, or comes out again, while the next month's updates
\* will still ask for it is loaded before it drops out of their window, across
\* the end of a year (fetcher.py 144-152).
EveryMonthLoaded ==
    \A f \in Files \ {0} : \A e \in 1..(MaxCorrections + 1) :
        (nswSite[f].edition = e /\ month - f < UpdateMonths)
            ~> (nswFiles[f] = nswSite[f] \/ nswSite[f].edition # e)

\* The newest VIC workbook there is gets served, while the next month's updates
\* still probe for it (fetcher.py 69-78, 103-119).
EveryQuarterServed ==
    \A q \in Quarters : \A e \in 1..(MaxCorrections + 1) :
        (vicSite[q] = e /\ q \in QuarterCandidates(month + 1))
            ~> \/ vicStats[q] = <<q, e>>
               \/ vicSite[q] # e
               \/ \E r \in Quarters : r > q /\ vicSite[r] # Missing
=============================================================================
