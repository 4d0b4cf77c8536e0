---------------------------- MODULE AuditMonitor ----------------------------
(***************************************************************************)
(* Audits and their change feed: POST /v1/audits (app/routers/audits.py),  *)
(* the monitor that re-audits the leases of one jurisdiction               *)
(* (app/monitor/runner.py), and a client that polls GET /v1/audit-changes  *)
(* (app/routers/changes.py).                                               *)
(*                                                                         *)
(* One tenant.  A lease is a client_ref.  What the rules say of a lease    *)
(* depends on its input and on the day it is audited at; a new law version *)
(* or a new engine is one more reason why a later day says otherwise.      *)
(* The clock hands out database time stamps, each one later than the last. *)
(***************************************************************************)
EXTENDS Integers, FiniteSets

CONSTANTS
    Requests,        \* POST requests
    Leases,
    Jurisdictions,
    JurisdictionOf,  \* the jurisdiction of each lease
    Inputs,          \* lease data a caller may submit
    Verdicts,        \* findings the rules may come to
    Monitors,        \* monitor processes that may run side by side
    PageLimit,       \* the limit the polling client asks for
    MaxDay,          \* bound on the calendar: days 0..MaxDay
    MaxFaults        \* bound on failing monitor runs

ASSUME JurisdictionAssumption == JurisdictionOf \in [Leases -> Jurisdictions]
ASSUME PageAssumption == PageLimit \in Nat \ {0}
ASSUME MonitorBoundAssumption == MaxDay \in Nat /\ MaxFaults \in Nat

Days == 0..MaxDay

\* Time stamps; 0 stands for none.
Stamps == Nat \ {0}

Idle == [asAt |-> 0, born |-> 0, todo |-> {}, audits |-> {}, changes |-> {}]

VARIABLES
    \* committed tables
    audits,     \* [lease, input, findings, born, at, by]
    changes,    \* audit_changes: [lease, old, new, stamp]
    usage,      \* usage counter of the endpoint class audit
    \* requests and monitor runs
    pc, draft,  \* each request: where it is, the row it has not committed yet
    busy, run,  \* the monitors at work; the day, start, remaining audits and rows of each
    \* the polling client
    since,      \* created_at of the last change it saw
    seen,       \* the changes it saw
    \* the environment
    verdictOn,  \* verdictOn[i][d]: what the rules say of input i on day d
    today, clock, faults

tables  == <<audits, changes, usage>>
request == <<pc, draft>>
monitor == <<busy, run>>
client  == <<since, seen>>
env     == <<verdictOn, today, clock, faults>>
vars    == <<tables, request, monitor, client, env>>

AuditsOf(l) == {a \in audits : a.lease = l}

\* The first audit of its lease in the order created_at DESC.
IsNewest(a) == \A b \in AuditsOf(a.lease) : b.born <= a.born

Monitored_EveryAudit(j) == {a \in audits : JurisdictionOf[a.lease] = j}

Monitored_CallersOnly(j) ==
    {a \in audits : JurisdictionOf[a.lease] = j /\ IsNewest(a) /\ a.by = "caller"}

\* latest_monitored_audits: the newest audit of each lease.
Monitored(j) == {a \in audits : JurisdictionOf[a.lease] = j /\ IsNewest(a)}

\* diff_findings is not empty.
Differs(a, d) == verdictOn[a.input][d] # a.findings

-----------------------------------------------------------------------------
Init ==
    /\ audits = {} /\ changes = {} /\ usage = 0
    /\ pc = [r \in Requests |-> "new"]
    /\ draft = [r \in Requests |-> {}]
    /\ busy = {}
    /\ run = [m \in Monitors |-> Idle]
    /\ since = 0 /\ seen = {}
    /\ verdictOn \in [Inputs -> [Days -> Verdicts]]
    /\ today = 0 /\ clock = 1 /\ faults = 0

\* POST /v1/audits: the first query of the rules opens the transaction, whose
\* start is the row's created_at.  The caller picks as_at, today by default.
BeginAudit(r, l, i, d) ==
    /\ pc[r] = "new"
    /\ pc' = [pc EXCEPT ![r] = "auditing"]
    /\ draft' = [draft EXCEPT ![r] =
                   {[lease |-> l, input |-> i, findings |-> verdictOn[i][d], born |-> clock]}]
    /\ clock' = clock + 1
    /\ UNCHANGED <<tables, monitor, client, verdictOn, today, faults>>

\* A committed row; "at" is the time of the commit, "by" its author.
Committed(a, author) ==
    [lease |-> a.lease, input |-> a.input, findings |-> a.findings, born |-> a.born,
     at |-> clock, by |-> author]

CommitAudit(r) ==
    /\ pc[r] = "auditing"
    /\ audits' = audits \cup {Committed(a, "caller") : a \in draft[r]}
    /\ usage' = usage + 1
    /\ pc' = [pc EXCEPT ![r] = "done"]
    /\ draft' = [draft EXCEPT ![r] = {}]
    /\ UNCHANGED <<changes, monitor, client, env>>

\* A query or the commit raises.
AuditFails(r) ==
    /\ pc[r] = "auditing"
    /\ pc' = [pc EXCEPT ![r] = "done"]
    /\ draft' = [draft EXCEPT ![r] = {}]
    /\ UNCHANGED <<tables, monitor, client, env>>

-----------------------------------------------------------------------------
\* run_monitor reads the monitored audits; the same query opens its transaction.
\* A run that would find no difference writes nothing and is left out.
StartRun(m, j) ==
    /\ m \notin busy
    /\ \E a \in Monitored(j) : Differs(a, today)
    /\ busy' = busy \cup {m}
    /\ run' = [run EXCEPT ![m] = [asAt |-> today, born |-> clock, todo |-> Monitored(j),
                                  audits |-> {}, changes |-> {}]]
    /\ clock' = clock + 1
    /\ UNCHANGED <<tables, request, client, verdictOn, today, faults>>

ReauditBorn_OnInsert(m) == clock

\* created_at of the new audit: the start of the run's transaction.
ReauditBorn(m) == run[m].born

ChangeStamp_OfTransaction(m) == run[m].born

\* created_at of a change: clock_timestamp() of its insert.
ChangeStamp(m) == clock

Reaudited(m, a) ==
    [lease |-> a.lease, input |-> a.input, findings |-> verdictOn[a.input][run[m].asAt],
     born |-> ReauditBorn(m)]

\* The new audit is flushed first, so that its id is there to refer to.
Change(m, a) ==
    [lease |-> a.lease, old |-> a.born, new |-> ReauditBorn(m), stamp |-> ChangeStamp(m)]

\* One turn of the loop, over the newest audits first.
Reaudit(m) ==
    \E a \in run[m].todo :
        /\ \A b \in run[m].todo : b.born <= a.born
        /\ \/ /\ ~Differs(a, run[m].asAt)
              /\ run' = [run EXCEPT ![m].todo = @ \ {a}]
              /\ UNCHANGED clock
           \/ /\ Differs(a, run[m].asAt)
              /\ run' = [run EXCEPT ![m].todo = @ \ {a},
                                    ![m].audits = @ \cup {Reaudited(m, a)},
                                    ![m].changes = @ \cup {Change(m, a)}]
              /\ clock' = clock + 1
        /\ UNCHANGED <<tables, request, busy, client, verdictOn, today, faults>>

EndRun(m) ==
    /\ busy' = busy \ {m}
    /\ run' = [run EXCEPT ![m] = Idle]

CommitRun_AuditsOnly(m) ==
    /\ m \in busy
    /\ run[m].todo = {}
    /\ audits' = audits \cup {Committed(a, "monitor") : a \in run[m].audits}
    /\ EndRun(m)
    /\ UNCHANGED <<changes, usage, request, client, env>>

CommitRun(m) ==
    /\ m \in busy
    /\ run[m].todo = {}
    /\ audits' = audits \cup {Committed(a, "monitor") : a \in run[m].audits}
    /\ changes' = changes \cup run[m].changes
    /\ EndRun(m)
    /\ UNCHANGED <<usage, request, client, env>>

\* A rule, a query or the commit raises: the whole run is rolled back.
RunFails(m) ==
    /\ m \in busy
    /\ faults < MaxFaults
    /\ faults' = faults + 1
    /\ EndRun(m)
    /\ UNCHANGED <<tables, request, client, verdictOn, today, clock>>

-----------------------------------------------------------------------------
Unseen(t) == {c \in changes : c.stamp > t}

PageSize(t) ==
    IF Cardinality(Unseen(t)) < PageLimit THEN Cardinality(Unseen(t)) ELSE PageLimit

Pages_NewestFirst(t) ==
    {P \in SUBSET Unseen(t) : /\ Cardinality(P) = PageSize(t)
                              /\ \A c \in P, e \in Unseen(t) \ P : c.stamp >= e.stamp}

\* The first PageLimit changes after t in the order of created_at; the ids, which
\* are random, decide between changes with the same stamp.
Pages(t) ==
    {P \in SUBSET Unseen(t) : /\ Cardinality(P) = PageSize(t)
                              /\ \A c \in P, e \in Unseen(t) \ P : c.stamp <= e.stamp}

\* The client asks for what came after the last change it saw.
Poll ==
    /\ Unseen(since) # {}
    /\ \E page \in Pages(since) :
        /\ seen' = seen \cup page
        /\ \E last \in page :
            /\ \A c \in page : c.stamp <= last.stamp
            /\ since' = last.stamp
    /\ UNCHANGED <<tables, request, monitor, env>>

NextDay ==
    /\ today < MaxDay
    /\ today' = today + 1
    /\ UNCHANGED <<tables, request, monitor, client, verdictOn, clock, faults>>

Next ==
    \/ \E r \in Requests :
        \/ \E l \in Leases, i \in Inputs, d \in Days : BeginAudit(r, l, i, d)
        \/ CommitAudit(r) \/ AuditFails(r)
    \/ \E m \in Monitors :
        \/ \E j \in Jurisdictions : StartRun(m, j)
        \/ Reaudit(m) \/ CommitRun(m) \/ RunFails(m)
    \/ Poll \/ NextDay

Spec == Init /\ [][Next]_vars

(* The monitor is run for every jurisdiction again and again; a run that is *)
(* not cut short goes on to its commit; the client keeps polling.           *)
Fairness ==
    /\ \A m \in Monitors, j \in Jurisdictions : SF_vars(StartRun(m, j))
    /\ \A m \in Monitors : WF_vars(Reaudit(m) \/ CommitRun(m))
    /\ WF_vars(Poll)

FairSpec == Spec /\ Fairness
-----------------------------------------------------------------------------
Draft == [lease : Leases, input : Inputs, findings : Verdicts, born : Stamps]

Row == [lease : Leases, input : Inputs, findings : Verdicts, born : Stamps, at : Stamps,
        by : {"caller", "monitor"}]

ChangeRow == [lease : Leases, old : Stamps, new : Stamps, stamp : Stamps]

RunState == [asAt : Days, born : Nat, todo : SUBSET Row, audits : SUBSET Draft,
             changes : SUBSET ChangeRow]

\* Tables, requests, runs and the client hold what the code puts there.
TypeOK ==
    /\ audits \subseteq Row
    /\ changes \subseteq ChangeRow
    /\ usage \in Nat
    /\ pc \in [Requests -> {"new", "auditing", "done"}]
    /\ draft \in [Requests -> SUBSET Draft]
    /\ busy \subseteq Monitors
    /\ run \in [Monitors -> RunState]
    /\ since \in Nat
    /\ seen \subseteq ChangeRow
    /\ verdictOn \in [Inputs -> [Days -> Verdicts]]
    /\ today \in Days /\ clock \in Stamps /\ faults \in 0..MaxFaults

\* The feed explains every re-audit: exactly one change leads to each audit the
\* monitor wrote, from an earlier audit of the same lease and input whose
\* findings were different, whatever runs failed or were rolled back in between
\* (runner.py 57-89).
ChangesExplainAudits ==
    /\ \A a \in audits : a.by = "monitor" =>
        \E c \in changes : c.lease = a.lease /\ c.new = a.born
    /\ \A c \in changes : \E a, b \in AuditsOf(c.lease) :
        /\ a.born = c.old /\ b.born = c.new /\ a.born < b.born
        /\ b.by = "monitor" /\ a.input = b.input /\ a.findings # b.findings
    /\ \A c, e \in changes : c.lease = e.lease /\ c.new = e.new => c = e

\* Runs one after the other report a difference once: no audit is compared and
\* found different twice (change-monitor design, lines 91-92; runner.py 38-54).
OneChangePerAudit ==
    \A c, e \in changes : c.lease = e.lease /\ c.old = e.old => c = e

\* The newest audit of a lease carries the data its caller submitted last,
\* unless a run of the monitor started while that submission was in flight: such
\* a run re-audits the older data under a later created_at, and the newer
\* submission is not monitored from then on (runner.py 38-54, 67-75).
SubmissionGoverns ==
    \A u \in audits :
        LET later == {a \in AuditsOf(u.lease) : a.born > u.born}
        IN  (u.by = "caller" /\ \A a \in later : a.by = "monitor") =>
              \/ \E a \in AuditsOf(u.lease) : IsNewest(a) /\ a.input = u.input
              \/ \E a \in later : a.born < u.at

\* The cursor never passes a change the client has not seen (changes.py 28-36):
\* "ordered by created_at ascending so since + order is the polling cursor"
\* (change-monitor design, lines 105-106).
CursorNeverSkips == \A c \in changes : c.stamp <= since => c \in seen

\* Once the calendar stands still, the newest audit of every lease says what the
\* rules say today, whatever day its caller asked for and whatever runs failed.
EventuallyCurrent == <>[](\A a \in audits : IsNewest(a) => ~Differs(a, today))

\* Every recorded change reaches the client that keeps polling, page by page.
EveryChangeSeen == <>[](changes \subseteq seen)
=============================================================================
