------------------------- MODULE AuditMonitor_proofs -------------------------
(***************************************************************************)
(* Theorems about AuditMonitor, for any requests, leases, jurisdictions,   *)
(* inputs and calendar.                                                    *)
(*                                                                         *)
(* Why the polling cursor works when runs follow each other: everything a  *)
(* run stamps is later than its start, and whatever the client could have  *)
(* seen by then was committed, hence stamped, before that start.  So the   *)
(* changes a run commits lie behind the cursor of nobody.                  *)
(*                                                                         *)
(* Why the feed explains the audits, for any number of runs side by side:  *)
(* a run re-audits the newest audit there was at its start, nothing that   *)
(* is committed later was there then, and no two rows of a lease share a   *)
(* created_at.                                                             *)
(***************************************************************************)
EXTENDS AuditMonitor, WellFoundedInduction, TLAPS

\* Runs of the monitor follow one after the other.
OneAtATime == \A m, n \in Monitors : m = n

\* A monitor that runs started before now, and stamped its changes since then,
\* each with a stamp of its own.
RunsStamped ==
    \A m \in Monitors :
        /\ m \in busy => run[m].born \in 1..(clock - 1)
        /\ m \notin busy => run[m] = Idle
        /\ \A c \in run[m].changes : run[m].born < c.stamp /\ c.stamp < clock
        /\ \A c, e \in run[m].changes : c.stamp = e.stamp => c = e

\* Committed changes were stamped in the past, before the run in progress began.
FeedStamped ==
    /\ \A c \in changes : c.stamp < clock
    /\ \A m \in busy, c \in changes : c.stamp < run[m].born
    /\ \A c, e \in changes : c.stamp = e.stamp => c = e

\* The cursor is where it started or at a committed change.
CursorAtAChange == since = 0 \/ \E c \in changes : c.stamp = since

IInv == TypeOK /\ RunsStamped /\ FeedStamped /\ CursorAtAChange /\ CursorNeverSkips

LEMMA InitType == Init => TypeOK
BY MonitorBoundAssumption DEF Init, TypeOK, Idle, RunState, Days, Stamps

\* The row a request or a run commits.
LEMMA CommittedRow ==
    ASSUME TypeOK, NEW a \in Draft, NEW author \in {"caller", "monitor"}
    PROVE  Committed(a, author) \in Row
BY DEF TypeOK, Draft, Row, Committed

\* What one turn of the monitor's loop writes.
LEMMA ReauditRows ==
    ASSUME TypeOK, NEW m \in Monitors, m \in busy, run[m].born \in Stamps, NEW a \in Row
    PROVE  /\ Reaudited(m, a) \in Draft
           /\ Change(m, a) \in ChangeRow
<1>1. /\ run[m] \in RunState /\ a.lease \in Leases /\ a.input \in Inputs /\ a.born \in Stamps
      /\ clock \in Stamps
  BY DEF TypeOK, Row
<1>2. run[m].asAt \in Days
  BY <1>1 DEF RunState
<1>3. verdictOn[a.input][run[m].asAt] \in Verdicts
  BY <1>1, <1>2 DEF TypeOK
<1> QED
  BY <1>1, <1>3 DEF Reaudited, Change, ReauditBorn, ChangeStamp, Draft, ChangeRow

\* Ending a run leaves the other monitors alone.
LEMMA EndRunType ==
    ASSUME TypeOK, NEW m \in Monitors, EndRun(m)
    PROVE  busy' \subseteq Monitors /\ run' \in [Monitors -> RunState]
<1>1. Idle \in RunState
  BY MonitorBoundAssumption DEF Idle, RunState, Days
<1> QED
  BY <1>1 DEF EndRun, TypeOK

\* A monitor at work on an audit is busy, and its run has a start.
LEMMA AtWork ==
    ASSUME TypeOK, RunsStamped, NEW m \in Monitors, NEW a \in run[m].todo
    PROVE  m \in busy /\ run[m].born \in Stamps /\ a \in Row
<1>1. run[m] \in RunState
  BY DEF TypeOK
<1>2. a \in Row
  BY <1>1 DEF RunState
<1>3. m \in busy
  BY DEF RunsStamped, Idle
<1>4. run[m].born \in 1..(clock - 1) /\ clock \in Stamps
  BY <1>3 DEF RunsStamped, TypeOK
<1> QED
  BY <1>2, <1>3, <1>4 DEF Stamps

LEMMA NextType ==
    ASSUME TypeOK, RunsStamped, [Next]_vars
    PROVE  TypeOK'
<1> USE DEF Stamps
<1>1. CASE \E r \in Requests, l \in Leases, i \in Inputs, d \in Days : BeginAudit(r, l, i, d)
  <2> PICK r \in Requests, l \in Leases, i \in Inputs, d \in Days : BeginAudit(r, l, i, d)
    BY <1>1
  <2>1. [lease |-> l, input |-> i, findings |-> verdictOn[i][d], born |-> clock] \in Draft
    BY DEF TypeOK, Draft
  <2> QED
    BY <2>1 DEF BeginAudit, TypeOK, tables, monitor, client
<1>2. CASE \E r \in Requests : CommitAudit(r)
  <2> PICK r \in Requests : CommitAudit(r)
    BY <1>2
  <2>1. \A a \in draft[r] : Committed(a, "caller") \in Row
    BY CommittedRow DEF TypeOK
  <2>2. audits' \subseteq Row
    BY <2>1 DEF CommitAudit, TypeOK
  <2> QED
    BY <2>2 DEF CommitAudit, TypeOK, monitor, client, env
<1>3. CASE \E r \in Requests : AuditFails(r)
  BY <1>3 DEF AuditFails, TypeOK, tables, monitor, client, env
<1>4. CASE \E m \in Monitors, j \in Jurisdictions : StartRun(m, j)
  <2> PICK m \in Monitors, j \in Jurisdictions : StartRun(m, j)
    BY <1>4
  <2>1. Monitored(j) \subseteq Row
    BY DEF Monitored, TypeOK
  <2>2. [asAt |-> today, born |-> clock, todo |-> Monitored(j), audits |-> {}, changes |-> {}]
          \in RunState
    BY <2>1 DEF RunState, TypeOK
  <2> QED
    BY <2>2 DEF StartRun, TypeOK, tables, request, client
<1>5. CASE \E m \in Monitors : Reaudit(m)
  <2> PICK m \in Monitors : Reaudit(m)
    BY <1>5
  <2>1. PICK a \in run[m].todo :
          /\ \/ /\ run' = [run EXCEPT ![m].todo = @ \ {a}]
                /\ UNCHANGED clock
             \/ /\ run' = [run EXCEPT ![m].todo = @ \ {a},
                                      ![m].audits = @ \cup {Reaudited(m, a)},
                                      ![m].changes = @ \cup {Change(m, a)}]
                /\ clock' = clock + 1
          /\ UNCHANGED <<tables, request, busy, client, verdictOn, today, faults>>
    BY DEF Reaudit
  <2>2. Reaudited(m, a) \in Draft /\ Change(m, a) \in ChangeRow
    BY AtWork, ReauditRows
  <2>3. run[m] \in RunState
    BY DEF TypeOK
  <2>4. [run[m] EXCEPT !.todo = run[m].todo \ {a}] \in RunState
    BY <2>3 DEF RunState
  <2>5. [run[m] EXCEPT !.todo = run[m].todo \ {a},
                       !.audits = run[m].audits \cup {Reaudited(m, a)},
                       !.changes = run[m].changes \cup {Change(m, a)}] \in RunState
    BY <2>2, <2>3 DEF RunState
  <2>6. run' \in [Monitors -> RunState]
    BY <2>1, <2>4, <2>5 DEF TypeOK
  <2> QED
    BY <2>1, <2>6 DEF TypeOK, tables, request, client
<1>6. CASE \E m \in Monitors : CommitRun(m)
  <2> PICK m \in Monitors : CommitRun(m)
    BY <1>6
  <2>1. run[m].audits \subseteq Draft /\ run[m].changes \subseteq ChangeRow
    BY DEF TypeOK, RunState
  <2>2. audits' \subseteq Row /\ changes' \subseteq ChangeRow
    BY <2>1, CommittedRow DEF CommitRun, TypeOK
  <2> QED
    BY <2>2, EndRunType DEF CommitRun, TypeOK, request, client, env
<1>7. CASE \E m \in Monitors : RunFails(m)
  <2> PICK m \in Monitors : RunFails(m)
    BY <1>7
  <2> QED
    BY EndRunType, MonitorBoundAssumption DEF RunFails, TypeOK, tables, request, client
<1>8. CASE Poll
  BY <1>8 DEF Poll, Pages, Unseen, TypeOK, ChangeRow, tables, request, monitor, env
<1>9. CASE NextDay
  BY <1>9, MonitorBoundAssumption DEF NextDay, Days, TypeOK, tables, request, monitor, client
<1>10. CASE UNCHANGED vars
  BY <1>10 DEF vars, TypeOK, tables, request, monitor, client, env
<1> QED
  BY <1>1, <1>2, <1>3, <1>4, <1>5, <1>6, <1>7, <1>8, <1>9, <1>10 DEF Next

LEMMA InitIInv == Init => IInv
<1> SUFFICES ASSUME Init PROVE IInv
  OBVIOUS
<1>1. \A m \in Monitors : run[m] = Idle /\ run[m].changes = {}
  BY DEF Init, Idle
<1>2. RunsStamped
  BY <1>1 DEF Init, RunsStamped
<1>3. FeedStamped /\ CursorAtAChange /\ CursorNeverSkips
  BY DEF Init, FeedStamped, CursorAtAChange, CursorNeverSkips
<1> QED
  BY <1>2, <1>3, InitType DEF IInv

\* Stamps and starts are whole numbers.
LEMMA WholeNumbers ==
    ASSUME TypeOK
    PROVE  /\ clock \in Int /\ since \in Nat
           /\ \A c \in changes : c.stamp \in Int
           /\ \A m \in Monitors : run[m].born \in Int /\ \A c \in run[m].changes : c.stamp \in Int
<1>1. \A m \in Monitors : run[m] \in RunState
  BY DEF TypeOK
<1> QED
  BY <1>1 DEF TypeOK, RunState, ChangeRow, Stamps

\* An ended run leaves every other run and its stamps as they were.
LEMMA EndRunStamps ==
    ASSUME TypeOK, RunsStamped, NEW m \in Monitors, EndRun(m), UNCHANGED clock
    PROVE  RunsStamped'
<1>1. \A n \in Monitors : run'[n] = IF n = m THEN Idle ELSE run[n]
  BY DEF EndRun, TypeOK
<1>2. Idle.changes = {}
  BY DEF Idle
<1>3. \A n \in Monitors : n \in busy' <=> n \in busy /\ n # m
  BY DEF EndRun
<1> QED
  BY <1>1, <1>2, <1>3 DEF RunsStamped

\* Started and stamped: what holds of each run, however many there are.
LEMMA NextRunsStamped ==
    ASSUME TypeOK, RunsStamped, [Next]_vars
    PROVE  RunsStamped'
<1>1. /\ clock \in Int
      /\ \A m \in Monitors : run[m].born \in Int /\ \A c \in run[m].changes : c.stamp \in Int
  BY WholeNumbers
<1>2. CASE \E m \in Monitors, j \in Jurisdictions : StartRun(m, j)
  <2> PICK m \in Monitors, j \in Jurisdictions : StartRun(m, j)
    BY <1>2
  <2>1. /\ busy' = busy \cup {m} /\ clock' = clock + 1
        /\ run'[m].born = clock /\ run'[m].changes = {}
        /\ \A n \in Monitors : n # m => run'[n] = run[n]
    BY DEF StartRun, TypeOK
  <2>2. clock \in 1..(clock' - 1)
    BY <2>1 DEF TypeOK, Stamps
  <2>3. ASSUME NEW n \in Monitors
        PROVE  /\ n \in busy' => run'[n].born \in 1..(clock' - 1)
               /\ n \notin busy' => run'[n] = Idle
               /\ \A c \in run'[n].changes : run'[n].born < c.stamp /\ c.stamp < clock'
               /\ \A c, e \in run'[n].changes : c.stamp = e.stamp => c = e
    <3>1. CASE n = m
      BY <2>1, <2>2, <3>1
    <3>2. CASE n # m
      BY <1>1, <2>1, <3>2 DEF RunsStamped
    <3> QED
      BY <3>1, <3>2
  <2> QED
    BY <2>3 DEF RunsStamped
<1>3. CASE \E m \in Monitors : Reaudit(m)
  <2> PICK m \in Monitors : Reaudit(m)
    BY <1>3
  <2>1. PICK a \in run[m].todo :
          /\ \/ /\ run' = [run EXCEPT ![m].todo = @ \ {a}]
                /\ UNCHANGED clock
             \/ /\ run' = [run EXCEPT ![m].todo = @ \ {a},
                                      ![m].audits = @ \cup {Reaudited(m, a)},
                                      ![m].changes = @ \cup {Change(m, a)}]
                /\ clock' = clock + 1
          /\ busy' = busy
    BY DEF Reaudit
  <2>2. m \in busy /\ run[m].born \in 1..(clock - 1) /\ run[m] \in RunState
    BY <2>1, AtWork DEF RunsStamped, TypeOK
  <2>3. Change(m, a).stamp = clock
    BY DEF Change, ChangeStamp
  <2>4. \/ run'[m].changes = run[m].changes /\ clock' = clock
        \/ run'[m].changes = run[m].changes \cup {Change(m, a)} /\ clock' = clock + 1
    BY <2>1, <2>2 DEF TypeOK, RunState
  <2>5. run'[m].born = run[m].born /\ \A n \in Monitors : n # m => run'[n] = run[n]
    BY <2>1, <2>2 DEF TypeOK, RunState
  <2>6. ASSUME NEW n \in Monitors
        PROVE  /\ n \in busy' => run'[n].born \in 1..(clock' - 1)
               /\ n \notin busy' => run'[n] = Idle
               /\ \A c \in run'[n].changes : run'[n].born < c.stamp /\ c.stamp < clock'
               /\ \A c, e \in run'[n].changes : c.stamp = e.stamp => c = e
    <3>1. CASE n = m
      BY <1>1, <2>1, <2>2, <2>3, <2>4, <2>5, <3>1 DEF RunsStamped
    <3>2. CASE n # m
      BY <1>1, <2>1, <2>5, <3>2 DEF RunsStamped
    <3> QED
      BY <3>1, <3>2
  <2> QED
    BY <2>6 DEF RunsStamped
<1>4. CASE \E m \in Monitors : EndRun(m) /\ UNCHANGED clock
  BY <1>4, EndRunStamps
<1>5. ASSUME UNCHANGED <<busy, run>>, clock' = clock \/ clock' = clock + 1
      PROVE  RunsStamped'
  BY <1>1, <1>5 DEF RunsStamped
<1>6. \/ \E m \in Monitors : EndRun(m) /\ UNCHANGED clock
      \/ \E m \in Monitors, j \in Jurisdictions : StartRun(m, j)
      \/ \E m \in Monitors : Reaudit(m)
      \/ UNCHANGED <<busy, run>> /\ (clock' = clock \/ clock' = clock + 1)
  BY DEF Next, BeginAudit, CommitAudit, AuditFails, CommitRun, RunFails, Poll, NextDay, vars, monitor,
         env
<1> QED
  BY <1>2, <1>3, <1>4, <1>5, <1>6

LEMMA NextIInv ==
    ASSUME OneAtATime, IInv, [Next]_vars
    PROVE  IInv'
<1> USE DEF IInv
<1>1. TypeOK' /\ RunsStamped'
  BY NextType, NextRunsStamped
<1>2. /\ clock \in Int /\ since \in Nat
      /\ \A c \in changes : c.stamp \in Int
      /\ \A m \in Monitors : run[m].born \in Int /\ \A c \in run[m].changes : c.stamp \in Int
  BY WholeNumbers
<1>3. ASSUME UNCHANGED <<changes, busy, run, since, seen>>, clock' = clock \/ clock' = clock + 1
      PROVE  IInv'
  <2>1. FeedStamped'
    BY <1>2, <1>3 DEF FeedStamped
  <2>2. CursorAtAChange' /\ CursorNeverSkips'
    BY <1>3 DEF CursorAtAChange, CursorNeverSkips
  <2> QED
    BY <1>1, <2>1, <2>2
<1>4. CASE \E m \in Monitors, j \in Jurisdictions : StartRun(m, j)
  <2> PICK m \in Monitors, j \in Jurisdictions : StartRun(m, j)
    BY <1>4
  <2>1. /\ busy = {} /\ busy' = {m} /\ clock' = clock + 1
        /\ run'[m].born = clock /\ run'[m].changes = {}
        /\ \A n \in Monitors : n = m
        /\ UNCHANGED <<changes, since, seen>>
    BY DEF StartRun, OneAtATime, TypeOK, tables, client
  <2>2. FeedStamped'
    BY <1>2, <2>1 DEF FeedStamped
  <2>3. CursorAtAChange' /\ CursorNeverSkips'
    BY <2>1 DEF CursorAtAChange, CursorNeverSkips
  <2> QED
    BY <1>1, <2>2, <2>3
<1>5. CASE \E m \in Monitors : Reaudit(m)
  <2> PICK m \in Monitors : Reaudit(m)
    BY <1>5
  <2>1. PICK a \in run[m].todo :
          /\ \/ /\ run' = [run EXCEPT ![m].todo = @ \ {a}]
                /\ UNCHANGED clock
             \/ /\ run' = [run EXCEPT ![m].todo = @ \ {a},
                                      ![m].audits = @ \cup {Reaudited(m, a)},
                                      ![m].changes = @ \cup {Change(m, a)}]
                /\ clock' = clock + 1
          /\ UNCHANGED <<tables, request, busy, client, verdictOn, today, faults>>
    BY DEF Reaudit
  <2>2. /\ m \in busy /\ run[m].born \in 1..(clock - 1) /\ \A n \in Monitors : n = m
        /\ run[m] \in RunState
    BY <2>1, AtWork DEF RunsStamped, OneAtATime, TypeOK
  <2>3. \/ run'[m].changes = run[m].changes /\ clock' = clock
        \/ run'[m].changes = run[m].changes \cup {Change(m, a)} /\ clock' = clock + 1
    BY <2>1, <2>2 DEF TypeOK, RunState
  <2>4. run'[m].born = run[m].born /\ UNCHANGED <<busy, changes, since, seen>>
    BY <2>1, <2>2 DEF TypeOK, RunState, tables, client
  <2>5. FeedStamped'
    <3>1. \A n \in busy' : n = m
      BY <2>2, <2>4 DEF TypeOK
    <3> QED
      BY <1>2, <2>2, <2>3, <2>4, <3>1 DEF FeedStamped
  <2>6. CursorAtAChange' /\ CursorNeverSkips'
    BY <2>4 DEF CursorAtAChange, CursorNeverSkips
  <2> QED
    BY <1>1, <2>5, <2>6
<1>6. CASE \E m \in Monitors : CommitRun(m)
  <2> PICK m \in Monitors : CommitRun(m)
    BY <1>6
  <2>1. /\ m \in busy /\ EndRun(m) /\ changes' = changes \cup run[m].changes
        /\ UNCHANGED <<clock, since, seen>>
    BY DEF CommitRun, client, env
  <2>2. busy' = {}
    BY <2>1 DEF EndRun, OneAtATime, TypeOK
  <2>4. \A c \in changes, e \in run[m].changes : c.stamp < e.stamp
    BY <1>2, <2>1 DEF FeedStamped, RunsStamped
  <2>5. FeedStamped'
    <3>1. \A c \in changes' : c.stamp < clock'
      BY <2>1 DEF FeedStamped, RunsStamped
    <3>2. \A c, e \in changes' : c.stamp = e.stamp => c = e
      BY <1>2, <2>1, <2>4 DEF FeedStamped, RunsStamped
    <3> QED
      BY <2>2, <3>1, <3>2 DEF FeedStamped
  <2>6. since < run[m].born
    BY <1>2, <2>1 DEF CursorAtAChange, FeedStamped, RunsStamped
  <2>7. \A e \in run[m].changes : since < e.stamp
    BY <1>2, <2>1, <2>6 DEF RunsStamped
  <2>8. CursorNeverSkips'
    BY <1>2, <2>1, <2>7 DEF CursorNeverSkips
  <2>9. CursorAtAChange'
    BY <2>1 DEF CursorAtAChange
  <2> QED
    BY <1>1, <2>5, <2>8, <2>9
<1>7. CASE \E m \in Monitors : RunFails(m)
  <2> PICK m \in Monitors : RunFails(m)
    BY <1>7
  <2>1. EndRun(m) /\ UNCHANGED <<changes, clock, since, seen>>
    BY DEF RunFails, tables, client
  <2>2. busy' \subseteq busy /\ \A n \in busy' : run'[n] = run[n]
    BY <2>1 DEF EndRun, TypeOK
  <2>3. FeedStamped' /\ CursorAtAChange' /\ CursorNeverSkips'
    BY <2>1, <2>2 DEF FeedStamped, CursorAtAChange, CursorNeverSkips
  <2> QED
    BY <1>1, <2>3
<1>8. CASE Poll
  <2>1. PICK page \in Pages(since) :
          /\ seen' = seen \cup page
          /\ \E last \in page :
               /\ \A c \in page : c.stamp <= last.stamp
               /\ since' = last.stamp
    BY <1>8 DEF Poll
  <2>2. PICK last \in page : (\A c \in page : c.stamp <= last.stamp) /\ since' = last.stamp
    BY <2>1
  <2>3. /\ page \subseteq changes
        /\ \A c \in changes \ page : since < c.stamp => last.stamp <= c.stamp
    BY <2>1, <2>2 DEF Pages, Unseen
  <2>4. UNCHANGED <<changes, busy, run, clock>>
    BY <1>8 DEF Poll, tables, monitor, env
  <2>5. ASSUME NEW c \in changes, c.stamp <= since' PROVE c \in seen'
    <3>1. CASE c.stamp <= since
      BY <2>1, <3>1 DEF CursorNeverSkips
    <3>2. CASE c \in page
      BY <2>1, <3>2
    <3>3. CASE since < c.stamp /\ c \notin page
      <4>1. c.stamp = last.stamp
        BY <1>2, <2>2, <2>3, <2>5, <3>3
      <4> QED
        BY <2>2, <2>3, <3>3, <4>1 DEF FeedStamped
    <3> QED
      BY <1>2, <3>1, <3>2, <3>3
  <2>6. FeedStamped'
    BY <2>4 DEF FeedStamped
  <2>7. CursorAtAChange' /\ CursorNeverSkips'
    BY <2>2, <2>3, <2>4, <2>5 DEF CursorAtAChange, CursorNeverSkips
  <2> QED
    BY <1>1, <2>6, <2>7
<1>9. ASSUME \/ \E r \in Requests :
                \/ \E l \in Leases, i \in Inputs, d \in Days : BeginAudit(r, l, i, d)
                \/ CommitAudit(r) \/ AuditFails(r)
             \/ NextDay \/ UNCHANGED vars
      PROVE  /\ UNCHANGED <<changes, busy, run, since, seen>>
             /\ clock' = clock \/ clock' = clock + 1
  BY <1>9 DEF BeginAudit, CommitAudit, AuditFails, NextDay, vars, tables, monitor, client, env
<1> QED
  BY <1>3, <1>4, <1>5, <1>6, <1>7, <1>8, <1>9 DEF Next

\* Nothing that a run stamps is behind the cursor of a client, and every change
\* has a stamp of its own (runner.py 57-89, changes.py 28-36).
THEOREM Invariance == ASSUME OneAtATime PROVE Spec => []IInv
BY InitIInv, NextIInv, PTL DEF Spec

\* Tables, requests, runs and the client hold what the code puts there.
THEOREM TypeCorrect == Spec => []TypeOK
<1>1. Init => TypeOK /\ RunsStamped
  BY InitIInv DEF IInv
<1>2. TypeOK /\ RunsStamped /\ [Next]_vars => TypeOK' /\ RunsStamped'
  BY NextType, NextRunsStamped
<1> QED
  BY <1>1, <1>2, PTL DEF Spec

\* While the monitor's runs follow one after the other, a client that polls with
\* the created_at of the last change it saw misses no change (changes.py 28-36).
THEOREM CursorKept == ASSUME OneAtATime PROVE Spec => []CursorNeverSkips
<1>1. IInv => CursorNeverSkips
  BY DEF IInv
<1> QED
  BY <1>1, Invariance, PTL

-----------------------------------------------------------------------------
(* Why the feed explains the audits.  Every request and every run has a     *)
(* created_at of its own.  A run re-audits the audit that was the newest of *)
(* its lease when it started; whatever is committed later is no part of     *)
(* what was there at its start, so the re-audit explains itself for good.   *)

\* Among the audits A, a is the newest of its lease of those committed by time s.
NewestAt(A, a, s) ==
    /\ a.born < s
    /\ \A u \in A : u.lease = a.lease /\ u.at <= s => u.born <= a.born

\* Change c leads from audit a to its re-audit b.
Leads(A, c, a, b) ==
    /\ c.lease = a.lease /\ c.lease = b.lease /\ c.old = a.born /\ c.new = b.born
    /\ a.input = b.input /\ a.findings # b.findings
    /\ NewestAt(A, a, b.born)

\* created_at is in the past and tells the audits of a lease apart.
AuditsStamped ==
    /\ \A a \in audits : a.born < clock /\ a.at <= clock
    /\ \A a, b \in audits : a.lease = b.lease /\ a.born = b.born => a = b

\* No uncommitted row shares its created_at.
DraftsStamped ==
    \A r \in Requests : \A d \in draft[r] :
        /\ d.born < clock
        /\ \A a \in audits : a.born # d.born
        /\ \A q \in Requests : \A e \in draft[q] : e.born = d.born => q = r /\ e = d
        /\ \A m \in busy : run[m].born # d.born

\* No run shares its start.
StartsStamped ==
    \A m \in busy :
        /\ \A a \in audits : a.born # run[m].born
        /\ \A n \in busy : run[n].born = run[m].born => n = m

\* A run has one re-audit and one change for each lease it found a difference
\* for, and has yet to look at the newest audit of other leases.
InOrder(A, R) ==
    /\ \A a \in R.todo : a \in A /\ NewestAt(A, a, R.born)
    /\ \A a, b \in R.todo : a.lease = b.lease => a = b
    /\ \A d \in R.audits : d.born = R.born /\ \A a \in R.todo : a.lease # d.lease
    /\ \A d, e \in R.audits : d.lease = e.lease => d = e
    /\ \A c, e \in R.changes : c.lease = e.lease => c = e
    /\ \A d \in R.audits : \E c \in R.changes, a \in A : Leads(A, c, a, d)
    /\ \A c \in R.changes : \E d \in R.audits, a \in A : Leads(A, c, a, d)

RunsInOrder == \A m \in Monitors : InOrder(audits, run[m])

\* The committed changes C lead to the re-audits among A, one to each.
FeedLeads(A, C) ==
    /\ \A b \in A : b.by = "monitor" => \E c \in C, a \in A : Leads(A, c, a, b)
    /\ \A c \in C : \E a, b \in A : b.by = "monitor" /\ Leads(A, c, a, b)
    /\ \A c, e \in C : c.lease = e.lease /\ c.new = e.new => c = e

AInv ==
    /\ TypeOK /\ RunsStamped /\ AuditsStamped /\ DraftsStamped /\ StartsStamped
    /\ RunsInOrder /\ FeedLeads(audits, changes)

\* What is committed later was not there at time s.
LEMMA NewestKept ==
    ASSUME NEW A \in SUBSET Row, NEW N \in SUBSET Row, NEW t \in Stamps, \A n \in N : n.at = t,
           NEW a, NEW s \in Nat, s < t, NewestAt(A, a, s)
    PROVE  NewestAt(A \cup N, a, s)
<1>1. \A n \in N : ~(n.at <= s)
  BY DEF Stamps
<1> QED
  BY <1>1 DEF NewestAt

LEMMA LeadsKept ==
    ASSUME NEW A \in SUBSET Row, NEW N \in SUBSET Row, NEW t \in Stamps, \A n \in N : n.at = t,
           NEW c, NEW a, NEW b, b.born \in Nat, b.born < t, Leads(A, c, a, b)
    PROVE  Leads(A \cup N, c, a, b)
<1>1. NewestAt(A \cup N, a, b.born)
  BY NewestKept DEF Leads
<1> QED
  BY <1>1 DEF Leads

LEMMA InOrderKept ==
    ASSUME NEW A \in SUBSET Row, NEW N \in SUBSET Row, NEW t \in Stamps, \A n \in N : n.at = t,
           NEW R, R.born \in Nat, R.born < t, InOrder(A, R)
    PROVE  InOrder(A \cup N, R)
<1>1. \A a \in R.todo : a \in A \cup N /\ NewestAt(A \cup N, a, R.born)
  BY NewestKept DEF InOrder
<1>2. \A d \in R.audits : d.born \in Nat /\ d.born < t
  BY DEF InOrder
<1>3. ASSUME NEW d \in R.audits
      PROVE  \E c \in R.changes, a \in A \cup N : Leads(A \cup N, c, a, d)
  <2>1. PICK c \in R.changes : \E a \in A : Leads(A, c, a, d)
    BY DEF InOrder
  <2>2. PICK a \in A : Leads(A, c, a, d)
    BY <2>1
  <2> QED
    BY <1>2, <2>2, LeadsKept
<1>4. ASSUME NEW c \in R.changes
      PROVE  \E d \in R.audits, a \in A \cup N : Leads(A \cup N, c, a, d)
  <2>1. PICK d \in R.audits : \E a \in A : Leads(A, c, a, d)
    BY DEF InOrder
  <2>2. PICK a \in A : Leads(A, c, a, d)
    BY <2>1
  <2> QED
    BY <1>2, <2>2, LeadsKept
<1> QED
  BY <1>1, <1>3, <1>4 DEF InOrder

LEMMA FeedKept ==
    ASSUME NEW A \in SUBSET Row, NEW N \in SUBSET Row, NEW t \in Stamps, \A n \in N : n.at = t,
           NEW C, \A b \in A : b.born < t, \A n \in N : n.by = "caller", FeedLeads(A, C)
    PROVE  FeedLeads(A \cup N, C)
<1>1. \A b \in A : b.born \in Nat /\ b.born < t
  BY DEF Row, Stamps
<1>2. ASSUME NEW c \in C, NEW a \in A, NEW b \in A, Leads(A, c, a, b)
      PROVE  Leads(A \cup N, c, a, b)
  BY <1>1, <1>2, LeadsKept
<1>3. \A b \in A \cup N : b.by = "monitor" => b \in A
  BY Zenon
<1> QED
  BY <1>2, <1>3 DEF FeedLeads

\* A turn that finds no difference.
LEMMA SameInOrder ==
    ASSUME NEW A, NEW R \in RunState, NEW a, InOrder(A, R)
    PROVE  InOrder(A, [R EXCEPT !.todo = R.todo \ {a}])
<1> DEFINE Q == [R EXCEPT !.todo = R.todo \ {a}]
<1>1. /\ Q.todo = R.todo \ {a} /\ Q.born = R.born /\ Q.audits = R.audits
      /\ Q.changes = R.changes
  BY DEF RunState
<1> HIDE DEF Q
<1>2. InOrder(A, Q)
  BY <1>1 DEF InOrder
<1> QED
  BY <1>2 DEF Q

\* What a run R writes down for an audit a it finds different.
Turn(R, a, d, c) ==
    /\ d.born = R.born /\ d.lease = a.lease /\ d.input = a.input /\ d.findings # a.findings
    /\ c.lease = a.lease /\ c.old = a.born /\ c.new = R.born

\* A turn that finds one.
LEMMA TurnInOrder ==
    ASSUME NEW A, NEW R \in RunState, NEW a \in R.todo, NEW d, NEW c, InOrder(A, R),
           Turn(R, a, d, c)
    PROVE  InOrder(A, [R EXCEPT !.todo = R.todo \ {a}, !.audits = R.audits \cup {d},
                                !.changes = R.changes \cup {c}])
<1> DEFINE Q == [R EXCEPT !.todo = R.todo \ {a}, !.audits = R.audits \cup {d},
                          !.changes = R.changes \cup {c}]
<1>1. /\ Q.todo = R.todo \ {a} /\ Q.born = R.born /\ Q.audits = R.audits \cup {d}
      /\ Q.changes = R.changes \cup {c}
  BY DEF RunState
<1> HIDE DEF Q
<1>2. a \in A /\ NewestAt(A, a, R.born)
  BY DEF InOrder
<1> d.born = R.born /\ d.lease = a.lease /\ c.lease = a.lease
  BY DEF Turn
<1>3. Leads(A, c, a, d)
  BY <1>2 DEF Leads, Turn
<1>4. \A e \in R.audits : e.lease # a.lease
  BY DEF InOrder
<1>5. \A e \in R.changes : e.lease # a.lease
  <2> SUFFICES ASSUME NEW e \in R.changes PROVE e.lease # a.lease
    OBVIOUS
  <2>1. PICK f \in R.audits : \E b \in A : Leads(A, e, b, f)
    BY DEF InOrder
  <2> QED
    BY <1>4, <2>1 DEF Leads
<1>6. /\ \A b \in Q.todo : b \in A /\ NewestAt(A, b, Q.born)
      /\ \A b, e \in Q.todo : b.lease = e.lease => b = e
      /\ \A f \in Q.audits : f.born = Q.born /\ \A b \in Q.todo : b.lease # f.lease
  BY <1>1 DEF InOrder
<1>7. /\ \A f, e \in Q.audits : f.lease = e.lease => f = e
      /\ \A f, e \in Q.changes : f.lease = e.lease => f = e
  BY <1>1, <1>4, <1>5 DEF InOrder
<1>8. /\ \A f \in Q.audits : \E e \in Q.changes, b \in A : Leads(A, e, b, f)
      /\ \A e \in Q.changes : \E f \in Q.audits, b \in A : Leads(A, e, b, f)
  BY <1>1, <1>2, <1>3 DEF InOrder
<1>9. InOrder(A, Q)
  BY <1>6, <1>7, <1>8 DEF InOrder
<1> QED
  BY <1>9 DEF Q

\* n is the committed row of draft d; N are the rows of run R committed at time t,
\* after the audits A.
RowOf(n, d) ==
    n.lease = d.lease /\ n.input = d.input /\ n.findings = d.findings /\ n.born = d.born

RowsOf(N, A, R, t) ==
    /\ \A n \in N : n.at = t /\ n.by = "monitor" /\ \E d \in R.audits : RowOf(n, d)
    /\ \A d \in R.audits : \E n \in N : RowOf(n, d)
    /\ \A b \in A : b.born < t /\ b.born # R.born
    /\ R.born \in Nat /\ R.born < t

\* The commit of a run brings each re-audit and its change together.
LEMMA RunLeads ==
    ASSUME NEW A \in SUBSET Row, NEW R, NEW C, NEW N \in SUBSET Row, NEW t \in Stamps,
           RowsOf(N, A, R, t),
           InOrder(A, R), FeedLeads(A, C)
    PROVE  FeedLeads(A \cup N, C \cup R.changes)
<1> DEFINE B == A \cup N
<1> /\ \A n \in N : n.at = t /\ n.by = "monitor" /\ \E d \in R.audits : RowOf(n, d)
    /\ \A d \in R.audits : \E n \in N : RowOf(n, d)
    /\ \A b \in A : b.born < t /\ b.born # R.born
    /\ R.born \in Nat /\ R.born < t
  BY DEF RowsOf
<1>1. \A b \in A : b.born \in Nat /\ b.born < t
  BY DEF Row, Stamps
<1>2. \A d \in R.audits : d.born \in Nat /\ d.born < t /\ d.born = R.born
  BY DEF InOrder
<1>3. \A n \in N : n.born \in Nat /\ n.born < t
  BY <1>2 DEF RowOf
<1>4. ASSUME NEW c, NEW a \in A, NEW b \in A, Leads(A, c, a, b) PROVE Leads(B, c, a, b)
  BY <1>1, <1>4, LeadsKept
<1>5. ASSUME NEW c, NEW a \in A, NEW d \in R.audits, Leads(A, c, a, d) PROVE Leads(B, c, a, d)
  BY <1>2, <1>5, LeadsKept
<1> HIDE DEF B
<1>6. ASSUME NEW c, NEW a, NEW d, NEW n, Leads(B, c, a, d), RowOf(n, d)
      PROVE  Leads(B, c, a, n)
  BY <1>6 DEF Leads, RowOf
<1>7. ASSUME NEW b \in B, b.by = "monitor"
      PROVE  \E c \in C \cup R.changes, a \in B : Leads(B, c, a, b)
  <2>1. CASE b \in A
    <3>1. PICK c \in C : \E a \in A : Leads(A, c, a, b)
      BY <1>7, <2>1 DEF FeedLeads
    <3>2. PICK a \in A : Leads(A, c, a, b)
      BY <3>1
    <3> QED
      BY <1>4, <2>1, <3>2 DEF B
  <2>2. CASE b \in N
    <3>1. PICK d \in R.audits : RowOf(b, d)
      BY <2>2
    <3>2. PICK c \in R.changes : \E a \in A : Leads(A, c, a, d)
      BY DEF InOrder
    <3>3. PICK a \in A : Leads(A, c, a, d)
      BY <3>2
    <3>4. Leads(B, c, a, b)
      BY <1>5, <1>6, <3>1, <3>3
    <3> QED
      BY <3>4 DEF B
  <2> QED
    BY <2>1, <2>2 DEF B
<1>8. ASSUME NEW c \in C \cup R.changes
      PROVE  \E a, b \in B : b.by = "monitor" /\ Leads(B, c, a, b)
  <2>1. CASE c \in C
    <3>1. PICK a \in A : \E b \in A : b.by = "monitor" /\ Leads(A, c, a, b)
      BY <2>1 DEF FeedLeads
    <3>2. PICK b \in A : b.by = "monitor" /\ Leads(A, c, a, b)
      BY <3>1
    <3> QED
      BY <1>4, <3>2 DEF B
  <2>2. CASE c \in R.changes
    <3>1. PICK d \in R.audits : \E a \in A : Leads(A, c, a, d)
      BY <2>2 DEF InOrder
    <3>2. PICK a \in A : Leads(A, c, a, d)
      BY <3>1
    <3>3. PICK n \in N : RowOf(n, d)
      OBVIOUS
    <3>4. Leads(B, c, a, n)
      BY <1>5, <1>6, <3>2, <3>3
    <3> QED
      BY <3>4 DEF B
  <2> QED
    BY <2>1, <2>2
<1>9. \A c \in C : c.new # R.born
  <2> SUFFICES ASSUME NEW c \in C PROVE c.new # R.born
    OBVIOUS
  <2>1. \E b \in A : c.new = b.born
    BY DEF FeedLeads, Leads
  <2> QED
    BY <2>1
<1>10. \A c \in R.changes : c.new = R.born
  BY <1>2 DEF InOrder, Leads
<1>11. ASSUME NEW c \in C \cup R.changes, NEW e \in C \cup R.changes,
              c.lease = e.lease, c.new = e.new
       PROVE  c = e
  BY <1>9, <1>10, <1>11 DEF FeedLeads, InOrder
<1> QED
  BY <1>7, <1>8, <1>11 DEF FeedLeads, B

\* Rows committed now, each of its own lease and stamp.
LEMMA AuditsGrow ==
    ASSUME TypeOK, AuditsStamped, NEW N \in SUBSET Row, clock' = clock, audits' = audits \cup N,
           \A n \in N : n.at = clock /\ n.born < clock /\ \A a \in audits : a.born # n.born,
           \A n, k \in N : n.lease = k.lease /\ n.born = k.born => n = k
    PROVE  AuditsStamped'
<1>1. clock \in Nat
  BY DEF TypeOK, Stamps
<1> QED
  BY <1>1 DEF AuditsStamped

LEMMA InitAInv == Init => AInv
<1> SUFFICES ASSUME Init PROVE AInv
  OBVIOUS
<1>1. \A m \in Monitors : /\ run[m] = Idle /\ run[m].todo = {} /\ run[m].audits = {}
                          /\ run[m].changes = {}
  BY DEF Init, Idle
<1>2. RunsInOrder
  BY <1>1 DEF RunsInOrder, InOrder
<1>3. AuditsStamped /\ DraftsStamped /\ StartsStamped /\ FeedLeads(audits, changes)
  BY DEF Init, AuditsStamped, DraftsStamped, StartsStamped, FeedLeads
<1> QED
  BY <1>2, <1>3, InitIInv DEF AInv, IInv

\* The numbers of a state.
LEMMA Stamped ==
    ASSUME TypeOK, RunsStamped
    PROVE  /\ clock \in Stamps /\ clock \in Nat /\ audits \in SUBSET Row
           /\ \A a \in audits : a.born \in Nat /\ a.at \in Nat
           /\ \A r \in Requests : draft[r] \in SUBSET Draft /\ \A d \in draft[r] : d.born \in Nat
           /\ \A m \in Monitors : run[m] \in RunState /\ run[m].born \in Nat /\ run[m].born < clock
           /\ \A m \in Monitors : \A d \in run[m].audits : d.born \in Nat /\ d \in Draft
<1>1. clock \in Stamps /\ clock \in Nat /\ audits \in SUBSET Row
  BY DEF TypeOK, Stamps
<1>2. \A a \in audits : a.born \in Nat /\ a.at \in Nat
  BY <1>1 DEF Row, Stamps
<1>3. \A r \in Requests : draft[r] \in SUBSET Draft
  BY DEF TypeOK
<1>4. \A m \in Monitors : run[m] \in RunState
  BY DEF TypeOK
<1>5. ASSUME NEW m \in Monitors PROVE run[m].born \in Nat /\ run[m].born < clock
  <2>1. CASE m \in busy
    <3>1. run[m].born \in 1..(clock - 1)
      BY <2>1 DEF RunsStamped
    <3> QED
      BY <1>1, <3>1 DEF Stamps
  <2>2. CASE m \notin busy
    <3>1. run[m].born = 0
      BY <2>2 DEF RunsStamped, Idle
    <3> QED
      BY <1>1, <3>1 DEF Stamps
  <2> QED
    BY <2>1, <2>2
<1>6. \A d \in Draft : d.born \in Nat
  BY DEF Draft, Stamps
<1>7. \A m \in Monitors : run[m].audits \in SUBSET Draft
  BY <1>4 DEF RunState
<1> QED
  BY <1>1, <1>2, <1>3, <1>4, <1>5, <1>6, <1>7

LEMMA NextAInv == AInv /\ [Next]_vars => AInv'
<1> SUFFICES ASSUME AInv, [Next]_vars PROVE AInv'
  OBVIOUS
<1>1. /\ TypeOK /\ RunsStamped /\ AuditsStamped /\ DraftsStamped /\ StartsStamped
      /\ RunsInOrder /\ FeedLeads(audits, changes)
      /\ TypeOK' /\ RunsStamped'
  BY NextType, NextRunsStamped DEF AInv
<1>2. /\ clock \in Stamps /\ clock \in Nat /\ audits \in SUBSET Row
      /\ \A a \in audits : a.born \in Nat /\ a.at \in Nat
      /\ \A r \in Requests : draft[r] \in SUBSET Draft /\ \A d \in draft[r] : d.born \in Nat
      /\ \A m \in Monitors : run[m] \in RunState /\ run[m].born \in Nat /\ run[m].born < clock
      /\ \A m \in Monitors : \A d \in run[m].audits : d.born \in Nat /\ d \in Draft
  BY <1>1, Stamped
<1>3. ASSUME AuditsStamped', DraftsStamped', StartsStamped', RunsInOrder',
             FeedLeads(audits, changes)'
      PROVE  AInv'
  BY <1>1, <1>3 DEF AInv
<1>4. ASSUME UNCHANGED audits, clock' = clock \/ clock' = clock + 1 PROVE AuditsStamped'
  BY <1>1, <1>2, <1>4 DEF AuditsStamped
<1>5. ASSUME UNCHANGED <<audits, busy, run>>, clock' = clock \/ clock' = clock + 1,
             \A r \in Requests : draft'[r] \subseteq draft[r]
      PROVE  DraftsStamped'
  BY <1>1, <1>2, <1>5 DEF DraftsStamped
<1>6. ASSUME UNCHANGED <<audits, busy, run>> PROVE StartsStamped' /\ RunsInOrder'
  BY <1>1, <1>6 DEF StartsStamped, RunsInOrder
<1>7. ASSUME UNCHANGED <<audits, changes>> PROVE FeedLeads(audits, changes)'
  BY <1>1, <1>7
<1>8. ASSUME NEW r \in Requests, NEW l \in Leases, NEW i \in Inputs, NEW d \in Days,
             BeginAudit(r, l, i, d)
      PROVE  AInv'
  <2> DEFINE x == [lease |-> l, input |-> i, findings |-> verdictOn[i][d], born |-> clock]
  <2>1. /\ draft' = [draft EXCEPT ![r] = {x}] /\ clock' = clock + 1
        /\ UNCHANGED <<audits, changes, busy, run>>
    BY <1>8 DEF BeginAudit, tables, monitor
  <2>2. x.born = clock
    OBVIOUS
  <2> HIDE DEF x
  <2>3. draft'[r] = {x} /\ \A q \in Requests : q # r => draft'[q] = draft[q]
    BY <1>1, <2>1 DEF TypeOK
  <2>4. ASSUME NEW q \in Requests, NEW e \in draft'[q]
        PROVE  /\ e.born < clock'
               /\ \A a \in audits : a.born # e.born
               /\ \A p \in Requests : \A f \in draft'[p] : f.born = e.born => p = q /\ f = e
               /\ \A m \in busy : run[m].born # e.born
    <3>1. \A p \in Requests : \A f \in draft'[p] : p # r => f \in draft[p] /\ f.born < clock
      BY <1>1, <2>3 DEF DraftsStamped
    <3>2. \A f \in draft'[r] : f = x
      BY <2>3
    <3>3. busy \subseteq Monitors
      BY <1>1 DEF TypeOK
    <3>4. CASE q = r
      <4>1. e = x
        BY <2>4, <3>2, <3>4
      <4>2. e.born < clock' /\ \A a \in audits : a.born # e.born
        BY <1>1, <1>2, <2>1, <2>2, <4>1 DEF AuditsStamped
      <4>3. \A m \in busy : run[m].born # e.born
        BY <1>2, <2>2, <3>3, <4>1
      <4>4. \A p \in Requests : \A f \in draft'[p] : p # r => f.born # e.born
        BY <1>2, <2>2, <3>1, <4>1
      <4> QED
        BY <3>2, <3>4, <4>1, <4>2, <4>3, <4>4
    <3>5. CASE q # r
      <4>1. e \in draft[q] /\ e.born < clock /\ e.born \in Nat
        BY <1>2, <3>1, <3>5
      <4>2. e.born < clock' /\ \A f \in draft'[r] : f.born # e.born
        BY <1>2, <2>1, <2>2, <3>2, <4>1
      <4>3. \A p \in Requests : \A f \in draft'[p] : f.born = e.born => p = q /\ f = e
        BY <1>1, <3>1, <4>1, <4>2 DEF DraftsStamped
      <4> QED
        BY <1>1, <4>1, <4>2, <4>3 DEF DraftsStamped
    <3> QED
      BY <3>4, <3>5
  <2>5. DraftsStamped'
    BY <2>1, <2>4 DEF DraftsStamped
  <2> QED
    BY <1>3, <1>4, <1>6, <1>7, <2>1, <2>5
<1>9. ASSUME NEW r \in Requests, CommitAudit(r) PROVE AInv'
  <2> DEFINE N == {Committed(a, "caller") : a \in draft[r]}
  <2>1. /\ audits' = audits \cup N /\ draft' = [draft EXCEPT ![r] = {}]
        /\ UNCHANGED <<changes, busy, run, clock>>
    BY <1>9 DEF CommitAudit, monitor, env
  <2>2. \A n \in N : /\ n.at = clock /\ n.by = "caller"
                     /\ \E d \in draft[r] : /\ n = Committed(d, "caller") /\ n.born = d.born
    BY DEF Committed
  <2>3. N \in SUBSET Row
    BY <1>1, <1>2, CommittedRow
  <2> HIDE DEF N
  <2>4. \A n \in N : n.born < clock /\ \A a \in audits : a.born # n.born
    BY <1>1, <2>2 DEF DraftsStamped
  <2>5. \A n, k \in N : n.born = k.born => n = k
    BY <1>1, <2>2 DEF DraftsStamped
  <2>6. AuditsStamped'
    BY <1>1, <2>1, <2>2, <2>3, <2>4, <2>5, AuditsGrow
  <2>7. draft'[r] = {} /\ \A q \in Requests : q # r => draft'[q] = draft[q]
    BY <1>1, <2>1 DEF TypeOK
  <2>8. DraftsStamped'
    <3> SUFFICES ASSUME NEW q \in Requests, NEW e \in draft'[q]
                 PROVE  /\ e.born < clock
                        /\ \A a \in audits \cup N : a.born # e.born
                        /\ \A p \in Requests : \A f \in draft'[p] : f.born = e.born => p = q /\ f = e
                        /\ \A m \in busy : run[m].born # e.born
      BY <2>1 DEF DraftsStamped
    <3>1. q # r /\ e \in draft[q] /\ \A p \in Requests : draft'[p] \subseteq draft[p]
      BY <2>7
    <3>2. \A n \in N : n.born # e.born
      BY <1>1, <2>2, <3>1 DEF DraftsStamped
    <3> QED
      BY <1>1, <3>1, <3>2 DEF DraftsStamped
  <2>9. StartsStamped'
    <3>1. \A n \in N : \A m \in busy : n.born # run[m].born
      BY <1>1, <2>2 DEF DraftsStamped
    <3> QED
      BY <1>1, <2>1, <3>1 DEF StartsStamped
  <2>10. RunsInOrder'
    <3>1. \A m \in Monitors : InOrder(audits \cup N, run[m])
      BY <1>1, <1>2, <2>2, <2>3, InOrderKept DEF RunsInOrder
    <3> QED
      BY <2>1, <3>1 DEF RunsInOrder
  <2>11. FeedLeads(audits, changes)'
    <3>1. FeedLeads(audits \cup N, changes)
      <4>1. \A b \in audits : b.born < clock
        BY <1>1 DEF AuditsStamped
      <4>2. \A n \in N : n.at = clock /\ n.by = "caller"
        BY <2>2
      <4> QED
        BY <1>1, <1>2, <2>3, <4>1, <4>2, FeedKept
    <3> QED
      BY <2>1, <3>1
  <2> QED
    BY <1>3, <2>6, <2>8, <2>9, <2>10, <2>11
<1>10. ASSUME NEW r \in Requests, AuditFails(r) PROVE AInv'
  <2>1. /\ draft' = [draft EXCEPT ![r] = {}]
        /\ UNCHANGED <<audits, changes, busy, run, clock>>
    BY <1>10 DEF AuditFails, tables, monitor, env
  <2>2. \A q \in Requests : draft'[q] \subseteq draft[q]
    BY <1>1, <2>1 DEF TypeOK
  <2> QED
    BY <1>3, <1>4, <1>5, <1>6, <1>7, <2>1, <2>2
<1>11. ASSUME NEW m \in Monitors, NEW j \in Jurisdictions, StartRun(m, j) PROVE AInv'
  <2> DEFINE R == [asAt |-> today, born |-> clock, todo |-> Monitored(j),
                   audits |-> {}, changes |-> {}]
  <2>1. /\ busy' = busy \cup {m} /\ run' = [run EXCEPT ![m] = R] /\ clock' = clock + 1
        /\ m \notin busy /\ UNCHANGED <<audits, changes, draft>>
    BY <1>11 DEF StartRun, tables, request
  <2>2. R.born = clock /\ R.todo = Monitored(j) /\ R.audits = {} /\ R.changes = {}
    OBVIOUS
  <2> HIDE DEF R
  <2>3. run'[m] = R /\ (\A n \in Monitors : n # m => run'[n] = run[n]) /\ busy \subseteq Monitors
    BY <1>1, <2>1 DEF TypeOK
  <2>4. InOrder(audits, R)
    <3>1. \A a \in R.todo : a \in audits /\ NewestAt(audits, a, R.born)
      BY <1>1, <2>2 DEF Monitored, IsNewest, AuditsOf, NewestAt, AuditsStamped
    <3>2. ASSUME NEW a \in R.todo, NEW b \in R.todo, a.lease = b.lease PROVE a = b
      <4>1. a \in audits /\ b \in audits /\ a.born <= b.born /\ b.born <= a.born
        BY <2>2, <3>2 DEF Monitored, IsNewest, AuditsOf
      <4>2. a.born = b.born
        BY <1>2, <4>1
      <4> QED
        BY <1>1, <3>2, <4>1, <4>2 DEF AuditsStamped
    <3> QED
      BY <2>2, <3>1, <3>2 DEF InOrder
  <2>5. RunsInOrder'
    BY <1>1, <2>1, <2>3, <2>4 DEF RunsInOrder
  <2>6. StartsStamped'
    <3>1. \A n \in busy : n # m /\ run'[n] = run[n] /\ run[n].born # clock
      BY <1>2, <2>1, <2>3
    <3>2. \A a \in audits : a.born # clock
      BY <1>1, <1>2 DEF AuditsStamped
    <3> QED
      BY <1>1, <2>1, <2>2, <2>3, <3>1, <3>2 DEF StartsStamped
  <2>7. DraftsStamped'
    <3>1. \A n \in busy : n # m /\ run'[n] = run[n]
      BY <2>1, <2>3
    <3>2. \A r \in Requests : \A d \in draft[r] : d.born < clock /\ d.born < clock' /\ d.born # clock
      BY <1>1, <1>2, <2>1 DEF DraftsStamped
    <3> QED
      BY <1>1, <2>1, <2>2, <2>3, <3>1, <3>2 DEF DraftsStamped
  <2> QED
    BY <1>3, <1>4, <1>7, <2>1, <2>5, <2>6, <2>7
<1>12. ASSUME NEW m \in Monitors, Reaudit(m) PROVE AInv'
  <2>1. PICK a \in run[m].todo :
          /\ \/ /\ run' = [run EXCEPT ![m].todo = @ \ {a}]
                /\ UNCHANGED clock
             \/ /\ Differs(a, run[m].asAt)
                /\ run' = [run EXCEPT ![m].todo = @ \ {a},
                                      ![m].audits = @ \cup {Reaudited(m, a)},
                                      ![m].changes = @ \cup {Change(m, a)}]
                /\ clock' = clock + 1
          /\ UNCHANGED <<audits, changes, draft, busy>>
    BY <1>12 DEF Reaudit, tables, request
  <2>2. run[m] \in RunState /\ InOrder(audits, run[m])
    BY <1>1, <1>2 DEF RunsInOrder
  <2>3. /\ \A n \in Monitors : n # m => run'[n] = run[n]
        /\ run'[m].born = run[m].born /\ busy \subseteq Monitors
    BY <1>1, <2>1, <2>2 DEF TypeOK, RunState
  <2>4. InOrder(audits, run'[m])
    <3>1. CASE run' = [run EXCEPT ![m].todo = @ \ {a}]
      <4>1. run'[m] = [run[m] EXCEPT !.todo = run[m].todo \ {a}]
        BY <1>1, <3>1 DEF TypeOK
      <4> QED
        BY <2>2, <4>1, SameInOrder
    <3>2. CASE /\ Differs(a, run[m].asAt)
               /\ run' = [run EXCEPT ![m].todo = @ \ {a},
                                     ![m].audits = @ \cup {Reaudited(m, a)},
                                     ![m].changes = @ \cup {Change(m, a)}]
      <4> DEFINE d == Reaudited(m, a)  c == Change(m, a)
      <4>1. run'[m] = [run[m] EXCEPT !.todo = run[m].todo \ {a}, !.audits = run[m].audits \cup {d},
                                     !.changes = run[m].changes \cup {c}]
        BY <1>1, <3>2 DEF TypeOK
      <4>2. Turn(run[m], a, d, c)
        BY <3>2 DEF Turn, Reaudited, ReauditBorn, Change, Differs
      <4> HIDE DEF d, c
      <4>3. InOrder(audits, [run[m] EXCEPT !.todo = run[m].todo \ {a},
                                           !.audits = run[m].audits \cup {d},
                                           !.changes = run[m].changes \cup {c}])
        BY <2>2, <4>2, TurnInOrder, Zenon
      <4> QED
        BY <4>1, <4>3, Zenon
    <3> QED
      BY <2>1, <3>1, <3>2
  <2>5. RunsInOrder'
    BY <1>1, <2>1, <2>3, <2>4 DEF RunsInOrder
  <2>6. \A n \in busy : run'[n].born = run[n].born
    BY <2>3
  <2>7. StartsStamped'
    BY <1>1, <2>1, <2>6 DEF StartsStamped
  <2>8. clock' = clock \/ clock' = clock + 1
    BY <2>1
  <2>9. DraftsStamped'
    BY <1>1, <1>2, <2>1, <2>6, <2>8 DEF DraftsStamped
  <2> QED
    BY <1>3, <1>4, <1>7, <2>1, <2>5, <2>7, <2>8, <2>9
<1>13. ASSUME NEW m \in Monitors, EndRun(m), UNCHANGED <<draft, clock>>
       PROVE  /\ \A n \in busy' : n \in busy /\ n # m /\ run'[n] = run[n]
              /\ \A A : (\A n \in Monitors : InOrder(A, run[n])) =>
                           \A n \in Monitors : InOrder(A, run'[n])
  <2>1. \A n \in Monitors : run'[n] = IF n = m THEN Idle ELSE run[n]
    BY <1>1, <1>13 DEF EndRun, TypeOK
  <2>2. \A A : InOrder(A, Idle)
    BY DEF InOrder, Idle
  <2>3. busy \subseteq Monitors
    BY <1>1 DEF TypeOK
  <2> QED
    BY <1>13, <2>1, <2>2, <2>3 DEF EndRun
<1>14. ASSUME NEW m \in Monitors, CommitRun(m) PROVE AInv'
  <2> DEFINE N == {Committed(a, "monitor") : a \in run[m].audits}
  <2>1. /\ m \in busy /\ audits' = audits \cup N /\ changes' = changes \cup run[m].changes
        /\ EndRun(m) /\ UNCHANGED <<draft, clock>>
    BY <1>14 DEF CommitRun, request, env
  <2>2. \A n \in N : /\ n.at = clock /\ n.by = "monitor"
                     /\ \E d \in run[m].audits : n = Committed(d, "monitor") /\ RowOf(n, d)
    BY DEF Committed, RowOf
  <2>3. ASSUME NEW d \in run[m].audits PROVE \E n \in N : RowOf(n, d)
    <3>1. Committed(d, "monitor") \in N /\ RowOf(Committed(d, "monitor"), d)
      BY DEF Committed, RowOf
    <3> QED
      BY <3>1
  <2>4. N \in SUBSET Row
    BY <1>1, <1>2, CommittedRow
  <2> HIDE DEF N
  <2>5. \A d \in run[m].audits : d.born = run[m].born
    BY <1>1 DEF RunsInOrder, InOrder
  <2>6. \A n \in N : n.born = run[m].born /\ n.born < clock /\ \A a \in audits : a.born # n.born
    BY <1>1, <1>2, <2>1, <2>2, <2>5 DEF StartsStamped, RowOf
  <2>7. \A n, k \in N : n.lease = k.lease => n = k
    BY <1>1, <2>2 DEF RunsInOrder, InOrder, RowOf
  <2>8. AuditsStamped'
    BY <1>1, <2>1, <2>2, <2>4, <2>6, <2>7, AuditsGrow
  <2>9. \A n \in busy' : n \in busy /\ n # m /\ run'[n] = run[n]
    BY <1>13, <2>1
  <2>10. DraftsStamped'
    BY <1>1, <2>1, <2>6, <2>9 DEF DraftsStamped
  <2>11. StartsStamped'
    BY <1>1, <2>1, <2>6, <2>9 DEF StartsStamped
  <2>12. RunsInOrder'
    <3>1. \A n \in Monitors : InOrder(audits \cup N, run[n])
      BY <1>1, <1>2, <2>2, <2>4, InOrderKept DEF RunsInOrder
    <3> QED
      BY <1>13, <2>1, <3>1 DEF RunsInOrder
  <2>13. FeedLeads(audits, changes)'
    <3>1. \A b \in audits : b.born < clock /\ b.born # run[m].born
      BY <1>1, <2>1 DEF AuditsStamped, StartsStamped
    <3>2. InOrder(audits, run[m])
      BY <1>1 DEF RunsInOrder
    <3>3. RowsOf(N, audits, run[m], clock)
      BY <1>2, <2>2, <2>3, <3>1 DEF RowsOf
    <3>4. FeedLeads(audits \cup N, changes \cup run[m].changes)
      BY <1>1, <1>2, <2>4, <3>2, <3>3, RunLeads
    <3> QED
      BY <2>1, <3>4
  <2> QED
    BY <1>3, <2>8, <2>10, <2>11, <2>12, <2>13
<1>15. ASSUME NEW m \in Monitors, RunFails(m) PROVE AInv'
  <2>1. EndRun(m) /\ UNCHANGED <<audits, changes, draft, clock>>
    BY <1>15 DEF RunFails, tables, request
  <2>2. \A n \in busy' : n \in busy /\ run'[n] = run[n]
    BY <1>13, <2>1
  <2>3. DraftsStamped' /\ StartsStamped'
    BY <1>1, <2>1, <2>2 DEF DraftsStamped, StartsStamped
  <2>4. RunsInOrder'
    BY <1>1, <1>13, <2>1 DEF RunsInOrder
  <2> QED
    BY <1>3, <1>4, <1>7, <2>1, <2>3, <2>4
<1>16. ASSUME Poll \/ NextDay \/ UNCHANGED vars PROVE AInv'
  <2>1. UNCHANGED <<audits, changes, draft, busy, run, clock>>
    BY <1>16 DEF Poll, NextDay, vars, tables, request, monitor, env
  <2>2. \A q \in Requests : draft'[q] \subseteq draft[q]
    BY <2>1
  <2> QED
    BY <1>3, <1>4, <1>5, <1>6, <1>7, <2>1, <2>2
<1> QED
  BY <1>8, <1>9, <1>10, <1>11, <1>12, <1>14, <1>15, <1>16 DEF Next

\* Every audit the monitor wrote has exactly one change that leads to it, from an
\* earlier audit of the same lease and input with other findings: however many
\* runs and requests go on side by side and whatever fails (runner.py 57-89).
THEOREM FeedExplains == Spec => []ChangesExplainAudits
<1>1. AInv => ChangesExplainAudits
  <2> SUFFICES ASSUME AInv PROVE ChangesExplainAudits
    OBVIOUS
  <2>1. FeedLeads(audits, changes)
    BY DEF AInv
  <2> QED
    BY <2>1 DEF FeedLeads, Leads, NewestAt, ChangesExplainAudits, AuditsOf
<1> QED
  BY <1>1, InitAInv, NextAInv, PTL DEF Spec

-----------------------------------------------------------------------------
(* Whose data the newest audit carries.                                     *)

LEMMA LessIsARelation == OpToRel(<, Nat) = {p \in Nat \X Nat : p[1] < p[2]}
  BY Zenon DEF OpToRel

\* A nonempty set of natural numbers has a least element.
LEMMA LeastElement ==
  ASSUME NEW S \in SUBSET Nat, S # {}
  PROVE  \E n \in S : \A m \in S : n <= m
<1> DEFINE Less == {p \in Nat \X Nat : p[1] < p[2]}
<1>1. PICK n \in S : \A m \in S : <<m, n>> \notin Less
  <2>1. IsWellFoundedOn(Less, Nat)
    BY NatLessThanWellFounded, LessIsARelation, Zenon
  <2> HIDE DEF Less
  <2> QED
    BY <2>1, WFMin
<1>2. \A m \in S : ~(m < n)
  BY <1>1
<1> QED
  BY <1>1, <1>2

\* A lease that was audited has a newest audit.
LEMMA NewestExists ==
    ASSUME AInv, NEW u \in audits
    PROVE  \E a \in AuditsOf(u.lease) : IsNewest(a)
<1> DEFINE S == {n \in Nat : \E a \in AuditsOf(u.lease) : n = clock - a.born}
<1>1. clock \in Nat /\ \A a \in audits : a.born \in Nat /\ a.born < clock
  BY Stamped DEF AInv, AuditsStamped
<1>2. clock - u.born \in S
  BY <1>1 DEF AuditsOf
<1>3. PICK n \in S : \A k \in S : n <= k
  <2>1. S \in SUBSET Nat /\ S # {}
    BY <1>2
  <2> HIDE DEF S
  <2> QED
    BY <2>1, LeastElement
<1>4. PICK a \in AuditsOf(u.lease) : n = clock - a.born
  BY <1>3
<1>5. ASSUME NEW b \in AuditsOf(a.lease) PROVE b.born <= a.born
  <2>1. a.lease = u.lease /\ a \in audits /\ b \in audits /\ b \in AuditsOf(u.lease)
    BY DEF AuditsOf
  <2>2. clock - b.born \in S
    BY <1>1, <2>1
  <2>3. clock - a.born <= clock - b.born
    BY <1>3, <1>4, <2>2
  <2> QED
    BY <1>1, <2>1, <2>3
<1> QED
  BY <1>4, <1>5 DEF IsNewest

\* Re-audits pass on the data of the submission they found.
LEMMA DataPassedOn ==
    ASSUME AInv, NEW u \in audits,
           \A a \in AuditsOf(u.lease) : a.born > u.born => a.by = "monitor" /\ a.born >= u.at,
           NEW a \in AuditsOf(u.lease), a.born >= u.born
    PROVE  a.input = u.input
<1> DEFINE S == {n \in Nat : \E b \in AuditsOf(u.lease) :
                               b.born = n /\ n >= u.born /\ b.input # u.input}
<1>1. \A b \in audits : b.born \in Nat /\ b.at \in Nat
  BY Stamped DEF AInv
<1>2. ASSUME S # {} PROVE FALSE
  <2>1. PICK n \in S : \A k \in S : n <= k
    <3>1. S \in SUBSET Nat
      OBVIOUS
    <3> HIDE DEF S
    <3> QED
      BY <1>2, <3>1, LeastElement
  <2>2. PICK b \in AuditsOf(u.lease) : b.born = n /\ n >= u.born /\ b.input # u.input
    BY <2>1
  <2>3. b \in audits /\ b.lease = u.lease /\ b.born \in Nat /\ u.born \in Nat /\ u.at \in Nat
    BY <1>1 DEF AuditsOf
  <2>4. b.born # u.born
    <3>1. b.born = u.born => b = u
      BY <2>3 DEF AInv, AuditsStamped
    <3> QED
      BY <2>2, <3>1
  <2>5. b.by = "monitor" /\ u.at <= b.born
    BY <2>2, <2>3, <2>4
  <2>6. PICK d \in audits : \E c \in changes : Leads(audits, c, d, b)
    BY <2>3, <2>5 DEF AInv, FeedLeads
  <2>7. d.lease = u.lease /\ d.input = b.input /\ d.born < b.born /\ u.born <= d.born
    BY <2>3, <2>5, <2>6 DEF Leads, NewestAt
  <2>8. d.born \in S
    BY <1>1, <2>2, <2>7 DEF AuditsOf
  <2>9. n <= d.born /\ d.born < n /\ n \in Nat /\ d.born \in Nat
    BY <1>1, <2>1, <2>2, <2>7, <2>8
  <2> QED
    BY <2>9
<1>3. a.born \in Nat
  BY <1>1 DEF AuditsOf
<1> QED
  BY <1>2, <1>3

\* The newest audit of a lease carries what its caller submitted last, unless a
\* run of the monitor started while that submission was in flight: for any number
\* of requests and runs side by side (runner.py 38-54, 67-75).
THEOREM SubmissionsGovern == Spec => []SubmissionGoverns
<1>1. AInv => SubmissionGoverns
  <2> SUFFICES ASSUME AInv, NEW u \in audits, u.by = "caller",
                      \A a \in AuditsOf(u.lease) : a.born > u.born => a.by = "monitor",
                      \A a \in AuditsOf(u.lease) : a.born > u.born => ~(a.born < u.at)
               PROVE  \E a \in AuditsOf(u.lease) : IsNewest(a) /\ a.input = u.input
    BY DEF SubmissionGoverns
  <2>1. \A a \in audits : a.born \in Nat /\ a.at \in Nat
    BY Stamped DEF AInv
  <2>2. \A a \in AuditsOf(u.lease) : a.born > u.born => a.by = "monitor" /\ a.born >= u.at
    BY <2>1 DEF AuditsOf
  <2>3. PICK a \in AuditsOf(u.lease) : IsNewest(a)
    BY NewestExists
  <2>4. a.born >= u.born
    BY <2>1, <2>3 DEF IsNewest, AuditsOf
  <2>5. a.input = u.input
    BY <2>2, <2>4, DataPassedOn
  <2> QED
    BY <2>3, <2>5
<1> QED
  BY <1>1, InitAInv, NextAInv, PTL DEF Spec

-----------------------------------------------------------------------------
(* Runs that follow each other.                                             *)

\* What the monitor wrote was there before the run in progress began.
MonitorFirst == \A m \in busy : \A b \in audits : b.by = "monitor" => b.at <= run[m].born

LEMMA NextMonitorFirst ==
    ASSUME OneAtATime, AInv, MonitorFirst, [Next]_vars
    PROVE  MonitorFirst'
<1>1. TypeOK /\ RunsStamped /\ AuditsStamped /\ busy \subseteq Monitors
  BY DEF AInv, TypeOK
<1>2. clock \in Nat /\ \A a \in audits : a.at \in Nat /\ a.at <= clock
  BY <1>1, Stamped DEF AuditsStamped
<1>3. CASE \E m \in Monitors, j \in Jurisdictions : StartRun(m, j)
  <2> PICK m \in Monitors, j \in Jurisdictions : StartRun(m, j)
    BY <1>3
  <2>1. /\ busy' = busy \cup {m} /\ run'[m].born = clock /\ audits' = audits
        /\ \A n \in Monitors : n = m
    BY <1>1 DEF StartRun, OneAtATime, TypeOK, tables
  <2>2. \A n \in busy' : n = m
    BY <1>1, <2>1
  <2> QED
    BY <1>2, <2>1, <2>2 DEF MonitorFirst
<1>4. CASE \E m \in Monitors : Reaudit(m)
  <2> PICK m \in Monitors : Reaudit(m)
    BY <1>4
  <2>1. run[m] \in RunState
    BY <1>1 DEF TypeOK
  <2>2. /\ busy' = busy /\ audits' = audits /\ run'[m].born = run[m].born
        /\ \A n \in Monitors : n # m => run'[n] = run[n]
    BY <1>1, <2>1 DEF Reaudit, tables, TypeOK, RunState
  <2>3. \A n \in busy : run'[n].born = run[n].born
    BY <1>1, <2>2
  <2> QED
    BY <2>2, <2>3 DEF MonitorFirst
<1>5. CASE \E m \in Monitors : CommitRun(m)
  <2>1. busy' = {}
    BY <1>1, <1>5 DEF CommitRun, EndRun, OneAtATime
  <2> QED
    BY <2>1 DEF MonitorFirst
<1>6. CASE \E m \in Monitors : RunFails(m)
  <2> PICK m \in Monitors : RunFails(m)
    BY <1>6
  <2>1. audits' = audits /\ \A n \in busy' : n \in busy /\ run'[n] = run[n]
    BY <1>1 DEF RunFails, EndRun, tables, TypeOK
  <2> QED
    BY <2>1 DEF MonitorFirst
<1>7. CASE \E r \in Requests : CommitAudit(r)
  <2>1. /\ UNCHANGED <<busy, run>>
        /\ \A b \in audits' : b.by = "monitor" => b \in audits
    BY <1>7 DEF CommitAudit, Committed, monitor
  <2> QED
    BY <2>1 DEF MonitorFirst
<1>8. CASE UNCHANGED <<audits, busy, run>>
  BY <1>8 DEF MonitorFirst
<1>9. \/ UNCHANGED <<audits, busy, run>>
      \/ \E r \in Requests : CommitAudit(r)
      \/ \E m \in Monitors : \/ \E j \in Jurisdictions : StartRun(m, j)
                             \/ Reaudit(m) \/ CommitRun(m) \/ RunFails(m)
  BY DEF Next, BeginAudit, AuditFails, Poll, NextDay, vars, tables, monitor
<1> QED
  BY <1>3, <1>4, <1>5, <1>6, <1>7, <1>8, <1>9

LEMMA NextOneChange ==
    ASSUME AInv, MonitorFirst, OneChangePerAudit, [Next]_vars
    PROVE  OneChangePerAudit'
<1>1. CASE UNCHANGED changes
  BY <1>1 DEF OneChangePerAudit
<1>2. CASE \E m \in Monitors : CommitRun(m)
  <2> PICK m \in Monitors : CommitRun(m)
    BY <1>2
  <2>1. m \in busy /\ changes' = changes \cup run[m].changes
    BY DEF CommitRun
  <2>2. InOrder(audits, run[m]) /\ FeedLeads(audits, changes)
    BY DEF AInv, RunsInOrder
  <2>3. \A a \in audits : a.born \in Nat
    BY Stamped DEF AInv
  <2>4. ASSUME NEW c \in changes, NEW e \in run[m].changes, c.lease = e.lease, c.old = e.old
        PROVE  FALSE
    <3>1. PICK b \in audits : b.by = "monitor" /\ \E a \in audits : Leads(audits, c, a, b)
      BY <2>2 DEF FeedLeads
    <3>2. b.lease = c.lease /\ c.old < b.born /\ b.at <= run[m].born
      BY <2>1, <3>1 DEF Leads, NewestAt, MonitorFirst
    <3>3. PICK d \in run[m].audits : \E a \in audits : Leads(audits, e, a, d)
      BY <2>2 DEF InOrder
    <3>4. PICK a \in audits : Leads(audits, e, a, d)
      BY <3>3
    <3>5. d.born = run[m].born /\ a.born = e.old /\ a.lease = e.lease
          /\ NewestAt(audits, a, d.born)
      BY <2>2, <3>4 DEF InOrder, Leads
    <3>6. b.born <= a.born
      BY <2>4, <3>2, <3>5 DEF NewestAt
    <3>7. a.born < b.born /\ a.born \in Nat /\ b.born \in Nat
      BY <2>3, <2>4, <3>2, <3>5
    <3> QED
      BY <3>6, <3>7
  <2> QED
    BY <2>1, <2>2, <2>4 DEF OneChangePerAudit, InOrder
<1> QED
  BY <1>1, <1>2 DEF Next, BeginAudit, CommitAudit, AuditFails, StartRun, Reaudit, RunFails, Poll,
                    NextDay, vars, tables

\* Runs one after the other report a difference once (runner.py 38-54).
THEOREM DifferencesReportedOnce == ASSUME OneAtATime PROVE Spec => []OneChangePerAudit
<1>1. Init => MonitorFirst /\ OneChangePerAudit
  BY DEF Init, MonitorFirst, OneChangePerAudit
<1>2. AInv /\ MonitorFirst /\ OneChangePerAudit /\ [Next]_vars =>
        MonitorFirst' /\ OneChangePerAudit'
  BY NextMonitorFirst, NextOneChange
<1> QED
  BY <1>1, <1>2, InitAInv, NextAInv, PTL DEF Spec
=============================================================================
