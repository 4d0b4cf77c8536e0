---------------------------- MODULE CorpusStore ----------------------------
(***************************************************************************)
(* The temporal legislation store of one instrument: load_version          *)
(* (app/ingest/loader.py), the runs that call it (app/ingest/__main__.py,  *)
(* app/monitor/__main__.py), the reader section_at                         *)
(* (app/services/legislation.py) and the wipe (scripts/rebuild-corpus.py). *)
(*                                                                         *)
(* A run works in one transaction: it loads its versions one by one into   *)
(* its own view of the tables and commits them together, or rolls back.    *)
(***************************************************************************)
EXTENDS Integers, FiniteSets

CONSTANTS
    Dates,             \* version dates
    Sections,          \* section numbers
    Texts,             \* content hashes (heading and body)
    Absent,            \* "this version has no such section"
    LimitTakes,        \* which end --limit-versions keeps: "oldest" (nsw), "newest" (vic)
    PublishedInOrder,  \* does the publisher only ever add later versions?
    MayParseEmpty,     \* may the parser find no section in a version?
    MayWipe,           \* does an operator ever wipe the instrument?
    MaxSuperseded,     \* bound on versions replaced under the same date
    MaxRunFailures     \* bound on runs cut short by the network or the database

ASSUME DateAssumption == Dates \subseteq Nat \ {0}
ASSUME AbsentAssumption == Absent \notin Texts
ASSUME LimitAssumption == LimitTakes \in {"oldest", "newest"}
ASSUME CorpusBoundAssumption ==
    /\ PublishedInOrder \in BOOLEAN /\ MayParseEmpty \in BOOLEAN /\ MayWipe \in BOOLEAN
    /\ MaxSuperseded \in Nat /\ MaxRunFailures \in Nat

Open == 0   \* valid_to IS NULL

VARIABLES
    \* the publisher
    published,   \* dates on the version timeline
    content,     \* content[d][n]: section n in the version published for d
    superseded,  \* how many versions were replaced so far
    \* committed tables
    rows,        \* sections: [no, text, from, to]
    ingested,    \* ingested_versions
    \* the run in progress
    running, todo, workRows, workIngested,
    failed,      \* runs cut short so far
    \* history
    loaded       \* loaded[d]: the content of version d when it was loaded

publisher == <<published, content, superseded>>
tables    == <<rows, ingested>>
work      == <<todo, workRows, workIngested>>
vars      == <<publisher, tables, running, work, failed, loaded>>

Contents ==
    {c \in [Sections -> Texts \cup {Absent}] :
        MayParseEmpty \/ \E n \in Sections : c[n] # Absent}

-----------------------------------------------------------------------------
(* load_version on a given state of the tables.                             *)

OpenRows(R) == {r \in R : r.to = Open}

\* Open rows whose section vanished or reads differently in c.
Stale(R, c) == {r \in OpenRows(R) : c[r.no] # r.text}

\* Sections of c that no open row already holds with the same text.
Fresh(R, c) ==
    {n \in Sections : c[n] # Absent /\ ~\E r \in OpenRows(R) : r.no = n /\ r.text = c[n]}

Loaded(R, v, c) ==
    (R \ Stale(R, c))
    \cup {[r EXCEPT !.to = v] : r \in Stale(R, c)}
    \cup {[no |-> n, text |-> c[n], from |-> v, to |-> Open] : n \in Fresh(R, c)}

Empty(c) == \A n \in Sections : c[n] = Absent

OutOfOrder(I, v) == \E w \in I : v < w

-----------------------------------------------------------------------------
(* section_at                                                               *)

InForce_ClosedInclusive(R, n, d) ==
    {r \in R : r.no = n /\ r.from <= d /\ (r.to = Open \/ r.to >= d)}

InForce(R, n, d) ==
    {r \in R : r.no = n /\ r.from <= d /\ (r.to = Open \/ r.to > d)}

\* What a reader is told: scalar_one_or_none of the rows in force.
SectionAt(R, n, d) ==
    IF InForce(R, n, d) = {} THEN Absent ELSE (CHOOSE r \in InForce(R, n, d) : TRUE).text

-----------------------------------------------------------------------------
Init ==
    /\ published = {}
    /\ content \in [Dates -> Contents]
    /\ superseded = 0
    /\ rows = {} /\ ingested = {}
    /\ running = FALSE
    /\ todo = {} /\ workRows = {} /\ workIngested = {}
    /\ failed = 0
    /\ loaded = content

Publish(d) ==
    /\ d \notin published
    /\ PublishedInOrder => \A p \in published : p < d
    /\ published' = published \cup {d}
    /\ UNCHANGED <<content, superseded, tables, running, work, failed, loaded>>

\* A version number replaces another of the same effective date (fetcher_vic
\* list_versions keeps the highest): the timeline's text of that date changes.
Supersede(d) ==
    /\ d \in published
    /\ superseded < MaxSuperseded
    /\ superseded' = superseded + 1
    /\ \E c \in Contents \ {content[d]} : content' = [content EXCEPT ![d] = c]
    /\ UNCHANGED <<published, tables, running, work, failed, loaded>>

StartRun(versions) ==
    /\ ~running
    /\ running' = TRUE
    /\ todo' = versions
    /\ workRows' = rows
    /\ workIngested' = ingested
    /\ UNCHANGED <<publisher, tables, failed, loaded>>

\* The monitor loads the timeline dates that are not ingested yet.
StartRefresh ==
    /\ published \ ingested # {}
    /\ StartRun(published \ ingested)

\* The ingest command loads the timeline, or with --limit-versions one end of it.
Limited(versions) ==
    /\ versions \subseteq published
    /\ \A v \in versions, p \in published \ versions :
        IF LimitTakes = "oldest" THEN v < p ELSE p < v

StartIngest ==
    \E versions \in SUBSET published :
        versions # {} /\ Limited(versions) /\ StartRun(versions)

IsNext(v) == v \in todo /\ \A w \in todo : v <= w

\* A version without sections or older than an ingested one raises. One that is
\* there is not looked at again, but load_all_vic asks for sections first.
Refused(v) ==
    \/ Empty(content[v]) /\ (v \notin workIngested \/ LimitTakes = "newest")
    \/ v \notin workIngested /\ OutOfOrder(workIngested, v)

\* A version that is already there is skipped, any other legal one is applied.
LoadVersion(v) ==
    /\ running
    /\ IsNext(v)
    /\ ~Refused(v)
    /\ todo' = todo \ {v}
    /\ \/ /\ v \in workIngested
          /\ UNCHANGED <<workRows, workIngested, loaded>>
       \/ /\ v \notin workIngested
          /\ workRows' = Loaded(workRows, v, content[v])
          /\ workIngested' = workIngested \cup {v}
          /\ loaded' = [loaded EXCEPT ![v] = content[v]]
    /\ UNCHANGED <<publisher, tables, running, failed>>

RollBack ==
    /\ running' = FALSE
    /\ todo' = {} /\ workRows' = {} /\ workIngested' = {}

\* A version that is refused ends the run.
RejectVersion(v) ==
    /\ running
    /\ IsNext(v)
    /\ Refused(v)
    /\ RollBack
    /\ UNCHANGED <<publisher, tables, failed, loaded>>

\* Fetching, parsing or the database raises.
RunFails ==
    /\ running
    /\ failed < MaxRunFailures
    /\ failed' = failed + 1
    /\ RollBack
    /\ UNCHANGED <<publisher, tables, loaded>>

Commit_Forgotten ==
    /\ running
    /\ todo = {}
    /\ RollBack
    /\ UNCHANGED <<publisher, tables, failed, loaded>>

Commit ==
    /\ running
    /\ todo = {}
    /\ rows' = workRows
    /\ ingested' = workIngested
    /\ RollBack
    /\ UNCHANGED <<publisher, failed, loaded>>

\* rebuild-corpus: an operator deletes the instrument between runs.
Wipe ==
    /\ MayWipe
    /\ ~running
    /\ rows' = {} /\ ingested' = {}
    /\ UNCHANGED <<publisher, running, work, failed, loaded>>

Next ==
    \/ \E d \in Dates : Publish(d) \/ Supersede(d) \/ LoadVersion(d) \/ RejectVersion(d)
    \/ StartRefresh \/ StartIngest
    \/ RunFails \/ Commit \/ Wipe

Spec == Init /\ [][Next]_vars

(* The monitor comes round again and again; a run that is not cut short goes *)
(* on to its next version and to its commit.                                 *)
Fairness ==
    /\ SF_vars(StartRefresh)
    /\ WF_vars(\E d \in Dates : LoadVersion(d) \/ RejectVersion(d))
    /\ WF_vars(Commit)

FairSpec == Spec /\ Fairness

-----------------------------------------------------------------------------
Row == [no : Sections, text : Texts, from : Dates, to : Dates \cup {Open}]

\* The tables and the run hold what the code puts there.
TypeOK ==
    /\ published \subseteq Dates
    /\ content \in [Dates -> Contents] /\ loaded \in [Dates -> Contents]
    /\ superseded \in 0..MaxSuperseded /\ failed \in 0..MaxRunFailures
    /\ rows \subseteq Row /\ workRows \subseteq Row
    /\ ingested \subseteq Dates /\ workIngested \subseteq Dates
    /\ running \in BOOLEAN
    /\ todo \subseteq Dates

\* No reader can meet two rows for one section at one date, the case in which
\* scalar_one_or_none would raise (services/legislation.py 23, loader.py 65-89).
WindowsDisjoint ==
    \A r, q \in rows : r.no = q.no /\ r # q =>
        \/ r.to # Open /\ r.to <= q.from
        \/ q.to # Open /\ q.to <= r.from

\* The windows left behind by every run, failed run and wipe answer each date
\* with the latest version ingested by then, as it was loaded, and with nothing
\* before the first (loader.py 24-92, services/legislation.py 9-23).
Governing(v, d) == v \in ingested /\ v <= d /\ \A w \in ingested : w <= d => w <= v

LookupFaithful ==
    \A d \in Dates, n \in Sections :
        /\ \A v \in ingested : Governing(v, d) => SectionAt(rows, n, d) = loaded[v][n]
        /\ (\A v \in ingested : d < v) => SectionAt(rows, n, d) = Absent

\* A newly ingested version never rewrites what was in force before it
\* (change-monitor design, lines 7-8): stored audits stay reproducible.
HistoryStable ==
    [][ ingested \subseteq ingested' =>
          \A d \in Dates, n \in Sections :
            (\A v \in ingested' \ ingested : d < v) =>
                SectionAt(rows', n, d) = SectionAt(rows, n, d) ]_vars

\* The store with its windows, runs and rollbacks is a point-in-time store.
P == INSTANCE PointInTime WITH
        known <- ingested,
        text <- loaded,
        answer <- [d \in Dates |-> [n \in Sections |-> SectionAt(rows, n, d)]]
PointInTimeStore == P!StoreSpec

\* Every version published in order reaches the store, whatever runs were cut
\* short or limited to the oldest versions and however often the store was wiped
\* (monitor/__main__.py 25-60).
EveryVersionIngested ==
    \A d \in Dates : d \in published ~> d \in ingested
=============================================================================
