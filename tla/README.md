# Formal models of the lease compliance service

TLA+ modules that model the service under `src/`, TLC configurations that check
them on small instances, and theorems that TLAPS proves for every value of the
constants. Paths below are relative to `src/`.

## The system

The service audits residential leases in NSW and Victoria. A FastAPI process
serves tenants (customers of the service) and runs one background worker; a
daily script runs the legislation monitor and the rent statistics against the
same PostgreSQL database. Everything in a process runs on one asyncio event
loop, so code between two `await`s is atomic, and interleavings happen at the
awaits: database round trips, locks, HTTP and model calls.

| part | state | operations | who it talks to |
|---|---|---|---|
| clause-audit jobs (`app/routers/clause_audits.py`, `app/clause_audit/worker.py`, `processor.py`) | table `clause_audit_jobs`, usage counters, one lock per tenant | POST (cap, quota, insert, bill), the worker's claim / success / failure, the sweep at start | the judge; restarts |
| provider failover (`app/llm/failover.py`) | circuit breaker, models used | a call and its outcomes, cancellation, drain | the worker calls it, it calls two providers |
| legislation store (`app/ingest/`, `app/services/legislation.py`) | `acts`, `sections` with validity windows, `ingested_versions` | `load_version`, ingest and refresh runs, wipe, `section_at` | publishers' sites; read by rules, citations, endpoints |
| tenant access (`app/core/auth.py`, `ratelimit.py`) | `api_keys`, `tenants`, a cache and buckets in the process | lookup, cache, rate limit, import of environment keys at start | in front of every endpoint |
| tenant administration (`app/tenants/`, `app/routers/admin.py`) | the same tables | new and revoked keys, status, limits, reports | changes what access decides on |
| audits, monitor, change feed (`app/routers/audits.py`, `app/monitor/`, `app/routers/changes.py`) | `audits`, `audit_changes`, usage counters | create, re-audit a jurisdiction, poll | rules engine, legislation store |
| rules engine (`app/rules/`) | none | verdicts and citations for a lease on a day | legislation store |
| clause families and standard form (`app/clause_audit/families.py`, `standard_form.py`, `verify.py`, `rules*.py`) | none | screen, judge and verify the clauses of a document | judge, legislation store |
| rent statistics (`app/rent_stats/`) | `rent_source_files`, `rent_bond_lodgements`, `rent_statistics` | backfill, update, query | publishers' sites |
| rent suggestions, market rent (`app/rent_suggest/`, `app/market_rent/`) | none | anchor arithmetic, law card, judge, clamp | statistics, judge |
| Victorian parser (`app/ingest/parser_vic.py`) | the open schedule, form, term and clause while it reads | `parse_docx`, paragraph by paragraph | its sections go to `load_version` |
| NSW parser (`app/ingest/parser.py`), prompts and adapters (`app/llm/`), read-only endpoints, configuration, migrations, deployment | none of their own | | |

What is hard here: handlers that interleave between the count, the check and
the insert of a job; rows stamped with the start of their transaction and
checked against a later clock; a worker that can fail while it records a
failure; a breaker whose probe can be cancelled; half-open validity windows
filled by runs that may come in any order and roll back; a cache that a slow
lookup overwrites with what it read before a revocation; a feed read by cursor
whose rows become visible in the order of commits; workbooks that come late and
are corrected; periods of calendar months over ends of months and leap days; a
range computed from amounts that are each rounded by themselves; a parser that
takes back what it wrote when the numbers of a form restart; a report put
together from a screen, batches of model calls and queries between which the law
changes. `PROJECT.json` lists each hazard at its line.

What makes each part correct, in one line:

- jobs: limits hold under races, every accepted job settles, a document lives
  exactly as long as its job is unsettled, each job is billed once and names
  the models that answered;
- breaker: never stranded, never calls a primary before its cooldown is over,
  fails over and recovers;
- store: a date is answered with the version in force on it, and history is not
  rewritten;
- access: decisions are at most one TTL old, a revoked key stays revoked, bursts
  and refills bound every interval;
- feed: every change explains one re-audit, is reported once and reaches a
  polling client; the newest submission governs;
- statistics: made from the rows that are there, served from the newest workbook;
- rules: an audit of a day finds the same whenever it is made, and the checks of
  neighbouring dates mean what the statutes say of any twelve months;
- parser: keys are unique, and nothing is lost but forms that restart;
- clause audit: one finding for every rule and term, judged by the text it
  cites; no edited term passes without the model;
- suggestions: never below the rent, never past the cap, never an unlawful raise.

## Modules

### FailoverJudge — `app/llm/failover.py`

One shared `FailoverJudge`. A call is split at its await: `CallPrimary`,
`CallProbe` or `CallBackup` chooses the provider from `state`, `failures` and
the clock, and one of the outcome actions ends it; `Cancel` is a call cut off
from outside (job deadline, shutdown, any exception that is no `JudgeError`).
The adapters (`app/llm/providers/`) appear as the class of outcome they raise.
The environment moves the primary between up, down and hung. `sinceTrip` stands
for the clock minus `_opened_at`, saturated at the cooldown.

### ClauseJobs, JobLifecycle — the job API and its worker

`JobLifecycle` is the abstract life of one job (absent, pending, running, then
succeeded or failed). `ClauseJobs` implements it (`Lifecycle`). A job is named
by the request that makes it, as a request makes at most one. A handler takes
the tenant lock, counts what is in flight, checks the day's quota, records usage
and inserts, commits; each await is a step of its own and each may raise. `holder`
is the lock of each tenant: `Enter` takes it, `Leave` is the end of the
`async with` and gives it back, after a commit, a refusal or an exception alike.
Failing queries of handlers are not counted, as each ends its request; `faults`
counts the failing round trips of the worker. The worker claims the oldest pending job,
processes it with any models answering, and commits success; any exception goes
to `_fail`, which may itself raise. A success commit may also be applied and
then raise. `Crash` loses everything in the process, `Start` sweeps rows left
running. `bornOn` and `stamp` are the day and the order of `created_at`, which
PostgreSQL takes at the start of the transaction.

### CorpusStore, PointInTime — the legislation store

`PointInTime` promises: a lookup on a date returns the text of the latest
version ingested by that date. `CorpusStore` implements it with half-open rows
(`PointInTimeStore`). One instrument; a run works in one transaction on its own
view (`workRows`, `workIngested`), loads its versions one by one with the
rejections of `load_version`, and commits or rolls back all of them (`Refused`;
`load_all_vic` asks for sections before it asks whether the version is there). Duplicate
sections in a version make `load_version` raise like any other failure of the
run (`RunFails`). Publishers add versions, in order or not, and may replace a
version under its date (`Supersede`). `LimitTakes` is the end from which
`--limit-versions` takes versions: oldest first for NSW, newest for Victoria.

### TenantAccess — keys, cache, rate limit, commands

One tenant with several keys; tenants share neither cache entries nor buckets.
A lookup that misses is split where it awaits the database (query, stamp,
commit), so two of them overtake each other; a hit runs in one step, bucket
included. The bucket counts in units of 1/`MINUTE` token, so refills are exact;
`MINUTE` is scaled down from 60. PATCH is `SetLimits` followed by `SetStatus`,
as the code commits each. `Restart` imports what `API_KEYS` now lists.

### AuditMonitor — audits, monitor, change feed

One tenant; a lease is a `client_ref`. What the rules say is a function of the
input and of the day (`verdictOn`): a new version of the law or of the engine is
one more reason why a later day says otherwise. A submission reads the day,
builds its row with the stamp of its transaction, and commits later. A run of
the monitor fixes its day, reads the newest audit of each lease at its start,
writes a re-audit and a change for each that differs, and commits them
together; a lease without a difference changes nothing and is no step of its
own. `Poll` is a client that asks for pages after the last stamp it saw.

### RentStats — rent workbooks

Updates and backfills of both jurisdictions, one workbook a step, each
committed by itself. A workbook is an edition (its hash) and, for NSW, the
periods its rows fall in, which a correction may change. Months are dates of a
year, and the window of an update goes back month by month, over the end of the
year when it is there. `nswStats` keeps, for
each period, the workbooks its figures were made from; `vicStats` the workbook
each quarter is taken from. Assumed of the publishers: a workbook that is up
stays up, in the same or a later edition.

### Calendar, LeaseRules, RuleEngine — `app/rules/`

`Calendar` has dates with months of their real lengths, `add_months` and
differences in days. `LeaseRules` has the thirteen rules: what each needs, which
sections it cites, on which days it is active, and its check as an operator on a
lease; amounts are whole cents. `RuleEngine` is `run_audit`: one rule after the
other, one step per query. `Cite` reads the next cited section from the store as
it is at that moment, since each `section_at` is a statement of its own under
read committed; `SkipInactive`, `SkipNotInForce`, `SkipMissingInput` and `Check`
are the four ways a rule ends. `Refresh` is `load_version` seen from here: a
section changes, comes or goes on a day after all its known versions. What the
section store itself guarantees (`Disjoint`) is what `CorpusStore` shows.
`lawAtStart` and `touched` are history variables of the property
`AuditAsAtOnce`.

### RentSuggestions — `app/rent_suggest/`

Composed with `RuleEngine` by extension: the law card is an audit of the lease
with the renewal's increase appended, and the same engine serves audits that
callers ask for. `FindAnchor` chooses the cell and computes the range,
`AuditStep` is a step of the engine, `WeighLaw` collapses the range where a rule
is red, `SingleFigure` answers without the judge, `JudgePicks` takes any figure
the output schema admits and rounds it, `JudgeFails` is the 502, `Respond` bills.
A statistics run may commit between the queries of `market_cell`; as the step
takes any cells there may be, a mixture of old and new ones included, it covers
that. Refreshes matter only while the engine runs. The
amount proposed in the hypothetical increase is left out: no rule reads it.

### FormParser — `app/ingest/parser_vic.py`

`parse_docx` as a state machine over paragraphs, one action per kind: headings
of parts and divisions, schedules, forms, headings within forms, terms, clauses.
Which kind a paragraph is, by style and pattern, is the environment's choice, so
that every order of kinds occurs. A section is its key; paragraphs that only add
to a text change nothing and are left out. Where numbers restart (`Restarts`)
`SkipForm` deletes by position, as the code does. `opened`, `repeated`,
`skipped` and `late` are history: what the document opened, whether it opened
something twice, which forms were skipped and which clauses were written while a
form was open.

### ProhibitedTerms, StandardForm, ClauseFamilies — `app/clause_audit/`

`ProhibitedTerms` has the rule tables of both jurisdictions with their sections
and days. `StandardForm` has the screen (`Shingles`, `Missing`, `Verbatim`) over
texts as sequences of normalised words, the choice of the form and the verdicts
of outcomes. `ClauseFamilies` is `process_job`: `TakeRule` decides on a rule and
reads its section, `ReadText` reads the text for the question, `JudgeRules` is
the call of the model and what becomes of its answers, `FetchTerms`,
`FetchDuties`, `ScreenTerm` and `JudgeBatch` are the comparison with the form,
`JudgeFields` the fields. Each query is a step of its own and `RefreshSection`
may come between two of them. A quoted passage is one of four (`Quotes`): none,
blank, found in the document or foreign to it. The model may leave out any item.
`Leave` ends the job with its report or with an exception that discards it.
`past` is history: the rows a section had since the job began.

### PrescribedForms

Composes the two: an instrument is parsed, loaded (`Loads`, with the rejections
of `load_version`), and later audits fetch the terms of their form by key
(`Loaded`). Instruments are loaded between audits, sections change at any time.
`offered` is history: the terms each form has in the instrument last loaded,
counted from what the document opened and not from what the parser wrote.

## What the runs check

| run | question |
|---|---|
| `failover` | the breaker under every interleaving of outcomes, cancellations and clock: no stranding, cooldown kept, failing over and recovering for good |
| `clause_jobs` | three requests of one tenant race for a cap and a quota of two across midnight, with two failing round trips and a crash: limits, billing, documents, the abstract lifecycle |
| `clause_liveness` | three requests of a tenant for a cap and a quota of one, so that either refuses while another waits for the lock, failing queries of handlers, and a second tenant: every request is answered, every job settles, rows name only models that answered |
| `clause_stuck` (violation) | a failing commit inside `_fail` leaves a job running with its document |
| `corpus_store` | any publication order, empty parses, a replaced version, a failing run and wipes: refinement of the point-in-time store |
| `corpus_liveness` | versions published in order all reach the store |
| `tenant_access` | two concurrent lookups with commands and a restart: freshness of decisions, revocation for good |
| `tenant_rate` | the bucket over five ticks with a restart, a command and a limit change: bursts, Retry-After |
| `audit_monitor` | three leases in two jurisdictions, submissions racing a run, a failing run, a client that reads page by page: explanation, uniqueness, governance, cursor; leases become current, changes reach the client |
| `rent_stats` | late, corrected and moved workbooks, updates, backfills and a run cut short: statistics, newest workbook, completeness |
| `rent_suggestions` | audits and suggestions for some 200 leases in both jurisdictions while a version comes in: reproducible audits, increases judged as the statutes say, bounds and lawfulness of suggestions |
| `prescribed_forms` | every document of up to seven paragraphs, then audits of fourteen leases against it while a section is amended or repealed: unique keys, nothing lost but forms that restart, complete reports, citations as judged, one contractor rule on each side of 19 May 2025, no edited term screened, the report has the instrument's terms |

### Bounds

- Failover: threshold 3 and cooldown 3 ticks are the shape of the real ones
  (3 failures, 300 s); the failure counter may reach 5, past the threshold, so
  the bound never keeps the breaker closed. It trips before: that it
  does so at the third failure and not later is the theorem `CountsStreak`, as
  `EventuallyFailsOver` would also hold of a breaker that counts one late.
- Jobs: three requests exceed a cap and a quota of two by one; two days give one
  midnight; two faults let a failure be followed by a failing failure; one crash
  and one sweep. For liveness the cap and the quota are one: of three requests
  of a tenant one waits for the lock while another is refused, at the cap while
  the first job is in flight, at the quota when it is settled.
- Corpus: three dates are the fewest that put a version before, between and
  after others; two sections let one change and one stay; two texts tell old
  from new.
- Access: the TTL is shorter than the calendar, so entries expire; two requests
  of one key overtake each other; limits of 1 and 2 with a minute of 3 make
  waits that are no whole seconds.
- Monitor: two leases in one jurisdiction make two changes in one run, a page of
  one splits them; a third in another jurisdiction makes a second run; two days
  let the verdict change once.
- Prescribed forms: seven paragraphs are a schedule, two forms with two terms
  each or one with a restart, and a clause among them; two schedules, since only
  the first is fetched. Shingles of two words with one missing allowed, in place
  of eight with seven, keep the relation the screen rests on (the budget is one
  less than a window's words); the longest term has 21 words, so that the ratio
  alone would let an edit pass. Batches of one make every term the end of one.
  Leases are word for word, edited inside, edited at the edge or without text;
  terms end on the last day of five years from a leap day and one day later;
  audits are made on both sides of the handover. One section changes once.
- Rent: three months with a window of two and two candidates let a month come
  out late and a newer quarter follow an older one; a year has two months, so
  that a window starts in one year and ends in another.
- Rules and suggestions: up to three increases, in any order and on the same day,
  on four days around the ends of February before, in and after a leap year, so
  that gaps of a year less a day, a year, and a year over a leap day all occur;
  notices of 59 and 60 days; terms that end around an increase and around the
  two and three years; rents at the roundings of a month to weeks and around
  $900; markets with no cell, with a thin exact cell before a rollup, below,
  across and above the rent; audits before and after the repeal of s42; one
  version that takes effect by or after the day of the audit. The judge's figure
  is taken from the ends, the middle and the roundings of the range.

Symmetry is used in runs without liveness properties only, on sets whose
members the module never tells apart. `CHECK_DEADLOCK FALSE` is set where the
bounded system comes to rest.

### Fairness

- handlers and worker: the event loop resumes a coroutine whose await is over;
  the database answers or raises; `wait_for` ends a job after 900 s
  (`app/clause_audit/worker.py:62`); a dead process is started again
  (`restart: unless-stopped`, `deploy/compose.yaml:8`);
- breaker: a call in flight ends (answer, failure or cancellation) and the clock
  advances; nothing is assumed of the primary;
- runs of ingest, monitor and statistics: launchd starts the script every day
  (`deploy/launchd/`), and a run that started goes on; failures are finite;
- the client of the feed keeps polling. Fairness is stated per step of the run
  and not per version or lease.

## What is proved

Each `*_proofs` module extends its component and holds the inductive invariant.
Nothing is assumed beyond the named assumptions on constants, except where said.
Every safety property a run checks is stated by a theorem.

- `FailoverJudge_proofs`: types, no stranding, inertness without a backup,
  counting, cooldown, trip. The invariant ties the state to the call in flight:
  `half_open` implies a probe is being awaited.
- `ClauseJobs_proofs`: documents live exactly as long as jobs are unsettled; the
  cap holds; the handlers and the worker implement `JobLifecycle`. For the cap
  the invariant counts: only the one `holder` names has a count (`LockHeld`), and
  what it counted is at least what is in flight now, as nothing but the holder
  adds jobs. For the refinement it says what the worker's stages know of its job.
  For the quota (`QuotaInv`) it puts a tenant's jobs in turn: of two of them one
  was checked before the other was born, and who passed the check still has a job
  left of that day. That is why at most one job of a day was checked on another.
  For the bill it counts jobs of all days; the sum over days is a recursive
  function, so what it does when a day grows by one is shown by induction over
  days. `RowsNameTheirModels` holds while no round trip has failed (`faults = 0`),
  since the first fault can break it: the judge holds the models of the job in
  hand and no others. It also has the types.
- `CorpusStore_proofs`: types, lookups, disjoint windows, history, refinement.
  The invariant describes the rows of a section by the versions loaded: a row
  is open from its first version until the first later one that differs.
- `TenantAccess_proofs`: types, freshness, revocation, rate and Retry-After. The
  invariant says of each cached or fetched context that the tables backed it at
  some time no earlier than the arrival it is counted from. For the rate
  (`WithinBudget`) what a tenant got since any moment and what is left in its
  bucket together never exceed the bursts and the refill since then. The sums
  over intervals are recursive functions, their facts are proved by induction.
  For Retry-After, the tokens in the bucket and the refill until then make one.
  The set of limits is assumed to be finite and `None` to be no bucket.
- `AuditMonitor_proofs`: types, `FeedExplains` and `SubmissionsGovern` for any
  number of requests and runs side by side. The invariant (`AInv`) orders stamps:
  what is in flight is stamped after it was begun, and the audit a run compared
  with is the newest that was committed when the run began. The cursor and
  one change per audit hold under `OneAtATime` only (runs of the monitor do not
  overlap, as the daily script runs them in turn): what a run stamps is later
  than its start, what a client saw was committed before, and what the monitor
  wrote was there before the run in progress began.
- `RentStats_proofs`: types, NSW statistics, VIC newest workbook. The invariant
  says that a loaded quarter the run does not ask for is older than those it
  still asks for.
- `RentSuggestions_proofs`, of the engine: adding months is monotone; comparing
  neighbours in order decides any twelve months (`NeighboursDecideAnyPeriod`,
  for lists of any length); a weekly rent survives the way to months and back;
  types; and an audit finds what it would have found at once. The invariant says
  that the rows in force on the day of the audit are those of its start as long
  as only later versions came in, because a version closes rows at a later day
  only, and that what was cited so far was in force then. It assumes that
  windows of a section do not overlap, which `CorpusStore_proofs` proves of the
  store. `RulesSayTheStatute` says that the increase rules find what the statutes
  say. An order by day of any list exists, by induction over its length
  (`OrderExists`); in such a list neighbours decide, the first is the earliest,
  and a notice is short where days are too few. `Earliest` states the order
  `sorted` has in the code (by day, equal days as listed) instead of using the
  library's sort, of which the prover has no definition; TLC finds the same states.
  `IncreaseDaysAssumption` has the properties look at the days of all increases.
  Of the suggestions: the range is never empty, for any rent and any cell
  whose percentiles are in order, and every suggestion is bounded; the invariant
  carries the range from the anchor through the law card to the figure. The
  service runs the engine undisturbed (`ServiceImplementsEngine`), so a suggestion
  that raises the rent has a law card without a red increase rule, and what that
  means for the lease with the proposed increase is what the rules say of it
  (`RaisesAreLawful`).
- `PrescribedForms_proofs`, of the parser: for documents of any length, unique
  keys, silent skipped forms, and nothing else lost. The invariant (`ParseInv`)
  keeps books: what is open or written was opened (`Book`, `Sound`), no key is
  held twice and the terms of the open form stand after `form_start_index` in the
  order of their numbers (`Unique`), after it stands nothing but those terms and
  the clauses in `late` (`Placed`), and what was opened is written, open, or
  accounted for (`Kept`). `Unique` and `Placed` are what makes the deletion by
  position take the right sections. Of the audits, for any rules, forms, texts and
  size of batches: complete reports, citations as judged, and the screen. A
  report is counted by what is due in each phase: findings made, rules and terms
  still to come. The screen rests on `VerbatimWindows`: where all windows over
  a word are missing there are more of them than the budget.
  `OneRuleOnContractors` takes the two rules on contractors from the code's
  table (`ContractorAssumption`: a table may be a part of it, with both of them)
  and shows for every day since the Regulation that exactly one is active and
  gets a finding. Of the composition:
  it implements the parser and, with `RefreshForms`, the families; and the
  report covers the instrument. It assumes what `ScreenAssumption`,
  `FamiliesAssumption`, `ParserAssumption` and `InstrumentAssumption` say of the
  constants, the budget below the window's length among them.

Only model-checked: every liveness property, as the prover has neither fairness
nor ENABLED (`EventuallyFailsOver`, `EventuallyRecovers`, `EveryJobSettles`,
`EveryRequestAnswered`, `EveryVersionIngested`, `EventuallyCurrent`,
`EveryChangeSeen`, `EveryMonthLoaded`, `EveryQuarterServed`), and the run that
shows a disagreement. The type invariants and `WindowsDisjoint` are proved and no
run repeats them, nor `HistoryNeverRewritten` and `TripServed`. Where a proof needs
induction it takes the least counterexample of a well-founded order
(`NatLessThanWellFounded`, `WFMin`), as theorems with operators for parameters
cannot be used; functions that recurse are within reach that way, RECURSIVE
operators are not, and the models have none in what is proved.

## What the code does otherwise than documented

Shown by a run:

- `clause_stuck`: when a database round trip of `_fail` raises, the row stays
  running with its document until the process restarts
  (`app/clause_audit/worker.py:83`), although documents are to be discarded
  after processing, "success and failure alike". In the same case the drain of
  the models is skipped, so the next job's row names models of the failed one.

Met while modelling, told here and excluded from the properties:

- a primary that hangs is cut off by the job's deadline before it counts as
  down, so the breaker never opens for it;
- a request whose transaction began before midnight and whose quota check ran
  after is stamped with the old day without being checked against it;
  `QuotaHeld` allows for exactly one such job;
- a version that replaces another under an ingested date is never loaded;
- after a change of `rpm_limit`, two keys whose cached contexts hold the old and
  the new limit replace each other's bucket with a full one for a TTL; `RateHeld`
  is stated for an unchanged limit;
- two lookups that miss together both write `last_used_at`;
- two runs of the monitor side by side can commit changes out of the order of
  their stamps, and a client's cursor passes the later commit for good;
  `CursorKept` is proved for runs that follow one another;
- a VIC workbook that answers 404 after it was loaded makes the run take an
  older one, whose series replaces the newer figures; when it is back its hash
  is known and it is not loaded again;
- after `--limit-versions` took the newest versions of a Victorian instrument,
  every refresh starts with the missing older ones, is rejected as out of order
  and never loads a newer version (`app/ingest/loader.py:47`,
  `app/monitor/__main__.py:78`); `EveryVersionIngested` is stated for limits
  that take the oldest versions first;
- notices are kept by day of effect, so a short notice goes unseen when a later
  listed increase takes effect on the same day (`app/rules/nsw.py:147`);
- the Victorian threshold of $900 is compared with a weekly rent rounded to
  cents, so a monthly rent of 3900.01 stays under the cap (`app/rules/vic.py:44`);
- the law card is blocked by any red increase rule, also by a breach between two
  past increases, while the answer says that an increase at this renewal would
  breach (`app/rent_suggest/law.py:57`);
- rent and cap are rounded to dollars, so a held rent may come out up to 50
  cents above or below the actual one; `SuggestionBounded` allows for it;
- the schema accepts negative amounts, for which the cap lies below the rent and
  the range is empty; the models take amounts that are not negative;
- when a form is skipped, a clause of the schedule that was written after the
  form began is deleted with it (`app/ingest/parser_vic.py:165`), although only
  the form's own terms are meant to go (`parser_vic.py:26`); a clause that was open
  when the form began is not written before the next clause, part or schedule.
  `NothingElseLost` allows for it, by name (`late`). In the same case paragraphs
  before the first term of a form are added to the text of that clause;
- clauses after a form in the same schedule are read as part of its last term;
- a blank quote is found in every document (`app/clause_audit/verify.py:18`), so
  a verdict that has to carry a quote keeps its colour with one that quotes
  nothing, although the design has a red verdict without a match downgraded
  (`docs/superpowers/specs/2026-07-28-llm-clause-audit-design.md:80`);
- in a document without text, prescribed terms are taken as covered or altered
  without any quote (`app/clause_audit/standard_form.py:371`), prohibited ones
  are not (`app/clause_audit/families.py:82`);
- an edited term whose original words stand elsewhere in the document passes the
  screen, although "any such edit" is to go to the model
  (`app/clause_audit/standard_form.py:156`); `EditedTermsJudged` asks for one of
  the windows over each word in the document, wherever it stands;
- `acts.slug` is meant to be unique with the jurisdiction
  (`docs/superpowers/specs/2026-07-24-lease-compliance-service-design.md:56`)
  and has no constraint; two loaders at once can both insert a row
  (`app/ingest/registry.py:46`);
- PATCH commits the limits before it sets the status (`app/routers/admin.py:80`),
  so a failure in between leaves half of it done; two keys of one tenant may
  share a prefix, and `revoke_key` then refuses both (`app/tenants/__init__.py:73`);
- the daily script stops at its first failure, so that a refresh that raises
  keeps the later steps from running (`deploy/launchd/monitor-remote.sh:14`).

## Not modelled, and why

HTML and XLSX parsing and what the Victorian parser makes of headings and texts
(text extraction without state; its results, failures included, are inputs of the
models), the normalisation of words and the reading of amounts, dates and
frequencies from a document (a field reads the same or otherwise), the wording
of prompts and the provider services, read-only endpoints (they format rows the
models write), migrations and container wiring. An instrument is not loaded
while an audit runs: the terms are read by one query, and `ClauseFamilies` with
`RefreshForms` covers what the audit could see of it. That a required quote must
be there and be found is part of the model and no property, as it would repeat
the condition. Partly modelled or planned: see below.

## Plan

1. Two loaders at once and `ensure_act`; the daily script as a composition of
   the refresh, the monitor and the statistics.
2. Tenant administration in full: `create_tenant`, prefixes, reports.
3. Market rent: the trend over a year on the cells of `RentSuggestions`; the
   area lookup of the statistics endpoint.
4. Proofs: how far a tenant's rate can exceed its limit while the limit changes,
   and that a client's cursor loses changes only to runs that overlap.
