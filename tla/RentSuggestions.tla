--------------------------- MODULE RentSuggestions --------------------------
(* POST /v1/rent-suggestions (app/rent_suggest): a market cell gives a range, *)
(* the rules engine audits the lease with the increase of the renewal in it, *)
(* and the judge picks a figure inside the range. Composed with RuleEngine,   *)
(* which also serves the audits callers ask for. Rents and medians are cents, *)
(* anchors whole dollars.                                                   *)
EXTENDS RuleEngine

CONSTANTS
    Requests,       \* [lease, renewal_start] of the callers
    Markets         \* what the statistics hold for a property

VARIABLES
    stage,
    request,        \* None when the caller asked for an audit
    anchored,       \* the range, once there is one
    suggested,
    usage           \* suggestions billed

svars == <<stage, request, anchored, suggested, usage>>

Labels == {"exact", "bedrooms_all", "dwelling_all"}
Cell == [median : Nat, p25 : Optional(Nat), p75 : Optional(Nat), sample_size : Nat]

\* The proposed increase follows those of the lease; no notice is known of it.
Hypothetical(q) ==
    [q.lease EXCEPT !.rent_increases =
        Append(IF q.lease.rent_increases = None THEN <<>> ELSE q.lease.rent_increases,
               [effective_on |-> q.renewal_start, notice_given_on |-> None])]

ASSUME RequestsAssumption ==
    \A q \in Requests : /\ q.lease \in LeaseInput /\ q.renewal_start \in Days
                        /\ Hypothetical(q) \in Leases

\* Percentiles of the same rents are in order.
ASSUME MarketsAssumption ==
    /\ Markets \subseteq [Labels -> Optional(Cell)]
    /\ \A m \in Markets, x \in Labels :
            m[x] # None /\ m[x].p25 # None /\ m[x].p75 # None => m[x].p25 <= m[x].p75

-----------------------------------------------------------------------------
THIN_SAMPLE == 10

Candidates(j) ==
    IF j = "NSW" THEN <<"exact", "bedrooms_all", "dwelling_all">>
    ELSE <<"exact", "dwelling_all">>

\* The first cell that is not thin, or else the first there is.
MarketCell(j, m) ==
    LET c == Candidates(j)
        held == {i \in DOMAIN c : m[c[i]] # None}
        ample == {i \in held : m[c[i]].sample_size >= THIN_SAMPLE}
    IN  IF ample # {} THEN m[c[Min(ample)]]
        ELSE IF held # {} THEN m[c[Min(held)]] ELSE None

dollars(cents) == RoundHalfUp(cents, 100)

Band(j, cell) ==
    IF j = "NSW" /\ cell.p25 # None /\ cell.p75 # None
    THEN [low |-> dollars(cell.p25), high |-> dollars(cell.p75)]
    ELSE [low |-> RoundHalfUp(92 * cell.median, 10000),
          high |-> RoundHalfUp(108 * cell.median, 10000)]

Cap(current) == RoundHalfUp(115 * current, 100)

AnchorAt(current, low, high, gap) ==
    [current_weekly |-> current, low |-> low, high |-> high, gap |-> gap]

Bigger(a, b) == IF a >= b THEN a ELSE b
Smaller(a, b) == IF a <= b THEN a ELSE b

Anchor_MarketOnly(weekly, j, cell) ==
    LET current == dollars(weekly)
    IN  IF cell = None THEN AnchorAt(current, current, Cap(current), "no_data")
        ELSE AnchorAt(current, Bigger(current, Band(j, cell).low),
                      Bigger(current, Band(j, cell).high), "within")

Anchor(weekly, j, cell) ==
    LET current == dollars(weekly)
        cap == Cap(current)
    IN  IF cell = None THEN AnchorAt(current, current, cap, "no_data")
        ELSE LET band == Band(j, cell)
             IN  IF band.low > cap THEN AnchorAt(current, current, cap, "above_cap")
                 ELSE IF band.high < current
                 THEN AnchorAt(current, current, current, "below_current")
                 ELSE AnchorAt(current, Bigger(current, band.low), Smaller(cap, band.high),
                               "within")

\* The increase rules of the law card; notice is a future act and is left out.
RentRules == {"rent_increase_frequency", "rent_increase_first_year",
              "fixed_term_increase_disclosure", "fixed_term_increase_provision"}

Blocked_ByTermOnly ==
    \E i \in 1..Len(findings) :
        /\ findings[i].rule_id \in {"fixed_term_increase_disclosure",
                                    "fixed_term_increase_provision"}
        /\ findings[i].verdict = "red"

Blocked ==
    \E i \in 1..Len(findings) : findings[i].rule_id \in RentRules /\ findings[i].verdict = "red"

-----------------------------------------------------------------------------
SInit ==
    /\ \/ request = None /\ stage = "audit"
       \/ request \in Requests /\ stage = "asked"
    /\ Init
    /\ request # None => lease = Hypothetical(request)
    /\ anchored = None /\ suggested = None
    /\ usage = 0

\* market_cell and anchor.
FindAnchor ==
    /\ stage = "asked"
    /\ \E m \in Markets :
            anchored' = Anchor(WeeklyRent(lease), jurisdiction, MarketCell(jurisdiction, m))
    /\ stage' = "audit"
    /\ UNCHANGED <<vars, request, suggested, usage>>

\* run_audit, for an audit or for the law card.
AuditStep ==
    /\ stage = "audit"
    /\ \/ Begin \/ SkipInactive \/ Cite \/ SkipNotInForce \/ SkipMissingInput \/ Check \/ Finish
    /\ UNCHANGED svars

\* A red rule collapses the range to the current rent.
WeighLaw ==
    /\ stage = "audit" /\ request # None
    /\ ~running /\ findings # <<>>
    /\ anchored' = IF Blocked
                   THEN [anchored EXCEPT !.low = anchored.current_weekly,
                                         !.high = anchored.current_weekly]
                   ELSE anchored
    /\ stage' = "weighed"
    /\ UNCHANGED <<vars, request, suggested, usage>>

\* A single figure needs no judge.
SingleFigure ==
    /\ stage = "weighed" /\ anchored.low = anchored.high
    /\ suggested' = anchored.low
    /\ stage' = "picked"
    /\ UNCHANGED <<vars, request, anchored, usage>>

\* Figures in cents at the ends of the range and at the roundings next to them.
Figures(low, high) ==
    {100 * low, 100 * low + 49, 100 * low + 50, 50 * (low + high), 100 * high - 50,
     100 * high - 1, 100 * high} \cap (100 * low)..(100 * high)

\* The schema of the judge's answer keeps the figure inside the range.
JudgePicks ==
    /\ stage = "weighed" /\ anchored.low # anchored.high
    /\ \E cents \in Figures(anchored.low, anchored.high) : suggested' = dollars(cents)
    /\ stage' = "picked"
    /\ UNCHANGED <<vars, request, anchored, usage>>

\* JudgeError becomes a 502; nothing is billed.
JudgeFails ==
    /\ stage = "weighed" /\ anchored.low # anchored.high
    /\ stage' = "failed"
    /\ UNCHANGED <<vars, request, anchored, suggested, usage>>

Respond ==
    /\ stage = "picked"
    /\ usage' = usage + 1
    /\ stage' = "answered"
    /\ UNCHANGED <<vars, request, anchored, suggested>>

SNext ==
    \/ FindAnchor \/ AuditStep \/ WeighLaw \/ SingleFigure \/ JudgePicks \/ JudgeFails \/ Respond
    \/ stage = "audit" /\ UNCHANGED svars
         /\ \E ref \in RefreshedRefs, v \in RefreshDays : Refresh(ref, v)

SSpec == SInit /\ [][SNext]_<<vars, svars>>

-----------------------------------------------------------------------------
Hold == Blocked \/ anchored.gap = "below_current"

\* Whatever the statistics, the roundings and the judge say, a suggestion is never
\* below the rent nor more than 15 percent above it, but for the rounding of rent
\* and cap to dollars, and where the law or the market speaks against an increase
\* it is the rent ("Range = intersection", rent-suggestions design, lines 91-104;
\* anchor.py 124-137, service.py 92-105).
SuggestionBounded ==
    stage = "answered" =>
        LET weekly == WeeklyRent(lease)
        IN  /\ 100 * suggested >= weekly - 50
            /\ 10000 * suggested <= 115 * (weekly + 50) + 5000
            /\ Hold => 100 * suggested <= weekly + 50

\* A suggestion that raises the rent at the renewal leaves no twelve months with
\* two increases and none in the first year of the tenancy, as far as the rules
\* were in force on the day asked about (law.py 26-57, nsw.py 101-150).
NoUnlawfulIncrease ==
    stage = "answered" /\ suggested > anchored.current_weekly =>
        /\ Found("rent_increase_frequency") # {} =>
                \A p \in Days : Cardinality(WithinYear(lease, p)) <= 1
        /\ Found("rent_increase_first_year") # {} =>
                \A e \in Effective(lease) : NoLater(AddMonths(lease.start_date, 12), e[2])
=============================================================================
