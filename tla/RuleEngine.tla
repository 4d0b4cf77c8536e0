----------------------------- MODULE RuleEngine -----------------------------
(* run_audit (app/rules/engine.py): the rules of a jurisdiction, one after   *)
(* the other, on a lease as at a date. Each cited section is looked up by a  *)
(* query of its own, so a refresh of the legislation store may commit        *)
(* between any two of them.                                                 *)
EXTENDS LeaseRules, FiniteSets

CONSTANTS
    Leases,         \* leases callers submit
    Days,           \* days the runs and the properties look at
    AuditDays,      \* days audits are made as at
    Enacted,        \* the store at the start: for each section its rows
    RefreshedRefs,  \* sections whose later versions may come in
    RefreshDays,    \* days on which those take effect
    MaxRefreshes    \* versions that come in

VARIABLES
    law,            \* sections with validity windows [from, to)
    running, jurisdiction, lease, asAt,
    citations,      \* of the rule in hand, so far
    findings,       \* of the rules done
    refreshes,
    lawAtStart,     \* history: the store when the audit began
    touched         \* history: a version by asAt came in since

audit == <<running, jurisdiction, lease, asAt>>
vars == <<law, audit, citations, findings, refreshes, lawAtStart, touched>>

Optional(S) == {None} \cup S

RentIncrease == [effective_on : Date, notice_given_on : Optional(Date)]

\* What the schema accepts, its validator included, with no negative amounts.
LeaseInput ==
    {l \in [rent_amount : Nat, rent_frequency : Frequencies,
            start_date : Date, end_date : Optional(Date),
            bond_amount : Optional(Nat), rent_in_advance_amount : Optional(Nat),
            holding_deposit_amount : Optional(Nat), other_security_amount : Optional(Nat),
            break_fee_amount : Optional(Nat), rent_increases : Optional(Seq(RentIncrease)),
            fixed_term_increase_in_agreement : Optional(BOOLEAN)] :
        l.end_date # None => Before(l.start_date, l.end_date)}

Row == [from : Date, to : Optional(Date)]

ASSUME LeasesAssumption == Leases \subseteq LeaseInput
ASSUME DaysAssumption == Days \subseteq Date /\ AuditDays \subseteq Days /\ RefreshDays \subseteq Days
\* The properties look at every day on which an increase takes effect.
ASSUME IncreaseDaysAssumption ==
    \A l \in Leases : l.rent_increases # None =>
        \A i \in DOMAIN l.rent_increases : l.rent_increases[i].effective_on \in Days
\* What CorpusStore shows of the store: no two windows of a section overlap.
Disjoint(L) ==
    \A ref \in Refs : \A r, q \in L[ref] : r # q =>
        \/ r.to # None /\ NoLater(r.to, q.from)
        \/ q.to # None /\ NoLater(q.to, r.from)

ASSUME LawAssumption ==
    /\ Enacted \in [Refs -> SUBSET Row] /\ Disjoint(Enacted)
    /\ RefreshedRefs \subseteq Refs
    /\ MaxRefreshes \in Nat

-----------------------------------------------------------------------------
SectionAt_Newest(L, ref, d) == {r \in L[ref] : r.to = None}

\* section_at: the row whose window holds d.
SectionAt(L, ref, d) ==
    {r \in L[ref] : NoLater(r.from, d) /\ (r.to # None => Before(d, r.to))}

Citation(ref, r) == [section_no |-> ref, section |-> r.from]

Finding(rule, verdict, why, cites) ==
    [rule_id |-> rule.id, verdict |-> verdict, why |-> why, citations |-> cites]

Rules == RULES(jurisdiction)
rule == Rules[Len(findings) + 1]

Active(ru, d) ==
    /\ ru.applies_from # None => NoLater(ru.applies_from, d)
    /\ ru.applies_to # None => Before(d, ru.applies_to)

Absent(ru, l) == {f \in ru.required_inputs : l[f] = None}

Reason(verdict) == IF verdict = "skipped" THEN "not applicable" ELSE "checked"

Init ==
    /\ law = Enacted /\ lawAtStart = Enacted
    /\ running = FALSE
    /\ jurisdiction \in Jurisdictions /\ lease \in Leases /\ asAt \in AuditDays
    /\ citations = <<>> /\ findings = <<>>
    /\ refreshes = 0
    /\ touched = FALSE

Begin ==
    /\ ~running /\ findings = <<>>
    /\ running' = TRUE
    /\ lawAtStart' = law
    /\ touched' = FALSE
    /\ UNCHANGED <<law, jurisdiction, lease, asAt, citations, findings, refreshes>>

InHand == running /\ Len(findings) < Len(Rules)

Report(verdict, why, cites) ==
    /\ findings' = Append(findings, Finding(rule, verdict, why, cites))
    /\ citations' = <<>>
    /\ UNCHANGED <<law, audit, refreshes, lawAtStart, touched>>

SkipInactive ==
    /\ InHand /\ ~Active(rule, asAt)
    /\ Report("skipped", "not active", <<>>)

\* The next section of the rule is read as the store is now.
Uncited == InHand /\ Active(rule, asAt) /\ Len(citations) < Len(rule.citations)
NextRef == rule.citations[Len(citations) + 1]

Cite ==
    /\ Uncited
    /\ \E r \in SectionAt(law, NextRef, asAt) :
            citations' = Append(citations, Citation(NextRef, r))
    /\ UNCHANGED <<law, audit, findings, refreshes, lawAtStart, touched>>

SkipNotInForce ==
    /\ Uncited /\ SectionAt(law, NextRef, asAt) = {}
    /\ Report("skipped", "not in force", <<>>)

Cited == InHand /\ Active(rule, asAt) /\ Len(citations) = Len(rule.citations)

SkipMissingInput ==
    /\ Cited /\ Absent(rule, lease) # {}
    /\ Report("skipped", "missing input", citations)

Check ==
    /\ Cited /\ Absent(rule, lease) = {}
    /\ LET verdict == check(rule.id, lease)
       IN  Report(verdict, Reason(verdict), citations)

Finish ==
    /\ running /\ Len(findings) = Len(Rules)
    /\ running' = FALSE
    /\ UNCHANGED <<law, jurisdiction, lease, asAt, citations, findings, refreshes,
                   lawAtStart, touched>>

\* load_version: a version of v in which the section changed, came or went.
Refresh(ref, v) ==
    /\ refreshes < MaxRefreshes
    /\ \A r \in law[ref] : Before(r.from, v) /\ (r.to # None => NoLater(r.to, v))
    /\ LET closed == {[r EXCEPT !.to = IF r.to = None THEN v ELSE r.to] : r \in law[ref]}
       IN  \/ law' = [law EXCEPT ![ref] = closed \cup {[from |-> v, to |-> None]}]
           \/ law' = [law EXCEPT ![ref] = closed]
    /\ refreshes' = refreshes + 1
    /\ touched' = (touched \/ (running /\ NoLater(v, asAt)))
    /\ UNCHANGED <<audit, citations, findings, lawAtStart>>

Next ==
    \/ Begin \/ SkipInactive \/ Cite \/ SkipNotInForce \/ SkipMissingInput \/ Check \/ Finish
    \/ \E ref \in RefreshedRefs, v \in RefreshDays : Refresh(ref, v)

Spec == Init /\ [][Next]_vars

-----------------------------------------------------------------------------
Verdicts == {"red", "green", "skipped"}

\* The citations in hand are of the rule in hand, and each finding reports on
\* its rule with either none of its sections or all of them (engine.py 35-81).
TypeOK ==
    /\ law \in [Refs -> SUBSET Row] /\ lawAtStart \in [Refs -> SUBSET Row]
    /\ running \in BOOLEAN /\ touched \in BOOLEAN
    /\ refreshes \in 0..MaxRefreshes
    /\ jurisdiction \in Jurisdictions /\ lease \in Leases /\ asAt \in AuditDays
    /\ Len(findings) <= Len(Rules)
    /\ citations # <<>> => InHand /\ Len(citations) <= Len(rule.citations)
    /\ \A i \in 1..Len(citations) :
            /\ citations[i].section_no = rule.citations[i]
            /\ citations[i].section \in Date
    /\ \A i \in 1..Len(findings) :
            /\ findings[i].rule_id = Rules[i].id
            /\ findings[i].verdict \in Verdicts
            /\ Len(findings[i].citations) \in {0, Len(Rules[i].citations)}

\* What an audit of l as at d that looks at the store L all at once would find.
CitationAt(L, ref, d) == Citation(ref, CHOOSE r \in SectionAt(L, ref, d) : TRUE)

Outcome(ru, l, d, L) ==
    IF ~Active(ru, d) THEN Finding(ru, "skipped", "not active", <<>>)
    ELSE IF \E i \in 1..Len(ru.citations) : SectionAt(L, ru.citations[i], d) = {}
    THEN Finding(ru, "skipped", "not in force", <<>>)
    ELSE LET cites == [i \in 1..Len(ru.citations) |-> CitationAt(L, ru.citations[i], d)]
         IN  IF Absent(ru, l) # {} THEN Finding(ru, "skipped", "missing input", cites)
             ELSE Finding(ru, check(ru.id, l), Reason(check(ru.id, l)), cites)

\* An audit may read its sections while a refresh commits; as long as what comes
\* in takes effect after the day of the audit, it finds what it would have found
\* at once: stored audits can be reproduced (engine.py 34-47, legislation.py 9-23).
AuditAsAtOnce ==
    ~touched => \A i \in 1..Len(findings) :
        findings[i] = Outcome(Rules[i], lease, asAt, lawAtStart)

Found(id) == {i \in 1..Len(findings) : findings[i].rule_id = id /\ findings[i].why = "checked"}
Effective(l) == {<<i, l.rent_increases[i].effective_on>> : i \in DOMAIN l.rent_increases}
WithinYear(l, p) == {e \in Effective(l) : NoLater(p, e[2]) /\ Before(e[2], AddMonths(p, 12))}

\* The rules that compare neighbours in a sorted list say what the statutes say
\* of any period: rent "may not be increased more than once in any period of 12
\* months" and not "within 12 months after the start of the tenancy", with 60
\* days notice where no two increases share a day (nsw.py 101-164, vic.py 108-144).
IncreasesAsStatute ==
    /\ \A i \in Found("rent_increase_frequency") :
            findings[i].verdict = "red" <=>
                \E p \in Days : Cardinality(WithinYear(lease, p)) > 1
    /\ \A i \in Found("rent_increase_first_year") :
            findings[i].verdict = "green" <=>
                \A e \in Effective(lease) : NoLater(AddMonths(lease.start_date, 12), e[2])
    /\ \A i \in Found("rent_increase_notice") :
            (\A e, f \in Effective(lease) : e[2] = f[2] => e = f) =>
                (findings[i].verdict = "green" <=>
                    \A j \in DOMAIN lease.rent_increases :
                        LET inc == lease.rent_increases[j]
                        IN  inc.notice_given_on # None =>
                                DaysBetween(inc.notice_given_on, inc.effective_on) >= 60)
=============================================================================
