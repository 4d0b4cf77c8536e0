--------------------------- MODULE ClauseFamilies ---------------------------
(* What one clause-audit job finds (process_job and the families it runs):   *)
(* the prohibited terms are judged against their sections, the prescribed    *)
(* terms are screened and the rest judged in batches, and the fields of the  *)
(* lease are compared. Every query reads what is committed at that moment,   *)
(* while the corpus may be refreshed. Wording is left out; a section is the  *)
(* row in force at the date of the audit, 0 if there is none.               *)
EXTENDS ProhibitedTerms, StandardForm

CONSTANTS
    Jobs,                    \* [jurisdiction, as_at, lease, document]
    RulesOf,                 \* the rules of a jurisdiction, in their order
    Heading, Body,           \* the words of a prescribed term, by its number
    Refs, Rows, TermNos,     \* sections, their rows, numbers of terms
    RuleItems, TermItems, FieldItems,  \* what the model may say of a rule, a term, the fields
    BATCH_SIZE,
    Amended, MaxRefreshes    \* bounds: the sections that change, and how often

NswForm == 0
PrescribedForms == {NswForm, 1, 2}

\* What a quoted passage is to the document, and the verdicts of the model on a rule.
Quotes == {"none", "blank", "found", "foreign"}
Verdicts == {"red", "yellow", "green"}

DutyRef(n) == [act |-> NSW_ACT, section |-> NSW_ACT_DUTIES[n]]

\* Words are numbers, and no rule has the name that findings about terms have.
ASSUME FamiliesAssumption ==
    /\ BATCH_SIZE \in Nat \ {0} /\ MaxRefreshes \in Nat
    /\ TermNos \subseteq Nat \ {0} /\ IsFiniteSet(TermNos)
    /\ Rows \subseteq Nat \ {0} /\ Amended \subseteq Refs
    /\ \A n \in TermNos : Heading[n] \in Seq(Nat) /\ Body[n] \in Seq(Nat)
    /\ \A n \in TermNos \cap DOMAIN NSW_ACT_DUTIES : DutyRef(n) \in Refs
    /\ RuleItems \subseteq [says : Verdicts, quote : Quotes]
    /\ TermItems \subseteq [says : Outcomes, quote : Quotes]
    /\ \A job \in Jobs :
        LET table == RulesOf[job.jurisdiction]
        IN  /\ job.document.text \in Seq(Nat) /\ job.as_at \in Date
            /\ table \in Seq([rule_id : STRING \ {"standard_form"}, ref : Refs,
                              applies_from : Date \cup {NoDate}, applies_to : Date \cup {NoDate}])
            /\ \A i, j \in DOMAIN table : table[i].rule_id = table[j].rule_id => i = j

ContractorRules == {"specified_contractor", "specified_contractor_reg"}
OnContractors(table) == {table[i] : i \in {k \in DOMAIN table : table[k].rule_id \in ContractorRules}}

\* A table may be a part of the table of the code, with both rules on contractors.
ASSUME ContractorAssumption == OnContractors(RulesOf["NSW"]) = OnContractors(PROHIBITED_RULES)

VARIABLES
    law,         \* the row of every section
    prescribed,  \* the terms of every prescribed form
    refreshes,
    job, phase,
    index,       \* how far the loop of this phase has come
    active,      \* rules to judge, each with the row cited for it
    shown,       \* the row whose text the model is given, by section
    terms, residual, duties, judged,
    findings, discrepancies,
    past         \* history: the rows that a section had since the job began

corpus == <<law, prescribed, refreshes>>
rules  == <<active, shown>>
form_terms == <<terms, residual, duties, judged>>
report == <<findings, discrepancies>>
avars  == <<corpus, job, phase, index, rules, form_terms, report, past>>

Silent == [says |-> "nothing", quote |-> "none"]
NoRef == [act |-> "", section |-> ""]
NoJob == [jurisdiction |-> "none"]

Rules == RulesOf[job.jurisdiction]
Form == IF job.jurisdiction = "VIC" THEN VicForm(job.lease) ELSE NswForm
RuleId(rule) == [rule |-> rule.rule_id, form |-> 0, no |-> 0]
TermId(f, n) == [rule |-> "standard_form", form |-> f, no |-> n]

Finding(id, verdict, by, item, ref, cited, text) ==
    [id |-> id, verdict |-> verdict, by |-> by, says |-> item.says, quote |-> item.quote,
     ref |-> ref, cited |-> cited, shown |-> text]

\* quote_matches: in a document without text every quote passes, in one with text
\* also the blank quote.
QuoteMatches(quote) == quote \in {"found", "blank"} \/ ~job.document.layered
-----------------------------------------------------------------------------
\* What process_job and the families hold while they run.
NothingYet ==
    /\ index' = 0 /\ active' = <<>> /\ shown' = [s \in Refs |-> 0]
    /\ terms' = <<>> /\ residual' = <<>> /\ duties' = [n \in TermNos |-> 0] /\ judged' = 0
    /\ findings' = <<>> /\ discrepancies' = {}

AuditInit ==
    /\ law \in [Refs -> Rows \cup {0}]
    /\ prescribed \in [PrescribedForms -> SUBSET TermNos]
    /\ refreshes = 0
    /\ job = NoJob /\ phase = "idle" /\ index = 0
    /\ active = <<>> /\ shown = [s \in Refs |-> 0]
    /\ terms = <<>> /\ residual = <<>> /\ duties = [n \in TermNos |-> 0] /\ judged = 0
    /\ findings = <<>> /\ discrepancies = {}
    /\ past = [s \in Refs |-> {}]

\* process_job for the next job claimed.
Begin(j) ==
    /\ phase = "idle"
    /\ job' = j /\ phase' = "rules"
    /\ NothingYet
    /\ past' = [s \in Refs |-> {law[s]}]
    /\ UNCHANGED corpus

\* The report is written to the row of the job, or a query or a call of the model
\* raised and nothing is kept.
Leave ==
    /\ phase # "idle"
    /\ job' = NoJob /\ phase' = "idle"
    /\ NothingYet
    /\ past' = [s \in Refs |-> {}]
    /\ UNCHANGED corpus

Skipped(rule, why) == Finding(RuleId(rule), "skipped", why, Silent, NoRef, 0, 0)

\* resolve_rule, a query of its own for every rule.
Resolve(rule) ==
    IF law[rule.ref] = 0
      THEN findings' = Append(findings, Skipped(rule, "absent")) /\ UNCHANGED active
      ELSE active' = Append(active, [rule |-> rule, cited |-> law[rule.ref]]) /\ UNCHANGED findings

TakeRule ==
    /\ phase = "rules" /\ index < Len(Rules)
    /\ LET rule == Rules[index + 1]
       IN  IF rule_active(rule, job.as_at)
             THEN Resolve(rule)
             ELSE findings' = Append(findings, Skipped(rule, "inactive")) /\ UNCHANGED active
    /\ index' = index + 1
    /\ UNCHANGED <<corpus, job, phase, shown, form_terms, discrepancies, past>>

\* Without a rule to judge the model is not asked.
RulesTaken ==
    /\ phase = "rules" /\ index = Len(Rules)
    /\ phase' = IF active = <<>> THEN "terms" ELSE "texts"
    /\ index' = 0
    /\ UNCHANGED <<corpus, job, rules, form_terms, report, past>>

TextOf_FirstRule(rule) == law[active[1].rule.ref]

TextOf(rule) == law[rule.ref]

\* statutory_texts: one more query for each section whose text is not there yet.
ReadText ==
    /\ phase = "texts" /\ index < Len(active)
    /\ LET rule == active[index + 1].rule
       IN  shown' = IF shown[rule.ref] # 0 THEN shown
                    ELSE [shown EXCEPT ![rule.ref] = TextOf(rule)]
    /\ index' = index + 1
    /\ UNCHANGED <<corpus, job, phase, active, form_terms, report, past>>

\* A rule the model says nothing of, and a red one without its quote, is yellow.
RuleVerdict(item) ==
    IF item.says = "nothing" \/ (item.says = "red" /\ (item.quote = "none" \/ ~QuoteMatches(item.quote)))
      THEN "yellow" ELSE item.says

JudgeRules ==
    /\ phase = "texts" /\ index = Len(active)
    /\ \E answer \in [DOMAIN active -> RuleItems \cup {Silent}] :
        findings' = findings \o
            [i \in DOMAIN active |->
                LET rule == active[i].rule
                IN  Finding(RuleId(rule), RuleVerdict(answer[i]), "judge", answer[i],
                            rule.ref, active[i].cited, shown[rule.ref])]
    /\ phase' = "terms" /\ index' = 0
    /\ UNCHANGED <<corpus, job, rules, form_terms, discrepancies, past>>

\* fetch_form_terms: one query for the governing form, in the order of the numbers.
FetchTerms ==
    /\ phase = "terms"
    /\ \E order \in [1..Cardinality(prescribed[Form]) -> prescribed[Form]] :
        /\ \A i, k \in DOMAIN order : i < k => order[i] < order[k]
        /\ terms' = order
    /\ phase' = IF job.jurisdiction = "VIC" THEN "screen" ELSE "duties"
    /\ UNCHANGED <<corpus, job, index, rules, residual, duties, judged, report, past>>

FetchDuties ==
    /\ phase = "duties"
    /\ duties' = [n \in TermNos |-> IF n \in DOMAIN NSW_ACT_DUTIES THEN law[DutyRef(n)] ELSE 0]
    /\ phase' = "screen"
    /\ UNCHANGED <<corpus, job, index, rules, terms, residual, judged, report, past>>

\* A finding about a term, with the duty cited beside the form.
TermFinding(n, verdict, by, item) ==
    Finding(TermId(Form, n), verdict, by, item,
            IF duties[n] = 0 THEN NoRef ELSE DutyRef(n), duties[n], 0)

IsVerbatim(n) == job.document.layered /\ Verbatim(Heading[n], Body[n], job.document.text)

ScreenTerm ==
    /\ phase = "screen" /\ index < Len(terms)
    /\ LET n == terms[index + 1]
       IN  IF IsVerbatim(n)
             THEN /\ findings' = Append(findings, TermFinding(n, "green", "screen", Silent))
                  /\ UNCHANGED residual
             ELSE residual' = Append(residual, n) /\ UNCHANGED findings
    /\ index' = index + 1
    /\ UNCHANGED <<corpus, job, phase, rules, terms, duties, judged, discrepancies, past>>

BatchEnd_TooFar(start) == IF start + BATCH_SIZE + 1 < Len(residual) THEN start + BATCH_SIZE + 1 ELSE Len(residual)

BatchEnd(start) == IF start + BATCH_SIZE < Len(residual) THEN start + BATCH_SIZE ELSE Len(residual)

Batch(start) == SubSeq(residual, start + 1, BatchEnd(start))

TermVerdict(item) ==
    IF \/ item.says = "nothing"
       \/ item.says \in QuoteRequired /\ job.document.layered
            /\ (item.quote = "none" \/ ~QuoteMatches(item.quote))
      THEN "yellow" ELSE OutcomeVerdict(item.says)

JudgeBatch ==
    /\ phase = "screen" /\ index = Len(terms) /\ judged < Len(residual)
    /\ LET batch == Batch(judged)
       IN  \E answer \in [DOMAIN batch -> TermItems \cup {Silent}] :
            findings' = findings \o
                [i \in DOMAIN batch |->
                    TermFinding(batch[i], TermVerdict(answer[i]), "judge", answer[i])]
    /\ judged' = judged + BATCH_SIZE
    /\ UNCHANGED <<corpus, job, phase, index, rules, terms, residual, duties, discrepancies, past>>

TermsJudged ==
    /\ phase = "screen" /\ index = Len(terms) /\ judged >= Len(residual)
    /\ phase' = IF job.lease.given THEN "fields" ELSE "done"
    /\ UNCHANGED <<corpus, job, index, rules, form_terms, report, past>>

\* run_fields: a field that was submitted and reads otherwise in the document.
JudgeFields ==
    /\ phase = "fields"
    /\ \E items \in FieldItems :
        discrepancies' = {f \in job.lease.submitted : [field |-> f, reads |-> "otherwise"] \in items}
    /\ phase' = "done"
    /\ UNCHANGED <<corpus, job, index, rules, form_terms, findings, past>>

\* A section is amended, comes into force or is repealed as of the date of the
\* audit; a row that was replaced does not come back.
RefreshSection ==
    /\ refreshes < MaxRefreshes
    /\ refreshes' = refreshes + 1
    /\ \E s \in Amended : \E row \in (Rows \ past[s]) \cup ({0} \ {law[s]}) :
        /\ law' = [law EXCEPT ![s] = row]
        /\ past' = [past EXCEPT ![s] = IF phase = "idle" THEN {} ELSE @ \cup {row}]
    /\ UNCHANGED <<prescribed, job, phase, index, rules, form_terms, report>>

\* Another version of the instrument with the forms is loaded.
RefreshForms ==
    /\ prescribed' \in [PrescribedForms -> SUBSET TermNos]
    /\ UNCHANGED <<law, refreshes, job, phase, index, rules, form_terms, report, past>>

Audit ==
    \/ \E j \in Jobs : Begin(j)
    \/ TakeRule \/ RulesTaken \/ ReadText \/ JudgeRules
    \/ FetchTerms \/ FetchDuties \/ ScreenTerm \/ JudgeBatch \/ TermsJudged
    \/ JudgeFields \/ Leave

AuditNext == Audit \/ RefreshSection \/ RefreshForms

AuditSpec == AuditInit /\ [][AuditNext]_avars
-----------------------------------------------------------------------------
RuleIds == {RuleId(Rules[i]) : i \in DOMAIN Rules}
TermIds == {TermId(Form, terms[i]) : i \in DOMAIN terms}

\* A finished report has one finding for every rule of the jurisdiction and every
\* term of the form that was fetched, and no other, however the rules were skipped,
\* the terms screened and the rest cut into batches, and whatever the model left out.
ReportedOnce ==
    phase = "done" =>
        /\ {findings[i].id : i \in DOMAIN findings} = RuleIds \cup TermIds
        /\ \A i, k \in DOMAIN findings : findings[i].id = findings[k].id => i = k

\* A finding cites a row that was in force while the job ran, and a rule was judged
\* by the text of the row that it cites unless that section changed meanwhile.
CitedAsJudged ==
    \A i \in DOMAIN findings :
        LET f == findings[i]
        IN  f.cited # 0 =>
                /\ f.cited \in past[f.ref]
                /\ f.by = "judge" /\ f.id.no = 0 /\ past[f.ref] = {f.cited} => f.shown = f.cited

\* Since 16 December 2019 the effect of a specified contractor is prohibited by
\* exactly one of two rules: at the handover on 19 May 2025 neither both nor none.
OneContractorRule ==
    phase = "done" /\ job.jurisdiction = "NSW" /\ NoLater(REG_COMMENCED, job.as_at) =>
        \E i \in DOMAIN findings :
            /\ findings[i].id.rule \in ContractorRules
            /\ \A k \in DOMAIN findings :
                findings[k].id.rule \in ContractorRules
                  => (findings[k].by # "inactive" <=> k = i)

Screened == {findings[i].id.no : i \in {k \in DOMAIN findings : findings[k].by = "screen"}}
Spanning(text, p) ==
    {Window(text, i) : i \in {k \in 1..(Len(text) - SHINGLE_TOKENS + 1) :
                                k <= p /\ p < k + SHINGLE_TOKENS}}

\* "pushes any such edit to the LLM regardless of term length" (standard_form.py:155-158):
\* of a term that is green without the model, each word that is part of
\* SHINGLE_TOKENS different windows stands in the document in one of them.
EditedTermsJudged ==
    \A n \in Screened :
        LET text == Heading[n] \o Body[n]
        IN  \A p \in 1..Len(text) :
                Cardinality(Spanning(text, p)) = SHINGLE_TOKENS
                  => Spanning(text, p) \cap Shingles(job.document.text) # {}
=============================================================================
