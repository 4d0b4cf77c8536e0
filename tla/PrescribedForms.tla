--------------------------- MODULE PrescribedForms ---------------------------
(* The way of a prescribed form from the instrument to a report: an          *)
(* instrument is parsed and loaded, and a clause audit compares a lease with *)
(* the terms of its form. Audits run one at a time, as the worker runs them; *)
(* the instrument is read between audits, the sections of the acts change at *)
(* any time.                                                                *)
EXTENDS FormParser, ClauseFamilies

CONSTANTS
    NswTerms,        \* the terms of the NSW form, which another parser reads
    MaxInstruments   \* bound: instruments read

ASSUME InstrumentAssumption ==
    MaxInstruments \in Nat /\ NswTerms \subseteq TermNos /\ Numbers \subseteq TermNos

VARIABLES
    instruments,
    offered  \* history: the terms of each form in the instrument last loaded

vars == <<pvars, avars, instruments, offered>>

Loaded_AnySchedule(f) == {k.no : k \in {w \in Written : w.form = f}}

\* The keys "S1-F<f>-T%".
Loaded(f) == {k.no : k \in {w \in Written : w.schedule = 1 /\ w.form = f}}

TermsOf(f) == {k.no : k \in {w \in opened : w.schedule = 1 /\ w.form = f /\ w.no # 0}}

Init ==
    /\ ParseInit
    /\ AuditInit
    /\ prescribed = [f \in PrescribedForms |-> IF f = NswForm THEN NswTerms ELSE {}]
    /\ instruments = 0
    /\ offered = prescribed

\* load_version refuses a version without sections or with a key that comes twice.
Accepted == sections # <<>> /\ \A i, k \in DOMAIN sections : sections[i] = sections[k] => i = k

Loads ==
    IF Accepted
      THEN /\ prescribed' = [f \in PrescribedForms |-> IF f = NswForm THEN NswTerms ELSE Loaded(f)]
           /\ offered' = IF repeated THEN prescribed'
                         ELSE [f \in PrescribedForms |->
                                IF f = NswForm THEN NswTerms
                                ELSE IF Key(1, f, 0) \in skipped THEN {} ELSE TermsOf(f)]
      ELSE UNCHANGED <<prescribed, offered>>

Parse ==
    /\ instruments < MaxInstruments
    /\ phase = "idle"
    /\ ParseNext
    /\ IF reading
         THEN UNCHANGED <<avars, instruments, offered>>
         ELSE /\ Loads
              /\ instruments' = instruments + 1
              /\ UNCHANGED <<law, refreshes, job, phase, index, rules, form_terms, report, past>>

AuditStep ==
    /\ paragraphs = 0 /\ reading
    /\ Audit \/ RefreshSection
    /\ UNCHANGED <<pvars, instruments, offered>>

Next == Parse \/ AuditStep

Spec == Init /\ [][Next]_vars
-----------------------------------------------------------------------------
\* The report of a Victorian lease has a finding for exactly those terms that the
\* instrument last loaded has in the governing form, none if the parser had to
\* skip that form; unless the instrument opens a schedule or form twice.
ReportCoversInstrument ==
    phase = "done" =>
        {findings[i].id.no : i \in {k \in DOMAIN findings : findings[k].id.rule = "standard_form"}}
            = offered[Form]
=============================================================================
