----------------------------- MODULE FormParser -----------------------------
(* parse_docx of app/ingest/parser_vic.py: how the paragraphs of a Victorian *)
(* instrument become sections. A section is its key: the schedule (0 before  *)
(* the first one), the form (0 outside forms) and the number of the clause   *)
(* or term. Headings, texts and labels are left out, and with them the       *)
(* paragraphs that only add to a text.                                       *)
EXTENDS Integers, Sequences

CONSTANTS
    Schedules, Forms, Numbers,   \* the numbers that the document may use
    MaxParagraphs                \* bound: paragraphs of a document

ASSUME ParserAssumption ==
    Schedules \cup Forms \cup Numbers \subseteq Nat \ {0} /\ MaxParagraphs \in Nat

VARIABLES
    schedule_no, form_no, form_broken, form_last_term_key, form_start_index,
    term,        \* the number of the open term, 0 if none
    current,     \* the key of the open clause, or NoClause
    sections,
    reading, paragraphs,
    \* History: schedules, forms, clauses and terms opened so far; whether one of
    \* the first three came twice; forms found to restart; clauses written in forms.
    opened, repeated, skipped, late

form     == <<schedule_no, form_no, form_broken, form_last_term_key, form_start_index>>
progress == <<reading, paragraphs>>
history  == <<opened, repeated, skipped, late>>
pvars    == <<form, term, current, sections, progress, history>>

Key(s, f, n) == [schedule |-> s, form |-> f, no |-> n]
NoClause == Key(0, 0, 0)
FormOf(k) == [k EXCEPT !.no = 0]
ThisForm == Key(schedule_no, form_no, 0)
-----------------------------------------------------------------------------
ParseInit ==
    /\ schedule_no = 0 /\ form_no = 0 /\ form_broken = FALSE
    /\ form_last_term_key = 0 /\ form_start_index = 0
    /\ term = 0 /\ current = NoClause /\ sections = <<>>
    /\ reading = TRUE /\ paragraphs = 0
    /\ opened = {} /\ repeated = FALSE /\ skipped = {} /\ late = {}

\* flush and flush_term, over the sections written so far.
Flushed(secs) == IF current = NoClause THEN secs ELSE Append(secs, current)
TermFlushed(secs) ==
    IF term = 0 THEN secs ELSE Append(secs, Key(schedule_no, form_no, term))

Paragraph ==
    /\ reading /\ paragraphs < MaxParagraphs
    /\ paragraphs' = paragraphs + 1
    /\ UNCHANGED reading

Open(k) == opened' = opened \cup {k} /\ repeated' = (repeated \/ k \in opened)

\* A clause that is written while a form is open.
Late == late' = IF form_no = 0 \/ current = NoClause THEN late ELSE late \cup {<<ThisForm, current>>}

\* "Part 2", "Division 1": the clause ends, the term does not.
ReadHeading ==
    /\ Paragraph
    /\ sections' = Flushed(sections)
    /\ current' = NoClause
    /\ Late
    /\ UNCHANGED <<form, term, opened, repeated, skipped>>

\* "Schedule 1": ends whatever is open.
ReadSchedule(s) ==
    /\ Paragraph
    /\ sections' = TermFlushed(Flushed(sections))
    /\ current' = NoClause /\ term' = 0
    /\ schedule_no' = s /\ form_no' = 0
    /\ form_broken' = FALSE /\ form_last_term_key' = 0
    /\ Open(Key(s, 0, 0))
    /\ UNCHANGED <<form_start_index, skipped, late>>

ReadForm_StartsEarly(f) ==
    /\ Paragraph
    /\ schedule_no # 0
    /\ sections' = TermFlushed(sections)
    /\ term' = 0
    /\ form_no' = f /\ form_broken' = FALSE /\ form_last_term_key' = 0
    /\ form_start_index' = Len(sections)
    /\ Open(Key(schedule_no, f, 0))
    /\ UNCHANGED <<schedule_no, current, skipped, late>>

\* "Form 1" in a schedule: the term of the form before ends, the clause does not.
ReadForm(f) ==
    /\ Paragraph
    /\ schedule_no # 0
    /\ sections' = TermFlushed(sections)
    /\ term' = 0
    /\ form_no' = f /\ form_broken' = FALSE /\ form_last_term_key' = 0
    /\ form_start_index' = Len(sections')
    /\ Open(Key(schedule_no, f, 0))
    /\ UNCHANGED <<schedule_no, current, skipped, late>>

\* The title of a form or the heading of one of its parts.
ReadFormHeading ==
    /\ Paragraph
    /\ schedule_no # 0
    /\ sections' = TermFlushed(sections)
    /\ term' = 0
    /\ UNCHANGED <<form, current, history>>

Restarts_OnLess(n) == form_last_term_key # 0 /\ n < form_last_term_key

Restarts(n) == form_last_term_key # 0 /\ n <= form_last_term_key

SkipForm_TermStays ==
    /\ sections' = SubSeq(sections, 1, form_start_index)
    /\ form_broken' = TRUE
    /\ skipped' = skipped \cup {ThisForm}
    /\ UNCHANGED <<term, opened, form_last_term_key>>

\* The numbers start again: what was written since the form began is deleted.
SkipForm ==
    /\ sections' = SubSeq(sections, 1, form_start_index)
    /\ form_broken' = TRUE /\ term' = 0
    /\ skipped' = skipped \cup {ThisForm}
    /\ UNCHANGED <<opened, form_last_term_key>>

OpenTerm(n) ==
    /\ sections' = TermFlushed(sections)
    /\ form_last_term_key' = n /\ term' = n
    /\ opened' = opened \cup {Key(schedule_no, form_no, n)}
    /\ UNCHANGED <<form_broken, skipped>>

\* "3. <tab> ..." in a form; in a form that was skipped it means nothing.
ReadTerm(n) ==
    /\ Paragraph
    /\ form_no # 0 /\ ~form_broken
    /\ IF Restarts(n) THEN SkipForm ELSE OpenTerm(n)
    /\ UNCHANGED <<schedule_no, form_no, form_start_index, current, repeated, late>>

\* "27B Prohibited terms" in the style of a section heading; within a form only
\* where no term is open, and not in one that was skipped.
ReadClause(n) ==
    /\ Paragraph
    /\ form_no # 0 => ~form_broken /\ term = 0
    /\ sections' = Flushed(sections)
    /\ current' = Key(schedule_no, 0, n)
    /\ Open(Key(schedule_no, 0, n))
    /\ Late
    /\ UNCHANGED <<form, term, skipped>>

\* The end of the document; at "Endnotes" the term comes before the clause.
Finish ==
    /\ reading
    /\ sections' \in {TermFlushed(Flushed(sections)), Flushed(TermFlushed(sections))}
    /\ current' = NoClause /\ term' = 0
    /\ reading' = FALSE
    /\ UNCHANGED <<form, paragraphs, history>>

\* parse_docx is called for another document.
NextDocument ==
    /\ ~reading
    /\ schedule_no' = 0 /\ form_no' = 0 /\ form_broken' = FALSE
    /\ form_last_term_key' = 0 /\ form_start_index' = 0
    /\ term' = 0 /\ current' = NoClause /\ sections' = <<>>
    /\ reading' = TRUE /\ paragraphs' = 0
    /\ opened' = {} /\ repeated' = FALSE /\ skipped' = {} /\ late' = {}

ParseNext ==
    \/ ReadHeading \/ ReadFormHeading \/ Finish \/ NextDocument
    \/ \E s \in Schedules : ReadSchedule(s)
    \/ \E f \in Forms : ReadForm(f)
    \/ \E n \in Numbers : ReadTerm(n) \/ ReadClause(n)

ParseSpec == ParseInit /\ [][ParseNext]_pvars
-----------------------------------------------------------------------------
Written == {sections[i] : i \in DOMAIN sections}

\* "keep section_no unique within a version" (parser_vic.py:8-10): unless the
\* document itself opens a schedule, a form or a clause twice, no two sections
\* share a key, however terms, clauses and forms follow each other and wherever
\* the numbering of a form restarts. load_version refuses a version with a key
\* that comes twice (loader.py:35-40).
KeysUnique ==
    ~repeated => \A i, j \in DOMAIN sections : sections[i] = sections[j] => i = j

\* "it deliberately yields no terms" (parser_vic.py:26-30): of a form whose
\* numbering restarts no term is left, those read before the restart and the open
\* one included, and none is added by what follows.
SkippedFormsSilent ==
    ~repeated =>
        /\ \A k \in Written : k.form # 0 => FormOf(k) \notin skipped
        /\ term # 0 => ThisForm \notin skipped

\* At the end every clause and term that was opened is a section, unless its form
\* was skipped, or it is a clause that was written while such a form was open:
\* the deletion goes by position (parser_vic.py:165) and takes it along.
NothingElseLost ==
    ~reading =>
        \A k \in opened :
            \/ k.no = 0 \/ k \in Written
            \/ k.form # 0 /\ FormOf(k) \in skipped
            \/ \E f \in skipped : <<f, k>> \in late
=============================================================================
