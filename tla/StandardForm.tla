---------------------------- MODULE StandardForm ----------------------------
(* The comparison with the prescribed form, as app/clause_audit/             *)
(* standard_form.py makes it without a model: which form governs a lease,    *)
(* and which of its terms are found in the document word for word. A text is *)
(* the sequence of its normalised words.                                    *)
EXTENDS Calendar, Sequences, FiniteSets

CONSTANTS SHINGLE_TOKENS, MAX_MISSING_SHINGLES, MIN_SCREEN_TOKENS

ASSUME ScreenAssumption ==
    /\ SHINGLE_TOKENS \in Nat \ {0} /\ MIN_SCREEN_TOKENS \in Nat
    /\ MAX_MISSING_SHINGLES \in Nat
    /\ MAX_MISSING_SHINGLES < SHINGLE_TOKENS /\ SHINGLE_TOKENS <= MIN_SCREEN_TOKENS

Window(text, i) == SubSeq(text, i, i + SHINGLE_TOKENS - 1)

\* _shingles: all runs of SHINGLE_TOKENS words, none if the text is shorter.
Shingles(text) == {Window(text, i) : i \in 1..(Len(text) - SHINGLE_TOKENS + 1)}

Missing(text, document) == Cardinality(Shingles(text) \ Shingles(document))

Verbatim_NoBudget(heading, body, document) ==
    LET text == heading \o body
    IN  /\ Len(body) >= MIN_SCREEN_TOKENS
        /\ 10 * Missing(text, document) <= Cardinality(Shingles(text))

\* screen_terms: a containment of 0.9 and at most so many shingles missing.
Verbatim(heading, body, document) ==
    LET text == heading \o body
    IN  /\ Len(body) >= MIN_SCREEN_TOKENS
        /\ 10 * Missing(text, document) <= Cardinality(Shingles(text))
        /\ Missing(text, document) <= MAX_MISSING_SHINGLES

\* _vic_form: Form 2 for fixed terms over five years, Form 1 if the dates are unknown.
VicForm(lease) ==
    IF lease.dated /\ Before(AddMonths(lease.start_date, 60), lease.end_date) THEN 2 ELSE 1

\* The sections of the Act that terms of the NSW form restate.
NSW_ACT_DUTIES ==
    [n \in {3, 15, 16, 19, 32} |->
        CASE n = 3 -> "33" [] n = 15 -> "50" [] n = 16 -> "51" [] n = 19 -> "52" [] n = 32 -> "70"]

Outcomes == {"covered", "missing", "altered_adverse", "uncertain"}

OutcomeVerdict(outcome) ==
    CASE outcome = "covered" -> "green"
      [] outcome \in {"missing", "altered_adverse"} -> "red"
      [] outcome = "uncertain" -> "yellow"

QuoteRequired == {"covered", "altered_adverse"}
=============================================================================
