------------------------- MODULE MCPrescribedForms -------------------------
(* Shingles of two words, one missing shingle allowed. Of the forms, term 1  *)
(* has 21 words, so that a ratio of 0.9 allows two missing shingles, term 2  *)
(* is too short to be screened and term 3 (NSW) has a duty in the Act.       *)
EXTENDS PrescribedForms, TLC

MCHeading == <<<<1>>, <<31>>, <<41>>>>
MCBody == <<[i \in 1..20 |-> i + 1], <<32, 33>>, [i \in 1..12 |-> i + 41]>>

Lease(text, layered) == [text |-> text, layered |-> layered]
Term1 == MCHeading[1] \o MCBody[1]

\* Term 1 word for word among other words, with an interior word replaced, with
\* its last word replaced, and a scan without text.
Verbatim1 == Lease(<<90, 91, 92>> \o Term1 \o <<93>>, TRUE)
Interior  == Lease([Term1 EXCEPT ![10] = 99], TRUE)
Edge      == Lease([Term1 EXCEPT ![21] = 99], TRUE)
Scan      == Lease(<<>>, FALSE)

Undated == [given |-> FALSE, dated |-> FALSE, start_date |-> NoDate, end_date |-> NoDate,
            submitted |-> {}]
From29Feb(end, fields) ==
    [given |-> TRUE, dated |-> TRUE, start_date |-> date(2024, 2, 29), end_date |-> end,
     submitted |-> fields]

\* Five years from a leap day, and one day more.
FiveYears == From29Feb(date(2029, 2, 28), {"rent_amount"})
Longer    == From29Feb(date(2029, 3, 1), {})

MCRulesOf == [NSW |-> SubSeq(PROHIBITED_RULES, 7, 9), VIC |-> SubSeq(VIC_PROHIBITED_RULES, 7, 8)]

MCRefs == {[act |-> NSW_ACT, section |-> "19"], [act |-> NSW_REG, section |-> "5"],
           [act |-> NSW_ACT, section |-> "33"],
           [act |-> VIC_ACT, section |-> "27B"], [act |-> VIC_REGS, section |-> "11"]}

Job(j, d, l, doc) == [jurisdiction |-> j, as_at |-> d, lease |-> l, document |-> doc]

MCAmended == {[act |-> NSW_ACT, section |-> "19"], [act |-> VIC_REGS, section |-> "11"]}

MCJobs ==
    {Job("VIC", date(2026, 7, 24), l, d) :
        l \in {Undated, FiveYears, Longer}, d \in {Verbatim1, Interior, Edge, Scan}}
    \cup {Job("NSW", d, Undated, Interior) : d \in {date(2025, 5, 18), date(2025, 5, 19)}}

Said(s, q) == [says |-> s, quote |-> q]
MCRuleItems == {Said("red", "found"), Said("red", "foreign"), Said("green", "none")}
MCTermItems == {Said("covered", "blank"), Said("altered_adverse", "none"), Said("missing", "none")}
MCFieldItems == {{}, {[field |-> "rent_amount", reads |-> "otherwise"]}}

\* All sections are in force to begin with.
MCInit == Init /\ law = [s \in Refs |-> 1]

MCSpec == MCInit /\ [][Next]_vars
=============================================================================
