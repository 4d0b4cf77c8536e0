----------------------------- MODULE LeaseRules -----------------------------
(* The rules of app/rules/nsw.py and vic.py: what each asks of a lease, from *)
(* which sections, on which days and with which inputs. Amounts are cents.  *)
EXTENDS Calendar, Sequences, SequencesExt

CONSTANT None   \* an input the caller left out

ASSUME NoneAssumption == None \notin Date

Frequencies == {"weekly", "fortnightly", "monthly"}

RoundHalfUp(num, den) == (2 * num + den) \div (2 * den)

to_weekly_rent(amount, frequency) ==
    CASE frequency = "weekly"      -> amount
      [] frequency = "fortnightly" -> RoundHalfUp(amount, 2)
      [] frequency = "monthly"     -> RoundHalfUp(12 * amount, 52)

to_monthly_rent(amount, frequency) ==
    CASE frequency = "weekly"      -> RoundHalfUp(52 * amount, 12)
      [] frequency = "fortnightly" -> RoundHalfUp(26 * amount, 12)
      [] frequency = "monthly"     -> amount

WeeklyRent(l) == to_weekly_rent(l.rent_amount, l.rent_frequency)
MonthlyRent(l) == to_monthly_rent(l.rent_amount, l.rent_frequency)

-----------------------------------------------------------------------------
(* Rent increases: the caller lists them in any order, a day more than once. *)

\* sorted, by the day of effect.
Earliest(l) ==
    LET listed == DOMAIN l.rent_increases
        day(i) == l.rent_increases[i].effective_on
        order == CHOOSE f \in Bijection(listed, listed) :
                    \A i, j \in listed : i < j => NoLater(day(f[i]), day(f[j]))
    IN  [i \in listed |-> day(order[i])]

RedIf(condition) == IF condition THEN "red" ELSE "green"

\* pairwise over the sorted days: the next one follows within twelve months.
ShortGap_InDays(days) ==
    \E i \in 1..(Len(days) - 1) : DaysBetween(days[i], days[i + 1]) < 365

ShortGap(days) ==
    \E i \in 1..(Len(days) - 1) : Before(days[i + 1], AddMonths(days[i], 12))

Frequency(l) == RedIf(ShortGap(Earliest(l)))

FirstYear(l) ==
    RedIf(/\ l.rent_increases # <<>>
          /\ Before(Earliest(l)[1], AddMonths(l.start_date, 12)))

\* The notices are kept by day of effect: of two on a day the later listed counts.
NoticedOn(l) ==
    LET incs == l.rent_increases
        Noticed == {i \in DOMAIN incs : incs[i].notice_given_on # None}
    IN  {incs[i] : i \in {i \in Noticed :
            \A j \in Noticed : incs[j].effective_on = incs[i].effective_on => j <= i}}

Notice(l) ==
    RedIf(\E i \in NoticedOn(l) : DaysBetween(i.notice_given_on, i.effective_on) < 60)

Disclosure(l) ==
    RedIf(/\ Before(l.end_date, AddMonths(l.start_date, 24))
          /\ \E i \in DOMAIN l.rent_increases :
                Before(l.rent_increases[i].effective_on, l.end_date)
          /\ l.fixed_term_increase_in_agreement # TRUE)

FixedTerm(l) ==
    RedIf(/\ \E i \in DOMAIN l.rent_increases :
                /\ NoLater(l.start_date, l.rent_increases[i].effective_on)
                /\ NoLater(l.rent_increases[i].effective_on, l.end_date)
          /\ ~l.fixed_term_increase_in_agreement)

-----------------------------------------------------------------------------
(* Amounts.                                                                 *)

RENT_THRESHOLD_WEEKLY == 90000

AtMostWeeks(amount, weeks, l) == RedIf(amount > weeks * WeeklyRent(l))

BreakFee(l) ==
    RedIf(/\ NoLater(l.end_date, AddMonths(l.start_date, 36))
          /\ l.break_fee_amount > 4 * WeeklyRent(l))

\* The cap of one month's rent, where the weekly rent does not exceed $900.
AtMostOneMonth(amount, l) ==
    IF WeeklyRent(l) > RENT_THRESHOLD_WEEKLY THEN "skipped"
    ELSE RedIf(amount > MonthlyRent(l))

-----------------------------------------------------------------------------
(* The registered rules.                                                    *)

Jurisdictions == {"NSW", "VIC"}

Rule(id, cites, from, to, inputs) ==
    [id |-> id, citations |-> cites, applies_from |-> from, applies_to |-> to,
     required_inputs |-> inputs]

COMMENCED == date(2011, 1, 31)
FREQ_COMMENCED == date(2020, 3, 23)
FIRST_YEAR_COMMENCED == date(2024, 10, 31)
S42_REPEALED == date(2024, 12, 13)
S44_CORPUS_FLOOR == date(2020, 4, 6)

NSW_RULES == <<
    Rule("bond_max_4_weeks", <<"s159">>, COMMENCED, None, {"bond_amount"}),
    Rule("rent_in_advance_max", <<"s33">>, COMMENCED, None, {"rent_in_advance_amount"}),
    Rule("holding_fee_max_1_week", <<"s24">>, COMMENCED, None, {"holding_deposit_amount"}),
    Rule("rent_increase_frequency", <<"s41">>, FREQ_COMMENCED, None, {"rent_increases"}),
    Rule("rent_increase_first_year", <<"s41">>, FIRST_YEAR_COMMENCED, None, {"rent_increases"}),
    Rule("rent_increase_notice", <<"s41">>, COMMENCED, None, {"rent_increases"}),
    Rule("fixed_term_increase_disclosure", <<"s42">>, COMMENCED, S42_REPEALED,
         {"end_date", "rent_increases"}),
    Rule("no_other_security", <<"s160">>, COMMENCED, None, {"other_security_amount"}),
    Rule("break_fee_cap", <<"s107">>, FREQ_COMMENCED, None, {"break_fee_amount", "end_date"}) >>

VIC_RULES == <<
    Rule("bond_max_1_month", <<"s31", "reg17">>, None, None, {"bond_amount"}),
    Rule("advance_max_1_month", <<"s40", "reg17">>, None, None, {"rent_in_advance_amount"}),
    Rule("rent_increase_frequency", <<"s44">>, S44_CORPUS_FLOOR, None, {"rent_increases"}),
    Rule("fixed_term_increase_provision", <<"s44">>, None, None,
         {"rent_increases", "fixed_term_increase_in_agreement", "end_date"}) >>

RULES(jurisdiction) == IF jurisdiction = "NSW" THEN NSW_RULES ELSE VIC_RULES

Refs == {"s159", "s33", "s24", "s41", "s42", "s160", "s107", "s31", "s40", "s44", "reg17"}

check(id, l) ==
    CASE id = "bond_max_4_weeks"               -> AtMostWeeks(l.bond_amount, 4, l)
      [] id = "rent_in_advance_max"            -> AtMostWeeks(l.rent_in_advance_amount, 2, l)
      [] id = "holding_fee_max_1_week"         -> AtMostWeeks(l.holding_deposit_amount, 1, l)
      [] id = "rent_increase_frequency"        -> Frequency(l)
      [] id = "rent_increase_first_year"       -> FirstYear(l)
      [] id = "rent_increase_notice"           -> Notice(l)
      [] id = "fixed_term_increase_disclosure" -> Disclosure(l)
      [] id = "no_other_security"              -> RedIf(l.other_security_amount > 0)
      [] id = "break_fee_cap"                  -> BreakFee(l)
      [] id = "bond_max_1_month"               -> AtMostOneMonth(l.bond_amount, l)
      [] id = "advance_max_1_month"            -> AtMostOneMonth(l.rent_in_advance_amount, l)
      [] id = "fixed_term_increase_provision"  -> FixedTerm(l)
=============================================================================
