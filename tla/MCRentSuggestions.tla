------------------------- MODULE MCRentSuggestions -------------------------
(* Leases around the ends of February of a leap year, rents whose weekly     *)
(* equivalent is rounded, and markets on every side of the rent.            *)
EXTENDS RentSuggestions

Start == date(2023, 3, 1)
MCIncreaseDays == {Start, date(2024, 2, 29), date(2025, 2, 28), date(2025, 3, 1)}
MCAuditDays == {date(2024, 6, 1), date(2026, 7, 24)}
MCRefreshDays == {date(2024, 6, 1), date(2026, 7, 25)}
MCDays == {date(2024, 3, 1)} \cup MCIncreaseDays \cup MCAuditDays \cup MCRefreshDays

Plain == [rent_amount |-> 60000, rent_frequency |-> "weekly",
          start_date |-> Start, end_date |-> None, bond_amount |-> None,
          rent_in_advance_amount |-> None, holding_deposit_amount |-> None,
          other_security_amount |-> None, break_fee_amount |-> None,
          rent_increases |-> None, fixed_term_increase_in_agreement |-> None]

WithIncreases(incs) == [Plain EXCEPT !.rent_increases = incs]

Unnoticed(days) == [i \in DOMAIN days |-> [effective_on |-> days[i], notice_given_on |-> None]]

\* Up to three increases in any order, the same day twice included.
Histories == {WithIncreases(Unnoticed(days)) : days \in BoundedSeq(MCIncreaseDays, 3)}

\* None, 60 and 59 days before 1 March 2024.
NoticedIncrease == [effective_on : {date(2024, 3, 1), date(2025, 3, 1)},
                    notice_given_on : {None, date(2024, 1, 1), date(2024, 1, 2)}]
Noticed == {WithIncreases(<<i, j>>) : i, j \in NoticedIncrease}

\* Fixed terms that end on, before and after an increase, within and over 2 and 3 years.
Terms == {[WithIncreases(Unnoticed(<<date(2025, 2, 28)>>)) EXCEPT
              !.end_date = e, !.fixed_term_increase_in_agreement = f,
              !.break_fee_amount = b] :
            e \in {date(2025, 2, 28), date(2025, 3, 1), date(2026, 3, 2)},
            f \in {None, TRUE, FALSE}, b \in {240000, 240001}}

\* Rents at the rounding of a month to weeks and at the threshold of $900.
Amounts == {[Plain EXCEPT !.rent_amount = r, !.rent_frequency = f, !.bond_amount = b,
              !.rent_in_advance_amount = b, !.holding_deposit_amount = b,
              !.other_security_amount = b] :
            r \in {90000, 390001, 390003}, f \in Frequencies, b \in {0, 90000, 360000}}

\* Weekly rents of 600.00, 600.49, 600.50 (a month of 2602.17) and 1.00 dollars.
MCRents == {<<60000, "weekly">>, <<60049, "weekly">>, <<260217, "monthly">>, <<100, "weekly">>}
Renewals == {None, <<date(2024, 2, 29)>>, <<date(2024, 3, 1)>>}

MCRequests ==
    {[lease |-> [Plain EXCEPT !.rent_amount = r[1], !.rent_frequency = r[2],
                              !.rent_increases = IF h = None THEN None ELSE Unnoticed(h)],
      renewal_start |-> d] :
        r \in MCRents, h \in Renewals, d \in {date(2025, 2, 28), date(2025, 3, 1)}}

MCLeases == Histories \cup Noticed \cup Terms \cup Amounts
              \cup {Hypothetical(q) : q \in MCRequests}

\* No statistics; thin exact cells before rollups; bands below, across and above the rent.
Band3(m, l, h, n) == [median |-> m, p25 |-> l, p75 |-> h, sample_size |-> n]
Only(c) == [x \in Labels |-> IF x = "exact" THEN c ELSE None]
MCMarkets ==
    {Only(None), Only(Band3(60000, 55050, 65049, 9)),
     [exact |-> Band3(90000, 80000, 95000, 9), bedrooms_all |-> None,
      dwelling_all |-> Band3(40000, 35000, 45000, 10)],
     [exact |-> None, bedrooms_all |-> Band3(64000, None, None, 12),
      dwelling_all |-> Band3(75000, 69050, 80000, 40)]}

MCEnacted == [ref \in Refs |->
    IF ref = "s42" THEN {[from |-> date(2011, 1, 31), to |-> date(2024, 12, 13)]}
    ELSE {[from |-> date(2011, 1, 31), to |-> None]}]
=============================================================================
