-------------------------- MODULE ProhibitedTerms --------------------------
(* The terms that a lease must not contain: the rule tables of               *)
(* app/clause_audit/rules.py and rules_vic.py, each rule with the section it *)
(* rests on and the days it applies to. The questions put to the model are   *)
(* left out.                                                                *)
EXTENDS Calendar

NoDate == [month |-> 0, day |-> 0]

ClauseRule(id, act, section, from, to) ==
    [rule_id |-> id, ref |-> [act |-> act, section |-> section],
     applies_from |-> from, applies_to |-> to]

NSW_ACT == "act-2010-042"
NSW_REG == "sl-2019-0629"
VIC_ACT == "residential-tenancies-act-1997"
VIC_REGS == "residential-tenancies-regulations-2021"

COMMENCED == date(2011, 1, 31)
REG_COMMENCED == date(2019, 12, 16)
PETS_COMMENCED == date(2025, 5, 19)
VIC_COMMENCED == date(2021, 3, 29)

PROHIBITED_RULES ==
    <<ClauseRule("carpet_cleaning", NSW_ACT, "19", COMMENCED, NoDate),
      ClauseRule("fumigation", NSW_ACT, "19", PETS_COMMENCED, NoDate),
      ClauseRule("specified_insurance", NSW_ACT, "19", COMMENCED, NoDate),
      ClauseRule("landlord_liability_exemption", NSW_ACT, "19", COMMENCED, NoDate),
      ClauseRule("breach_penalty", NSW_ACT, "19", COMMENCED, NoDate),
      ClauseRule("no_breach_rent_inducement", NSW_ACT, "19", COMMENCED, NoDate),
      ClauseRule("specified_contractor", NSW_ACT, "19", PETS_COMMENCED, NoDate),
      ClauseRule("specified_contractor_reg", NSW_REG, "5", REG_COMMENCED, PETS_COMMENCED),
      ClauseRule("utility_provider", NSW_REG, "5", REG_COMMENCED, NoDate)>>

ActRule(id) == ClauseRule(id, VIC_ACT, "27B", VIC_COMMENCED, NoDate)
RegRule(id) == ClauseRule(id, VIC_REGS, "11", VIC_COMMENCED, NoDate)

VIC_PROHIBITED_RULES ==
    <<ActRule("renter_insurance"), ActRule("provider_liability_exemption"),
      ActRule("breach_penalty"), ActRule("professional_cleaning_required"),
      ActRule("professional_cleaning_cost"), ActRule("no_breach_rent_inducement"),
      ActRule("preparation_costs"),
      RegRule("unreviewed_contract"), RegRule("renter_indemnity"),
      RegRule("late_availability_claim_waiver"), RegRule("costly_payment_method"),
      RegRule("third_party_services"), RegRule("safety_maintenance_transfer"),
      RegRule("tribunal_costs_transfer"), RegRule("insurance_excess_transfer"),
      RegRule("fixed_break_fees")>>

rule_active_ToInclusive(rule, as_at) ==
    /\ rule.applies_from # NoDate => ~Before(as_at, rule.applies_from)
    /\ rule.applies_to # NoDate => NoLater(as_at, rule.applies_to)

\* From applies_from on, until the day before applies_to.
rule_active(rule, as_at) ==
    /\ rule.applies_from # NoDate => ~Before(as_at, rule.applies_from)
    /\ rule.applies_to # NoDate => Before(as_at, rule.applies_to)
=============================================================================
