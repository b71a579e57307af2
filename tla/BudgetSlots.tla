---------------------------- MODULE BudgetSlots ----------------------------
(***************************************************************************)
(* The waterfall that divides a cycle's budget into slots                  *)
(* (internal/allocation/slots.go): at most one slot per active talent,     *)
(* sized by the talent's demand, the fair share of the budget and the      *)
(* talent's own ceiling.  Money is in whole units.                         *)
(***************************************************************************)
EXTENDS Integers, Sequences, FiniteSets, Functions

CONSTANTS TierIncrement,  \* algo.DefaultConfig().Tier_increment
          MaxTierValue    \* the largest tier a row can hold (math.MaxInt32)

ASSUME TierAssumption ==
  /\ TierIncrement \in Nat \ {0}
  /\ MaxTierValue \in Nat

\* What the waterfall reads of a campaign and of a talent, and what it makes.
Terms == [target_cpa : Int, max_cpa : Int, cycle_length : Int]
TalentTerms == [category : STRING, max_tier : Int, status : STRING]
SlotTerms == [tier : Nat, index : Nat]
Errors == {"", "invalid_cycle", "cycle_budget_below_target_cpa", "tier_value_exceeds_supported_range"}

LesserOf(a, b) == IF a <= b THEN a ELSE b
GreaterOf(a, b) == IF a >= b THEN a ELSE b

RoundDown(n) == (n \div TierIncrement) * TierIncrement
RoundUp(n) == RoundDown(n + TierIncrement - 1)

\* At least one unit of the target CPA can be paid.
ValidCycle(campaign, budget) ==
  /\ campaign.target_cpa > 0
  /\ campaign.max_cpa > 0
  /\ campaign.target_cpa <= campaign.max_cpa
  /\ budget >= campaign.target_cpa

CategoryPDC(category) ==
  CASE category = "student"   -> 2
    [] category = "micro"     -> 5
    [] category = "community" -> 15
    [] OTHER                  -> 2

DemandTier(pdc, campaign) == RoundDown(pdc * campaign.cycle_length * campaign.max_cpa)

ActiveTalents(talents) == {i \in DOMAIN talents : talents[i].status = "active"}

\* The smallest tier that pays a target CPA.
MinTier(campaign) == RoundUp(campaign.target_cpa)

\* A deviation: the number of slots is not bounded by what the budget funds.
CapacityUnfunded(campaign, budget, active) == Cardinality(active)

Capacity(campaign, budget, active) ==
  LesserOf(budget \div MinTier(campaign), Cardinality(active))

FairBudget(campaign, budget, active) ==
  RoundDown(budget \div Capacity(campaign, budget, active))

\* Deviations: the fair share, or the talent's own ceiling, does not bind.
TierUncapped(campaign, fair, talent) ==
  LET natural == GreaterOf(DemandTier(CategoryPDC(talent.category), campaign), MinTier(campaign))
  IN  IF talent.max_tier > 0 /\ natural > talent.max_tier THEN RoundDown(talent.max_tier) ELSE natural

TierUnceiled(campaign, fair, talent) ==
  LesserOf(GreaterOf(DemandTier(CategoryPDC(talent.category), campaign), MinTier(campaign)), fair)

\* Natural demand, at least the minimum, at most the fair share, at most the ceiling.
TierOf(campaign, fair, talent) ==
  LET natural == GreaterOf(DemandTier(CategoryPDC(talent.category), campaign), MinTier(campaign))
      shared  == LesserOf(natural, fair)
  IN  IF talent.max_tier > 0 /\ shared > talent.max_tier
        THEN RoundDown(talent.max_tier)
        ELSE shared

\* A deviation: the slots of a tier are not told apart.
NextIndexAlwaysZero(slots, tier) == 0

\* The slots of one tier are numbered from 0.
NextIndex(slots, tier) == Cardinality({i \in DOMAIN slots : slots[i].tier = tier})

NoSlots(error) == [slots |-> <<>>, error |-> error]

\* One turn of the loop over the active talents, which ends when the capacity
\* is reached or a tier is too large.
AddSlot(campaign, fair, capacity, result, talent) ==
  LET tier == TierOf(campaign, fair, talent)
  IN  IF talent.status # "active" \/ result.error # "" \/ Len(result.slots) = capacity THEN result
      ELSE IF tier > MaxTierValue THEN NoSlots("tier_value_exceeds_supported_range")
      ELSE IF tier < MinTier(campaign) THEN result
      ELSE [result EXCEPT !.slots = Append(@, [tier |-> tier, index |-> NextIndex(@, tier)])]

\* The result after the first n talents.
AfterTurns(campaign, fair, capacity, talents) ==
  LET after[n \in 0 .. Len(talents)] ==
        IF n = 0 THEN NoSlots("")
        ELSE AddSlot(campaign, fair, capacity, after[n - 1], talents[n])
  IN  after

BuildBudgetSlots(campaign, budget, talents) ==
  LET active   == ActiveTalents(talents)
      capacity == Capacity(campaign, budget, active)
      fair     == FairBudget(campaign, budget, active)
  IN  IF active = {} THEN NoSlots("")
      ELSE IF ~ValidCycle(campaign, budget) THEN NoSlots("invalid_cycle")
      ELSE IF capacity = 0 THEN NoSlots("cycle_budget_below_target_cpa")
      ELSE AfterTurns(campaign, fair, capacity, talents)[Len(talents)]

-----------------------------------------------------------------------------
(* What is promised of the rows of a cycle                                 *)

\* The slots never promise more than the budget, although each is sized on its own.
WithinBudget(rows, budget) == SumFunction([i \in DOMAIN rows |-> rows[i].tier]) <= budget

\* UNIQUE (cycle_id, tier_value, slot_index), and indexes have no gap.
IndexedInOrder(rows) ==
  \A i \in DOMAIN rows :
    rows[i].index = Cardinality({j \in DOMAIN rows : j < i /\ rows[j].tier = rows[i].tier})

\* Each slot pays a target CPA and is a whole tier; and the slots can be given
\* to active talents in order, each within the talent's ceiling.
Serving(rows, campaign, talents) ==
  /\ \A i \in DOMAIN rows : rows[i].tier >= campaign.target_cpa /\ rows[i].tier % TierIncrement = 0
  /\ \E f \in [DOMAIN rows -> ActiveTalents(talents)] :
       /\ \A i, j \in DOMAIN rows : i < j => f[i] < f[j]
       /\ \A i \in DOMAIN rows :
            LET ceiling == talents[f[i]].max_tier
            IN  ceiling > 0 => rows[i].tier <= ceiling

\* The talents whose ceiling admits the smallest tier.
Eligible(campaign, talents) ==
  {i \in ActiveTalents(talents) : talents[i].max_tier <= 0 \/ talents[i].max_tier >= MinTier(campaign)}

\* A talent is passed over only when the budget funds no further slot, or
\* because of the ceiling.
NobodyPassedOver(result, campaign, budget, talents) ==
  result.error = "" /\ campaign.target_cpa > 0 =>
    Len(result.slots) >= LesserOf(budget \div MinTier(campaign), Cardinality(Eligible(campaign, talents)))
=============================================================================
