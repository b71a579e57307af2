--------------------------- MODULE CapSuggestion ---------------------------
(***************************************************************************)
(* The tiers of a configuration and what they share out of a budget        *)
(* (internal/algo/config.go, waterfall.go), and the configuration that is  *)
(* suggested for the next cycle (cap_suggest.go).  Nothing but the tests   *)
(* calls these yet, except ValidTiers.                                     *)
(*                                                                         *)
(* Budget_share_pct is in ten thousandths, Score_cap_pct in hundredths,    *)
(* averages of a history in percent; arithmetic is exact.                  *)
(***************************************************************************)
EXTENDS Integers, FiniteSetsExt, Functions

ConfigTerms == [max_tier_cap : Int, min_tier : Int, tier_increment : Int,
                budget_share_pct : Int, score_cap_pct : Int]

Validate(c) ==
  /\ c.tier_increment > 0 /\ c.min_tier > 0 /\ c.min_tier <= c.max_tier_cap
  /\ c.min_tier % c.tier_increment = 0 /\ c.max_tier_cap % c.tier_increment = 0
  /\ c.budget_share_pct > 0 /\ c.budget_share_pct <= 10000
  /\ c.score_cap_pct > 0 /\ c.score_cap_pct <= 1000

ValidTiers(c) == {t \in c.min_tier..c.max_tier_cap : (t - c.min_tier) % c.tier_increment = 0}

-----------------------------------------------------------------------------
(* RunWaterfall: talents[t] of them ask for tier t *)

\* The demand that the share of the budget and the cap admit.
DemandOf(c, budget, talents) ==
  [t \in {t \in DOMAIN talents : /\ talents[t] > 0 /\ t >= c.min_tier /\ t <= c.max_tier_cap
                                 /\ 10000 * t <= budget * c.budget_share_pct} |-> talents[t] * t]

TotalDemand(demand) == SumFunction(demand)

\* A deviation: the demand is met in full.
SlotCountUnscaled(demand, budget, t) == demand[t] \div t

\* Each tier has its weight of the budget, scaled down by the budget over the
\* demand if that is larger.
SlotCount(demand, budget, t) ==
  LET total == TotalDemand(demand)
      share == demand[t] * budget
  IN  IF total > budget THEN (share * budget) \div (total * total * t) ELSE share \div (total * t)

RunWaterfall(c, budget, talents) ==
  LET demand == DemandOf(c, budget, talents)
  IN  [t \in DOMAIN demand |-> SlotCount(demand, budget, t)]

-----------------------------------------------------------------------------
(* SuggestConfig *)

\* A history is read as pairs <<early, late>>: the averages of the first and
\* the second half of the cycles.
Histories == [utilization : Int \X Int, waste : Int \X Int, unassigned : Int \X Int, performance : Int \X Int]

Average(pair) == (pair[1] + pair[2]) \div 2

AnalyzeUtilization(pair) ==
  CASE Average(pair) < 60 -> "decrease"
    [] Average(pair) > 95 -> "increase"
    [] Average(pair) \in 60..95 /\ pair[2] - pair[1] < -10 -> "decrease"
    [] OTHER -> "maintain"

AnalyzeWaste(pair) ==
  CASE Average(pair) > 30 -> "decrease"
    [] Average(pair) < 5  -> "increase"
    [] OTHER -> "maintain"

AnalyzeUnassignment(pair) ==
  IF Average(pair) > 25 \/ (pair[2] - pair[1] > 5 /\ Average(pair) > 10) THEN "decrease" ELSE "maintain"

AnalyzePerformance(pair, c) ==
  CASE Average(pair) = 0 -> "maintain"
    [] Average(pair) > 0 /\ 10 * Average(pair) >= 9 * c.score_cap_pct -> "increase"
    [] Average(pair) \in 1..49 /\ 10 * Average(pair) < 9 * c.score_cap_pct -> "decrease"
    [] OTHER -> "maintain"

\* A deviation: the new cap may be higher than the old one.
LowerCapUnchecked(c, cap) == [c EXCEPT !.max_tier_cap = cap]

\* A cap that is lower, but not below the smallest tier.
LowerCap(c, cap) == IF cap >= c.min_tier /\ cap < c.max_tier_cap THEN [c EXCEPT !.max_tier_cap = cap] ELSE c

ApplyUtilization(c, direction, budget) ==
  CASE direction = "decrease" ->
         LowerCap(c, ((budget * c.budget_share_pct * 85) \div (1000000 * c.tier_increment)) * c.tier_increment)
    [] direction = "increase" -> [c EXCEPT !.max_tier_cap = @ + c.tier_increment]
    [] OTHER -> c

ApplyWaste(c, direction) ==
  CASE direction = "decrease" -> [c EXCEPT !.budget_share_pct = Max({500, (@ * 90) \div 100})]
    [] direction = "increase" -> [c EXCEPT !.budget_share_pct = Min({10000, (@ * 105) \div 100})]
    [] OTHER -> c

ApplyUnassignment(c, direction) ==
  IF direction = "decrease" /\ c.min_tier > c.tier_increment
    THEN [c EXCEPT !.min_tier = @ - c.tier_increment] ELSE c

ApplyPerformance(c, direction) ==
  CASE direction = "increase" -> [c EXCEPT !.score_cap_pct = Min({1000, @ + 25})]
    [] direction = "decrease" -> LowerCap(c, c.max_tier_cap - c.tier_increment)
    [] OTHER -> c

Clamp(n, low, high) == Max({low, Min({n, high})})

ClampConfig(c) ==
  LET Round(n) == (n \div c.tier_increment) * c.tier_increment
      least    == Round(Max({c.min_tier, c.tier_increment}))
  IN  [c EXCEPT !.min_tier = least,
                !.max_tier_cap = Max({Round(@), least}),
                !.budget_share_pct = Clamp(@, 500, 10000),
                !.score_cap_pct = Clamp(@, 50, 1000)]

SuggestConfig(c, history, budget) ==
  LET utilised == ApplyUtilization(c, AnalyzeUtilization(history.utilization), budget)
      shared   == ApplyWaste(utilised, AnalyzeWaste(history.waste))
      assigned == ApplyUnassignment(shared, AnalyzeUnassignment(history.unassigned))
  IN  ClampConfig(ApplyPerformance(assigned, AnalyzePerformance(history.performance, c)))

-----------------------------------------------------------------------------
(* What the two promise *)

\* shares[t] slots of each tier t cost no more than the budget.
Affordable(shares, budget) == SumFunction([t \in DOMAIN shares |-> shares[t] * t]) <= budget

\* The configuration next is valid, and a step from c: its cap is at most an
\* increment higher, and no higher where utilisation is low; its smallest tier
\* is an increment lower or the same.
OneStepFrom(c, history, next) ==
  /\ Validate(next)
  /\ next.max_tier_cap <=
       IF AnalyzeUtilization(history.utilization) = "decrease" THEN c.max_tier_cap
       ELSE c.max_tier_cap + c.tier_increment
  /\ next.min_tier \in {c.min_tier, c.min_tier - c.tier_increment}
=============================================================================
