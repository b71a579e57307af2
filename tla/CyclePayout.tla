---------------------------- MODULE CyclePayout ----------------------------
(***************************************************************************)
(* What a cycle pays its talents (internal/algo/payout.go), from the       *)
(* inputs internal/src/payout/service.go builds.  Money is in kobo;        *)
(* arithmetic is exact, where the code's is in float64.                    *)
(***************************************************************************)
EXTENDS Integers, Sequences, Functions

\* cycle:      [type, pool, cpa, kpbs]  Campaign_type, Remaining_budget,
\*             Target_cpa of the campaign, the costs of KPB_config
\* assignment: [tier, status]           Effective_tier, Status
\* talent:     [pipeline, budget, status, destinations, leads, cap, bonuses]

Pipelines == {"direct_traffic", "lead_validation"}
AssignmentStatuses == {"active", "completed", "removed_forfeit", "removed_payout"}

Smaller(a, b) == IF a <= b THEN a ELSE b
Larger(a, b) == IF a >= b THEN a ELSE b

\* MoneyRound of n / d, for n >= 0 and d > 0.
MoneyRound(n, d) == (2 * n + d) \div (2 * d)

Total(seq, F(_)) == SumFunction([i \in DOMAIN seq |-> F(seq[i])])

\* The input the service makes of an assignment: one destination at the
\* target CPA, or the leads and one bonus per KPB, each triggered by every
\* conversion.
TalentInput(cycle, assignment, conversions) ==
  LET traffic == cycle.type = "direct_traffic"
  IN  [pipeline     |-> cycle.type,
       budget       |-> assignment.tier,
       status       |-> assignment.status,
       destinations |-> IF traffic THEN <<[conversions |-> conversions, cost |-> cycle.cpa]>>
                                   ELSE <<>>,
       leads        |-> IF traffic THEN 0 ELSE conversions,
       cap          |-> IF traffic THEN 0 ELSE cycle.cpa,
       bonuses      |-> IF traffic THEN <<>>
                        ELSE [k \in DOMAIN cycle.kpbs |->
                                [amount |-> cycle.kpbs[k], triggers |-> conversions]]]

Gross(base, kpb) == [base |-> base, kpb |-> kpb, total |-> base + kpb]

\* computeTrafficPayout: conversions at cost, no more than the budget.
TrafficPayout(t) ==
  LET value == Total(t.destinations, LAMBDA d : d.conversions * d.cost)
      units == Total(t.destinations, LAMBDA d : d.conversions)
      paid  == {i \in DOMAIN t.destinations : t.destinations[i].cost # 0}
      first == CHOOSE i \in paid : \A j \in paid : i <= j
      cap   == IF paid = {} THEN 0 ELSE t.destinations[first].cost
      over  == units > 0 /\ cap > 0 /\ MoneyRound(t.budget, units) > cap
  IN  Gross(IF over THEN units * cap ELSE Smaller(value, t.budget), 0)

\* A deviation: bonuses that do not fit are dropped.
KpbWithinDropped(budget, base, kpb) == IF base + kpb > budget THEN 0 ELSE kpb

\* A deviation: bonuses come on top of the allocation.
KpbWithinUncut(budget, base, kpb) == kpb

\* Bonuses are cut to what the base leaves of the allocation (KPB_from_pool
\* is never set).
KpbWithin(budget, base, kpb) ==
  IF base + kpb > budget THEN Larger(budget - base, 0) ELSE kpb

\* computeLeadPayout: the whole budget when a lead costs at most the cap,
\* else the leads at the cap.
LeadPayout(t) ==
  LET base == CASE t.leads = 0 -> 0
                [] t.leads > 0 /\ MoneyRound(t.budget, t.leads) <= t.cap -> t.budget
                [] OTHER -> t.leads * t.cap
      kpb  == Total(t.bonuses, LAMBDA b : b.amount * b.triggers)
  IN  Gross(base, KpbWithin(t.budget, base, kpb))

\* A talent that forfeits earns nothing.
GrossOf(t) ==
  CASE t.status = "removed_forfeit" -> Gross(0, 0)
    [] t.status # "removed_forfeit" /\ t.pipeline = "direct_traffic" -> TrafficPayout(t)
    [] OTHER -> LeadPayout(t)

\* The platform keeps 30%.
Commission(t) == MoneyRound(3 * GrossOf(t).total, 10)

Net(t) == MoneyRound(7 * GrossOf(t).total, 10)

\* A deviation: what the bonuses add is not counted as demand.
DemandOfBase(talents) ==
  Total(talents, LAMBDA t : MoneyRound(7 * GrossOf(t).base, 10))

Demand(talents) == Total(talents, Net)

\* A deviation: only a net that exceeds the pool by itself is scaled.
ScaledAlone(net, demand, pool) ==
  IF net > pool /\ pool > 0 THEN MoneyRound(net * pool, demand) ELSE net

\* When the nets exceed the pool, all are scaled down alike; an empty pool scales nothing.
Scaled(net, demand, pool) ==
  IF demand > pool /\ pool > 0 THEN MoneyRound(net * pool, demand) ELSE net

\* ComputeCyclePayout, as far as the payout records use it.
ComputeCyclePayout(talents, pool) ==
  [i \in DOMAIN talents |->
     [gross      |-> GrossOf(talents[i]).total,
      commission |-> Commission(talents[i]),
      net        |-> Net(talents[i]),
      payout     |-> Scaled(Net(talents[i]), Demand(talents), pool)]]

-----------------------------------------------------------------------------
(* What is promised: of a talent t, of the payouts paid of a cycle with a  *)
(* pool, and of one conversion more.                                       *)

\* A talent grosses no more than the allocation, bonuses included, and what
\* the talent and the platform get is the gross, but for rounding.
WithinAllocation(t) ==
  /\ GrossOf(t).total <= t.budget
  /\ Commission(t) + Net(t) - GrossOf(t).total \in -1..1

\* The payouts exceed a pool that is not empty by no more than the rounding of each.
WithinPool(paid, pool) ==
  pool > 0 => 2 * Total(paid, LAMBDA r : r.payout) <= 2 * pool + Len(paid)

\* Sharing a small pool keeps the order of the talents.
InOrder(paid) ==
  \A i, j \in DOMAIN paid : paid[i].net <= paid[j].net => paid[i].payout <= paid[j].payout

OneMoreNeverCosts(cycle, assignment, conversions) ==
  Net(TalentInput(cycle, assignment, conversions)) <= Net(TalentInput(cycle, assignment, conversions + 1))
=============================================================================
