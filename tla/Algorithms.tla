----------------------------- MODULE Algorithms -----------------------------
(***************************************************************************)
(* The algorithms that answer at once: a question is put to one of them    *)
(* and answered.  The slots of a cycle (BudgetSlots), what it pays         *)
(* (CyclePayout), how the daily job rates a talent (Utilisation), what     *)
(* tiers share out of a budget and the next configuration (CapSuggestion). *)
(***************************************************************************)
EXTENDS BudgetSlots, CyclePayout, Utilisation, CapSuggestion

VARIABLES question,
          answer  \* <<>> until there is one

-----------------------------------------------------------------------------
(* The questions *)

SlotQuestions == [kind : {"slots"}, campaign : Terms, budget : Nat, talents : Seq(TalentTerms)]

PayoutQuestions ==
  [kind : {"payouts"}, cycle : [type : Pipelines, pool : Int, cpa : Nat, kpbs : Seq(Nat)],
   assignments : Seq([tier : Nat, status : AssignmentStatuses, conversions : Nat])]

RatingQuestions == [kind : {"rating"}, outputs : Seq(Nat), tier : Nat, cpa : Nat \ {0}, days : Nat \ {0}]

\* How many talents ask for which tiers, of finitely many.
TierDemands == UNION {[asked -> Int] : asked \in {x \in SUBSET Int : IsFiniteSet(x)}}

WaterfallQuestions == [kind : {"waterfall"}, config : ConfigTerms, budget : Nat, talents : TierDemands]

SuggestionQuestions == [kind : {"suggestion"}, config : ConfigTerms, budget : Int, history : Histories]

Questions ==
  SlotQuestions \cup PayoutQuestions \cup RatingQuestions \cup WaterfallQuestions \cup SuggestionQuestions

-----------------------------------------------------------------------------
(* The answers *)

\* What the payout service makes of the assignments.
Inputs == [i \in DOMAIN question.assignments |->
             TalentInput(question.cycle, question.assignments[i], question.assignments[i].conversions)]

Answer ==
  LET q == question IN
  CASE q.kind = "slots"      -> BuildBudgetSlots(q.campaign, q.budget, q.talents)
    [] q.kind = "payouts"    -> ComputeCyclePayout(Inputs, q.cycle.pool)
    [] q.kind = "rating"     -> Anomaly(q.outputs, q.tier, q.cpa, q.days)
    [] q.kind = "waterfall"  -> RunWaterfall(q.config, q.budget, q.talents)
    [] q.kind = "suggestion" -> SuggestConfig(q.config, q.history, q.budget)

Compute == answer = <<>> /\ answer' = <<Answer>> /\ UNCHANGED question

AlgorithmsSpec == question \in Questions /\ answer = <<>> /\ [][Compute]_<<question, answer>>

Answered(kind) == question.kind = kind /\ answer # <<>>

-----------------------------------------------------------------------------
(* What the answers promise *)

\* The slots of a cycle never promise more than its budget, although each is
\* sized on its own; no two of a tier share an index; each pays a target CPA,
\* is a whole tier and belongs to a talent of its own, whose ceiling it
\* respects; and a talent is passed over only when the budget funds no further
\* slot or the ceiling is below the smallest tier (internal/allocation/slots.go,
\* BuildBudgetSlots).
SlotsSound ==
  Answered("slots") =>
    /\ WithinBudget(answer[1].slots, question.budget)
    /\ IndexedInOrder(answer[1].slots)
    /\ Serving(answer[1].slots, question.campaign, question.talents)
    /\ NobodyPassedOver(answer[1], question.campaign, question.budget, question.talents)

\* The payouts of a cycle exceed a pool that is not empty by no more than the
\* rounding of each, and sharing a small pool keeps the order of the talents;
\* no talent grosses more than the allocation, bonuses included, and what the
\* talent and the platform get is the gross; one more conversion never pays
\* less (internal/algo/payout.go, P.2-P.7).
PayoutsSound ==
  Answered("payouts") =>
    /\ WithinPool(answer[1], question.cycle.pool)
    /\ InOrder(answer[1])
    /\ \A i \in DOMAIN answer[1] : LET a == question.assignments[i] IN
         /\ WithinAllocation(Inputs[i])
         /\ OneMoreNeverCosts(question.cycle, a, a.conversions)

\* The daily job hands the rating the tier, which is money, as the conversions
\* expected in a day: whatever a talent brings within what the slot can pay for
\* at a CPA of ten or more, the talent is reported as collapsing, however steady
\* (internal/jobs/daily_compute.go:83, 100).
OnlyCollapseIsSeen ==
  /\ Answered("rating") /\ question.outputs # <<>> /\ question.cpa >= 10
  /\ SumOf(question.outputs) <= question.tier \div question.cpa
  => answer = <<"collapse">>

\* With a valid configuration, what the tiers share out of a budget costs no
\* more than it, scaled down or not; and the suggested configuration is valid,
\* whatever the four adjustments make of each other, and moves by a step: the
\* cap is not raised by more than an increment, and not at all where
\* utilisation is low (internal/algo/waterfall.go; cap_suggest.go:326, 374).
ConfigurationSound ==
  /\ Answered("waterfall") /\ Validate(question.config) => Affordable(answer[1], question.budget)
  /\ Answered("suggestion") /\ Validate(question.config) =>
       OneStepFrom(question.config, question.history, answer[1])
=============================================================================
