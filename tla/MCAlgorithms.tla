---------------------------- MODULE MCAlgorithms ----------------------------
(***************************************************************************)
(* The algorithms over every small input: a question is asked and answered *)
(* at once, or by the solver in steps.                                     *)
(***************************************************************************)
EXTENDS Algorithms, HungarianSolver, TLC

CONSTANTS MaxTalents,    \* bound: talents of a question
          MaxConversions \* bound: conversions of a talent

vars == <<question, answer, solverVars>>

-----------------------------------------------------------------------------
(* The questions.  Money is in thousands for the waterfall and in kobo for *)
(* the payouts: tiers of 5, CPAs below, at and between tiers.              *)

Lists(S) == UNION {[1..n -> S] : n \in 0..MaxTalents}
Pairs(S) == {<<x, y>> : x, y \in S}

AskSlots ==
  \E campaign \in [target_cpa : {1, 5, 8}, max_cpa : {3, 6, 11}, cycle_length : {5, 7}],
     budget \in {3, 5, 9, 11, 17, 31, 50, 200},
     list \in Lists([category : {"student", "community"}, max_tier : {0, 4, 12}, status : {"active"}]
                      \cup [category : {"micro"}, max_tier : {0}, status : {"pending"}]) :
    /\ campaign.target_cpa <= campaign.max_cpa /\ campaign.max_cpa <= budget
    /\ question = [kind |-> "slots", campaign |-> campaign, budget |-> budget, talents |-> list]

AskPayouts ==
  \E cycle \in [type : {"direct_traffic"}, pool : {0, 31, 77, 1000}, cpa : {7, 30}, kpbs : {<<>>}]
                 \cup [type : {"lead_validation"}, pool : {0, 31, 77, 1000}, cpa : {7, 30},
                       kpbs : {<<>>, <<5>>, <<40>>, <<5, 40>>}],
     list \in Lists([tier : {50, 105}, status : {"active", "removed_forfeit"},
                     conversions : 0..MaxConversions]) :
    /\ Len(list) \in {1, 2}
    /\ question = [kind |-> "payouts", cycle |-> cycle, assignments |-> list]

Outputs == UNION {[1..n -> {1, 2, 5, 9}] : n \in 0..4}

AskRating ==
  \E outputs \in Outputs, tier \in {50, 200}, target \in {10, 20}, days \in {4, 7} :
    question = [kind |-> "rating", outputs |-> outputs, tier |-> tier, cpa |-> target, days |-> days]

Config(cap, min, share, score) ==
  [max_tier_cap |-> cap, min_tier |-> min, tier_increment |-> 5,
   budget_share_pct |-> share, score_cap_pct |-> score]

AskWaterfall ==
  \E budget \in {20, 33, 100}, share \in {2500, 10000}, talents_by_tier \in [{5, 10, 15} -> 0..3] :
    question = [kind |-> "waterfall", config |-> Config(10, 5, share, 150),
                budget |-> budget, talents |-> talents_by_tier]

AskSuggestion ==
  \E cap \in {5, 10, 55}, min \in {5, 10}, share \in {100, 500, 2500, 10000}, score \in {20, 150, 990},
     budget \in {10, 100, 1000},
     utilization \in {<<50, 50>>, <<80, 80>>, <<90, 70>>, <<97, 97>>},
     waste \in {<<2, 2>>, <<20, 20>>, <<40, 40>>},
     unassigned \in {<<2, 2>>, <<5, 25>>, <<30, 30>>},
     performance \in {<<0, 0>>, <<40, 40>>, <<140, 140>>} :
    question = [kind |-> "suggestion", config |-> Config(cap, min, share, score), budget |-> budget,
                history |-> [utilization |-> utilization, waste |-> waste,
                             unassigned |-> unassigned, performance |-> performance]]

\* A slot of 5000 must bring 25 conversions and can pay for 50.
AskSolver ==
  /\ question = [kind |-> "solver"]
  /\ profiles \in Lists([pdc : {5, 8}, max_tier : {0}, audience : {"unknown"}]
                         \cup [pdc : {15}, max_tier : {15000}, audience : {"same", "other"}]) \ {<<>>}
  /\ tiers \in Lists({5000, 10000, 15000}) \ {<<>>}

\* What the solver is given when it is not asked.
Idle == profiles = <<>> /\ tiers = <<>>

Init ==
  /\ answer = <<>>
  /\ cpa = [target |-> 100, max |-> 200]
  /\ \/ Idle /\ (AskSlots \/ AskPayouts \/ AskRating \/ AskWaterfall \/ AskSuggestion)
     \/ AskSolver
  /\ SolverInit

-----------------------------------------------------------------------------
Answers == question.kind # "solver" /\ Compute /\ UNCHANGED solverVars

Solve == question.kind = "solver" /\ SolverNext /\ UNCHANGED <<question, answer>>

Next == Answers \/ Solve

Spec == Init /\ [][Next]_vars
=============================================================================
