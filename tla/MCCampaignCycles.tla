-------------------------- MODULE MCCampaignCycles --------------------------
(* CampaignCycles for TLC: a campaign, two talents, and budgets of which the *)
(* smallest passes the checks of CreateCycle but funds no slot.              *)
EXTENDS CampaignCycles, TLC

MCTerms == [target_cpa |-> 1, max_cpa |-> 2, cycle_length |-> 5]

MCTalents == <<[category |-> "student", max_tier |-> 0, status |-> "active"],
               [category |-> "micro", max_tier |-> 4, status |-> "active"]>>

Symmetry == Permutations(Requests)
=============================================================================
