-------------------------- MODULE MCSlotAssignment --------------------------
(* SlotAssignment for TLC: a cycle whose waterfall makes two slots. *)
EXTENDS SlotAssignment, TLC

MCTerms == [target_cpa |-> 1, max_cpa |-> 2, cycle_length |-> 5]

MCTalents == <<[category |-> "student", max_tier |-> 0, status |-> "active"],
               [category |-> "micro", max_tier |-> 4, status |-> "active"]>>

Symmetry == Permutations(Requests) \cup Permutations(TalentIds)
=============================================================================
