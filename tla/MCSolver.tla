------------------------------ MODULE MCSolver ------------------------------
(* One question to the solver, of two talents with the four slots of a cycle. *)
EXTENDS HungarianSolver

Init ==
  /\ profiles = <<[pdc |-> 8, max_tier |-> 0, audience |-> "other"],
                 [pdc |-> 3, max_tier |-> 0, audience |-> "same"]>>
  /\ tiers = <<10000, 10000, 5000, 10000>>
  /\ cpa = [target |-> 100, max |-> 200]
  /\ SolverInit

Spec == Init /\ [][SolverNext]_solverVars

\* "Hungarian Algorithm returns optimal talent-slot matching" (README.md:21): to
\* return, it must not find columns on its way that are closed in themselves,
\* as way is not changed any more (internal/algo/hungarian.go:195-198).
SolverReturns == loop = "augment" => WayLeadsBack
=============================================================================
