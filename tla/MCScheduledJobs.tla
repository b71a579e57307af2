-------------------------- MODULE MCScheduledJobs --------------------------
(* ScheduledJobs with days of two hours and one talent with one assignment. *)
EXTENDS ScheduledJobs, TLC

\* The baselines see a daily, a nightly and a second daily run.
MCCrontabs == {[jobs |-> {"daily", "nightly"}, last |-> 2],
               [jobs |-> {"fallback"}, last |-> 4],
               [jobs |-> {"reminders"}, last |-> 4]}

MCAssigned == <<"t1">>

InstanceSymmetry == Permutations(Instances) \cup Permutations(ColdStarts)
=============================================================================
