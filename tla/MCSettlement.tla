---------------------------- MODULE MCSettlement ----------------------------
EXTENDS Settlement, TLC

\* Money in kobo: a traffic cycle whose pool does not suffice, with two
\* talents and with one, and a lead cycle with one KPB.
Traffic(assigned) ==
  [type |-> "direct_traffic", pool |-> 10, cpa |-> 30, kpbs |-> <<>>, assigned |-> assigned]
Lead(assigned) ==
  [type |-> "lead_validation", pool |-> 100, cpa |-> 30, kpbs |-> <<20>>, assigned |-> assigned]

First == [talent |-> "t1", tier |-> 60, status |-> "active"]
Second == [talent |-> "t2", tier |-> 50, status |-> "active"]

MCCycleTerms == {Traffic(<<First, Second>>), Traffic(<<Second>>), Lead(<<Second>>)}

Symmetry == Permutations(Requests) \cup Permutations(Keys)
=============================================================================
