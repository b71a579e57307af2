\* Three admins' calls, one of which may fail.  Cycles of 4 and 8 fill the total
\* of 12, two cycles of 8 exceed it, and 2 is below the smallest tier of 3.
SPECIFICATION Spec
CONSTANTS
  Requests = {r1, r2, r3}
  TierIncrement = 3
  MaxTierValue = 100
  TotalBudget = 12
  CampaignTerms <- MCTerms
  Talents <- MCTalents
  Budgets = {2, 4, 8}
  MaxFailures = 1
SYMMETRY Symmetry
INVARIANTS
  TypeOK
  CycleNumbersContiguous
  UnracedRespectsBudget
  CreatedIsComplete
  ActiveCycleActiveCampaign
PROPERTIES
  ImplementsCycleLedger
CHECK_DEADLOCK FALSE
