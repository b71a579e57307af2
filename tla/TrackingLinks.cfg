\* Two calls, and nothing fails.
SPECIFICATION Spec
CONSTANTS
  Requests = {r1, r2}
  TalentIds = {t1, t2}
  Creation = creation
  TierIncrement = 3
  MaxTierValue = 100
  CycleBudget = 8
  CampaignTerms <- MCTerms
  Talents <- MCTalents
  AskedTiers = {2, 4, 6}
  SmallestTier = 3
  LargestTier = 6
  MaxFailures = 0
SYMMETRY Symmetry
INVARIANT AssignedHasLink
CHECK_DEADLOCK FALSE
