\* Three calls for two talents, one of which may fail.  The waterfall gives two
\* slots of 3 in a budget of 8; an admin may ask for tiers of 3 (from 4) and 6.
SPECIFICATION Spec
CONSTANTS
  Requests = {r1, r2, r3}
  TalentIds = {t1, t2}
  Creation = creation
  TierIncrement = 3
  MaxTierValue = 100
  CycleBudget = 8
  CampaignTerms <- MCTerms
  Talents <- MCTalents
  AskedTiers = {2, 4, 6}
  SmallestTier = 3
  LargestTier = 6
  MaxFailures = 1
SYMMETRY Symmetry
INVARIANTS
  TypeOK
  SlotPointsBack
  SlotFaultsNeedCause
  SuccessIsStored
CHECK_DEADLOCK FALSE
