SPECIFICATION Spec
CONSTANTS
  TierIncrement = 5
  MaxTierValue = 60
  AllTiers = {5000, 10000, 15000, 20000}
  CycleLength = 7
  Precision = 16384
  Spacings = {1, 2, 4, 8, 16, 32, 64, 128, 256, 512, 1024, 2048, 4096, 8192, 16384, 32768, 65536}
  MaxTalents = 3
  MaxConversions = 4
INVARIANTS
  SlotsSound
  PayoutsSound
  OnlyCollapseIsSeen
  ConfigurationSound
  SolutionIsSound
CHECK_DEADLOCK FALSE
