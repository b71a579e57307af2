CONSTANTS
  Superadmins = {root}
  Staff = {ann}
  TalentUsers = {tom}
  Calls = {c1, c2, c3}
  MaxFailures = 1
SPECIFICATION Spec
SYMMETRY CallSymmetry
CHECK_DEADLOCK FALSE
INVARIANTS
  TypeOK
  BarredStayOut
  SurvivorNeedsRace
  StatusesInStep
