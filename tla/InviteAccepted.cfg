CONSTANTS
  Superadmins = {}
  Staff = {ann, bob}
  TalentUsers = {}
  Calls = {c1, c2}
  MaxFailures = 0
SPECIFICATION Spec
CHECK_DEADLOCK FALSE
INVARIANT ActivatedIsActive
