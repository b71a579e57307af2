CONSTANTS
  Instances = {i1, i2}
  MaxOverlaps = 1
  Talents = {"t1"}
  Assigned <- MCAssigned
  Recipients = {r1}
  ColdStarts = {c1, c2}
  Crontabs <- MCCrontabs
  DayHours = 2
  CycleEnd = 4
  MaxHour = 4
  MaxEvents = 1
  MaxFailures = 1
SPECIFICATION Spec
SYMMETRY InstanceSymmetry
CHECK_DEADLOCK FALSE
INVARIANTS
  TypeOK
  LearningKept
  RemindersOnce
