SPECIFICATION Spec
CONSTANTS
  Requests = {r1, r2, r3}
  Keys = {k1, k2}
  Talents = {"t1", "t2"}
  CycleTerms <- MCCycleTerms
  LinkedTalent = "t2"
  MaxFailures = 1
SYMMETRY Symmetry
INVARIANTS
  TypeOK
  EventLogSound
  FinalisedIsComplete
  PaymentsSound
