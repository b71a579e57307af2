\* Three requests over two years of two months.  A name has two codes (or one, if
\* it ends in the digit), of which the third try repeats one.
SPECIFICATION Spec
CONSTANTS
  OldBrands = {acme}
  Requests = {r1, r2, r3}
  Letters = {0, 5}
  Digits = 1
  Tries = 3
  MaxContacts = 3
  MonthsPerYear = 2
  LastMonth = 3
  MaxFailures = 1
SYMMETRY RequestSymmetry
CHECK_DEADLOCK FALSE
INVARIANTS
  TypeOK
  AnswersMatchRows
  NumbersContiguous
  RefusalNeedsCause
