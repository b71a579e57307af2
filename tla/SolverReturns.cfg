\* Floats of nine bits.  The solver stops when it has returned.
SPECIFICATION Spec
CONSTANTS
  AllTiers = {5000, 10000, 15000, 20000}
  CycleLength = 7
  Precision = 512
  Spacings = {1, 2, 4, 8, 16, 32, 64, 128, 256, 512, 1024, 2048, 4096, 8192, 16384, 32768}
CHECK_DEADLOCK FALSE
INVARIANT SolverReturns
