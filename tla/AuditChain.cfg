\* Three concurrent calls; two of the failures may happen to them.
SPECIFICATION FairSpec
CONSTANTS
  Requests = {r1, r2, r3}
  GenesisHash = genesis
  MaxFaults = 2
INVARIANTS
  TypeOK
  ChainIntact
  TracesMatchLog
  LossNeedsContention
PROPERTIES
  ImplementsAuditLog
  EveryCallReturns
CHECK_DEADLOCK FALSE
