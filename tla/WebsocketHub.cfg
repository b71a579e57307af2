CONSTANTS
  Clients <- MCClients
  Events <- MCEvents
  RegisterCap = 1
  EventCap <- MCEventCap
  SendCap = 1
  MaxPushes = 2
  MaxConnections = 2
SPECIFICATION Spec
CHECK_DEADLOCK FALSE
INVARIANTS
  TypeOK
  RightEventsInOrder
  StaleNeedsOvertaking
PROPERTY HubServes
