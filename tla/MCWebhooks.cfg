SPECIFICATION Spec
CONSTANTS
  EventTypes = {order, intent}
  MaxAttempts = 3
  LogLimit = 3
  MaxHooks = 2
INVARIANTS
  TypeOK
  StatusCoherent
  ExhaustedSlowly
  FanOutExact
PROPERTIES
  HistoryKept
  RemovedIsSilent
