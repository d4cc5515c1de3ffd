SPECIFICATION Spec
CONSTANTS
  Requests = {r1, r2, r3}
  Limit = 2
  Window = 2
  LastWindow = 1
  MaxSends = 2
INVARIANTS
  TypeOK
  BudgetPerWindow
  TimelessOnlyByFault
PROPERTIES
  RefusedOnlyWhenFull
  RequestsAnswered
  CountersExpire
CHECK_DEADLOCK FALSE
