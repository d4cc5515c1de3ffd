SPECIFICATION Spec
CONSTANTS
  Scripts = {s1, s2}
  Last = 3
  Size = 2
  MaxRuns = 3
  MaxCrashes = 1
  FileTenants = {acme}
  DbTenants = {shop}
  Configs = {usd, euro}
  DefaultConfig = usd
  FileConfig <- MCFileConfig
  Keys = {key}
  FixtureOwner <- MCFixtureOwner
  Nobody = Nobody
  Absent = Absent
  Requests = {q1, q2}
  MaxStarts = 2
  MaxChanges = 3
  acme = acme
  usd = usd
  euro = euro
SYMMETRY Symmetry
INVARIANTS
  TypeOK
  SchemaServes
  FailsForAReason
  ServedFairly
  SteadyConfig
CHECK_DEADLOCK FALSE
