SPECIFICATION Spec
CONSTANTS
  Buckets = {"b1", "b2"}
  Tables = {"t1", "t2"}
  Keys = {"k1", "k2"}
  MAX_RETRIES = 5
  MAX_WAIT = 40
  Limit = 80
  MaxFaults = 5
INVARIANTS
  TypeOK
  CleanWhenDone
  StubbornNeverAborts
  OneSurvivorInTime
