SPECIFICATION Spec
CONSTANTS
  t1 = t1
  t2 = t2
  a1 = a1
  a2 = a2
  Task = {t1, t2}
  Acct = {a1, a2}
  Charge <- MCCharge
  NoTask = NoTask
  Maintenance = Maintenance
  NoCharge = NoCharge
  NoAcct = NoAcct
  Worker = {}
  NoWorker = NoWorker
  Gone = Gone
  RetryLimit = 1
  MaxInfra = 1
  MaxUnits = 1
  Reader = {"watch", "api"}
  Platforms = {"dola", "doubao", "qianwen"}
  StudioTask = {t2}
  LongTask = {t1}
  MaxClaims = 2
  MaxParts = 3
  MaxIncidents = 2
  Limit = 2
SYMMETRY SameAccounts
CHECK_DEADLOCK FALSE
INVARIANTS Balanced  RefundedEnded 
PROPERTY SettledFinal
