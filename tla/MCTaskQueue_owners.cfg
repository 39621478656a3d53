CONSTANTS
  t1 = t1
  t2 = t2
  w1 = w1
  w2 = w2
  o1 = o1
  Task = {t1, t2}
  Worker = {w1, w2}
  NoWorker = NoWorker
  Gone = Gone
  NoTask = NoTask
  Main = Main
  Owner = {o1}
  OwnerOf <- OneOwner
  Limited = {o1}
  Limit <- LimitOne
  ManualRetry = {t1, t2}
  Confirmed = {t1, t2}
  RetryLimit = 0
  MaxInfra = 0
  Budget <- WatchdogBudget
SPECIFICATION Spec
INVARIANT OwnerLimit
INVARIANT NoStranded
SYMMETRY FullSymmetry
