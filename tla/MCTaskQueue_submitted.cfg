CONSTANTS
  t1 = t1
  t2 = t2
  w1 = w1
  w2 = w2
  o1 = o1
  Task = {t1}
  Worker = {w1}
  NoWorker = NoWorker
  Gone = Gone
  NoTask = NoTask
  Main = Main
  Owner = {o1}
  OwnerOf <- OneOwner
  Limited = {}
  Limit <- LimitOne
  ManualRetry = {}
  Confirmed = {}
  RetryLimit = 0
  MaxInfra = 0
  Budget <- CrashBudget
SPECIFICATION Spec
PROPERTY RecoverKeepsSubmitted
