SPECIFICATION Spec
CHECK_DEADLOCK FALSE
CONSTANTS
  r1 = r1
  r2 = r2
  n1 = n1
  n2 = n2
  n3 = n3
  en1 = en1
  ep1 = ep1
  ep2 = ep2
  a1 = a1
  a2 = a2
  Worker = {r1, r2}
  NoWorker = NoWorker
  Gone = Gone
  RetryLimit = 1
  MaxInfra = 1
  Node = {n1, n2, n3}
  NativeNode = {n2}
  Entry = {en1}
  Endpoint = {ep1, ep2}
  NoNode = NoNode
  Address = {a1, a2}
  ExitSlot = {x1, x2, x3}
  ApiSlot = {y1, y2}
  BrowserSlot = {z1}
  NoSlot = NoSlot
  PerEndpoint = 1
  NoRunner = NoRunner
  Scenes <- MCScenes
  UploadSlots = 1
  MaxFetches = 2
INVARIANTS LeasesStand NoMissedWakeup SubmissionRecorded
