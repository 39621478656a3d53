CONSTANTS
  r1 = r1
  r2 = r2
  r3 = r3
  Runner = {r1, r2, r3}
  Shared = TRUE
  Threshold = 2
  Recovery = 3
  Burst = 2
SPECIFICATION FairSpec
INVARIANT OneProbePerOpening
PROPERTY Recovers
