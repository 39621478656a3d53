CONSTANTS
  ClaimBurst = 3
  Rounds = 3
  MaxLen = 4
SPECIFICATION Spec
INVARIANT RetryShare
INVARIANT FreshShare
