CONSTANTS
  N = 3
  MaxRequest = 4
  MaxCapacity = 13
SPECIFICATION FairSpec
INVARIANT MaxMinFair
INVARIANT AllDealt
PROPERTY Returns
