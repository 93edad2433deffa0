SPECIFICATION Spec
CONSTANTS
  c1 = c1
  c2 = c2
  UserCalls <- TwoCalls
  Commands <- Charging
  MaxRetries = 2
  MaxInFlight = 2
SYMMETRY CallSymmetry
INVARIANT LoneTakeoverReaches
INVARIANT DefendedPickHolds
