SPECIFICATION LiveSpec
CONSTANTS
  UserCalls = {c1, c2}
  Commands <- Four
  MaxRetries = 2
  MaxInFlight = 2
  MaxTroubles = 2
PROPERTY Converges
