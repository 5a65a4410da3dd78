CONSTANTS
  Calls = {a, b, c}
  PoolSize = 2
  MaxBatch = 2
  Nothing = Nothing
  Failed = Failed
  TimedOut = TimedOut
SPECIFICATION FairSpec
INVARIANTS OwnAnswer NoneIsLost
PROPERTIES ImplementsService EveryRequestAnswered EveryCallEnds
