SPECIFICATION FairSpec
CONSTANTS
  MaxLines = 2
  MaxOptions = 1
  RetryLimit = 1
  Kinds <- TwoKinds
  HeartBeats <- Either
INVARIANT TypeOK SlotsExclusive TakesPostedCall DeliveredInOrder
PROPERTY CallReturns ShutdownCompletes
CHECK_DEADLOCK FALSE
