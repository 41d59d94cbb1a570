SPECIFICATION Spec
CONSTANTS
  MaxLines = 2
  MaxOptions = 0
  RetryLimit = 1
  Kinds <- TwoKinds
  HeartBeats <- HeartBeatOn
PROPERTY OnlyOverdueAborted
