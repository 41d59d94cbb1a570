SPECIFICATION Spec
CONSTANTS
  MaxLines = 2
  MaxOptions = 0
  RetryLimit = 1
  Kinds <- Ending
  HeartBeats <- HeartBeatOn
INVARIANT ReceivesWhatWasTyped
