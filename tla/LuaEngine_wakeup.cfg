SPECIFICATION FairSpec
CONSTANTS
  MaxLines = 2
  MaxOptions = 0
  RetryLimit = 1
  Kinds <- Ending
  HeartBeats <- HeartBeatOff
PROPERTY EngineWakesForCall
CHECK_DEADLOCK FALSE
