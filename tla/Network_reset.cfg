SPECIFICATION FairSpec
CONSTANTS
  Handles = {h1, h2}
  NoHandle = NoHandle
  MaxOpens = 1
  MaxBacklog = 1
  Growth = 10
  PeersLeave = TRUE
PROPERTY ResetsReported
