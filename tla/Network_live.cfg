SPECIFICATION FairSpec
CONSTANTS
  Handles = {h1, h2, h3}
  NoHandle = NoHandle
  MaxOpens = 1
  MaxBacklog = 1
  Growth = 10
  PeersLeave = TRUE
PROPERTY  NoStarvation ConnectionsAccepted DyingAreRemoved
