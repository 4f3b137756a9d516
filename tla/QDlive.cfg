CONSTANTS
  NumDevices = 2
  Workers = {w1, w2}
  QueueCapacity = 2
  Registered <- AllDevices
  MaxMessages = 1
  MaxConns = 4
  MaxTimeouts = 1
  MaxCrashes = 1
SPECIFICATION FairSpec
PROPERTIES EventuallyReceived EventuallyCopied
