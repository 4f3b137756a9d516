CONSTANTS
  NumDevices = 1
  Workers = {w1, w2}
  QueueCapacity = 2
  Registered <- NoDevices
  MaxMessages = 2
  MaxConns = 2
  MaxTimeouts = 1
  MaxCrashes = 0
SPECIFICATION Spec
INVARIANTS NoSilentLoss
