CONSTANTS
  NumDevices = 2
  Workers = {w1, w2, w3}
  QueueCapacity = 1
  Registered <- AllDevices
  MaxMessages = 2
  MaxConns = 3
  MaxTimeouts = 2
  MaxCrashes = 0
SPECIFICATION Spec
SYMMETRY WorkerSymmetry
INVARIANTS NoSilentLoss DuplicatesBounded InOrderWithoutRetry StopAndWait
CHECK_DEADLOCK FALSE
