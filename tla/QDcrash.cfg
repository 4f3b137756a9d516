CONSTANTS
  NumDevices = 2
  Workers = {w1, w2}
  QueueCapacity = 3
  Registered <- NoDevices
  MaxMessages = 2
  MaxConns = 5
  MaxTimeouts = 1
  MaxCrashes = 1
SPECIFICATION Spec
SYMMETRY WorkerSymmetry
INVARIANTS TypeOK KeptUntilReceived NoLossWithoutRetry InOrderWithoutRetry StopAndWait DuplicatesBounded
PROPERTY TransferSpec
