CONSTANTS
  NumProcesses = 2
  MaxMessages = 1
  MaxConns = 2
  MaxRequests = 1
  MaxWakeups = 0
  MaxTimeouts = 1
SPECIFICATION Spec
INVARIANT NoMeasurementLost
