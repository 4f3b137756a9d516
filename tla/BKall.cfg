CONSTANTS
  NumProcesses = 2
  MaxMessages = 2
  MaxConns = 3
  MaxRequests = 2
  MaxWakeups = 1
  MaxTimeouts = 1
SPECIFICATION FairSpec
INVARIANTS TypeOK BackupComplete RestoredInOrder CleanClose NoOldAnswers
PROPERTY RequestAnswered
CHECK_DEADLOCK FALSE
