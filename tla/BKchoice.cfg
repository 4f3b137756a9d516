CONSTANTS
  NumProcesses = 2
  MaxMessages = 1
  MaxConns = 1
  MaxRequests = 1
  MaxWakeups = 1
  MaxTimeouts = 0
SPECIFICATION FairSpec
PROPERTY ChoiceCarriedOut
