CONSTANTS
  NumProcesses = 2
  QueueCapacity = 1
  MaxRestored = 3
  MaxConns = 2
  Earlier = {1}
  FirstChoice = 1
  MaxEvents = 2
SPECIFICATION FairSpec
INVARIANTS TypeOK NoOldAnswers OwnDevice
PROPERTIES NothingElseLost ServedIsAnswered ServerEnds
CHECK_DEADLOCK FALSE
