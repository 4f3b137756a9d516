CONSTANTS
  Workers = {w1, w2}
  Consumer = consumer
  MaxReceived = 2
SPECIFICATION FairSpec
INVARIANTS TypeOK NoNullPointer Conserved ForwardedInOrder NothingInvented NoMissedWakeup
PROPERTY ForwardedUnlessRaced
CHECK_DEADLOCK FALSE
