CONSTANTS
  Workers = {w1}
  Consumer = consumer
  MaxReceived = 2
SPECIFICATION FairSpec
PROPERTY AllForwarded
CHECK_DEADLOCK FALSE
