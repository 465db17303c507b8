SPECIFICATION FairSpec
CONSTANTS
  text1 = text1
  optOut1 = optOut1
  status1 = status1
  h1 = h1
  h2 = h2
  w1 = w1
  w2 = w2
  None = None
  Events = {text1}
  Messages = {text1}
  OptOuts = {}
  Handlers <- MCHandlers
  Workers <- MCWorkers
  Durable = TRUE
  MaxTries = 2
  DeadLetterAfter = 3
  MaxDeliveries = 2
  MaxCrashes = 1
PROPERTY DuplicatesProcessed
CHECK_DEADLOCK FALSE
