\* One wake-up with its two listenings.
SPECIFICATION Spec
CONSTANTS
  MaxSessions = 2
  PromptThreads = TRUE
  RecordTime = 1
  MaxWakeups = 1
  PutFaults = FALSE
PROPERTY EveryListeningHears
CHECK_DEADLOCK FALSE
