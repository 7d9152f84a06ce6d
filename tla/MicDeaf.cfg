\* One wake-up, answered while its thread is about to clear the flag.
SPECIFICATION Spec
CONSTANTS
  MaxSessions = 1
  PromptThreads = TRUE
  RecordTime = 1
  MaxWakeups = 1
  PutFaults = FALSE
INVARIANT MicRecovered
CHECK_DEADLOCK FALSE
