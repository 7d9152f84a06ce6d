\* Two wake-ups and two sessions; the service and the device may fail.
SPECIFICATION FairSpec
CONSTANTS
  MaxSessions = 2
  PromptThreads = TRUE
  RecordTime = 1
  MaxWakeups = 2
  PutFaults = FALSE
INVARIANT WakeNotQueued
INVARIANT AnswerIsFresh
INVARIANT SessionsEnd
INVARIANT OneTextAtATime
PROPERTY FirstListeningHears
PROPERTY ListensAgain
CHECK_DEADLOCK FALSE
