\* The file of the argument does not exist.
SPECIFICATION PlayerSpec
CONSTANTS
  Senders <- MainOnly
  NoSender = NoSender
  Requests <- MainRequests
  Answers <- AnyAnswer
  Faults = {}
  Damaged = {}
  MaxSlice = 512
  RetryLimit = 1
  MaxCalls = 10
  MaxInFlight = 2
  Main = "main"
  Files <- MissingFile
  ReadFaults = FALSE
INVARIANT OpenErrorHandled
CHECK_DEADLOCK FALSE
