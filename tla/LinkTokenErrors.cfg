\* A slave that answers the token, but never with a mode or a key.
SPECIFICATION FairSpec
CONSTANTS
  Senders <- TokenOnly
  NoSender = NoSender
  Requests <- TokenRequests
  Answers <- OnlyErrors
  Faults = {"lostFrame"}
  Damaged = {}
  MaxSlice = 2
  RetryLimit = 1
  MaxCalls = 2
  MaxInFlight = 2
PROPERTY TokenGivesUp
CHECK_DEADLOCK FALSE
