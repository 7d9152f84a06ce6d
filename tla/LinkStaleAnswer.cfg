\* Responses come late.
SPECIFICATION Spec
CONSTANTS
  Senders <- TwoThreads
  NoSender = NoSender
  Requests <- TwoRequests
  Answers <- AnyAnswer
  Faults = {"lateReply"}
  Damaged = {}
  MaxSlice = 2
  RetryLimit = 1
  MaxCalls = 2
  MaxInFlight = 2
PROPERTY AnswerMatchesCommand
CHECK_DEADLOCK FALSE
