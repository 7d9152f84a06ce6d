\* Three threads; frames and responses are lost, none is late; the slave
\* refuses often, but not for ever.
SPECIFICATION DrainingSpec
CONSTANTS
  Senders <- AllThreads
  NoSender = NoSender
  Requests <- AllRequests
  Answers <- AnyAnswer
  Faults = {"lostFrame", "lostReply"}
  Damaged = {}
  MaxSlice = 2
  RetryLimit = 1
  MaxCalls = 2
  MaxInFlight = 2
INVARIANT TypeOK
INVARIANT ConfirmedIsTaken
INVARIANT InOrder
PROPERTY NoSilentLoss
PROPERTY LinkReleased
CHECK_DEADLOCK FALSE
