\* A slave that takes or refuses data, on a link with every fault; reads that fail.
SPECIFICATION FairPlayerSpec
CONSTANTS
  Senders <- MainOnly
  NoSender = NoSender
  Requests <- MainRequests
  Answers <- AnyAnswer
  Faults = {"lostFrame", "lostReply", "lateReply", "damagedReply"}
  Damaged <- AnyDamage
  MaxSlice = 512
  RetryLimit = 1
  MaxCalls = 10
  MaxInFlight = 2
  Main = "main"
  Files <- EveryWay
  ReadFaults = TRUE
INVARIANT EverySettled
PROPERTY PlayEnds
CHECK_DEADLOCK FALSE
